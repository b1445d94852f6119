------------------------------ MODULE MCEngine ------------------------------
(***************************************************************************)
(* A small instance of Engine for TLC: two callers, and three requests on  *)
(* a cache with room for two of their keys.  The same question is asked    *)
(* after nothing and after turns of each kind of role.                     *)
(***************************************************************************)
EXTENDS Engine

CONSTANTS user, a, q, c1, c2, t1, strict, soft

Exchange ==
    << [role |-> System, content |-> << a >>],
       [role |-> Assistant, content |-> << q >>] >>

MCRequests ==
    { [history |-> << >>, question |-> << q >>],
      [history |-> Exchange, question |-> << q >>],
      [history |-> << >>, question |-> << a >>] }

MCKeys == {CacheKey(r) : r \in Requests}
=============================================================================
