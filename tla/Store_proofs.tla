---------------------------- MODULE Store_proofs ----------------------------
(***************************************************************************)
(* Theorems about the connections of a store, for every number of clients  *)
(* and every size of the pool.                                             *)
(***************************************************************************)
EXTENDS Store, FiniteSetTheorems, TLAPS

(***************************************************************************)
(* The inductive invariant.  The pool's count covers the statements that   *)
(* run on it and, once the pool is closed, nothing else; the stages say    *)
(* what New has opened so far and what Close has given back so far.        *)
(***************************************************************************)
CountInv ==
    /\ Cardinality(On("pool")) <= dialled
    /\ pool = "closed" => dialled = Cardinality(On("pool"))

OpeningInv ==
    /\ stage \in {"connect", "openPool"} => pool = "none"
    /\ stage \in {"ping", "inner", "index"} => pool = "open"
    /\ stage = "connect" => conn = "none"
    /\ stage \in {"connect", "openPool", "ping"} => dialled = 0
    /\ ~Usable => \A c \in Clients : at[c] = "idle"
    /\ stage = "failed" => conn # "open" /\ pool # "open" /\ dialled = 0

ClosingInv ==
    /\ stage \in {"drainPool", "closeConn", "closed"} => pool = "closed"
    /\ stage \in {"closeConn", "closed"} => dialled = 0
    /\ stage = "closed" => conn # "open"

IInv == TypeOK /\ CountInv /\ OpeningInv /\ ClosingInv

-----------------------------------------------------------------------------
(* Counting the statements that run on the pool *)

LEMMA RunningIsFinite ==
    /\ IsFiniteSet(On("pool"))
    /\ Cardinality(On("pool")) \in Nat
BY ClientsAssumption, FS_Subset, FS_CardinalityType DEF On

LEMMA NoneRunning ==
    ASSUME \A c \in Clients : at[c] # "pool"
    PROVE  On("pool") = {} /\ Cardinality(On("pool")) = 0
BY FS_EmptySet DEF On

LEMMA OneMore ==
    ASSUME TypeOK, NEW c \in Clients, at[c] # "pool",
           at' = [at EXCEPT ![c] = "pool"]
    PROVE  Cardinality(On("pool")') = Cardinality(On("pool")) + 1
<1>1. On("pool")' = On("pool") \cup {c} /\ c \notin On("pool")
  BY DEF On, TypeOK
<1> QED
  BY <1>1, RunningIsFinite, FS_AddElement

LEMMA OneLess ==
    ASSUME TypeOK, NEW c \in Clients, at[c] = "pool",
           at' = [at EXCEPT ![c] = "idle"]
    PROVE  /\ Cardinality(On("pool")') = Cardinality(On("pool")) - 1
           /\ Cardinality(On("pool")) >= 1
<1>1. On("pool")' = On("pool") \ {c} /\ c \in On("pool")
  BY DEF On, TypeOK
<1>2. Cardinality(On("pool")') = Cardinality(On("pool")) - 1
  BY <1>1, RunningIsFinite, FS_RemoveElement
<1>3. Cardinality(On("pool")) # 0
  BY <1>1, RunningIsFinite, FS_EmptySet
<1> QED
  BY <1>2, <1>3, RunningIsFinite

LEMMA AsMany ==
    ASSUME TypeOK, NEW c \in Clients, at[c] # "pool",
           NEW place, place # "pool", at' = [at EXCEPT ![c] = place]
    PROVE  On("pool")' = On("pool")
BY DEF On, TypeOK

-----------------------------------------------------------------------------
LEMMA InitIInv == Init => IInv
<1> SUFFICES ASSUME Init PROVE IInv
  OBVIOUS
<1>1. Cardinality(On("pool")) = 0
  BY NoneRunning DEF Init
<1>2. TypeOK
  <2>1. dialled \in 0 .. MaxConns
    BY MaxConnsAssumption DEF Init
  <2>2. at \in [Clients -> {"idle", "conn", "waiting", "pool"}]
    BY DEF Init
  <2>3. outcome \in [Clients -> {"none", "ok", "busy", "error"}]
    BY DEF Init
  <2> QED
    BY <2>1, <2>2, <2>3 DEF Init, TypeOK, OpeningStages
<1>3. CountInv
  BY <1>1 DEF Init, CountInv
<1>4. OpeningInv /\ ClosingInv
  BY DEF Init, OpeningInv, ClosingInv
<1> QED
  BY <1>2, <1>3, <1>4 DEF IInv

LEMMA NextIInv == IInv /\ [Next]_vars => IInv'
<1> SUFFICES ASSUME IInv, [Next]_vars
             PROVE  IInv'
  OBVIOUS
<1> USE MaxConnsAssumption, RunningIsFinite
<1> USE DEF IInv, TypeOK, OpeningInv, ClosingInv, OpeningStages,
            ClosingStages, Usable, clients
<1>1. CASE UNCHANGED vars
  BY <1>1 DEF vars, CountInv, On
<1>2. CASE New
  <2>1. Cardinality(On("pool")) = 0
    BY <1>2, NoneRunning DEF New, Connect, NewPool, Ping, OpenInner, Reach,
                             EnsureKeywordIndex, GiveUp
  <2>2. On("pool")' = On("pool") /\ UNCHANGED << at, outcome, recorded >>
    BY <1>2 DEF On, New, Connect, NewPool, Ping, OpenInner, Reach,
                EnsureKeywordIndex, GiveUp
  <2>3. CASE Connect
    BY <2>1, <2>2, <2>3 DEF Connect, CountInv
  <2>4. CASE NewPool
    BY <2>1, <2>2, <2>4 DEF NewPool, CountInv
  <2>5. CASE Ping
    BY <2>1, <2>2, <2>5 DEF Ping, CountInv
  <2>6. CASE OpenInner \/ EnsureKeywordIndex
    BY <2>1, <2>2, <2>6 DEF OpenInner, EnsureKeywordIndex, Reach, CountInv
  <2>7. CASE GiveUp
    BY <2>1, <2>2, <2>7 DEF GiveUp, CountInv
  <2> QED
    BY <1>2, <2>3, <2>4, <2>5, <2>6, <2>7 DEF New
<1>3. CASE Close \/ Closing
  <2>1. On("pool")' = On("pool")
    BY <1>3 DEF On, Close, Closing, Reach, ClosePool, PoolDrained, CloseConn
  <2>2. CASE Close \/ PoolDrained
    BY <2>1, <2>2 DEF Close, PoolDrained, Reach, CountInv
  <2>3. CASE ClosePool
    BY <2>1, <2>3 DEF ClosePool, CountInv
  <2>4. CASE CloseConn
    BY <2>1, <2>4 DEF CloseConn, CountInv
  <2> QED
    BY <1>3, <2>2, <2>3, <2>4 DEF Closing
<1>4. CASE IdleExpires
  <2>1. On("pool")' = On("pool")
    BY <1>4 DEF IdleExpires, On
  <2> QED
    BY <1>4, <2>1 DEF IdleExpires, Idle, CountInv
<1>5. ASSUME NEW c \in Clients, UseConn(c)
      PROVE  IInv'
  <2>1. PICK place \in {"conn", "idle"} : at' = [at EXCEPT ![c] = place]
    BY <1>5 DEF UseConn, Start, End
  <2>2. On("pool")' = On("pool")
    BY <1>5, <2>1, AsMany DEF UseConn
  <2> QED
    BY <1>5, <2>1, <2>2 DEF UseConn, Start, End, CountInv
<1>6. ASSUME NEW c \in Clients, ConnStatementEnds(c)
      PROVE  IInv'
  <2>1. On("pool")' = On("pool")
    BY <1>6, AsMany DEF ConnStatementEnds, End
  <2> QED
    BY <1>6, <2>1 DEF ConnStatementEnds, End, CountInv
<1>7. ASSUME NEW c \in Clients, UsePool(c) \/ Refused(c)
      PROVE  IInv'
  <2>1. On("pool")' = On("pool")
    BY <1>7, AsMany DEF UsePool, Refused, Start, End
  <2> QED
    BY <1>7, <2>1 DEF UsePool, Refused, Start, End, CountInv
<1>8. ASSUME NEW c \in Clients, Admitted(c)
      PROVE  IInv'
  <2>1. Cardinality(On("pool")') = Cardinality(On("pool")) + 1
    BY <1>8, OneMore DEF Admitted, Acquire, Dial
  <2>2. Usable
    BY <1>8 DEF Admitted, Acquire, Dial
  <2>3. CASE Acquire(c)
    BY <2>1, <2>2, <2>3 DEF Acquire, Idle, CountInv
  <2>4. CASE Dial(c)
    BY <2>1, <2>2, <2>4 DEF Dial, Idle, CountInv
  <2> QED
    BY <1>8, <2>3, <2>4 DEF Admitted
<1>9. ASSUME NEW c \in Clients, PoolStatementEnds(c)
      PROVE  IInv'
  <2>1. /\ Cardinality(On("pool")') = Cardinality(On("pool")) - 1
        /\ Cardinality(On("pool")) >= 1
    BY <1>9, OneLess DEF PoolStatementEnds, End
  <2>2. Usable
    BY <1>9 DEF PoolStatementEnds
  <2> QED
    BY <1>9, <2>1, <2>2 DEF PoolStatementEnds, End, CountInv
<1> QED
  BY <1>1, <1>2, <1>3, <1>4, <1>5, <1>6, <1>7, <1>8, <1>9
  DEF Next, StatementEnds

LEMMA InvariantHolds == Spec => []IInv
<1> QED
  BY InitIInv, NextIInv, PTL DEF Spec

\* Every variable keeps to its type; the pool never has more connections
\* than it may have, nor fewer than none.
THEOREM TypeCorrect == Spec => []TypeOK
<1>1. IInv => TypeOK
  BY DEF IInv
<1> QED
  BY <1>1, InvariantHolds, PTL

\* A store that failed to open, or was closed, has left nothing behind: no
\* step of New forgets what an earlier one opened, and Close returns only
\* when the last statement of the pool has given its connection back.
THEOREM LeavesNothingBehind == Spec => []NothingLeftOpen
<1>1. IInv => NothingLeftOpen
  <2> SUFFICES ASSUME IInv, stage \in {"failed", "closed"}
               PROVE  conn # "open" /\ pool # "open" /\ dialled = 0 /\ On("pool") = {}
    BY DEF NothingLeftOpen
  <2>1. conn # "open" /\ pool # "open" /\ dialled = 0
    BY DEF IInv, OpeningInv, ClosingInv
  <2>2. Cardinality(On("pool")) = 0
    BY <2>1, RunningIsFinite DEF IInv, CountInv
  <2> QED
    BY <2>1, <2>2, RunningIsFinite, FS_EmptySet
<1> QED
  BY <1>1, InvariantHolds, PTL
=============================================================================
