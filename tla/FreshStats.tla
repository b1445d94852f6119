----------------------------- MODULE FreshStats -----------------------------
(***************************************************************************)
(* What a caller of StatsCache.Stats may rely on, without a mutex, a cache *)
(* or a load: every answer describes the index as it was after some write, *)
(* answers never go back to an earlier index than one already answered     *)
(* with, and an Invalidate rules out every index older than the one it     *)
(* found.                                                                  *)
(***************************************************************************)
EXTENDS Integers

CONSTANTS Callers, None, Failed

VARIABLES
    latest,  \* how many writes the index has seen
    oldest,  \* the oldest index an answer may still describe
    answered \* what each caller's last call was answered with

Init ==
    /\ latest = 0
    /\ oldest = 0
    /\ answered = [c \in Callers |-> None]

Write ==
    /\ latest' = latest + 1
    /\ UNCHANGED << oldest, answered >>

Forget ==
    /\ oldest' = latest
    /\ UNCHANGED << latest, answered >>

Ask(c) ==
    /\ answered' = [answered EXCEPT ![c] = None]
    /\ UNCHANGED << latest, oldest >>

Answer(c) ==
    /\ answered[c] = None
    /\ oldest' \in oldest .. latest
    /\ answered' = [answered EXCEPT ![c] = oldest']
    /\ UNCHANGED latest

Fail(c) ==
    /\ answered[c] = None
    /\ answered' = [answered EXCEPT ![c] = Failed]
    /\ UNCHANGED << latest, oldest >>

Next ==
    \/ Write
    \/ Forget
    \/ \E c \in Callers : Ask(c) \/ Answer(c) \/ Fail(c)

Spec == Init /\ [][Next]_<< latest, oldest, answered >>
=============================================================================
