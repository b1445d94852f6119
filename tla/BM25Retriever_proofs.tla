----------------------- MODULE BM25Retriever_proofs -----------------------
(***************************************************************************)
(* Theorems about the statistics cache, and about retrievals over one such *)
(* cache and one pool, for every number of callers and writers, every TTL, *)
(* every number of writes and every size of the pool.  What is proved of   *)
(* the cache alone holds inside the retriever as well.                     *)
(***************************************************************************)
EXTENDS BM25Retriever, FiniteSetTheorems, TLAPS

-----------------------------------------------------------------------------
(* The statistics cache alone *)

(***************************************************************************)
(* The inductive invariant.  What may still be answered lies between the   *)
(* floor and the latest write: the cached statistics if they are loaded,   *)
(* and the snapshot of a running load.  The second holds because Serve,    *)
(* EndLoad and Invalidate, which move the floor, need the mutex that the   *)
(* load holds from its beginning to its end.                               *)
(***************************************************************************)
MutexInv == \A p \in Processes : InCriticalSection(p) <=> mu = p

FloorInv ==
    /\ floor <= index.epoch
    /\ loaded => stats.epoch \in floor .. index.epoch
    /\ \A c \in Callers :
          pc[c] = "load" => snap.epoch \in floor .. index.epoch

IInv == TypeOK /\ MutexInv /\ FloorInv

LEMMA InitIInv == Init => IInv
<1> SUFFICES ASSUME Init PROVE IInv
  OBVIOUS
<1>1. FirstBuild \in Contents /\ FirstBuild.epoch = 0
  BY DEF FirstBuild, Contents
<1>2. 0 \in Ages
  BY BoundsAssumption DEF Ages
<1>3. TypeOK
  BY <1>1, <1>2 DEF Init, TypeOK, CallerLocations, WriterLocations, Processes
<1>4. MutexInv
  BY ProcessesAssumption DEF Init, MutexInv, InCriticalSection
<1>5. FloorInv
  BY <1>1 DEF Init, FloorInv, Processes
<1> QED
  BY <1>3, <1>4, <1>5 DEF IInv

\* A write is a later content, whatever rows it leaves.
LEMMA WriteIsLater ==
    ASSUME TypeOK, NEW rows \in SUBSET Nat, Write(rows)
    PROVE  /\ index' \in Contents
           /\ index'.epoch = index.epoch + 1
           /\ index.epoch \in Nat
BY DEF TypeOK, Contents, Write

LEMMA NextIInv == IInv /\ [Next]_vars => IInv'
<1> SUFFICES ASSUME IInv, [Next]_vars
             PROVE  IInv'
  OBVIOUS
<1> USE DEF Goto, Return, Unlock, CallerLocations, WriterLocations
<1>0. /\ \A c \in Callers : c \in Processes /\ c \notin Writers /\ c # Nobody
      /\ \A w \in Writers : w \in Processes /\ w \notin Callers /\ w # Nobody
  BY ProcessesAssumption DEF Processes
<1>1. /\ index.epoch \in Nat
      /\ stats.epoch \in Nat
      /\ snap.epoch \in Nat
      /\ floor \in Nat
  BY DEF IInv, TypeOK, Contents
<1>2. ASSUME NEW c \in Callers, CallStats(c)
      PROVE  IInv'
  <2>1. TypeOK'
    BY <1>0, <1>2 DEF IInv, TypeOK, CallStats
  <2>2. MutexInv'
    BY <1>0, <1>2 DEF IInv, TypeOK, MutexInv, InCriticalSection, CallStats
  <2>3. FloorInv'
    BY <1>0, <1>2 DEF IInv, TypeOK, FloorInv, CallStats
  <2> QED
    BY <2>1, <2>2, <2>3 DEF IInv
<1>3. ASSUME NEW c \in Callers, LockStats(c)
      PROVE  IInv'
  <2>1. TypeOK'
    BY <1>0, <1>3 DEF IInv, TypeOK, LockStats, Lock
  <2>2. MutexInv'
    BY <1>0, <1>3, ProcessesAssumption
       DEF IInv, TypeOK, MutexInv, InCriticalSection, LockStats, Lock
  <2>3. FloorInv'
    BY <1>0, <1>3 DEF IInv, TypeOK, FloorInv, LockStats, Lock
  <2> QED
    BY <2>1, <2>2, <2>3 DEF IInv
<1>4. ASSUME NEW c \in Callers, Serve(c)
      PROVE  IInv'
  <2>1. TypeOK'
    BY <1>0, <1>1, <1>4 DEF IInv, TypeOK, Serve
  <2>2. MutexInv'
    BY <1>0, <1>4, ProcessesAssumption
       DEF IInv, TypeOK, MutexInv, InCriticalSection, Serve
  <2>3. mu = c
    BY <1>0, <1>4 DEF IInv, MutexInv, InCriticalSection, Serve
  <2>4. \A d \in Callers : pc'[d] # "load"
    BY <1>0, <1>4, <2>3 DEF IInv, TypeOK, MutexInv, InCriticalSection, Serve
  <2>5. FloorInv'
    BY <1>1, <1>4, <2>4 DEF IInv, FloorInv, Serve, Fresh
  <2> QED
    BY <2>1, <2>2, <2>5 DEF IInv
<1>5. ASSUME NEW c \in Callers, BeginLoad(c)
      PROVE  IInv'
  <2>1. TypeOK'
    BY <1>0, <1>5 DEF IInv, TypeOK, BeginLoad
  <2>2. MutexInv'
    BY <1>0, <1>5 DEF IInv, TypeOK, MutexInv, InCriticalSection, BeginLoad
  <2>3. FloorInv'
    BY <1>0, <1>1, <1>5 DEF IInv, TypeOK, FloorInv, BeginLoad
  <2> QED
    BY <2>1, <2>2, <2>3 DEF IInv
<1>6. ASSUME NEW c \in Callers, EndLoad(c)
      PROVE  IInv'
  <2>1. 0 \in Ages
    BY BoundsAssumption DEF Ages
  <2>2. TypeOK'
    BY <1>0, <1>1, <1>6, <2>1 DEF IInv, TypeOK, EndLoad
  <2>3. MutexInv'
    BY <1>0, <1>6, ProcessesAssumption
       DEF IInv, TypeOK, MutexInv, InCriticalSection, EndLoad
  <2>4. mu = c
    BY <1>0, <1>6 DEF IInv, MutexInv, InCriticalSection, EndLoad
  <2>5. \A d \in Callers : pc'[d] # "load"
    BY <1>0, <1>6, <2>4 DEF IInv, TypeOK, MutexInv, InCriticalSection, EndLoad
  <2>6. FloorInv'
    BY <1>1, <1>6, <2>5 DEF IInv, FloorInv, EndLoad
  <2> QED
    BY <2>2, <2>3, <2>6 DEF IInv
<1>7. ASSUME NEW c \in Callers, FailLoad(c)
      PROVE  IInv'
  <2>1. TypeOK'
    BY <1>0, <1>7 DEF IInv, TypeOK, FailLoad
  <2>2. MutexInv'
    BY <1>0, <1>7, ProcessesAssumption
       DEF IInv, TypeOK, MutexInv, InCriticalSection, FailLoad
  <2>3. FloorInv'
    BY <1>0, <1>7 DEF IInv, TypeOK, FloorInv, FailLoad
  <2> QED
    BY <2>1, <2>2, <2>3 DEF IInv
<1>8. ASSUME NEW w \in Writers, NEW rows \in SUBSET Nat, Write(rows),
             RemoveCollection(w) \/ Build(w)
      PROVE  IInv'
  <2>1. /\ index' \in Contents
        /\ index'.epoch = index.epoch + 1
    BY <1>8, WriteIsLater DEF IInv
  <2>2. TypeOK'
    BY <1>0, <1>8, <2>1 DEF IInv, TypeOK, RemoveCollection, Build
  <2>3. MutexInv'
    BY <1>0, <1>8
       DEF IInv, TypeOK, MutexInv, InCriticalSection, RemoveCollection, Build
  <2>4. FloorInv'
    BY <1>0, <1>1, <1>8, <2>1 DEF IInv, TypeOK, FloorInv, RemoveCollection, Build
  <2> QED
    BY <2>2, <2>3, <2>4 DEF IInv
<1>9. ASSUME NEW w \in Writers, RemoveCollection(w) \/ Build(w)
      PROVE  IInv'
  <2>1. index.rows \cup {index.epoch + 1} \in SUBSET Nat
    BY <1>1 DEF IInv, TypeOK, Contents
  <2> QED
    BY <1>8, <1>9, <2>1 DEF RemoveCollection, Build
<1>10. ASSUME NEW w \in Writers, GiveUp(w) \/ CallInvalidate(w) \/ LeaveToExpire(w)
       PROVE  IInv'
  <2>1. TypeOK'
    BY <1>0, <1>10 DEF IInv, TypeOK, GiveUp, CallInvalidate, LeaveToExpire
  <2>2. MutexInv'
    BY <1>0, <1>10 DEF IInv, TypeOK, MutexInv, InCriticalSection, GiveUp,
                       CallInvalidate, LeaveToExpire
  <2>3. FloorInv'
    BY <1>0, <1>10
       DEF IInv, TypeOK, FloorInv, GiveUp, CallInvalidate, LeaveToExpire
  <2> QED
    BY <2>1, <2>2, <2>3 DEF IInv
<1>11. ASSUME NEW w \in Writers, LockInvalidate(w)
       PROVE  IInv'
  <2>1. TypeOK'
    BY <1>0, <1>11 DEF IInv, TypeOK, LockInvalidate, Lock
  <2>2. MutexInv'
    BY <1>0, <1>11, ProcessesAssumption
       DEF IInv, TypeOK, MutexInv, InCriticalSection, LockInvalidate, Lock
  <2>3. FloorInv'
    BY <1>0, <1>11 DEF IInv, TypeOK, FloorInv, LockInvalidate, Lock
  <2> QED
    BY <2>1, <2>2, <2>3 DEF IInv
<1>12. ASSUME NEW w \in Writers, Invalidate(w)
       PROVE  IInv'
  <2>1. TypeOK'
    BY <1>0, <1>1, <1>12 DEF IInv, TypeOK, Invalidate
  <2>2. MutexInv'
    BY <1>0, <1>12, ProcessesAssumption
       DEF IInv, TypeOK, MutexInv, InCriticalSection, Invalidate
  <2>3. mu = w
    BY <1>0, <1>12 DEF IInv, MutexInv, InCriticalSection, Invalidate
  <2>4. \A c \in Callers : pc'[c] # "load"
    BY <1>0, <1>12, <2>3
       DEF IInv, TypeOK, MutexInv, InCriticalSection, Invalidate
  <2>5. FloorInv'
    BY <1>1, <1>12, <2>4 DEF FloorInv, Invalidate
  <2> QED
    BY <2>1, <2>2, <2>5 DEF IInv
<1>13. ASSUME Tick
       PROVE  IInv'
  <2>1. age' \in Ages
    BY <1>13, BoundsAssumption DEF IInv, TypeOK, Ages, Tick
  <2> QED
    BY <1>13, <2>1 DEF IInv, TypeOK, MutexInv, InCriticalSection, FloorInv, Tick
<1>14. CASE UNCHANGED vars
  BY <1>14 DEF IInv, TypeOK, MutexInv, InCriticalSection, FloorInv, vars
<1> QED
  BY <1>2, <1>3, <1>4, <1>5, <1>6, <1>7, <1>9, <1>10, <1>11, <1>12, <1>13, <1>14
     DEF Next, RunStats, Reingest

LEMMA Inductive == Spec => []IInv
BY InitIInv, NextIInv, PTL DEF Spec

\* Every variable keeps its type.
THEOREM TypeCorrect == Spec => []TypeOK
<1>1. IInv => TypeOK
  BY DEF IInv
<1> QED
  BY <1>1, Inductive, PTL

-----------------------------------------------------------------------------
LEMMA EpochOfContents ==
    ASSUME NEW a \in Contents
    PROVE  EpochOf(a) = a.epoch
BY AnswersAssumption DEF EpochOf

\* What one caller's answer becomes leaves the others' answers alone.
LEMMA AnsweredUpdate ==
    ASSUME TypeOK, NEW c \in Callers, NEW a, answer' = [answer EXCEPT ![c] = a]
    PROVE  [d \in Callers |-> EpochOf(answer'[d])]
             = [[d \in Callers |-> EpochOf(answer[d])] EXCEPT ![c] = EpochOf(a)]
BY DEF TypeOK


\* A caller whose Stats is running has not been answered.
PendingInv == \A c \in Callers : pc[c] # "idle" => answer[c] = None

LEMMA NextPendingInv == IInv /\ PendingInv /\ [Next]_vars => PendingInv'
<1> SUFFICES ASSUME IInv, PendingInv, [Next]_vars
             PROVE  PendingInv'
  OBVIOUS
<1> USE DEF Goto, Return, PendingInv
<1>0. \A c \in Callers : c \in Processes /\ c \notin Writers
  BY ProcessesAssumption DEF Processes
<1>1. ASSUME NEW c \in Callers, CallStats(c) \/ RunStats(c)
      PROVE  PendingInv'
  BY <1>0, <1>1 DEF IInv, TypeOK, CallStats, RunStats, LockStats, Lock, Serve,
                    BeginLoad, EndLoad, FailLoad
<1>2. ASSUME NEW w \in Writers, Reingest(w)
      PROVE  PendingInv'
  BY <1>0, <1>2 DEF IInv, TypeOK, Reingest, RemoveCollection, Build, GiveUp,
                    CallInvalidate, LeaveToExpire, LockInvalidate, Lock, Invalidate
<1>3. CASE Tick \/ UNCHANGED vars
  BY <1>3 DEF Tick, vars
<1> QED
  BY <1>1, <1>2, <1>3 DEF Next

LEMMA PendingInductive == Spec => []PendingInv
<1>1. Init => PendingInv
  BY DEF Init, PendingInv
<1> QED
  BY <1>1, NextPendingInv, Inductive, PTL DEF Spec

\* Invalidate is final and answers never go back: the cache, its mutex and
\* its loads implement the abstract promise.
THEOREM RefinesFreshStats == Spec => ImplementsFreshStats
<1> DEFINE answered == [c \in Callers |-> EpochOf(answer[c])]
           Step == [Fresher!Next]_<< index.epoch, floor, answered >>
<1>1. Init => Fresher!Init
  BY DEF Init, FirstBuild, EpochOf, Fresher!Init
<1>2. IInv /\ PendingInv /\ [Next]_vars => Step
  <2> SUFFICES ASSUME IInv, PendingInv, [Next]_vars
               PROVE  Step
    OBVIOUS
  <2>0. /\ TypeOK
        /\ \A c \in Callers : c \in Processes /\ c \notin Writers
        /\ EpochOf(None) = None /\ EpochOf(Failed) = Failed
    BY ProcessesAssumption DEF IInv, Processes, EpochOf
  <2>1. ASSUME UNCHANGED << index, floor, answer >>
        PROVE  Step
    BY <2>1
  <2>2. ASSUME NEW c \in Callers, CallStats(c)
        PROVE  Fresher!Ask(c)
    BY <2>0, <2>2, AnsweredUpdate DEF CallStats, Fresher!Ask
  <2>3. ASSUME NEW c \in Callers, NEW s \in Contents, pc[c] # "idle",
               Return(c, s), floor' = s.epoch,
               s.epoch \in floor .. index.epoch, UNCHANGED index
        PROVE  Fresher!Answer(c)
    <3>1. answered[c] = None
      BY <2>0, <2>3 DEF PendingInv
    <3>2. answered' = [answered EXCEPT ![c] = floor']
      <4>1. EpochOf(s) = floor'
        BY <2>3, EpochOfContents
      <4>2. answered' = [answered EXCEPT ![c] = EpochOf(s)]
        BY <2>0, <2>3, AnsweredUpdate DEF Return
      <4> QED
        BY <4>1, <4>2
    <3> QED
      BY <2>3, <3>1, <3>2 DEF Fresher!Answer
  <2>4. ASSUME NEW c \in Callers, Serve(c)
        PROVE  Fresher!Answer(c)
    <3>1. /\ stats \in Contents
          /\ stats.epoch \in floor .. index.epoch
      BY <2>4 DEF IInv, TypeOK, FloorInv, Serve, Fresh
    <3> QED
      BY <2>3, <2>4, <3>1 DEF Serve
  <2>5. ASSUME NEW c \in Callers, EndLoad(c)
        PROVE  Fresher!Answer(c)
    <3>1. /\ snap \in Contents
          /\ snap.epoch \in floor .. index.epoch
      BY <2>5 DEF IInv, TypeOK, FloorInv, EndLoad
    <3> QED
      BY <2>3, <2>5, <3>1 DEF EndLoad
  <2>6. ASSUME NEW c \in Callers, FailLoad(c)
        PROVE  Fresher!Fail(c)
    <3>1. answered[c] = None
      BY <2>0, <2>6 DEF PendingInv, FailLoad
    <3>2. answered' = [answered EXCEPT ![c] = Failed]
      BY <2>0, <2>6, AnsweredUpdate DEF FailLoad, Return
    <3> QED
      BY <2>6, <3>1, <3>2 DEF FailLoad, Fresher!Fail
  <2>7. ASSUME NEW w \in Writers, RemoveCollection(w) \/ Build(w)
        PROVE  Fresher!Write
    <3>1. index'.epoch = index.epoch + 1
      BY <2>7 DEF RemoveCollection, Build, Write
    <3> QED
      BY <2>7, <3>1 DEF RemoveCollection, Build, Fresher!Write
  <2>8. ASSUME NEW w \in Writers, Invalidate(w)
        PROVE  Fresher!Forget
    BY <2>8 DEF Invalidate, Fresher!Forget
  <2>9. ASSUME NEW c \in Callers, LockStats(c) \/ BeginLoad(c)
        PROVE  Step
    BY <2>1, <2>9 DEF LockStats, Lock, BeginLoad
  <2>10. ASSUME NEW w \in Writers,
                \/ GiveUp(w) \/ CallInvalidate(w) \/ LeaveToExpire(w)
                \/ LockInvalidate(w)
         PROVE  Step
    BY <2>1, <2>10
       DEF GiveUp, CallInvalidate, LeaveToExpire, LockInvalidate, Lock
  <2>11. CASE Tick \/ UNCHANGED vars
    BY <2>1, <2>11 DEF Tick, vars
  <2> QED
    BY <2>2, <2>4, <2>5, <2>6, <2>7, <2>8, <2>9, <2>10, <2>11
       DEF Next, RunStats, Reingest, Fresher!Next
<1> QED
  BY <1>1, <1>2, Inductive, PendingInductive, PTL
     DEF Spec, ImplementsFreshStats, Fresher!Spec

-----------------------------------------------------------------------------
(* The retriever over it *)

\* A retriever does to the cache what StatsCache allows, or gives up waiting.
LEMMA CacheStep ==
    ASSUME [BMNext]_bmvars
    PROVE  [Next]_vars \/ \E c \in Callers : NoConnection(c)
<1>1. CASE UNCHANGED bmvars
  BY <1>1 DEF bmvars
<1>2. ASSUME NEW c \in Callers, Retrieve(c) \/ RunRetrieve(c) \/ NoConnectionLater(c)
      PROVE  [Next]_vars
  BY <1>2 DEF Retrieve, RunRetrieve, NoConnectionLater, LookUpStats, StartTermStats,
              FinishTermStats, StatsFailed, StatsKnown, StartQueryTerms, NoTerms,
              Terms, StartMatchingRows, MatchingRows, StatementFails, Next, RunStats
<1>3. CASE Elsewhere
  BY <1>3 DEF Elsewhere, Next
<1> QED
  BY <1>1, <1>2, <1>3 DEF BMNext

LEMMA NoConnectionIInv ==
    ASSUME IInv, NEW c \in Callers, NoConnection(c)
    PROVE  IInv'
<1> USE DEF Goto, Return, Unlock, CallerLocations, WriterLocations
<1>0. /\ \A d \in Callers : d \in Processes /\ d \notin Writers /\ d # Nobody
      /\ \A w \in Writers : w \in Processes /\ w \notin Callers /\ w # Nobody
  BY ProcessesAssumption DEF Processes
<1>1. TypeOK'
  BY <1>0 DEF IInv, TypeOK, NoConnection
<1>2. MutexInv'
  BY <1>0, ProcessesAssumption DEF IInv, TypeOK, MutexInv, InCriticalSection, NoConnection
<1>3. FloorInv'
  BY <1>0 DEF IInv, TypeOK, FloorInv, NoConnection
<1> QED
  BY <1>1, <1>2, <1>3 DEF IInv

LEMMA CacheInductive == BMSpec => []IInv
<1>1. BMInit => IInv
  BY InitIInv DEF BMInit
<1>2. IInv /\ [BMNext]_bmvars => IInv'
  BY CacheStep, NextIInv, NoConnectionIInv
<1> QED
  BY <1>1, <1>2, PTL DEF BMSpec

-----------------------------------------------------------------------------
(***************************************************************************)
(* The invariant of the callers: a caller whose Stats runs is nowhere else *)
(* in Retrieve, and every component keeps its type.                        *)
(***************************************************************************)
CallerInv ==
    /\ at \in [Callers -> BMLocations]
    /\ \A c \in Callers : pc[c] # "idle" => at[c] = "stats"
    /\ matched \in [Callers -> Contents]
    /\ need \in [Callers -> Nat]
    /\ DOMAIN found = Callers
    /\ \A c \in Callers :
          \/ found[c] \in {NoResult, Nothing, Error}
          \/ /\ found[c].kind = "ranked"
             /\ found[c].scored \subseteq found[c].rows

LEMMA FirstBuildIsContents == FirstBuild \in Contents /\ FirstBuild.epoch = 0
BY DEF FirstBuild, Contents

\* Writers and the clock leave the callers where they are.
LEMMA ElsewhereKeepsCallers ==
    ASSUME IInv, Elsewhere
    PROVE  \A c \in Callers : pc'[c] = pc[c] /\ answer'[c] = answer[c]
BY ProcessesAssumption
   DEF IInv, TypeOK, Elsewhere, Reingest, RemoveCollection, Build, GiveUp,
       CallInvalidate, LeaveToExpire, LockInvalidate, Lock, Invalidate, Tick,
       Goto, Processes

LEMMA NextCallerInv == IInv /\ CallerInv /\ [BMNext]_bmvars => CallerInv'
<1> SUFFICES ASSUME IInv, CallerInv, [BMNext]_bmvars
             PROVE  CallerInv'
  OBVIOUS
<1> USE DEF CallerInv, BMLocations, MoveTo, Leave, Own
<1>0. /\ \A c \in Callers : c \in Processes
      /\ pc \in [Processes -> CallerLocations \cup WriterLocations]
      /\ index \in Contents /\ floor \in Nat
  BY DEF IInv, TypeOK, Processes
<1>1. CASE UNCHANGED bmvars
  BY <1>1 DEF bmvars, vars
<1>2. ASSUME NEW c \in Callers, Retrieve(c)
      PROVE  CallerInv'
  BY <1>0, <1>2 DEF Retrieve, CallStats, Goto, NoResult
<1>3. ASSUME NEW c \in Callers,
             LookUpStats(c) \/ StartTermStats(c) \/ FinishTermStats(c) \/ NoConnection(c)
      PROVE  CallerInv'
  BY <1>0, <1>3
     DEF LookUpStats, StartTermStats, FinishTermStats, NoConnection, LockStats,
         Lock, Serve, BeginLoad, EndLoad, FailLoad, Return, Goto
<1>4. ASSUME NEW c \in Callers, StatsKnown(c) \/ StartQueryTerms(c) \/ Terms(c)
      PROVE  CallerInv'
  BY <1>0, <1>4 DEF StatsKnown, StartQueryTerms, Terms, vars
<1>5. ASSUME NEW c \in Callers, StartMatchingRows(c)
      PROVE  CallerInv'
  BY <1>0, <1>5 DEF StartMatchingRows, vars
<1>6. ASSUME NEW c \in Callers, NEW r, Leave(c, r), UNCHANGED << vars, need >>,
             \/ r \in {NoResult, Nothing, Error}
             \/ r.kind = "ranked" /\ r.scored \subseteq r.rows,
             pc[c] = "idle" \/ at[c] # "stats"
      PROVE  CallerInv'
  BY <1>0, <1>6, FirstBuildIsContents DEF vars
<1>7. ASSUME NEW c \in Callers,
             \/ StatsFailed(c) \/ NoTerms(c) \/ StatementFails(c)
             \/ NoConnectionLater(c)
      PROVE  CallerInv'
  BY <1>6, <1>7 DEF StatsFailed, NoTerms, StatementFails, NoConnectionLater
<1>8. ASSUME NEW c \in Callers, MatchingRows(c)
      PROVE  CallerInv'
  BY <1>6, <1>8 DEF MatchingRows, Ranked, Scored
<1>9. CASE Elsewhere
  BY <1>9, ElsewhereKeepsCallers DEF Elsewhere
<1> QED
  BY <1>1, <1>2, <1>3, <1>4, <1>5, <1>7, <1>8, <1>9 DEF BMNext, RunRetrieve

LEMMA CallersInductive == BMSpec => []CallerInv
<1>1. BMInit => CallerInv
  BY FirstBuildIsContents DEF BMInit, Init, CallerInv, BMLocations, NoResult, Processes
<1> QED
  BY <1>1, NextCallerInv, CacheInductive, PTL DEF BMSpec

-----------------------------------------------------------------------------
(***************************************************************************)
(* Connections: a caller runs a statement or does not, and the count moves *)
(* with it.                                                                *)
(***************************************************************************)
LEMMA RunningIsFinite ==
    /\ IsFiniteSet(Running)
    /\ Cardinality(Running) \in Nat
BY CallersAssumption, FS_Subset, FS_CardinalityType DEF Running

LEMMA Taken ==
    ASSUME ConnectionsAccounted, free \in Nat, NEW c \in Callers,
           c \notin Running, Running' = Running \cup {c}, Acquire
    PROVE  ConnectionsAccounted' /\ free' \in Nat
<1>1. Cardinality(Running') = Cardinality(Running) + 1
  BY RunningIsFinite, FS_AddElement
<1> QED
  BY <1>1, RunningIsFinite DEF ConnectionsAccounted, Acquire

LEMMA GivenBack ==
    ASSUME ConnectionsAccounted, free \in Nat, NEW c \in Callers,
           c \in Running, Running' = Running \ {c}, Release
    PROVE  ConnectionsAccounted' /\ free' \in Nat
<1>1. Cardinality(Running') = Cardinality(Running) - 1
  BY RunningIsFinite, FS_RemoveElement
<1> QED
  BY <1>1, RunningIsFinite DEF ConnectionsAccounted, Release

LEMMA AsMany ==
    ASSUME ConnectionsAccounted, free \in Nat, Running' = Running, UNCHANGED free
    PROVE  ConnectionsAccounted' /\ free' \in Nat
BY DEF ConnectionsAccounted

ConnectionsInv == ConnectionsAccounted /\ free \in Nat

LEMMA NextConnectionsInv ==
    IInv /\ CallerInv /\ ConnectionsInv /\ [BMNext]_bmvars => ConnectionsInv'
<1> SUFFICES ASSUME IInv, CallerInv, ConnectionsInv, [BMNext]_bmvars
             PROVE  ConnectionsAccounted' /\ free' \in Nat
  BY DEF ConnectionsInv
<1> USE DEF Running, ConnectionsInv
<1>0. /\ \A c \in Callers : c \in Processes
      /\ pc \in [Processes -> CallerLocations \cup WriterLocations]
      /\ at \in [Callers -> BMLocations]
      /\ \A c \in Callers : pc[c] # "idle" => at[c] = "stats"
  BY DEF IInv, TypeOK, Processes, CallerInv
<1>1. CASE UNCHANGED bmvars
  BY <1>1, AsMany DEF bmvars, vars
<1>2. ASSUME NEW c \in Callers,
             \/ Retrieve(c) \/ LookUpStats(c) \/ NoConnection(c)
             \/ StatsFailed(c) \/ StatsKnown(c) \/ NoConnectionLater(c)
      PROVE  Running' = Running /\ UNCHANGED free
  BY <1>0, <1>2
     DEF Retrieve, LookUpStats, NoConnection, StatsFailed, StatsKnown,
         NoConnectionLater, CallStats, LockStats, Lock, Serve, Return, Goto,
         Leave, MoveTo, Own, vars
<1>3. ASSUME NEW c \in Callers,
             StartTermStats(c) \/ StartQueryTerms(c) \/ StartMatchingRows(c)
      PROVE  c \notin Running /\ Running' = Running \cup {c} /\ Acquire
  BY <1>0, <1>3
     DEF StartTermStats, StartQueryTerms, StartMatchingRows, BeginLoad, Goto,
         MoveTo, Own, vars
<1>4. ASSUME NEW c \in Callers,
             \/ FinishTermStats(c) \/ NoTerms(c) \/ Terms(c)
             \/ MatchingRows(c) \/ StatementFails(c)
      PROVE  c \in Running /\ Running' = Running \ {c} /\ Release
  BY <1>0, <1>4
     DEF FinishTermStats, NoTerms, Terms, MatchingRows, StatementFails, EndLoad,
         FailLoad, Return, Goto, Leave, MoveTo, Own, vars
<1>5. CASE Elsewhere
  <2>1. Running' = Running /\ UNCHANGED free
    BY <1>5, ElsewhereKeepsCallers DEF Elsewhere, Own
  <2> QED
    BY <2>1, AsMany
<1> QED
  BY <1>1, <1>2, <1>3, <1>4, <1>5, Taken, GivenBack, AsMany DEF BMNext, RunRetrieve

LEMMA ConnectionsInductive == BMSpec => []ConnectionsInv
<1>1. BMInit => ConnectionsInv
  <2> SUFFICES ASSUME BMInit PROVE ConnectionsInv
    OBVIOUS
  <2>1. Running = {}
    BY DEF BMInit, Init, Running, Processes
  <2> QED
    BY <2>1, PoolAssumption, FS_EmptySet DEF BMInit, ConnectionsInv, ConnectionsAccounted
<1> QED
  BY <1>1, NextConnectionsInv, CacheInductive, CallersInductive, PTL DEF BMSpec

\* No path through a retrieval keeps a connection or gives one back twice.
THEOREM EveryConnectionAccounted == BMSpec => []ConnectionsAccounted
<1>1. ConnectionsInv => ConnectionsAccounted
  BY DEF ConnectionsInv
<1> QED
  BY <1>1, ConnectionsInductive, PTL

\* Every variable of the retriever and of its cache keeps its type; the free
\* connections are never more than the pool has.
THEOREM BMTypeCorrect == BMSpec => []BMTypeOK
<1>1. IInv /\ CallerInv /\ ConnectionsInv => BMTypeOK
  <2> SUFFICES ASSUME IInv, CallerInv, ConnectionsInv PROVE BMTypeOK
    OBVIOUS
  <2>1. free \in 0 .. PoolSize
    BY RunningIsFinite, PoolAssumption DEF ConnectionsInv, ConnectionsAccounted
  <2> QED
    BY <2>1 DEF IInv, CallerInv, BMTypeOK
<1> QED
  BY <1>1, CacheInductive, CallersInductive, ConnectionsInductive, PTL

-----------------------------------------------------------------------------
(***************************************************************************)
(* What statistics miss.  Describes(s, i): the content s of the index is   *)
(* not later than i, and a row of i that s does not know was written after *)
(* s.  It holds of the cached statistics, of the snapshot of a running     *)
(* load and of every answer, against the index as it is now: a write adds  *)
(* a row that is newer than all of them, or removes rows.                  *)
(***************************************************************************)
Describes(s, i) ==
    /\ s.epoch <= i.epoch
    /\ \A row \in i.rows \ s.rows : row > s.epoch

KnownInv ==
    /\ Describes(stats, index)
    /\ Describes(snap, index)
    /\ \A c \in Callers : answer[c] \in Contents => Describes(answer[c], index)

LEMMA IndexMoves ==
    ASSUME [BMNext]_bmvars
    PROVE  \/ index' = index
           \/ Write({})
           \/ Write(index.rows \cup {index.epoch + 1})
<1>1. CASE [Next]_vars
  BY <1>1 DEF Next, CallStats, RunStats, LockStats, Lock, Serve, BeginLoad,
              EndLoad, FailLoad, Reingest, RemoveCollection, Build, GiveUp,
              CallInvalidate, LeaveToExpire, LockInvalidate, Invalidate, Tick, vars
<1>2. ASSUME NEW c \in Callers, NoConnection(c)
      PROVE  index' = index
  BY <1>2 DEF NoConnection
<1> QED
  BY <1>1, <1>2, CacheStep

LEMMA StillDescribes ==
    ASSUME TypeOK, [BMNext]_bmvars, NEW s \in Contents, Describes(s, index)
    PROVE  Describes(s, index')
<1>1. /\ s.epoch \in Nat /\ index.epoch \in Nat
      /\ index.rows \subseteq Nat /\ s.rows \subseteq Nat
  BY DEF TypeOK, Contents
<1>2. CASE index' = index
  BY <1>2
<1>3. CASE Write({})
  BY <1>1, <1>3 DEF Write, Describes
<1>4. CASE Write(index.rows \cup {index.epoch + 1})
  BY <1>1, <1>4 DEF Write, Describes
<1> QED
  BY <1>2, <1>3, <1>4, IndexMoves

\* Where the contents the cache hands out come from.
LEMMA CacheMoves ==
    ASSUME IInv, [BMNext]_bmvars
    PROVE  /\ stats' \in {stats, snap}
           /\ snap' \in {snap, index}
           /\ \A c \in Callers : answer'[c] \in {answer[c], None, Failed, stats, snap}
<1>1. answer \in [Callers -> {None, Failed} \cup Contents]
  BY DEF IInv, TypeOK
<1>2. CASE UNCHANGED vars \/ Tick \/ \E w \in Writers : Reingest(w)
  BY <1>2 DEF Reingest, RemoveCollection, Build, GiveUp, CallInvalidate,
              LeaveToExpire, LockInvalidate, Lock, Invalidate, Tick, vars
<1>3. ASSUME NEW c \in Callers, CallStats(c) \/ LockStats(c) \/ BeginLoad(c)
      PROVE  /\ stats' = stats
             /\ snap' \in {snap, index}
             /\ \A d \in Callers : answer'[d] \in {answer[d], None}
  BY <1>1, <1>3 DEF CallStats, LockStats, Lock, BeginLoad
<1>4. ASSUME NEW c \in Callers,
             Serve(c) \/ EndLoad(c) \/ FailLoad(c) \/ NoConnection(c)
      PROVE  /\ stats' \in {stats, snap}
             /\ snap' = snap
             /\ \A d \in Callers : answer'[d] \in {answer[d], Failed, stats, snap}
  BY <1>1, <1>4 DEF Serve, EndLoad, FailLoad, NoConnection, Return
<1>5. [Next]_vars \/ \E c \in Callers : NoConnection(c)
  BY CacheStep
<1> QED
  BY <1>2, <1>3, <1>4, <1>5 DEF Next, RunStats

LEMMA NextKnownInv == IInv /\ KnownInv /\ [BMNext]_bmvars => KnownInv'
<1> SUFFICES ASSUME IInv, KnownInv, [BMNext]_bmvars
             PROVE  KnownInv'
  OBVIOUS
<1>1. /\ stats \in Contents /\ snap \in Contents /\ index \in Contents
      /\ None \notin Contents /\ Failed \notin Contents
      /\ TypeOK
  BY AnswersAssumption DEF IInv, TypeOK
<1>2. Describes(index, index)
  BY <1>1 DEF Describes, Contents
<1>3. Describes(stats, index') /\ Describes(snap, index') /\ Describes(index, index')
  BY <1>1, <1>2, StillDescribes DEF KnownInv
<1>4. \A c \in Callers : answer[c] \in Contents => Describes(answer[c], index')
  BY <1>1, StillDescribes DEF KnownInv
<1> QED
  BY <1>1, <1>3, <1>4, CacheMoves DEF KnownInv

LEMMA KnownInductive == BMSpec => []KnownInv
<1>1. BMInit => KnownInv
  BY FirstBuildIsContents, AnswersAssumption
     DEF BMInit, Init, KnownInv, Describes, Contents
<1> QED
  BY <1>1, NextKnownInv, CacheInductive, PTL DEF BMSpec

-----------------------------------------------------------------------------
\* Invalidate and every answer move the floor up only.
LEMMA FloorRises ==
    ASSUME IInv, [BMNext]_bmvars
    PROVE  floor <= floor'
<1>1. /\ floor \in Nat
      /\ floor <= index.epoch
      /\ loaded => floor <= stats.epoch
      /\ \A c \in Callers : pc[c] = "load" => floor <= snap.epoch
  BY DEF IInv, TypeOK, FloorInv, Contents
<1>2. CASE floor' = floor
  BY <1>1, <1>2
<1>3. ASSUME NEW c \in Callers, Serve(c) \/ EndLoad(c)
      PROVE  floor <= floor'
  BY <1>1, <1>3 DEF Serve, Fresh, EndLoad
<1>4. ASSUME NEW w \in Writers, Invalidate(w)
      PROVE  floor <= floor'
  BY <1>1, <1>4 DEF Invalidate
<1>5. ASSUME NEW c \in Callers,
             \/ CallStats(c) \/ LockStats(c) \/ BeginLoad(c)
             \/ FailLoad(c) \/ NoConnection(c)
      PROVE  floor' = floor
  BY <1>5 DEF CallStats, LockStats, Lock, BeginLoad, FailLoad, NoConnection
<1>6. ASSUME NEW w \in Writers,
             \/ RemoveCollection(w) \/ Build(w) \/ GiveUp(w) \/ CallInvalidate(w)
             \/ LeaveToExpire(w) \/ LockInvalidate(w)
      PROVE  floor' = floor
  BY <1>6 DEF RemoveCollection, Build, GiveUp, CallInvalidate, LeaveToExpire,
              LockInvalidate, Lock
<1>7. CASE Tick \/ UNCHANGED vars
  BY <1>2, <1>7 DEF Tick, vars
<1> QED
  BY <1>2, <1>3, <1>4, <1>5, <1>6, <1>7, CacheStep DEF Next, RunStats, Reingest

(***************************************************************************)
(* The invariant of a retrieval: what it needs is not above the floor, the *)
(* statistics it goes on with are at least as new as what it needs, and of *)
(* the rows it matched these miss only newer ones.                         *)
(***************************************************************************)
Later == {"terms", "tokenising", "rows", "matching"}

NewEnough(c) == answer[c] \in Contents /\ need[c] <= answer[c].epoch

NeedInv ==
    /\ \A c \in Callers : need[c] <= floor
    /\ \A c \in Callers :
          at[c] = "stats" /\ pc[c] = "idle" => answer[c] = Failed \/ NewEnough(c)
    /\ \A c \in Callers : at[c] \in Later => NewEnough(c)
    /\ \A c \in Callers :
          at[c] = "matching" =>
              \A row \in matched[c].rows \ answer[c].rows : row > need[c]

RetrieveInv == NeedInv /\ UnscoredOnlyIfNew

LEMMA NextRetrieveInv ==
    /\ IInv /\ CallerInv /\ KnownInv /\ RetrieveInv
    /\ [BMNext]_bmvars
    => RetrieveInv'
<1> SUFFICES ASSUME IInv, CallerInv, KnownInv, RetrieveInv, [BMNext]_bmvars
             PROVE  RetrieveInv'
  OBVIOUS
<1> USE DEF RetrieveInv, NeedInv, UnscoredOnlyIfNew, Later, NewEnough
<1>0. /\ \A c \in Callers : c \in Processes
      /\ pc \in [Processes -> CallerLocations \cup WriterLocations]
      /\ answer \in [Callers -> {None, Failed} \cup Contents]
      /\ at \in [Callers -> BMLocations]
      /\ matched \in [Callers -> Contents]
      /\ need \in [Callers -> Nat]
      /\ DOMAIN found = Callers
      /\ \A c \in Callers : pc[c] # "idle" => at[c] = "stats"
      /\ floor \in Nat /\ floor' \in Nat /\ floor <= floor'
      /\ index \in Contents /\ stats \in Contents /\ snap \in Contents
      /\ None # Failed /\ Failed \notin Contents
  <2>1. IInv'
    BY CacheStep, NextIInv, NoConnectionIInv
  <2> QED
    BY <2>1, FloorRises, AnswersAssumption DEF IInv, TypeOK, CallerInv, Processes
<1>1. CASE UNCHANGED bmvars
  BY <1>1 DEF bmvars, vars
<1>2. ASSUME NEW c \in Callers, Retrieve(c)
      PROVE  RetrieveInv'
  BY <1>0, <1>2 DEF Retrieve, CallStats, Goto, MoveTo, NoResult
<1>3. ASSUME NEW c \in Callers,
             \/ LockStats(c) \/ BeginLoad(c)
             \/ FailLoad(c) \/ NoConnection(c),
             UNCHANGED Own
      PROVE  RetrieveInv'
  BY <1>0, <1>3 DEF LockStats, Lock, BeginLoad, FailLoad, NoConnection, Return, Goto, Own
<1>4. ASSUME NEW c \in Callers, NEW s \in Contents, Return(c, s),
             pc[c] # "idle", floor' = s.epoch, UNCHANGED Own
      PROVE  RetrieveInv'
  <2>1. need[c] <= s.epoch
    BY <1>0, <1>4 DEF Contents
  <2> QED
    BY <1>0, <1>4, <2>1 DEF Return, Goto, Own, Contents
<1>5. ASSUME NEW c \in Callers, LookUpStats(c) \/ StartTermStats(c) \/ FinishTermStats(c)
      PROVE  RetrieveInv'
  BY <1>0, <1>3, <1>4, <1>5
     DEF LookUpStats, StartTermStats, FinishTermStats, Serve, EndLoad, Own
<1>6. ASSUME NEW c \in Callers, StatsKnown(c) \/ StartQueryTerms(c) \/ Terms(c)
      PROVE  RetrieveInv'
  BY <1>0, <1>6 DEF StatsKnown, StartQueryTerms, Terms, MoveTo, vars
<1>7. ASSUME NEW c \in Callers, StartMatchingRows(c)
      PROVE  RetrieveInv'
  <2>1. NewEnough(c) /\ Describes(answer[c], index)
    BY <1>7 DEF StartMatchingRows, KnownInv
  <2>2. \A row \in index.rows \ answer[c].rows : row > need[c]
    BY <1>0, <2>1 DEF Describes, Contents
  <2> QED
    BY <1>0, <1>7, <2>2 DEF StartMatchingRows, MoveTo, vars
<1>8. ASSUME NEW c \in Callers, NEW r, Leave(c, r), UNCHANGED << vars, need >>,
             \/ r.kind # "ranked"
             \/ \A row \in r.rows \ r.scored : row > need[c],
             pc[c] = "idle" \/ at[c] # "stats"
      PROVE  RetrieveInv'
  BY <1>0, <1>8 DEF Leave, MoveTo, vars
<1>9. ASSUME NEW c \in Callers,
             \/ StatsFailed(c) \/ NoTerms(c) \/ StatementFails(c)
             \/ NoConnectionLater(c)
      PROVE  RetrieveInv'
  BY <1>8, <1>9 DEF StatsFailed, NoTerms, StatementFails, NoConnectionLater,
                    Error, Nothing
<1>10. ASSUME NEW c \in Callers, MatchingRows(c)
       PROVE  RetrieveInv'
  BY <1>8, <1>10 DEF MatchingRows, Ranked, Scored
<1>11. CASE Elsewhere
  BY <1>0, <1>11, ElsewhereKeepsCallers DEF Elsewhere, Own
<1>12. ASSUME NEW c \in Callers, NoConnection(c)
       PROVE  RetrieveInv'
  BY <1>3, <1>12 DEF NoConnection
<1> QED
  BY <1>1, <1>2, <1>5, <1>6, <1>7, <1>9, <1>10, <1>11, <1>12 DEF BMNext, RunRetrieve

\* A retrieval scores every matching row that was written before the last
\* Invalidate it came after, whatever was written while it ran.
THEOREM ScoresWhatWasInvalidatedFor == BMSpec => []UnscoredOnlyIfNew
<1>1. BMInit => RetrieveInv
  BY DEF BMInit, Init, RetrieveInv, NeedInv, Later, UnscoredOnlyIfNew, NoResult
<1>2. RetrieveInv => UnscoredOnlyIfNew
  BY DEF RetrieveInv
<1> QED
  BY <1>1, <1>2, NextRetrieveInv, CacheInductive, CallersInductive,
     KnownInductive, PTL DEF BMSpec
=============================================================================
