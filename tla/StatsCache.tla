----------------------------- MODULE StatsCache -----------------------------
(***************************************************************************)
(* The cache of corpus statistics (rag/retrieve/stats.go) shared by the    *)
(* goroutines that retrieve, beside writers that change the index and then *)
(* call Invalidate.  Statistics are read by one SQL statement, which sees  *)
(* the index as it was when the statement began.                           *)
(*                                                                         *)
(* The index is a set of rows.  A row is named by the write that added it, *)
(* and the writes are numbered, so that a row says which statistics are    *)
(* too old to know it.  A reingest is the three calls the Store offers for *)
(* it: RemoveCollection, Build, Invalidate, each of them its own commit.   *)
(***************************************************************************)
EXTENDS Integers, FiniteSets

CONSTANTS
    Callers,  \* the goroutines that call Stats
    Writers,  \* the goroutines that write to the index
    Nobody,   \* holds the mutex when no process does
    TTL,      \* the time statistics stay good, for ever when 0 or less
    MaxEpoch, \* bound: how many writes the index sees
    None,     \* no answer yet
    Failed    \* the answer of a Stats that returned an error

Processes == Callers \cup Writers

ASSUME ProcessesAssumption ==
    /\ Callers \cap Writers = {}
    /\ Nobody \notin Processes
ASSUME BoundsAssumption == TTL \in Int /\ MaxEpoch \in Nat
(***************************************************************************)
(* The content of the index after some write: its number, and its rows.    *)
(***************************************************************************)
Contents == [epoch : Nat, rows : SUBSET Nat]

ASSUME AnswersAssumption ==
    /\ None # Failed
    /\ \A a \in {None, Failed} : a \notin Contents /\ a \notin Nat

VARIABLES
    index,  \* what is committed in the database
    mu,     \* who holds c.mu
    loaded, \* c.loaded
    stats,  \* c.stats: the content of the index they describe
    age,    \* the time since c.loadedAt, counted up to TTL
    snap,   \* what the statement of the running load sees
    pc,     \* where each process is
    answer, \* what each caller's last Stats returned
    floor   \* history: the oldest content an answer may still describe

vars == << index, mu, loaded, stats, age, snap, pc, answer, floor >>

CallerLocations == {"idle", "lock", "check", "load"}
WriterLocations == {"idle", "removed", "built", "lock", "invalidate"}

InCriticalSection(p) == pc[p] \in {"check", "load", "invalidate"}

Ages == IF TTL > 0 THEN 0 .. TTL ELSE {0}

TypeOK ==
    /\ index \in Contents
    /\ mu \in Processes \cup {Nobody}
    /\ loaded \in BOOLEAN
    /\ stats \in Contents
    /\ age \in Ages
    /\ snap \in Contents
    /\ pc \in [Processes -> CallerLocations \cup WriterLocations]
    /\ \A c \in Callers : pc[c] \in CallerLocations
    /\ \A w \in Writers : pc[w] \in WriterLocations
    /\ answer \in [Callers -> {None, Failed} \cup Contents]
    /\ floor \in Nat

\* An index that was built before anyone asks.
FirstBuild == [epoch |-> 0, rows |-> {0}]

Init ==
    /\ index = FirstBuild
    /\ mu = Nobody
    /\ loaded = FALSE
    /\ stats = FirstBuild
    /\ age = 0
    /\ snap = FirstBuild
    /\ pc = [p \in Processes |-> "idle"]
    /\ answer = [c \in Callers |-> None]
    /\ floor = 0

Goto(p, l) == pc' = [pc EXCEPT ![p] = l]

Lock(p, l) ==
    /\ pc[p] = "lock"
    /\ mu = Nobody
    /\ mu' = p
    /\ Goto(p, l)
    /\ UNCHANGED << index, loaded, stats, age, snap, answer, floor >>

Unlock == mu' = Nobody

-----------------------------------------------------------------------------
(* Stats *)

CallStats(c) ==
    /\ pc[c] = "idle"
    /\ answer' = [answer EXCEPT ![c] = None]
    /\ Goto(c, "lock")
    /\ UNCHANGED << index, mu, loaded, stats, age, snap, floor >>

LockStats(c) == Lock(c, "check")

Fresh == loaded /\ (TTL <= 0 \/ age < TTL)

Return(c, a) ==
    /\ answer' = [answer EXCEPT ![c] = a]
    /\ Goto(c, "idle")

\* Slip: serving the statistics makes them young again.
ServeRenewed(c) ==
    /\ pc[c] = "check"
    /\ Fresh
    /\ age' = 0
    /\ floor' = stats.epoch
    /\ Unlock
    /\ Return(c, stats)
    /\ UNCHANGED << index, loaded, stats, snap >>

\* The cached statistics are good: return them.
Serve(c) ==
    /\ pc[c] = "check"
    /\ Fresh
    /\ floor' = stats.epoch
    /\ Unlock
    /\ Return(c, stats)
    /\ UNCHANGED << index, loaded, stats, age, snap >>

\* They are absent or too old: start the statement, keeping the mutex.
BeginLoad(c) ==
    /\ pc[c] = "check"
    /\ ~Fresh
    /\ snap' = index
    /\ Goto(c, "load")
    /\ UNCHANGED << index, mu, loaded, stats, age, answer, floor >>

\* Slip: what is loaded bears no date and counts as older than anything.
EndLoadUndated(c) ==
    /\ pc[c] = "load"
    /\ stats' = snap
    /\ loaded' = TRUE
    /\ age' = TTL + 1
    /\ floor' = snap.epoch
    /\ Unlock
    /\ Return(c, snap)
    /\ UNCHANGED << index, snap >>

\* The statement is read to its end: cache what it saw and return it.
EndLoad(c) ==
    /\ pc[c] = "load"
    /\ stats' = snap
    /\ loaded' = TRUE
    /\ age' = 0
    /\ floor' = snap.epoch
    /\ Unlock
    /\ Return(c, snap)
    /\ UNCHANGED << index, snap >>

\* Slip: the error leaves the mutex locked.
FailLoadStillLocked(c) ==
    /\ pc[c] = "load"
    /\ Return(c, Failed)
    /\ UNCHANGED << index, mu, loaded, stats, age, snap, floor >>

\* The statement fails at its start or on the way: nothing is cached.
FailLoad(c) ==
    /\ pc[c] = "load"
    /\ Unlock
    /\ Return(c, Failed)
    /\ UNCHANGED << index, loaded, stats, age, snap, floor >>

-----------------------------------------------------------------------------
(* Writing to the index, and Invalidate *)

Write(rows) ==
    /\ index.epoch < MaxEpoch
    /\ index' = [epoch |-> index.epoch + 1, rows |-> rows]

\* RemoveCollection, committed by the caller's transaction.
RemoveCollection(w) ==
    /\ pc[w] = "idle"
    /\ Write({})
    /\ Goto(w, "removed")
    /\ UNCHANGED << mu, loaded, stats, age, snap, answer, floor >>

\* Build adds rows, to a collection just removed or to the one that is there.
Build(w) ==
    /\ pc[w] \in {"idle", "removed"}
    /\ Write(index.rows \cup {index.epoch + 1})
    /\ Goto(w, "built")
    /\ UNCHANGED << mu, loaded, stats, age, snap, answer, floor >>

\* A Build that fails, or was never to follow, leaves the collection removed.
GiveUp(w) ==
    /\ pc[w] = "removed"
    /\ Goto(w, "idle")
    /\ UNCHANGED << index, mu, loaded, stats, age, snap, answer, floor >>

CallInvalidate(w) ==
    /\ pc[w] = "built"
    /\ Goto(w, "lock")
    /\ UNCHANGED << index, mu, loaded, stats, age, snap, answer, floor >>

\* With a TTL the statistics age by themselves and the call may be left out.
LeaveToExpire(w) ==
    /\ TTL > 0
    /\ pc[w] = "built"
    /\ Goto(w, "idle")
    /\ UNCHANGED << index, mu, loaded, stats, age, snap, answer, floor >>

\* Slip: Invalidate does not wait for the mutex.
LockNothing(w) ==
    /\ w \in Writers
    /\ pc[w] = "lock"
    /\ mu' = mu
    /\ Goto(w, "invalidate")
    /\ UNCHANGED << index, loaded, stats, age, snap, answer, floor >>

LockInvalidate(w) == Lock(w, "invalidate")

\* Slip: the flag is left as it is.
InvalidateNothing(w) ==
    /\ pc[w] = "invalidate"
    /\ floor' = index.epoch
    /\ Unlock
    /\ Goto(w, "idle")
    /\ UNCHANGED << index, loaded, stats, age, snap, answer >>

Invalidate(w) ==
    /\ pc[w] = "invalidate"
    /\ loaded' = FALSE
    /\ floor' = index.epoch
    /\ Unlock
    /\ Goto(w, "idle")
    /\ UNCHANGED << index, stats, age, snap, answer >>

\* Time passes.  Beyond TTL it makes no difference any more.
Tick ==
    /\ TTL > 0
    /\ loaded
    /\ age < TTL
    /\ age' = age + 1
    /\ UNCHANGED << index, mu, loaded, stats, snap, pc, answer, floor >>

-----------------------------------------------------------------------------
RunStats(c) ==
    \/ LockStats(c)
    \/ Serve(c)
    \/ BeginLoad(c)
    \/ EndLoad(c)
    \/ FailLoad(c)

Reingest(w) ==
    \/ RemoveCollection(w)
    \/ Build(w)
    \/ GiveUp(w)
    \/ CallInvalidate(w)
    \/ LeaveToExpire(w)
    \/ LockInvalidate(w)
    \/ Invalidate(w)

Next ==
    \/ \E c \in Callers : CallStats(c) \/ RunStats(c)
    \/ \E w \in Writers : Reingest(w)
    \/ Tick

(***************************************************************************)
(* A call of Stats keeps running: its statement ends, with rows or with an *)
(* error, and a process that waits for the mutex gets it if it is free     *)
(* again and again.  An Invalidate that has the mutex finishes.  Time      *)
(* passes.  Nobody is bound to call Stats or to write.                     *)
(***************************************************************************)
Fairness ==
    /\ \A c \in Callers : WF_vars(RunStats(c)) /\ SF_vars(LockStats(c))
    /\ \A w \in Writers : WF_vars(Invalidate(w)) /\ SF_vars(LockInvalidate(w))
    /\ WF_vars(Tick)

Spec == Init /\ [][Next]_vars
FairSpec == Spec /\ Fairness

-----------------------------------------------------------------------------
(***************************************************************************)
(* The cache keeps the promise of FreshStats: an Invalidate is final, also *)
(* for a load that was running when it was called, and no caller is taken  *)
(* back to statistics older than some caller has already been given.       *)
(***************************************************************************)
EpochOf(a) == IF a \in {None, Failed} THEN a ELSE a.epoch

Fresher == INSTANCE FreshStats
    WITH latest <- index.epoch, oldest <- floor,
         answered <- [c \in Callers |-> EpochOf(answer[c])]

ImplementsFreshStats == Fresher!Spec

(***************************************************************************)
(* With a TTL nothing has to call Invalidate: statistics of an index that  *)
(* has been written to since are served for a while only.                  *)
(***************************************************************************)
Superseded(e) == stats.epoch = e /\ e < index.epoch

OldStatsExpire ==
    TTL > 0 => \A e \in 0 .. MaxEpoch - 1 : []<>~(Fresh /\ Superseded(e))

(***************************************************************************)
(* Every call of Stats and of Invalidate returns: the mutex is held over a *)
(* database call, and that call may fail, but no path keeps it.            *)
(***************************************************************************)
InCall(p) == pc[p] = "lock" \/ InCriticalSection(p)

EveryCallReturns == \A p \in Processes : []<>~InCall(p)

(***************************************************************************)
(* The comment on Stats says that holding the lock keeps a reingest from   *)
(* being observed halfway through.  Halfway through a reingest the         *)
(* collection is removed and not yet built.                                *)
(***************************************************************************)
NeverHalfway ==
    \A c \in Callers : answer[c] \notin {None, Failed} => answer[c].rows # {}
=============================================================================
