------------------------------- MODULE Store -------------------------------
(***************************************************************************)
(* The connections of a Store (ext/lcpgstore): the single one it opens for *)
(* langchaingo, and the pool its own statements run on.  New opens them one *)
(* after the other and closes on each failing step what it has opened so   *)
(* far; Close gives both back.  Between the two, goroutines search and     *)
(* build over the single connection (Search, Build) and run statements of  *)
(* the other retrievers over the pool.                                     *)
(*                                                                         *)
(* A *pgx.Conn is for one user at a time and a *pgxpool.Pool for many.     *)
(* What the two do is external: a statement on a busy connection is        *)
(* refused, or gets in the way of the running one; a statement whose       *)
(* context ends takes its connection down; the pool dials when no          *)
(* connection is idle and drops one that has been idle for long; closing   *)
(* the pool refuses who waits and waits for who runs.                      *)
(***************************************************************************)
EXTENDS Integers, FiniteSets

CONSTANTS
    Clients, \* the goroutines that use the store
    MaxConns \* the largest number of connections of the pool

ASSUME ClientsAssumption == IsFiniteSet(Clients)
ASSUME MaxConnsAssumption == MaxConns \in Nat \ {0}

VARIABLES
    stage,   \* where New or Close is, or what has become of the store
    conn,    \* the single connection
    pool,    \* the pool
    dialled, \* the connections the pool has open
    at,      \* what each client is doing
    outcome, \* how each client's last statement ended
    recorded \* history: a connection was set up in a caller's own context

vars == << stage, conn, pool, dialled, at, outcome, recorded >>

OpeningStages == {"connect", "openPool", "ping", "inner", "index"}
ClosingStages == {"closePool", "drainPool", "closeConn"}

TypeOK ==
    /\ stage \in OpeningStages \cup ClosingStages \cup {"open", "closed", "failed"}
    /\ conn \in {"none", "open", "broken", "closed"}
    /\ pool \in {"none", "open", "closed"}
    /\ dialled \in 0 .. MaxConns
    /\ at \in [Clients -> {"idle", "conn", "waiting", "pool"}]
    /\ outcome \in [Clients -> {"none", "ok", "busy", "error"}]
    /\ recorded \in BOOLEAN

Init ==
    /\ stage = "connect"
    /\ conn = "none"
    /\ pool = "none"
    /\ dialled = 0
    /\ at = [c \in Clients |-> "idle"]
    /\ outcome = [c \in Clients |-> "none"]
    /\ recorded = FALSE

On(place) == {c \in Clients : at[c] = place}
Idle == dialled - Cardinality(On("pool"))

clients == << at, outcome, recorded >>

-----------------------------------------------------------------------------
(* New *)

Connect ==
    /\ stage = "connect"
    /\ \/ conn' = "open" /\ stage' = "openPool"
       \/ conn' = conn /\ stage' = "failed"
    /\ UNCHANGED << pool, dialled, clients >>

NewPool ==
    /\ stage = "openPool"
    /\ \/ pool' = "open" /\ stage' = "ping" /\ conn' = conn
       \/ pool' = pool /\ stage' = "failed" /\ conn' = "closed"
    /\ UNCHANGED << dialled, clients >>

\* The first connection of the pool is dialled here, under the bypass.
Ping ==
    /\ stage = "ping"
    /\ dialled' = 1
    /\ stage' = "inner"
    /\ UNCHANGED << conn, pool, clients >>

Reach(next) ==
    /\ stage' = next
    /\ UNCHANGED << conn, pool, dialled, clients >>

OpenInner == stage = "inner" /\ Reach("index")
EnsureKeywordIndex == stage = "index" /\ Reach("open")

\* Slip: only the connection is closed, as before there was a pool.
GiveUpConnOnly ==
    /\ stage \in {"ping", "inner", "index"}
    /\ conn' = "closed"
    /\ stage' = "failed"
    /\ UNCHANGED << pool, dialled, clients >>

\* The ping, pgvector.New or the index fails: what was opened is closed.
GiveUp ==
    /\ stage \in {"ping", "inner", "index"}
    /\ conn' = "closed"
    /\ pool' = "closed"
    /\ dialled' = 0
    /\ stage' = "failed"
    /\ UNCHANGED clients

-----------------------------------------------------------------------------
(* Statements on the single connection: Search and Build *)

Usable == stage \notin OpeningStages \cup {"failed"}

Start(c, place) ==
    /\ at' = [at EXCEPT ![c] = place]
    /\ outcome' = [outcome EXCEPT ![c] = "none"]

End(c, result) ==
    /\ at' = [at EXCEPT ![c] = "idle"]
    /\ outcome' = [outcome EXCEPT ![c] = result]

UseConn(c) ==
    /\ Usable
    /\ at[c] = "idle"
    /\ \/ conn = "open" /\ On("conn") = {} /\ Start(c, "conn")
       \/ conn = "open" /\ On("conn") # {} /\ (End(c, "busy") \/ Start(c, "conn"))
       \/ conn # "open" /\ End(c, "error")
    /\ UNCHANGED << stage, conn, pool, dialled, recorded >>

\* A closed connection ends its statement; one cut short, or one of two at
\* once, may take the connection down.
ConnStatementEnds(c) ==
    /\ at[c] = "conn"
    /\ \/ conn = "open" /\ End(c, "ok") /\ UNCHANGED conn
       \/ End(c, "error") /\ UNCHANGED conn
       \/ conn = "open" /\ End(c, "error") /\ conn' = "broken"
    /\ UNCHANGED << stage, pool, dialled, recorded >>

-----------------------------------------------------------------------------
(* Statements on the pool: keyword, hybrid and BM25 retrieval *)

UsePool(c) ==
    /\ Usable
    /\ at[c] = "idle"
    /\ Start(c, "waiting")
    /\ UNCHANGED << stage, conn, pool, dialled, recorded >>

Acquire(c) ==
    /\ at[c] = "waiting"
    /\ pool = "open"
    /\ Idle > 0
    /\ at' = [at EXCEPT ![c] = "pool"]
    /\ UNCHANGED << stage, conn, pool, dialled, outcome, recorded >>

\* No connection is idle: the pool dials, in the context of the statement.
Dial(c) ==
    /\ at[c] = "waiting"
    /\ pool = "open"
    /\ Idle = 0
    /\ dialled < MaxConns
    /\ dialled' = dialled + 1
    /\ at' = [at EXCEPT ![c] = "pool"]
    /\ recorded' = TRUE
    /\ UNCHANGED << stage, conn, pool, outcome >>

\* The dial fails, the context ends, or the pool is closed.
Refused(c) ==
    /\ at[c] = "waiting"
    /\ End(c, "error")
    /\ UNCHANGED << stage, conn, pool, dialled, recorded >>

\* Slip: an error on the way leaves the rows open, and their connection used.
PoolStatementFailsUnread(c) ==
    /\ at[c] = "pool"
    /\ outcome' = [outcome EXCEPT ![c] = "error"]
    /\ UNCHANGED << stage, conn, pool, dialled, at, recorded >>

\* Slip: the connection is given back by hand and by a deferred call.
PoolStatementEndsTwice(c) ==
    /\ at[c] = "pool"
    /\ End(c, "ok") \/ End(c, "error")
    /\ dialled' = IF pool = "open" THEN dialled ELSE dialled - 2
    /\ UNCHANGED << stage, conn, pool, recorded >>

\* rows.Close gives the connection back, and the pool keeps it if it is open
\* itself and the statement was not cut short by the end of its context.
PoolStatementEnds(c) ==
    /\ at[c] = "pool"
    /\ \/ /\ End(c, "ok") \/ End(c, "error")
          /\ dialled' = IF pool = "open" THEN dialled ELSE dialled - 1
       \/ /\ End(c, "error")
          /\ dialled' = dialled - 1
    /\ UNCHANGED << stage, conn, pool, recorded >>

\* The pool drops a connection that has been idle for long.
IdleExpires ==
    /\ pool = "open"
    /\ Usable
    /\ Idle > 0
    /\ dialled' = dialled - 1
    /\ UNCHANGED << stage, conn, pool, clients >>

-----------------------------------------------------------------------------
(* Close *)

\* inner.Close finds nothing it knows how to close, and so cannot fail: the early
\* return for its error is never taken.
Close == stage = "open" /\ Reach("closePool")

\* pool.Close admits nobody any more, closes what is idle, and waits.
ClosePool ==
    /\ stage = "closePool"
    /\ pool' = "closed"
    /\ dialled' = Cardinality(On("pool"))
    /\ stage' = "drainPool"
    /\ UNCHANGED << conn, clients >>

PoolDrained == stage = "drainPool" /\ dialled = 0 /\ Reach("closeConn")

CloseConn ==
    /\ stage = "closeConn"
    /\ conn' = "closed"
    /\ stage' = "closed"
    /\ UNCHANGED << pool, dialled, clients >>

-----------------------------------------------------------------------------
New ==
    \/ Connect
    \/ NewPool
    \/ Ping
    \/ OpenInner
    \/ EnsureKeywordIndex
    \/ GiveUp

Closing == ClosePool \/ PoolDrained \/ CloseConn

StatementEnds(c) == ConnStatementEnds(c) \/ PoolStatementEnds(c)

Admitted(c) == Acquire(c) \/ Dial(c)
RefusedByClosedPool(c) == pool = "closed" /\ Refused(c)

Next ==
    \/ New
    \/ Close
    \/ Closing
    \/ IdleExpires
    \/ \E c \in Clients :
          UseConn(c) \/ UsePool(c) \/ Admitted(c) \/ Refused(c) \/ StatementEnds(c)

(***************************************************************************)
(* New and Close go on, a statement ends, and a client that waits for the  *)
(* pool gets a connection if one is free again and again, or is refused    *)
(* once the pool is closed.  Nobody is bound to call Close or to search.   *)
(***************************************************************************)
Fairness ==
    /\ WF_vars(New) /\ WF_vars(Closing)
    /\ \A c \in Clients :
          /\ WF_vars(StatementEnds(c))
          /\ SF_vars(Admitted(c))
          /\ WF_vars(RefusedByClosedPool(c))

Spec == Init /\ [][Next]_vars
FairSpec == Spec /\ Fairness

-----------------------------------------------------------------------------
(***************************************************************************)
(* Whichever step New failed at, and whatever was running when Close was   *)
(* called, nothing is left behind: no connection of either kind is open,   *)
(* and no statement of the pool runs on beyond the end of Close.           *)
(***************************************************************************)
NothingLeftOpen ==
    stage \in {"failed", "closed"} =>
        /\ conn # "open"
        /\ pool # "open"
        /\ dialled = 0
        /\ On("pool") = {}

(***************************************************************************)
(* Close comes to its end beside clients that keep calling: it waits for   *)
(* every running statement, and every path out of one gives its connection *)
(* back.                                                                   *)
(***************************************************************************)
CloseReturns == stage = "closePool" ~> stage = "closed"

(***************************************************************************)
(* A statement of the pool ends, in a rush for few connections as well as  *)
(* during Close.                                                           *)
(***************************************************************************)
EveryStatementEnds == \A c \in Clients : at[c] = "waiting" ~> at[c] = "idle"

(***************************************************************************)
(* The comment on TracerBypass: what setting up a connection sends does    *)
(* not land in a recording.  So every connection is dialled under the      *)
(* bypass and none in the context of a statement.                          *)
(***************************************************************************)
SetupStaysOutOfRecordings == ~recorded
=============================================================================
