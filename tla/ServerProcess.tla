----------------------------- MODULE ServerProcess -----------------------------
(***************************************************************************)
(* One API process from its start to its exit: the connection pool that    *)
(* all requests and jobs share (config/db.js), the graceful shutdown       *)
(* (server.js) and the scheduler it stops (jobs/scheduler.js).  Everything *)
(* runs on one thread: an action is what happens between two awaits.       *)
(*                                                                         *)
(* External: the ConnectionPool objects of mssql (pools) connect, fail to, *)
(* report errors after which they still serve, and close; the HTTP server  *)
(* of Node stops accepting at close() and calls back when its last         *)
(* request is answered.                                                    *)
(***************************************************************************)
EXTENDS Naturals, FiniteSets

CONSTANTS
    Requests,     \* HTTP requests
    Jobs,         \* ticks of the cron
    Pools,        \* ConnectionPool objects, each made once
    Nil,          \* null
    MaxQueries,   \* statements of a request or a job
    MaxFaults     \* bound on failed connects and statements, and pool errors

ASSUME ProcessAssumption ==
    /\ Nil \notin Pools /\ Requests \cap Jobs = {}
    /\ MaxQueries \in Nat \ {0} /\ MaxFaults \in Nat

VARIABLES
    (* config/db.js *)
    pool, poolPromise,
    (* the pools: "new", "connecting", "open", "failed", "closing", "closed" *)
    state,
    (* the requests and the jobs *)
    pc,           \* "new", "call" (getPool), "await", "query", "ok", "error"
    conn,         \* the pool it awaits or uses
    left,         \* statements still to run
    (* server.js *)
    process,      \* "up", "exit0", "exit1"
    shutdown,     \* "no", "draining" (server.close()), "closing" (closePool())
    faults,
    (* history *)
    disowned,     \* pools whose reference was dropped while they were alive
    cut           \* requests that met a pool which was being closed

poolVars == <<pool, poolPromise, state>>
callVars == <<pc, conn, left>>
serverVars == <<process, shutdown>>
vars == <<poolVars, callVars, serverVars, faults, disowned, cut>>

Callers == Requests \cup Jobs

TypeOK ==
    /\ {pool, poolPromise} \subseteq Pools \cup {Nil}
    /\ state \in [Pools -> {"new", "connecting", "open", "failed", "closing", "closed"}]
    /\ pc \in [Callers -> {"new", "call", "await", "query", "ok", "error"}]
    /\ conn \in [Callers -> Pools \cup {Nil}]
    /\ left \in [Callers -> 0..MaxQueries]
    /\ process \in {"up", "exit0", "exit1"}
    /\ shutdown \in {"no", "draining", "closing"}
    /\ faults \in 0..MaxFaults
    /\ disowned \subseteq Pools /\ cut \subseteq Requests

Init ==
    /\ pool = Nil /\ poolPromise = Nil
    /\ state = [p \in Pools |-> "new"]
    /\ pc = [c \in Callers |-> "new"]
    /\ conn = [c \in Callers |-> Nil]
    /\ left = [c \in Callers |-> 0]
    /\ process = "up" /\ shutdown = "no"
    /\ faults = 0 /\ disowned = {} /\ cut = {}

-----------------------------------------------------------------------------
(* Requests and jobs *)

(* A request comes in until server.close(), a job until stopScheduler().   *)
Arrive(c) ==
    /\ process = "up" /\ shutdown = "no"
    /\ pc[c] = "new"
    /\ pc' = [pc EXCEPT ![c] = "call"]
    /\ left' = [left EXCEPT ![c] = MaxQueries]
    /\ UNCHANGED <<conn, poolVars, serverVars, faults, disowned, cut>>

Connected == pool # Nil /\ state[pool] = "open"

Use(c, p, next) ==
    /\ process = "up" /\ pc[c] = "call"
    /\ conn' = [conn EXCEPT ![c] = p]
    /\ pc' = [pc EXCEPT ![c] = next]
    /\ UNCHANGED <<left, pool, serverVars, faults, disowned, cut>>

(* getPool(): the pool, or the connect under way, or a new connect.        *)
UsePool(c) ==
    /\ Connected
    /\ Use(c, pool, "query")
    /\ UNCHANGED <<poolPromise, state>>

JoinConnect(c) ==
    /\ ~Connected
    /\ poolPromise # Nil
    /\ Use(c, poolPromise, "await")
    /\ UNCHANGED <<poolPromise, state>>

(* Mutant: only the finished pool is remembered. *)
Unconnected == ~Connected

Alone == ~Connected /\ poolPromise = Nil

StartConnect(c, p) ==
    /\ Alone
    /\ state[p] = "new"
    /\ Use(c, p, "await")
    /\ state' = [state EXCEPT ![p] = "connecting"]
    /\ poolPromise' = p

End(c, outcome) ==
    /\ pc' = [pc EXCEPT ![c] = outcome]
    /\ conn' = [conn EXCEPT ![c] = Nil]
    /\ left' = [left EXCEPT ![c] = 0]

(* The promise a caller awaits has settled. *)
Resume(c) ==
    /\ process = "up" /\ pc[c] = "await"
    /\ state[conn[c]] # "connecting"
    /\ IF state[conn[c]] = "failed"
       THEN End(c, "error")
       ELSE /\ pc' = [pc EXCEPT ![c] = "query"]
            /\ UNCHANGED <<conn, left>>
    /\ UNCHANGED <<poolVars, serverVars, faults, disowned, cut>>

(* A statement of executeQuery() or of a transaction.  The next one asks   *)
(* getPool() anew, unless it belongs to the same transaction; an error     *)
(* ends the request with a 500, and the job.                               *)
Query(c) ==
    /\ process = "up" /\ pc[c] = "query"
    /\ \/ /\ state[conn[c]] = "open" /\ left[c] = 1
          /\ End(c, "ok")
          /\ UNCHANGED cut
       \/ /\ state[conn[c]] = "open" /\ left[c] > 1
          /\ left' = [left EXCEPT ![c] = @ - 1]
          /\ \/ pc' = [pc EXCEPT ![c] = "call"] /\ conn' = [conn EXCEPT ![c] = Nil]
             \/ UNCHANGED <<pc, conn>>
          /\ UNCHANGED cut
       \/ /\ state[conn[c]] # "open"
          /\ End(c, "error")
          /\ cut' = cut \cup ({c} \cap Requests)
    /\ UNCHANGED <<poolVars, serverVars, faults, disowned>>

(* It fails although the pool is open: refused, timed out, its connection  *)
(* lost.  A transaction is rolled back, and the error goes on either way.  *)
QueryFails(c) ==
    /\ process = "up" /\ pc[c] = "query"
    /\ state[conn[c]] = "open"
    /\ faults < MaxFaults /\ faults' = faults + 1
    /\ End(c, "error")
    /\ UNCHANGED <<poolVars, serverVars, disowned, cut>>

-----------------------------------------------------------------------------
(* The pools *)

Open(p) ==
    /\ process = "up" /\ state[p] = "connecting"
    /\ state' = [state EXCEPT ![p] = "open"]
    /\ pool' = p
    /\ disowned' = IF pool \in {Nil, p} THEN disowned ELSE disowned \cup {pool}
    /\ UNCHANGED <<poolPromise, callVars, serverVars, faults, cut>>

(* Mutant: the rejected promise is kept. *)
PromiseKept == poolPromise

PromiseForgotten == Nil

ConnectFails(p) ==
    /\ process = "up" /\ state[p] = "connecting"
    /\ faults < MaxFaults /\ faults' = faults + 1
    /\ state' = [state EXCEPT ![p] = "failed"]
    /\ poolPromise' = PromiseForgotten
    /\ disowned' = disowned \cup ({poolPromise} \ {p, Nil})
    /\ UNCHANGED <<pool, callVars, serverVars, cut>>

(* The 'error' handler of a pool drops whatever pool and connect there     *)
(* are, and closes neither.                                                *)
PoolError(p) ==
    /\ process = "up" /\ state[p] = "open"
    /\ faults < MaxFaults /\ faults' = faults + 1
    /\ pool' = Nil /\ poolPromise' = Nil
    /\ disowned' = disowned \cup ({p, pool, poolPromise} \ {Nil})
    /\ UNCHANGED <<state, callVars, serverVars, cut>>

-----------------------------------------------------------------------------
(* server.js *)

(* SIGINT or SIGTERM: stopScheduler(), server.close(), and the timer.      *)
Signal ==
    /\ process = "up" /\ shutdown = "no"
    /\ shutdown' = "draining"
    /\ UNCHANGED <<poolVars, callVars, process, faults, disowned, cut>>

Answered(r) == pc[r] \in {"new", "ok", "error"}

(* Mutant: the pool is closed without waiting for the requests. *)
DrainedAtOnce == TRUE

Drained == \A r \in Requests : Answered(r)

(* closePool() in the callback of server.close(); jobs may still run, and  *)
(* a connect under way is not waited for.                                  *)
ClosePool ==
    /\ process = "up" /\ shutdown = "draining" /\ Drained
    /\ shutdown' = "closing"
    /\ state' = IF pool = Nil THEN state ELSE [state EXCEPT ![pool] = "closing"]
    /\ UNCHANGED <<pool, poolPromise, callVars, process, faults, disowned, cut>>

(* pool.close() is over, or failed: process.exit(0) in any case.           *)
Exit ==
    /\ process = "up" /\ shutdown = "closing"
    /\ state' = IF pool = Nil THEN state ELSE [state EXCEPT ![pool] = "closed"]
    /\ pool' = Nil /\ poolPromise' = Nil
    /\ process' = "exit0"
    /\ UNCHANGED <<callVars, shutdown, faults, disowned, cut>>

(* The 10 seconds are over. *)
ForceExit ==
    /\ process = "up" /\ shutdown # "no"
    /\ process' = "exit1"
    /\ UNCHANGED <<poolVars, callVars, shutdown, faults, disowned, cut>>

Call(c) ==
    \/ UsePool(c)
    \/ JoinConnect(c)
    \/ \E p \in Pools : StartConnect(c, p)
    \/ Resume(c)
    \/ Query(c)
    \/ QueryFails(c)

Next ==
    \/ \E c \in Callers : Arrive(c) \/ Call(c)
    \/ \E p \in Pools : Open(p) \/ ConnectFails(p) \/ PoolError(p)
    \/ Signal \/ ClosePool \/ Exit \/ ForceExit

Spec == Init /\ [][Next]_vars

(* The event loop runs what is ready, and a connect settles: the driver    *)
(* has a timeout.  Nothing else is owed, not even the timer.               *)
FairSpec ==
    /\ Spec
    /\ \A c \in Callers : WF_vars(Call(c))
    /\ \A p \in Pools : WF_vars(Open(p))

-----------------------------------------------------------------------------
(* Properties *)

(* However many requests and jobs find no pool at a time, they share one   *)
(* connect: of the pools alive only those are more that an 'error' event   *)
(* made the process forget.                                                *)
OnePool ==
    Cardinality({p \in Pools : state[p] \in {"connecting", "open"}} \ disowned) <= 1

(* A graceful shutdown answers what it has accepted: no request meets a    *)
(* pool that is being closed, and none is open at exit 0 -- although jobs, *)
(* reconnects and pool errors go on meanwhile.                             *)
NobodyCutOff ==
    /\ cut = {}
    /\ process = "exit0" => \A r \in Requests : Answered(r)

(* No call is given the promise of a connect that has failed, and a caller *)
(* is refused only over a connect that failed while it waited, over a      *)
(* statement of its own, or, if it is a job, by the end of the shutdown.   *)
FailuresForgotten ==
    [][\A c \in Callers :
           /\ pc[c] = "call" /\ pc'[c] # "call" => state'[conn'[c]] \notin {"new", "failed"}
           /\ pc[c] # "error" /\ pc'[c] = "error" =>
                  \/ pc[c] = "await" /\ state[conn[c]] = "failed"
                  \/ pc[c] = "query" /\ faults' # faults
                  \/ c \in Jobs /\ shutdown = "closing"]_vars

(* What is left of a request or a job: a statement is a call, a wait and   *)
(* its run.                                                                *)
Work(c) ==
    3 * left[c] + CASE pc[c] = "call" -> 2 [] pc[c] = "await" -> 1 [] OTHER -> 0

(* Whatever becomes of the pools: each step of a caller brings it closer   *)
(* to its answer, and nothing takes it back.                               *)
CallsRunDown ==
    [][\A c \in Callers : pc[c] # "new" =>
           /\ Call(c) => Work(c)' < Work(c)
           /\ ~Call(c) => UNCHANGED <<pc[c], conn[c], left[c]>>]_vars

(* A database that was away does no lasting harm: once nothing fails any   *)
(* more, whoever asks for the pool gets its answer, if the process is not  *)
(* stopped.                                                                *)
Reconnects ==
    \A c \in Callers :
        faults = MaxFaults /\ pc[c] = "call"
            ~> pc[c] = "ok" \/ shutdown # "no"

-----------------------------------------------------------------------------
(* What a comment of the source claims, to check against the code *)

(* db.js: "Connection pool (kept open for the lifetime of the app)".       *)
PoolKept ==
    [][pool # Nil /\ process' = "up" => pool' = pool]_vars

=============================================================================
