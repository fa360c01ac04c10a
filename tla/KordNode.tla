------------------------------ MODULE KordNode ------------------------------
(***************************************************************************)
(* A KORD node from start to exit: RunNode (cli/node.go), the Kord service *)
(* with its HTTP server and the registry client it attaches lazily         *)
(* (kord/meta.go), and the mutexes a request holds on the way to that      *)
(* client: storeMtx of graph.Driver.Get, dbMtx of openDB and mtx of        *)
(* lazyRegistry, and then the lock of the node that hosts the service.     *)
(*                                                                         *)
(* The node is go-ethereum's node.Node as RunNode uses it: Start and Stop  *)
(* hold its lock throughout, and Attach takes it for reading.  All requests*)
(* are for one graph.                                                      *)
(*                                                                         *)
(* Definitions named "Bad" are mistakes the code could have been written   *)
(* with; no specification uses them.                                       *)
(***************************************************************************)
EXTENDS Naturals, Sequences

CONSTANTS
    Requests,   \* HTTP requests being handled
    Main,       \* the goroutine of RunNode
    Stopper,    \* the goroutine that calls node.Stop
    None,
    RootDapps,  \* may --root-dapp be given, may it be left out?
    MayFail     \* may listening, rpc calls, mining or deploying fail?

ASSUME ProcessesAssumption ==
    /\ Main \notin Requests
    /\ Stopper \notin Requests \cup {Main}
    /\ None \notin Requests \cup {Main, Stopper}
ASSUME OptionsAssumption == RootDapps \subseteq BOOLEAN /\ MayFail \in BOOLEAN

VARIABLES
    rootDapp,   \* config.RootDapp # ""
    lock,       \* node.lock: held for writing by "start" or "stop", or free
    server,     \* node.server # nil
    mpc,        \* where RunNode is
    spc,        \* where the call of node.Stop is
    cancelled,  \* ctx.Done() is closed
    serving,    \* the HTTP server accepts requests
    held,       \* who holds each of the three mutexes
    cached,     \* the graph is in Driver.stores ("store"), Driver.dbs ("db")
    client,     \* lazyRegistry.Registry # nil
    made,       \* registry clients made
    pc,         \* where a request is
    kind,       \* what it asks for
    pos         \* how many of its mutexes it has passed

nodeVars == <<rootDapp, lock, server, mpc, spc, cancelled, serving>>
reqVars  == <<held, cached, client, made, pc, kind, pos>>
vars == <<nodeVars, reqVars>>

Procs == Requests \cup {Main}
Mutexes == {"store", "db", "lazy"}

(* The mutexes on the way to the registry: Get opens a store, Create opens *)
(* the db itself, SetGraph goes straight to the registry.                  *)
Path(k) == CASE k = "get"    -> <<"store", "db", "lazy">>
             [] k = "create" -> <<"db", "lazy">>
             [] k = "set"    -> <<"lazy">>

Kinds == {"get", "create", "set"}

(* Every variable has its type, and a call is never past the last of its   *)
(* mutexes, even when the goroutine serves one request after another.      *)
TypeOK ==
    /\ rootDapp \in BOOLEAN
    /\ lock \in {"free", "start", "stop"}
    /\ server \in BOOLEAN
    /\ mpc \in {"init", "kord", "listen", "rpc", "abort", "mining",
                "deploy", "fail", "wait", "exit"}
    /\ spc \in {"idle", "lock", "shutdown", "stopped"}
    /\ cancelled \in BOOLEAN
    /\ serving \in BOOLEAN
    /\ held \in [Mutexes -> Procs \cup {None}]
    /\ cached \subseteq {"store", "db"}
    /\ client \in BOOLEAN
    /\ made \in Nat
    /\ pc \in [Procs -> {"idle", "lock", "attach", "open"}]
    /\ kind \in [Procs -> Kinds]
    /\ pos \in [Procs -> 0 .. 3]
    /\ \A r \in Procs : pos[r] <= Len(Path(kind[r]))
    /\ \A r \in Procs : pc[r] = "lock" => pos[r] < Len(Path(kind[r]))

Init ==
    /\ rootDapp \in RootDapps
    /\ lock = "free"
    /\ server = FALSE
    /\ mpc = "init"
    /\ spc = "idle"
    /\ cancelled = FALSE
    /\ serving = FALSE
    /\ held = [l \in Mutexes |-> None]
    /\ cached = {}
    /\ client = FALSE
    /\ made = 0
    /\ pc = [r \in Procs |-> "idle"]
    /\ kind = [r \in Procs |-> "get"]
    /\ pos = [r \in Procs |-> 0]

-----------------------------------------------------------------------------
(* A request on its way to the registry, also taken by setRootDapp.        *)

(* Bad: the place a previous call reached is kept.                         *)
BadBegin(r, k) ==
    /\ pc' = [pc EXCEPT ![r] = "lock"]
    /\ kind' = [kind EXCEPT ![r] = k]
    /\ UNCHANGED pos

Begin(r, k) ==
    /\ pc' = [pc EXCEPT ![r] = "lock"]
    /\ kind' = [kind EXCEPT ![r] = k]
    /\ pos' = [pos EXCEPT ![r] = 0]

Arrive(r, k) ==
    /\ serving /\ mpc # "exit"
    /\ pc[r] = "idle"
    /\ Begin(r, k)
    /\ UNCHANGED <<nodeVars, held, cached, client, made>>

NextMutex(r) == Path(kind[r])[pos[r] + 1]

(* Bad: lazyRegistry without its mutex.                                    *)
BadFree(l) == l = "lazy" \/ held[l] = None

Free(l) == held[l] = None

(* Get or openDB finds the graph, registry() the client: the mutex is      *)
(* taken and released at once.  A store or a db that is found ends the     *)
(* way to the registry, with the earlier mutex still held.                 *)
Hit(r) ==
    /\ pc[r] = "lock"
    /\ Free(NextMutex(r))
    /\ NextMutex(r) \in cached \/ (NextMutex(r) = "lazy" /\ client)
    /\ pc' = [pc EXCEPT ![r] = "open"]
    /\ UNCHANGED <<nodeVars, held, cached, client, made, kind, pos>>

Miss(r) ==
    /\ pc[r] = "lock"
    /\ Free(NextMutex(r))
    /\ NextMutex(r) \notin cached /\ ~(NextMutex(r) = "lazy" /\ client)
    /\ held' = [held EXCEPT ![NextMutex(r)] = r]
    /\ pos' = [pos EXCEPT ![r] = @ + 1]
    /\ pc' = [pc EXCEPT ![r] = IF NextMutex(r) = "lazy" THEN "attach" ELSE "lock"]
    /\ UNCHANGED <<nodeVars, cached, client, made, kind>>

(* The deferred Unlocks of everything r holds.                             *)
Release(r) == held' = [l \in Mutexes |-> IF held[l] = r THEN None ELSE held[l]]

(* stack.Attach on a running node, and registry.NewClient, which needs the *)
(* lock no more: one step, since nobody else looks at the client until the *)
(* mutex is released.                                                      *)
Attach(r) ==
    /\ pc[r] = "attach"
    /\ lock = "free"
    /\ server
    /\ client' = TRUE
    /\ made' = made + 1
    /\ held' = [held EXCEPT !["lazy"] = None]
    /\ pc' = [pc EXCEPT ![r] = "open"]
    /\ UNCHANGED <<nodeVars, cached, kind, pos>>

(* ErrNodeStopped, or NewClient fails: nothing is cached.                  *)
AttachFails(r) ==
    /\ pc[r] = "attach"
    /\ lock = "free"
    /\ ~server \/ MayFail
    /\ Release(r)
    /\ pc' = [pc EXCEPT ![r] = "idle"]
    /\ UNCHANGED <<nodeVars, cached, client, made, kind, pos>>

(* Bad: Get remembers the store before openDB has remembered the db.       *)
BadInnermost(r) == IF held["store"] = r THEN "store" ELSE "db"

Innermost(r) == IF held["db"] = r THEN "db" ELSE "store"

(* openDB subscribes, remembers the db and returns; then Get makes the     *)
(* store, remembers it and returns.  SetGraph remembers nothing.           *)
OpenGraph(r) ==
    /\ pc[r] = "open"
    /\ held[Innermost(r)] = r
    /\ cached' = cached \cup {Innermost(r)}
    /\ held' = [held EXCEPT ![Innermost(r)] = None]
    /\ pc' = [pc EXCEPT ![r] = IF \E l \in Mutexes \ {Innermost(r)} : held[l] = r
                               THEN "open" ELSE "idle"]
    /\ UNCHANGED <<nodeVars, client, made, kind, pos>>

CallReturns(r) ==
    /\ pc[r] = "open"
    /\ \A l \in Mutexes : held[l] # r
    /\ pc' = [pc EXCEPT ![r] = "idle"]
    /\ UNCHANGED <<nodeVars, held, cached, client, made, kind, pos>>

(* SetGraph has left the mutexes and waits in do() of the registry client, *)
(* for ever if the subscription to heads has died.                         *)
InDo(r) == pc[r] = "open" /\ kind[r] = "set"

(* The registry, Swarm or SQLite fails: an outer step is not done, what an *)
(* inner one remembered stays.                                             *)
OpenGraphFails(r) ==
    /\ pc[r] = "open"
    /\ MayFail
    /\ Release(r)
    /\ pc' = [pc EXCEPT ![r] = "idle"]
    /\ UNCHANGED <<nodeVars, cached, client, made, kind, pos>>

ProcStep(r) ==
    \/ Hit(r) \/ Miss(r) \/ Attach(r) \/ AttachFails(r)
    \/ OpenGraph(r) \/ CallReturns(r) \/ OpenGraphFails(r)

-----------------------------------------------------------------------------
(* RunNode.                                                                *)

(* stack.Start takes the lock and reaches Kord.Start.                      *)
NodeStart ==
    /\ mpc = "init"
    /\ lock = "free"
    /\ lock' = "start"
    /\ mpc' = "kord"
    /\ UNCHANGED <<rootDapp, server, spc, cancelled, serving, reqVars>>

(* Kord.Start calls setRootDapp, which parses the URI and opens the dapp's *)
(* graph.                                                                  *)
KordStart ==
    /\ mpc = "kord"
    /\ \/ /\ ~rootDapp
          /\ mpc' = "listen"
          /\ UNCHANGED <<pc, kind, pos>>
       \/ /\ rootDapp
          /\ Begin(Main, "get")
          /\ mpc' = "listen"
       \/ /\ rootDapp /\ MayFail
          /\ mpc' = "abort"
          /\ UNCHANGED <<pc, kind, pos>>
    /\ UNCHANGED <<rootDapp, lock, server, spc, cancelled, serving>>
    /\ UNCHANGED <<held, cached, client, made>>

(* Once setRootDapp has returned, the HTTP server accepts requests, with   *)
(* the lock still held.  Start fails when the dapp was not opened.         *)
Listen ==
    /\ mpc = "listen"
    /\ pc[Main] = "idle"
    /\ \/ /\ rootDapp => "store" \in cached
          /\ serving' = TRUE
          /\ mpc' = "rpc"
       \/ /\ MayFail
          /\ mpc' = "abort"
          /\ UNCHANGED serving
    /\ UNCHANGED <<rootDapp, lock, server, spc, cancelled, reqVars>>

(* Bad: Start returns without releasing the lock.                          *)
BadUnlockNode == lock' = lock

UnlockNode == lock' = "free"

(* startRPC, after which the node is running and the lock is released.     *)
StartRPC ==
    /\ mpc = "rpc"
    /\ \/ /\ server' = TRUE
          /\ UnlockNode
          /\ mpc' = "mining"
       \/ /\ MayFail
          /\ mpc' = "abort"
          /\ UNCHANGED <<server, lock>>
    /\ UNCHANGED <<rootDapp, spc, cancelled, serving, reqVars>>

InFlight == \E r \in Requests : pc[r] # "idle"

(* Bad: Shutdown with a context that has no deadline.                      *)
BadShutdownDeadline == FALSE

(* The five seconds of Kord.Stop are over.                                 *)
ShutdownDeadline == TRUE

(* http.Server.Shutdown returns once no request is in flight or at the     *)
(* deadline.                                                               *)
ShutdownDone == ~InFlight \/ ShutdownDeadline

(* Start failed: the services that were started are stopped and RunNode    *)
(* returns the error.                                                      *)
AbortStart ==
    /\ mpc = "abort"
    /\ ShutdownDone
    /\ serving' = FALSE
    /\ UnlockNode
    /\ mpc' = "exit"
    /\ UNCHANGED <<rootDapp, server, spc, cancelled, reqVars>>

(* startMining, and in dev mode the deployment of the contract.  When one  *)
(* fails RunNode stops the node itself and returns.                        *)
StartMining ==
    /\ mpc = "mining"
    /\ \/ mpc' = "deploy" /\ UNCHANGED spc
       \/ MayFail /\ mpc' = "fail" /\ spc' = "lock"
    /\ UNCHANGED <<rootDapp, lock, server, cancelled, serving, reqVars>>

(* registry.Deploy, which waits in do() like a set request.                *)
Deploy ==
    /\ mpc = "deploy"
    /\ \/ mpc' = "wait" /\ UNCHANGED spc
       \/ MayFail /\ mpc' = "fail" /\ spc' = "lock"
    /\ UNCHANGED <<rootDapp, lock, server, cancelled, serving, reqVars>>

(* The context is cancelled at any time; the goroutine that reacts to it   *)
(* is started only after the deployment.                                   *)
Cancel ==
    /\ ~cancelled
    /\ cancelled' = TRUE
    /\ UNCHANGED <<rootDapp, lock, server, mpc, spc, serving, reqVars>>

StopOnCancel ==
    /\ mpc = "wait" /\ cancelled
    /\ spc = "idle"
    /\ spc' = "lock"
    /\ UNCHANGED <<rootDapp, lock, server, mpc, cancelled, serving, reqVars>>

(* node.Stop takes the lock; Kord.Stop calls Shutdown, which closes the    *)
(* listener.                                                               *)
NodeStop ==
    /\ spc = "lock"
    /\ lock = "free"
    /\ lock' = "stop"
    /\ serving' = FALSE
    /\ spc' = "shutdown"
    /\ UNCHANGED <<rootDapp, server, mpc, cancelled, reqVars>>

(* Kord.Stop returns, the node is stopped and the lock released.           *)
ShutdownReturns ==
    /\ spc = "shutdown"
    /\ ShutdownDone
    /\ server' = FALSE
    /\ lock' = "free"
    /\ spc' = "stopped"
    /\ UNCHANGED <<rootDapp, mpc, cancelled, serving, reqVars>>

(* stack.Wait returns, or the error path's Stop does: the process ends.    *)
Exit ==
    /\ mpc \in {"wait", "fail"}
    /\ spc = "stopped"
    /\ mpc' = "exit"
    /\ UNCHANGED <<rootDapp, lock, server, spc, cancelled, serving, reqVars>>

-----------------------------------------------------------------------------
MainStep ==
    \/ NodeStart \/ KordStart \/ Listen \/ StartRPC \/ AbortStart
    \/ StartMining \/ Deploy \/ Exit

StopStep == StopOnCancel \/ NodeStop \/ ShutdownReturns

Next ==
    \/ MainStep \/ StopStep \/ Cancel
    \/ \E r \in Requests, k \in Kinds : Arrive(r, k)
    \/ mpc # "exit" /\ \E r \in Procs : ProcStep(r)

Spec == Init /\ [][Next]_vars

(* Every goroutine that can run does, and the mutexes and the node's lock  *)
(* do not starve who waits for them.  That do() returns is not assumed,    *)
(* neither for a set request nor for the deployment.                       *)
FairSpec ==
    /\ Spec
    /\ SF_vars(mpc # "deploy" /\ MainStep)
    /\ SF_vars(StopStep)
    /\ \A r \in Procs : SF_vars(mpc # "exit" /\ ~InDo(r) /\ ProcStep(r))

-----------------------------------------------------------------------------
(* The lazy registry attaches at most one client, whatever requests arrive *)
(* at the same time, and keeps it: a client has a goroutine and a          *)
(* subscription that nothing would close.                                  *)
OneClient == made <= 1 /\ (client <=> made = 1)

(* What the drivers remember agrees: a store has its db, since Get opened  *)
(* it through openDB, and a db was opened through a client, whatever failed*)
(* on the way and however Get, Create and setRootDapp interleave.          *)
CachesAgree ==
    /\ "store" \in cached => "db" \in cached
    /\ "db" \in cached => client

(* Who waits for whom: a call for a mutex or for the node's lock, RunNode  *)
(* and node.Stop for that lock, for each other and, in Shutdown, for the   *)
(* requests in flight.                                                     *)
LockHolder ==
    CASE lock = "start" -> Main [] lock = "stop" -> Stopper [] lock = "free" -> None

Awaits(x, y) ==
    \/ /\ x \in Procs
       /\ \/ pc[x] = "lock" /\ held[NextMutex(x)] = y
          \/ pc[x] = "attach" /\ LockHolder = y
    \/ /\ x = Main
       /\ \/ mpc = "init" /\ LockHolder = y
          \/ mpc = "fail" /\ spc # "stopped" /\ y = Stopper
          \/ mpc = "abort" /\ ~ShutdownDone /\ y \in Requests /\ pc[y] # "idle"
    \/ /\ x = Stopper
       /\ \/ spc = "lock" /\ LockHolder = y
          \/ spc = "shutdown" /\ ~ShutdownDone /\ y \in Requests /\ pc[y] # "idle"

Waiting ==
    LET goroutines == Procs \cup {Stopper}
    IN  {x \in goroutines : \E y \in goroutines : Awaits(x, y)}

Deadlocked(S) == S # {} /\ \A x \in S : \E y \in S : Awaits(x, y)

(* Requests, Start and Stop never wait for each other in a circle, over    *)
(* the three mutexes, the node's lock and Shutdown, but for one: Start     *)
(* itself, when it opens the graph of the root dapp and the lazy registry  *)
(* asks for the lock that Start holds.                                     *)
OnlyRootDappDeadlocks ==
    \A S \in SUBSET Waiting :
        Deadlocked(S) => Main \in S /\ rootDapp /\ mpc = "listen" /\ pc[Main] = "attach"

(* Without a root dapp stack.Start returns: the node runs, or RunNode exits *)
(* with the error, although requests that the service already accepts wait *)
(* for the lock that Start holds.                                          *)
StartReturns == (mpc = "kord" /\ ~rootDapp) ~> (server \/ mpc = "exit")

(* A request that arrived is answered unless the process exits, or it has  *)
(* come to wait for its own transaction, which is never in the way of the  *)
(* others.                                                                 *)
RequestReturns ==
    \A r \in Requests : pc[r] # "idle" ~> (pc[r] = "idle" \/ InDo(r) \/ mpc = "exit")

(* A cancelled node exits, although Stop holds the lock that requests in   *)
(* flight may be waiting for, and others never return from do().  Only the *)
(* deployment of the registry, which RunNode waits for itself, can keep it *)
(* from it.                                                                *)
CancelExits == (cancelled /\ ~rootDapp) ~> mpc \in {"exit", "deploy"}

(* "--root-dapp <uri>  Dapp to serve at root of KORD API": the node of that *)
(* option starts, or reports why it does not.                              *)
RootDappStarts == (mpc = "kord" /\ rootDapp) ~> (server \/ mpc = "exit")
=============================================================================
