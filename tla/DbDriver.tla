------------------------------ MODULE DbDriver ------------------------------
(***************************************************************************)
(* The SQL driver of db/db.go: named SQLite graph databases that are       *)
(* fetched from Swarm at the version the registry holds, and re-opened by  *)
(* one watcher goroutine per database when the registry publishes a new    *)
(* version.                                                                *)
(*                                                                         *)
(*   Openers  goroutines that call Driver.Open(name), keep the connection  *)
(*            and later call Conn.Close.  An opener has at most one        *)
(*            connection, which is identified by its opener.               *)
(*   Setters  goroutines that call Registry.SetGraph.                      *)
(*   Dbs      the *db values openDB allocates.  Each is also the identity  *)
(*            of its watcher goroutine.                                    *)
(*                                                                         *)
(* The registry is the one the tests of the repository run the driver      *)
(* against (testutil.Registry) when Subscribes is TRUE; when it is FALSE,  *)
(* SubscribeGraph does what registry.Client does today: nothing.           *)
(*                                                                         *)
(* A graph's Swarm hash is abstracted to the number of the SetGraph call   *)
(* that published it, 0 being the empty hash, so that "newer" can be said. *)
(***************************************************************************)
EXTENDS Naturals, FiniteSets

CONSTANTS
    Names,          \* the strings passed to Open
    Addrs,          \* Ethereum addresses
    HexToAddress,   \* common.HexToAddress: many spellings, one address
    Openers,
    Setters,
    Dbs,
    None,           \* no process, or no db
    Faults,         \* the operations that may fail
    Subscribes,     \* does SubscribeGraph register the channel?
    MaxSets         \* bound: the last version SetGraph publishes

FaultKinds == {"registry", "fetch", "sqlite"}

ASSUME NonEmptyAssumption == Names # {} /\ Addrs # {}
ASSUME HexToAddressAssumption == HexToAddress \in [Names -> Addrs]
ASSUME FaultsAssumption == Faults \subseteq FaultKinds
ASSUME SubscribesAssumption == Subscribes \in BOOLEAN
ASSUME MaxSetsAssumption == MaxSets \in Nat
ASSUME ProcessesAssumption ==
    /\ Openers \cap Setters = {}
    /\ Openers \cap Dbs = {}
    /\ Setters \cap Dbs = {}
    /\ None \notin Openers \cup Setters \cup Dbs

VARIABLES
    dbMtx,      \* Driver.dbMtx: the process that holds it, or None
    dbs,        \* Driver.dbs: name -> db, or None
    file,       \* the version of the file at path d.dir/name
    regMtx,     \* testutil.Registry.mtx
    hashes,     \* Registry.hashes: the version published for an address
    subs,       \* Registry.subs: the dbs whose updates channel is registered
    dname,      \* db.path: the name a db was opened for
    conns,      \* db.conns
    nilled,     \* db.conns has been set to nil
    connsMtx,   \* db.connsMtx
    wpc,        \* where the db's watcher goroutine is
    wver,       \* the hash it received
    wtodo,      \* the connections reopenConns has still to visit
    opc,        \* where an opener is
    oname,      \* the name it opens
    over,       \* the hash openDB read from the registry
    odb,        \* the db its connection belongs to
    handle,     \* the file version the connection's SQLite handle has open
    spc,        \* where a setter is
    saddr,      \* the address it publishes for
    sver,       \* the version it publishes
    stodo       \* the subscribers it has still to send to

driverVars == <<dbMtx, dbs, file>>
regVars    == <<regMtx, hashes, subs>>
dbVars     == <<dname, conns, nilled, connsMtx>>
watchVars  == <<wpc, wver, wtodo>>
openVars   == <<opc, oname, over, odb, handle>>
setVars    == <<spc, saddr, sver, stodo>>
vars == <<driverVars, regVars, dbVars, watchVars, openVars, setVars>>

WatcherStates == {"free", "select", "fetch", "reopen", "reopening", "unsub",
                  "close", "closing", "delete"}
OpenerStates  == {"idle", "lock", "graph", "fetch", "subscribe", "sqlite",
                  "add", "have", "remove", "panic"}
HasDb         == {"sqlite", "add", "have", "remove", "panic"}
SetterStates  == {"idle", "lock", "send"}

Version == Nat

(* Every variable has its type, and an opener past openDB has a db.        *)
TypeOK ==
    /\ dbMtx \in Openers \cup {None}
    /\ dbs \in [Names -> Dbs \cup {None}]
    /\ file \in [Names -> Version]
    /\ regMtx \in Setters \cup {None}
    /\ hashes \in [Addrs -> Version]
    /\ subs \in [Addrs -> SUBSET Dbs]
    /\ dname \in [Dbs -> Names]
    /\ conns \in [Dbs -> SUBSET Openers]
    /\ nilled \in [Dbs -> BOOLEAN]
    /\ connsMtx \in [Dbs -> BOOLEAN]
    /\ wpc \in [Dbs -> WatcherStates]
    /\ wver \in [Dbs -> Version]
    /\ wtodo \in [Dbs -> SUBSET Openers]
    /\ opc \in [Openers -> OpenerStates]
    /\ oname \in [Openers -> Names]
    /\ over \in [Openers -> Version]
    /\ odb \in [Openers -> Dbs \cup {None}]
    /\ handle \in [Openers -> Version]
    /\ spc \in [Setters -> SetterStates]
    /\ saddr \in [Setters -> Addrs]
    /\ sver \in [Setters -> Version]
    /\ stodo \in [Setters -> SUBSET Dbs]
    /\ \A p \in Openers : opc[p] \in HasDb => odb[p] # None

(* Placeholders for what a process that has not started refers to.         *)
AnyName == CHOOSE n \in Names : TRUE
AnyAddr == CHOOSE a \in Addrs : TRUE

Init ==
    /\ dbMtx = None
    /\ dbs = [n \in Names |-> None]
    /\ file = [n \in Names |-> 0]
    /\ regMtx = None
    /\ hashes = [a \in Addrs |-> 0]
    /\ subs = [a \in Addrs |-> {}]
    /\ dname = [d \in Dbs |-> AnyName]
    /\ conns = [d \in Dbs |-> {}]
    /\ nilled = [d \in Dbs |-> FALSE]
    /\ connsMtx = [d \in Dbs |-> FALSE]
    /\ wpc = [d \in Dbs |-> "free"]
    /\ wver = [d \in Dbs |-> 0]
    /\ wtodo = [d \in Dbs |-> {}]
    /\ opc = [p \in Openers |-> "idle"]
    /\ oname = [p \in Openers |-> AnyName]
    /\ over = [p \in Openers |-> 0]
    /\ odb = [p \in Openers |-> None]
    /\ handle = [p \in Openers |-> 0]
    /\ spc = [s \in Setters |-> "idle"]
    /\ saddr = [s \in Setters |-> AnyAddr]
    /\ sver = [s \in Setters |-> 0]
    /\ stodo = [s \in Setters |-> {}]

(* No goroutine can still refer to the *db value that d stands for.        *)
Unreferenced(d) == wpc[d] = "free" /\ \A p \in Openers : odb[p] # d

-----------------------------------------------------------------------------
(* Statements the actions are built from.  Each "Bad" definition is a      *)
(* mistake that statement could have been written with; no specification   *)
(* uses them.                                                              *)

(* Bad: no mutex in openDB.                                                *)
BadLockDbMtx(p) == dbMtx' = p

LockDbMtx(p) == dbMtx = None /\ dbMtx' = p

(* Bad: no deferred Unlock.                                                *)
BadUnlockDbMtx == dbMtx' = dbMtx

UnlockDbMtx == dbMtx' = None

(* Bad: the goroutine of the new db is never started.                      *)
BadStartWatcher(d) == wpc' = wpc

StartWatcher(d) == wpc' = [wpc EXCEPT ![d] = "select"]

(* Bad: newConn goes on after sqlite.Open failed.                          *)
BadReturnNoConn(p) ==
    /\ opc' = [opc EXCEPT ![p] = "add"]
    /\ odb' = [odb EXCEPT ![p] = None]

(* Open returns without a connection.                                      *)
ReturnNoConn(p) ==
    /\ opc' = [opc EXCEPT ![p] = "idle"]
    /\ odb' = [odb EXCEPT ![p] = None]

(* Bad: the connection is not registered.                                  *)
BadRegisterConn(p) == conns' = conns

RegisterConn(p) == conns' = [conns EXCEPT ![odb[p]] = @ \cup {p}]

LockRegMtx(s) == regMtx = None /\ regMtx' = s

(* Bad: the deferred function does not unsubscribe.                        *)
BadUnsubscribe(d) == subs' = subs

Unsubscribe(d) == subs' = [subs EXCEPT ![HexToAddress[dname[d]]] = @ \ {d}]

(* Bad: reopenConns does not lock connsMtx.                                *)
BadLockConnsMtx(d) == ~connsMtx[d] /\ connsMtx' = connsMtx

LockConnsMtx(d) == ~connsMtx[d] /\ connsMtx' = [connsMtx EXCEPT ![d] = TRUE]

(* Bad: close() drops the connections without closing them.                *)
BadAllConnsClosed(d) == TRUE

(* close() calls Conn.Close for every registered connection with connsMtx  *)
(* held, and Conn.Close locks connsMtx in removeConn: with a connection    *)
(* registered the loop body never returns, so only the empty map gets      *)
(* past it.                                                                *)
AllConnsClosed(d) == conns[d] = {}

-----------------------------------------------------------------------------
(* Driver.Open and openDB.                                                 *)

CallOpen(p, n) ==
    /\ opc[p] = "idle"
    /\ opc' = [opc EXCEPT ![p] = "lock"]
    /\ oname' = [oname EXCEPT ![p] = n]
    /\ UNCHANGED <<driverVars, regVars, dbVars, watchVars, setVars,
                   over, odb, handle>>

(* The db is open already: the mutex is taken and released at once.        *)
OpenDBHit(p) ==
    /\ opc[p] = "lock"
    /\ dbMtx = None
    /\ dbs[oname[p]] # None
    /\ odb' = [odb EXCEPT ![p] = dbs[oname[p]]]
    /\ opc' = [opc EXCEPT ![p] = "sqlite"]
    /\ UNCHANGED <<driverVars, regVars, dbVars, watchVars, setVars,
                   oname, over, handle>>

OpenDBMiss(p) ==
    /\ opc[p] = "lock"
    /\ dbs[oname[p]] = None
    /\ LockDbMtx(p)
    /\ opc' = [opc EXCEPT ![p] = "graph"]
    /\ UNCHANGED <<dbs, file, regVars, dbVars, watchVars, setVars,
                   oname, over, odb, handle>>

(* The registry is read while dbMtx is held.                               *)
RegistryGraph(p) ==
    /\ opc[p] = "graph"
    /\ regMtx = None
    /\ over' = [over EXCEPT ![p] = hashes[HexToAddress[oname[p]]]]
    /\ opc' = [opc EXCEPT ![p] = "fetch"]
    /\ UNCHANGED <<driverVars, regVars, dbVars, watchVars, setVars,
                   oname, odb, handle>>

(* fetchDB replaces the file at the path by renaming a temporary file.     *)
OpenerFetchDB(p) ==
    /\ opc[p] = "fetch"
    /\ file' = [file EXCEPT ![oname[p]] = over[p]]
    /\ opc' = [opc EXCEPT ![p] = "subscribe"]
    /\ UNCHANGED <<dbMtx, dbs, regVars, dbVars, watchVars, setVars,
                   oname, over, odb, handle>>

(* Graph or fetchDB fails: openDB returns, its deferred Unlock runs, and   *)
(* the file is left as it was.                                             *)
OpenDBFails(p) ==
    /\ \/ opc[p] = "graph" /\ regMtx = None /\ "registry" \in Faults
       \/ opc[p] = "fetch" /\ "fetch" \in Faults
    /\ UnlockDbMtx
    /\ opc' = [opc EXCEPT ![p] = "idle"]
    /\ UNCHANGED <<dbs, file, regVars, dbVars, watchVars, setVars,
                   oname, over, odb, handle>>

(* SubscribeGraph, newDB, the entry in Driver.dbs, the start of the        *)
(* watcher, and the return that releases dbMtx.  No registry of the        *)
(* repository returns an error from SubscribeGraph, so that there is no    *)
(* step for openDB's return of one.                                        *)
OpenDBSubscribe(p, d) ==
    /\ opc[p] = "subscribe"
    /\ regMtx = None
    /\ Unreferenced(d)
    /\ subs' = IF Subscribes
               THEN [subs EXCEPT ![HexToAddress[oname[p]]] = @ \cup {d}]
               ELSE subs
    /\ dbs' = [dbs EXCEPT ![oname[p]] = d]
    /\ dname' = [dname EXCEPT ![d] = oname[p]]
    /\ conns' = [conns EXCEPT ![d] = {}]
    /\ nilled' = [nilled EXCEPT ![d] = FALSE]
    /\ connsMtx' = [connsMtx EXCEPT ![d] = FALSE]
    /\ StartWatcher(d)
    /\ UnlockDbMtx
    /\ odb' = [odb EXCEPT ![p] = d]
    /\ opc' = [opc EXCEPT ![p] = "sqlite"]
    /\ UNCHANGED <<file, regMtx, hashes, wver, wtodo, setVars,
                   oname, over, handle>>

(* newConn opens the file as it is now, without any lock...                *)
SqliteOpen(p) ==
    /\ opc[p] = "sqlite"
    /\ handle' = [handle EXCEPT ![p] = file[dname[odb[p]]]]
    /\ opc' = [opc EXCEPT ![p] = "add"]
    /\ UNCHANGED <<driverVars, regVars, dbVars, watchVars, setVars,
                   oname, over, odb>>

SqliteOpenFails(p) ==
    /\ opc[p] = "sqlite"
    /\ "sqlite" \in Faults
    /\ ReturnNoConn(p)
    /\ UNCHANGED <<driverVars, regVars, dbVars, watchVars, setVars,
                   oname, over, handle>>

(* ...and registers the connection with the db in a later step.            *)
AddConn(p) ==
    /\ opc[p] = "add"
    /\ ~connsMtx[odb[p]]
    /\ ~nilled[odb[p]]
    /\ RegisterConn(p)
    /\ opc' = [opc EXCEPT ![p] = "have"]
    /\ UNCHANGED <<driverVars, regVars, dname, nilled, connsMtx, watchVars,
                   setVars, oname, over, odb, handle>>

(* A write to the nil map close() left behind panics; the deferred Unlock  *)
(* runs and the panic unwinds to the server that called Open.              *)
AddConnPanics(p) ==
    /\ opc[p] = "add"
    /\ ~connsMtx[odb[p]]
    /\ nilled[odb[p]]
    /\ opc' = [opc EXCEPT ![p] = "panic"]
    /\ UNCHANGED <<driverVars, regVars, dbVars, watchVars, setVars,
                   oname, over, odb, handle>>

Recover(p) ==
    /\ opc[p] = "panic"
    /\ ReturnNoConn(p)
    /\ UNCHANGED <<driverVars, regVars, dbVars, watchVars, setVars,
                   oname, over, handle>>

-----------------------------------------------------------------------------
(* Conn.Close.                                                             *)

CallConnClose(p) ==
    /\ opc[p] = "have"
    /\ opc' = [opc EXCEPT ![p] = "remove"]
    /\ UNCHANGED <<driverVars, regVars, dbVars, watchVars, setVars,
                   oname, over, odb, handle>>

RemoveConn(p) ==
    /\ opc[p] = "remove"
    /\ ~connsMtx[odb[p]]
    /\ conns' = [conns EXCEPT ![odb[p]] = @ \ {p}]
    /\ opc' = [opc EXCEPT ![p] = "idle"]
    /\ odb' = [odb EXCEPT ![p] = None]
    /\ UNCHANGED <<driverVars, regVars, dname, nilled, connsMtx, watchVars,
                   setVars, oname, over, handle>>

-----------------------------------------------------------------------------
(* Registry.SetGraph: the mutex is held until every subscriber of the      *)
(* address has received the hash on its unbuffered channel.                *)

CallSetGraph(s, a) ==
    /\ spc[s] = "idle"
    /\ spc' = [spc EXCEPT ![s] = "lock"]
    /\ saddr' = [saddr EXCEPT ![s] = a]
    /\ UNCHANGED <<driverVars, regVars, dbVars, watchVars, openVars,
                   sver, stodo>>

(* SigToPub rejects the signature: nothing is stored, nothing is sent.     *)
SetGraphRejected(s) ==
    /\ spc[s] = "lock"
    /\ regMtx = None
    /\ spc' = [spc EXCEPT ![s] = "idle"]
    /\ UNCHANGED <<driverVars, regVars, dbVars, watchVars, openVars,
                   saddr, sver, stodo>>

SetGraphStore(s) ==
    /\ spc[s] = "lock"
    /\ hashes[saddr[s]] < MaxSets
    /\ LockRegMtx(s)
    /\ hashes' = [hashes EXCEPT ![saddr[s]] = @ + 1]
    /\ sver' = [sver EXCEPT ![s] = hashes[saddr[s]] + 1]
    /\ stodo' = [stodo EXCEPT ![s] = subs[saddr[s]]]
    /\ spc' = [spc EXCEPT ![s] = "send"]
    /\ UNCHANGED <<driverVars, subs, dbVars, watchVars, openVars, saddr>>

(* The rendezvous of the send in SetGraph with the watcher's select.       *)
SendUpdate(s, d) ==
    /\ spc[s] = "send"
    /\ d \in stodo[s]
    /\ wpc[d] = "select"
    /\ stodo' = [stodo EXCEPT ![s] = @ \ {d}]
    /\ wver' = [wver EXCEPT ![d] = sver[s]]
    /\ wpc' = [wpc EXCEPT ![d] = "fetch"]
    /\ UNCHANGED <<driverVars, regVars, dbVars, wtodo, openVars,
                   spc, saddr, sver>>

SetGraphReturn(s) ==
    /\ spc[s] = "send"
    /\ stodo[s] = {}
    /\ regMtx' = None
    /\ spc' = [spc EXCEPT ![s] = "idle"]
    /\ UNCHANGED <<driverVars, hashes, subs, dbVars, watchVars, openVars,
                   saddr, sver, stodo>>

-----------------------------------------------------------------------------
(* The watcher goroutine of a db.                                          *)

WatcherFetchDB(d) ==
    /\ wpc[d] = "fetch"
    /\ file' = [file EXCEPT ![dname[d]] = wver[d]]
    /\ wpc' = [wpc EXCEPT ![d] = "reopen"]
    /\ UNCHANGED <<dbMtx, dbs, regVars, dbVars, wver, wtodo, openVars,
                   setVars>>

WatcherFetchFails(d) ==
    /\ wpc[d] = "fetch"
    /\ "fetch" \in Faults
    /\ wpc' = [wpc EXCEPT ![d] = "unsub"]
    /\ UNCHANGED <<driverVars, regVars, dbVars, wver, wtodo, openVars,
                   setVars>>

ReopenConns(d) ==
    /\ wpc[d] = "reopen"
    /\ LockConnsMtx(d)
    /\ wtodo' = [wtodo EXCEPT ![d] = conns[d]]
    /\ wpc' = [wpc EXCEPT ![d] = "reopening"]
    /\ UNCHANGED <<driverVars, regVars, dname, conns, nilled, wver, openVars,
                   setVars>>

ReopenConn(d, p) ==
    /\ wpc[d] = "reopening"
    /\ p \in wtodo[d]
    /\ handle' = [handle EXCEPT ![p] = file[dname[d]]]
    /\ wtodo' = [wtodo EXCEPT ![d] = @ \ {p}]
    /\ UNCHANGED <<driverVars, regVars, dbVars, wpc, wver, opc, oname, over,
                   odb, setVars>>

(* The loop ends, or sqlite.Open fails for one of the connections.         *)
ReopenReturns(d) ==
    /\ wpc[d] = "reopening"
    /\ \/ wtodo[d] = {} /\ wpc' = [wpc EXCEPT ![d] = "select"]
       \/ /\ wtodo[d] # {} /\ "sqlite" \in Faults
          /\ wpc' = [wpc EXCEPT ![d] = "unsub"]
    /\ connsMtx' = [connsMtx EXCEPT ![d] = FALSE]
    /\ wtodo' = [wtodo EXCEPT ![d] = {}]
    /\ UNCHANGED <<driverVars, regVars, dname, conns, nilled, wver, openVars,
                   setVars>>

(* The deferred function: sub.Close needs the registry's mutex.            *)
SubClose(d) ==
    /\ wpc[d] = "unsub"
    /\ regMtx = None
    /\ Unsubscribe(d)
    /\ wpc' = [wpc EXCEPT ![d] = "close"]
    /\ UNCHANGED <<driverVars, regMtx, hashes, dbVars, wver, wtodo, openVars,
                   setVars>>

DbCloseLock(d) ==
    /\ wpc[d] = "close"
    /\ LockConnsMtx(d)
    /\ wpc' = [wpc EXCEPT ![d] = "closing"]
    /\ UNCHANGED <<driverVars, regVars, dname, conns, nilled, wver, wtodo,
                   openVars, setVars>>

DbClose(d) ==
    /\ wpc[d] = "closing"
    /\ AllConnsClosed(d)
    /\ nilled' = [nilled EXCEPT ![d] = TRUE]
    /\ connsMtx' = [connsMtx EXCEPT ![d] = FALSE]
    /\ wpc' = [wpc EXCEPT ![d] = "delete"]
    /\ UNCHANGED <<driverVars, regVars, dname, conns, wver, wtodo, openVars,
                   setVars>>

DeleteDB(d) ==
    /\ wpc[d] = "delete"
    /\ dbMtx = None
    /\ dbs' = [dbs EXCEPT ![dname[d]] = None]
    /\ wpc' = [wpc EXCEPT ![d] = "free"]
    /\ UNCHANGED <<dbMtx, file, regVars, dbVars, wver, wtodo, openVars,
                   setVars>>

-----------------------------------------------------------------------------
OpenerStep(p) ==
    \/ OpenDBHit(p) \/ OpenDBMiss(p) \/ RegistryGraph(p) \/ OpenerFetchDB(p)
    \/ OpenDBFails(p)
    \/ \E d \in Dbs : OpenDBSubscribe(p, d)
    \/ SqliteOpen(p) \/ SqliteOpenFails(p)
    \/ AddConn(p) \/ AddConnPanics(p) \/ Recover(p)
    \/ RemoveConn(p)

SetterStep(s) ==
    \/ SetGraphRejected(s) \/ SetGraphStore(s) \/ SetGraphReturn(s)
    \/ \E d \in Dbs : SendUpdate(s, d)

WatcherStep(d) ==
    \/ WatcherFetchDB(d) \/ WatcherFetchFails(d)
    \/ ReopenConns(d) \/ ReopenReturns(d)
    \/ \E p \in Openers : ReopenConn(d, p)
    \/ SubClose(d) \/ DbCloseLock(d) \/ DbClose(d) \/ DeleteDB(d)

Next ==
    \/ \E p \in Openers :
          \/ \E n \in Names : CallOpen(p, n)
          \/ CallConnClose(p)
          \/ OpenerStep(p)
    \/ \E s \in Setters :
          \/ \E a \in Addrs : CallSetGraph(s, a)
          \/ SetterStep(s)
    \/ \E d \in Dbs : WatcherStep(d)

Spec == Init /\ [][Next]_vars

(* A goroutine that can run eventually does, and Go's mutexes hand over to *)
(* a waiter that has starved for a millisecond, so every wait for a mutex  *)
(* that is released again and again ends (strong fairness of the steps a   *)
(* goroutine takes).  Nobody is obliged to call Open, Close or SetGraph.   *)
Fairness ==
    /\ \A p \in Openers : SF_vars(OpenerStep(p))
    /\ \A s \in Setters : SF_vars(SetterStep(s))
    /\ \A d \in Dbs : SF_vars(WatcherStep(d))

FairSpec == Spec /\ Fairness

-----------------------------------------------------------------------------
(* Safety.                                                                 *)

(* The goroutines that may replace the file of name n: an opener that runs *)
(* openDB past its lookup, and the watcher of a db opened for n.           *)
Fetchers(n) ==
    {p \in Openers : opc[p] \in {"graph", "fetch", "subscribe"} /\ oname[p] = n}
        \cup {d \in Dbs : wpc[d] # "free" /\ dname[d] = n}

(* openDB fetches a name only while no db of that name has a watcher, and  *)
(* no two openers fetch it at once: fetchDB never has two concurrent       *)
(* writers for one path, through failures, closing and re-opening.         *)
OneFetcherPerPath ==
    \A n \in Names : \A x, y \in Fetchers(n) : x = y

(* A channel registered with the registry is always the channel of the db  *)
(* that Driver.dbs holds for a name of that address: SetGraph, which       *)
(* blocks on every registered channel, never sends to a db that was        *)
(* dropped from the map (openDB's deferred function unsubscribes first).   *)
SubscribersAreInTable ==
    \A a \in Addrs : \A d \in subs[a] :
        dbs[dname[d]] = d /\ HexToAddress[dname[d]] = a

(* A connection Open returned is registered with the db that Driver.dbs    *)
(* holds for its name, among those the db's watcher re-opens after a fetch *)
(* for as long as it runs: no close or re-open of the db orphans a         *)
(* connection.                                                             *)
OpenConnsAreRegistered ==
    \A p \in Openers :
        opc[p] = "have" =>
            /\ p \in conns[odb[p]]
            /\ dbs[dname[odb[p]]] = odb[p]
            /\ dname[odb[p]] = oname[p]

(* fetchDB never replaces a file by an older published version, whoever    *)
(* calls it: openDB with the hash it read from the registry, or a watcher  *)
(* with the hash it was sent.  ImplementsReplica, below, implies it.       *)
FileNeverRegresses ==
    [][\A n \in Names : file'[n] >= file[n]]_vars

(* What the users of a graph see: a connection is the opener's from        *)
(* sqlite.Open on until Conn.Close or a panic ends it.                     *)
HasConn == {"add", "have", "remove", "panic"}

Graphs ==
    INSTANCE Replica WITH published <- hashes, name <- oname, ver <- handle,
                          open <- {p \in Openers : opc[p] \in HasConn}

(* The driver implements Replica: every connection sees a version that was *)
(* published for its name, and neither a file nor a connection ever goes   *)
(* back to an older one, whatever fails and however Open, Close, SetGraph  *)
(* and the watchers interleave.                                            *)
ImplementsReplica == Graphs!Spec

-----------------------------------------------------------------------------
(* Who waits for whom.                                                     *)

AtDbMtx == {p \in Openers : opc[p] = "lock"} \cup {d \in Dbs : wpc[d] = "delete"}

AtRegMtx ==
    {p \in Openers : opc[p] \in {"graph", "subscribe"}}
        \cup {s \in Setters : spc[s] = "lock"} \cup {d \in Dbs : wpc[d] = "unsub"}

(* db.close() waits for the mutex it holds.                                *)
ClosesItself(d) == wpc[d] = "closing" /\ ~AllConnsClosed(d)

AtConnsMtx(d) ==
    {p \in Openers : opc[p] \in {"add", "remove"} /\ odb[p] = d}
        \cup {e \in {d} : wpc[e] \in {"reopen", "close"} \/ ClosesItself(e)}

(* Goroutine x cannot go on until y has done something: released a mutex,  *)
(* or come back to the select that receives from the registry.             *)
Awaits(x, y) ==
    \/ x \in AtDbMtx /\ dbMtx = y
    \/ x \in AtRegMtx /\ regMtx = y
    \/ y \in Dbs /\ connsMtx[y] /\ x \in AtConnsMtx(y)
    \/ x \in Setters /\ spc[x] = "send" /\ y \in stodo[x] /\ wpc[y] # "select"

Waiting ==
    LET goroutines == Openers \cup Setters \cup Dbs
    IN  {x \in goroutines : \E y \in goroutines : Awaits(x, y)}

Deadlocked(S) == S # {} /\ \A x \in S : \E y \in S : Awaits(x, y)

(* sub.Close waits for a SetGraph that waits to send to this watcher.      *)
UnsubscribesLate(d) ==
    wpc[d] = "unsub" /\ \E s \in Setters : spc[s] = "send" /\ d \in stodo[s]

(* Of all the ways Open, Conn.Close, SetGraph and the watchers could wait  *)
(* for each other in a circle over the driver's, the registry's and the    *)
(* dbs' mutexes and the update channels, only two exist, and both take a   *)
(* watcher that failed: db.close() with a connection registered, and       *)
(* sub.Close while SetGraph has still to send to the watcher.              *)
OnlyTwoDeadlocks ==
    \A S \in SUBSET Waiting :
        Deadlocked(S) => \E d \in S \cap Dbs : ClosesItself(d) \/ UnsubscribesLate(d)

-----------------------------------------------------------------------------
(* Liveness, under FairSpec.                                               *)

(* Driver.Open and Conn.Close return.                                      *)
OpenAndCloseReturn ==
    \A p \in Openers : opc[p] \notin {"idle", "have"} ~> opc[p] \in {"idle", "have"}

(* Registry.SetGraph returns: no subscriber keeps it waiting for ever.     *)
SetGraphReturns ==
    \A s \in Setters : spc[s] # "idle" ~> spc[s] = "idle"

(* "a connection which is re-opened if the underlying graph is updated":   *)
(* a connection that is open before version v is published has v or a      *)
(* later version open at some time after it, unless it is closed first.    *)
UpdateReachesConns ==
    \A p \in Openers : \A v \in 1 .. MaxSets :
        LET published == hashes[HexToAddress[oname[p]]]
        IN  [](opc[p] = "have" /\ published < v /\ <>(published >= v)
                 => <>(opc[p] # "have" \/ handle[p] >= v))

-----------------------------------------------------------------------------
(* "a connection which is re-opened if the underlying graph is updated",   *)
(* as the comment of Driver.Open says: whenever a connection's watcher has *)
(* finished with all it was sent, and no SetGraph is still sending, the    *)
(* connection has the published version open.  The code does not keep it.  *)
ConnsFollowRegistry ==
    \A p \in Openers :
        (/\ opc[p] = "have" /\ wpc[odb[p]] = "select"
         /\ \A s \in Setters : spc[s] # "send")
            => handle[p] = hashes[HexToAddress[oname[p]]]
=============================================================================
