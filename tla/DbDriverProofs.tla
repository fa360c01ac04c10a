--------------------------- MODULE DbDriverProofs ---------------------------
(* Proofs, for every value of the constants, of the safety properties of   *)
(* DbDriver.                                                               *)
EXTENDS DbDriver, TLAPS

(* An opener past the lookup of openDB holds dbMtx, and the name it opens  *)
(* is not in the table; a setter that is sending holds the registry mutex. *)
MutexInv ==
    /\ \A p \in Openers :
          opc[p] \in {"graph", "fetch", "subscribe"} =>
              dbMtx = p /\ dbs[oname[p]] = None
    /\ \A s \in Setters : spc[s] = "send" => regMtx = s

(* The entries of the table are the dbs whose watcher runs, each under the *)
(* name it was opened for.                                                 *)
TableInv ==
    /\ \A d \in Dbs : wpc[d] # "free" => dbs[dname[d]] = d
    /\ \A n \in Names :
          dbs[n] # None => wpc[dbs[n]] # "free" /\ dname[dbs[n]] = n

(* A subscribed db is open for a name of the address and has not reached   *)
(* the end of sub.Close; a setter sends to subscribers only.               *)
SubsInv ==
    /\ \A a \in Addrs : \A d \in subs[a] :
          /\ wpc[d] \in {"select", "fetch", "reopen", "reopening", "unsub"}
          /\ HexToAddress[dname[d]] = a
    /\ \A s \in Setters : spc[s] = "send" => stodo[s] \subseteq subs[saddr[s]]

(* No file is ahead of the registry, and a hash on its way into a file is  *)
(* between the two.                                                        *)
VersionInv ==
    /\ \A n \in Names : file[n] <= hashes[HexToAddress[n]]
    /\ \A p \in Openers :
          opc[p] = "fetch" =>
              /\ file[oname[p]] <= over[p]
              /\ over[p] <= hashes[HexToAddress[oname[p]]]
    /\ \A d \in Dbs :
          wpc[d] = "fetch" =>
              /\ file[dname[d]] <= wver[d]
              /\ wver[d] <= hashes[HexToAddress[dname[d]]]
    /\ \A s \in Setters : spc[s] = "send" => sver[s] = hashes[saddr[s]]

(* A db that an opener refers to keeps its name, and has a nil map once    *)
(* its watcher has closed it; a connection is registered until it is       *)
(* removed, and its db is not closed while it is.                          *)
ConnInv ==
    /\ \A d \in Dbs : wpc[d] = "delete" => nilled[d]
    /\ \A p \in Openers :
          /\ odb[p] # None /\ wpc[odb[p]] = "free" => nilled[odb[p]]
          /\ opc[p] \in HasDb => dname[odb[p]] = oname[p]
          /\ opc[p] \in {"have", "remove"} =>
                /\ p \in conns[odb[p]]
                /\ wpc[odb[p]] \notin {"delete", "free"}

(* A mutex is held by the one goroutine that is between its Lock and its   *)
(* Unlock.                                                                 *)
HolderInv ==
    /\ \A p \in Openers : dbMtx = p => opc[p] \in {"graph", "fetch", "subscribe"}
    /\ \A s \in Setters : regMtx = s => spc[s] = "send"
    /\ \A d \in Dbs : connsMtx[d] <=> wpc[d] \in {"reopening", "closing"}

(* A registered connection belongs to the db, and stays registered until   *)
(* reopenConns has visited it; a connection is never ahead of its file.    *)
ReopenInv ==
    /\ \A d \in Dbs : \A p \in conns[d] : odb[p] = d /\ opc[p] \in {"have", "remove"}
    /\ \A d \in Dbs : wpc[d] = "reopening" => wtodo[d] \subseteq conns[d]
    /\ \A p \in Openers : opc[p] \in HasConn => handle[p] <= file[oname[p]]

(* Without a failure no watcher ends, and without a subscription none is   *)
(* sent an update.                                                         *)
QuietInv ==
    /\ Faults = {} => \A d \in Dbs : wpc[d] \notin {"unsub", "close", "closing", "delete"}
    /\ ~Subscribes => /\ \A a \in Addrs : subs[a] = {}
                      /\ \A s \in Setters : stodo[s] = {}
                      /\ \A d \in Dbs : wpc[d] \in {"free", "select"}

(* The inductive invariant.                                                *)
DbInv ==
    /\ TypeOK /\ MutexInv /\ TableInv /\ SubsInv /\ VersionInv /\ ConnInv
    /\ HolderInv /\ ReopenInv /\ QuietInv

-----------------------------------------------------------------------------
(* A db whose watcher runs is the entry of its name, which is then taken.  *)
LEMMA LiveDbInTable ==
    ASSUME TableInv
    PROVE  \A d \in Dbs : wpc[d] # "free" => dbs[dname[d]] = d /\ dbs[dname[d]] # None
BY ProcessesAssumption DEF TableInv

(* Every step of an opener, a setter or a watcher keeps the types.         *)
LEMMA TypeStep ==
    ASSUME TypeOK, [Next]_vars
    PROVE  TypeOK'
<1> USE HexToAddressAssumption, ProcessesAssumption
<1> USE DEF TypeOK, Version, WatcherStates, OpenerStates, HasDb, SetterStates, driverVars, regVars, dbVars, watchVars, openVars, setVars
<1>1. ASSUME NEW p \in Openers, NEW n \in Names, CallOpen(p, n) PROVE TypeOK'
  BY <1>1 DEF CallOpen
<1>2. ASSUME NEW p \in Openers, OpenDBHit(p) PROVE TypeOK'
  BY <1>2 DEF OpenDBHit
<1>3. ASSUME NEW p \in Openers, OpenDBMiss(p) PROVE TypeOK'
  BY <1>3 DEF OpenDBMiss, LockDbMtx
<1>4. ASSUME NEW p \in Openers, RegistryGraph(p) PROVE TypeOK'
  BY <1>4 DEF RegistryGraph
<1>5. ASSUME NEW p \in Openers, OpenerFetchDB(p) PROVE TypeOK'
  BY <1>5 DEF OpenerFetchDB
<1>6. ASSUME NEW p \in Openers, OpenDBFails(p) PROVE TypeOK'
  BY <1>6 DEF OpenDBFails, UnlockDbMtx
<1>7. ASSUME NEW p \in Openers, NEW d \in Dbs, OpenDBSubscribe(p, d) PROVE TypeOK'
  BY <1>7 DEF OpenDBSubscribe, StartWatcher, UnlockDbMtx
<1>8. ASSUME NEW p \in Openers, SqliteOpen(p) PROVE TypeOK'
  BY <1>8 DEF SqliteOpen
<1>9. ASSUME NEW p \in Openers, SqliteOpenFails(p) PROVE TypeOK'
  BY <1>9 DEF SqliteOpenFails, ReturnNoConn
<1>10. ASSUME NEW p \in Openers, AddConn(p) PROVE TypeOK'
  BY <1>10 DEF AddConn, RegisterConn
<1>11. ASSUME NEW p \in Openers, AddConnPanics(p) PROVE TypeOK'
  BY <1>11 DEF AddConnPanics
<1>12. ASSUME NEW p \in Openers, Recover(p) PROVE TypeOK'
  BY <1>12 DEF Recover, ReturnNoConn
<1>13. ASSUME NEW p \in Openers, CallConnClose(p) PROVE TypeOK'
  BY <1>13 DEF CallConnClose
<1>14. ASSUME NEW p \in Openers, RemoveConn(p) PROVE TypeOK'
  BY <1>14 DEF RemoveConn
<1>15. ASSUME NEW s \in Setters, NEW a \in Addrs, CallSetGraph(s, a) PROVE TypeOK'
  BY <1>15 DEF CallSetGraph
<1>16. ASSUME NEW s \in Setters, SetGraphRejected(s) PROVE TypeOK'
  BY <1>16 DEF SetGraphRejected
<1>17. ASSUME NEW s \in Setters, SetGraphStore(s) PROVE TypeOK'
  BY <1>17 DEF SetGraphStore, LockRegMtx
<1>18. ASSUME NEW s \in Setters, NEW d \in Dbs, SendUpdate(s, d) PROVE TypeOK'
  BY <1>18 DEF SendUpdate
<1>19. ASSUME NEW s \in Setters, SetGraphReturn(s) PROVE TypeOK'
  BY <1>19 DEF SetGraphReturn
<1>20. ASSUME NEW d \in Dbs, WatcherFetchDB(d) PROVE TypeOK'
  BY <1>20 DEF WatcherFetchDB
<1>21. ASSUME NEW d \in Dbs, WatcherFetchFails(d) PROVE TypeOK'
  BY <1>21 DEF WatcherFetchFails
<1>22. ASSUME NEW d \in Dbs, ReopenConns(d) PROVE TypeOK'
  BY <1>22 DEF ReopenConns, LockConnsMtx
<1>23. ASSUME NEW d \in Dbs, NEW p \in Openers, ReopenConn(d, p) PROVE TypeOK'
  BY <1>23 DEF ReopenConn
<1>24. ASSUME NEW d \in Dbs, ReopenReturns(d) PROVE TypeOK'
  BY <1>24 DEF ReopenReturns
<1>25. ASSUME NEW d \in Dbs, SubClose(d) PROVE TypeOK'
  BY <1>25 DEF SubClose, Unsubscribe
<1>26. ASSUME NEW d \in Dbs, DbCloseLock(d) PROVE TypeOK'
  BY <1>26 DEF DbCloseLock, LockConnsMtx
<1>27. ASSUME NEW d \in Dbs, DbClose(d) PROVE TypeOK'
  BY <1>27 DEF DbClose, AllConnsClosed
<1>28. ASSUME NEW d \in Dbs, DeleteDB(d) PROVE TypeOK'
  BY <1>28 DEF DeleteDB
<1>29. CASE UNCHANGED vars
  BY <1>29 DEF vars
<1> QED
  BY <1>1, <1>2, <1>3, <1>4, <1>5, <1>6, <1>7, <1>8, <1>9, <1>10, <1>11, <1>12, <1>13, <1>14, <1>15, <1>16, <1>17, <1>18, <1>19, <1>20, <1>21, <1>22, <1>23, <1>24, <1>25, <1>26, <1>27, <1>28, <1>29
     DEF Next, OpenerStep, SetterStep, WatcherStep

(* Every step keeps the ownership of the two mutexes: dbMtx is taken only  *)
(* when it is free, and an entry of the table is set only by its holder.   *)
LEMMA MutexStep ==
    ASSUME TypeOK, TypeOK', MutexInv, TableInv, [Next]_vars
    PROVE  MutexInv'
<1> USE HexToAddressAssumption, ProcessesAssumption
<1> USE DEF MutexInv, TableInv, TypeOK, WatcherStates, OpenerStates, HasDb, SetterStates, Version, driverVars, regVars, dbVars, watchVars, openVars, setVars
<1>1. ASSUME NEW p \in Openers, NEW n \in Names, CallOpen(p, n) PROVE MutexInv'
  BY <1>1 DEF CallOpen
<1>2. ASSUME NEW p \in Openers, OpenDBHit(p) PROVE MutexInv'
  BY <1>2 DEF OpenDBHit
<1>3. ASSUME NEW p \in Openers, OpenDBMiss(p) PROVE MutexInv'
  BY <1>3 DEF OpenDBMiss, LockDbMtx
<1>4. ASSUME NEW p \in Openers, RegistryGraph(p) PROVE MutexInv'
  BY <1>4 DEF RegistryGraph
<1>5. ASSUME NEW p \in Openers, OpenerFetchDB(p) PROVE MutexInv'
  BY <1>5 DEF OpenerFetchDB
<1>6. ASSUME NEW p \in Openers, OpenDBFails(p) PROVE MutexInv'
  BY <1>6 DEF OpenDBFails, UnlockDbMtx
<1>7. ASSUME NEW p \in Openers, NEW d \in Dbs, OpenDBSubscribe(p, d) PROVE MutexInv'
  BY <1>7 DEF OpenDBSubscribe, StartWatcher, UnlockDbMtx
<1>8. ASSUME NEW p \in Openers, SqliteOpen(p) PROVE MutexInv'
  BY <1>8 DEF SqliteOpen
<1>9. ASSUME NEW p \in Openers, SqliteOpenFails(p) PROVE MutexInv'
  BY <1>9 DEF SqliteOpenFails, ReturnNoConn
<1>10. ASSUME NEW p \in Openers, AddConn(p) PROVE MutexInv'
  BY <1>10 DEF AddConn, RegisterConn
<1>11. ASSUME NEW p \in Openers, AddConnPanics(p) PROVE MutexInv'
  BY <1>11 DEF AddConnPanics
<1>12. ASSUME NEW p \in Openers, Recover(p) PROVE MutexInv'
  BY <1>12 DEF Recover, ReturnNoConn
<1>13. ASSUME NEW p \in Openers, CallConnClose(p) PROVE MutexInv'
  BY <1>13 DEF CallConnClose
<1>14. ASSUME NEW p \in Openers, RemoveConn(p) PROVE MutexInv'
  BY <1>14 DEF RemoveConn
<1>15. ASSUME NEW s \in Setters, NEW a \in Addrs, CallSetGraph(s, a) PROVE MutexInv'
  BY <1>15 DEF CallSetGraph
<1>16. ASSUME NEW s \in Setters, SetGraphRejected(s) PROVE MutexInv'
  BY <1>16 DEF SetGraphRejected
<1>17. ASSUME NEW s \in Setters, SetGraphStore(s) PROVE MutexInv'
  BY <1>17 DEF SetGraphStore, LockRegMtx
<1>18. ASSUME NEW s \in Setters, NEW d \in Dbs, SendUpdate(s, d) PROVE MutexInv'
  BY <1>18 DEF SendUpdate
<1>19. ASSUME NEW s \in Setters, SetGraphReturn(s) PROVE MutexInv'
  BY <1>19 DEF SetGraphReturn
<1>20. ASSUME NEW d \in Dbs, WatcherFetchDB(d) PROVE MutexInv'
  BY <1>20 DEF WatcherFetchDB
<1>21. ASSUME NEW d \in Dbs, WatcherFetchFails(d) PROVE MutexInv'
  BY <1>21 DEF WatcherFetchFails
<1>22. ASSUME NEW d \in Dbs, ReopenConns(d) PROVE MutexInv'
  BY <1>22 DEF ReopenConns, LockConnsMtx
<1>23. ASSUME NEW d \in Dbs, NEW p \in Openers, ReopenConn(d, p) PROVE MutexInv'
  BY <1>23 DEF ReopenConn
<1>24. ASSUME NEW d \in Dbs, ReopenReturns(d) PROVE MutexInv'
  BY <1>24 DEF ReopenReturns
<1>25. ASSUME NEW d \in Dbs, SubClose(d) PROVE MutexInv'
  BY <1>25 DEF SubClose, Unsubscribe
<1>26. ASSUME NEW d \in Dbs, DbCloseLock(d) PROVE MutexInv'
  BY <1>26 DEF DbCloseLock, LockConnsMtx
<1>27. ASSUME NEW d \in Dbs, DbClose(d) PROVE MutexInv'
  BY <1>27 DEF DbClose, AllConnsClosed
<1>28. ASSUME NEW d \in Dbs, DeleteDB(d) PROVE MutexInv'
  BY <1>28 DEF DeleteDB
<1>29. CASE UNCHANGED vars
  BY <1>29 DEF vars
<1> QED
  BY <1>1, <1>2, <1>3, <1>4, <1>5, <1>6, <1>7, <1>8, <1>9, <1>10, <1>11, <1>12, <1>13, <1>14, <1>15, <1>16, <1>17, <1>18, <1>19, <1>20, <1>21, <1>22, <1>23, <1>24, <1>25, <1>26, <1>27, <1>28, <1>29
     DEF Next, OpenerStep, SetterStep, WatcherStep

(* Every step keeps the table and the running watchers in correspondence.  *)
LEMMA TableStep ==
    ASSUME TypeOK, TypeOK', MutexInv, TableInv, [Next]_vars
    PROVE  TableInv'
<1> USE HexToAddressAssumption, ProcessesAssumption
<1> USE DEF MutexInv, TableInv, TypeOK, WatcherStates, OpenerStates, HasDb, SetterStates, Version, driverVars, regVars, dbVars, watchVars, openVars, setVars
<1>1. ASSUME NEW p \in Openers, NEW n \in Names, CallOpen(p, n) PROVE TableInv'
  BY <1>1 DEF CallOpen
<1>2. ASSUME NEW p \in Openers, OpenDBHit(p) PROVE TableInv'
  BY <1>2 DEF OpenDBHit
<1>3. ASSUME NEW p \in Openers, OpenDBMiss(p) PROVE TableInv'
  BY <1>3 DEF OpenDBMiss, LockDbMtx
<1>4. ASSUME NEW p \in Openers, RegistryGraph(p) PROVE TableInv'
  BY <1>4 DEF RegistryGraph
<1>5. ASSUME NEW p \in Openers, OpenerFetchDB(p) PROVE TableInv'
  BY <1>5 DEF OpenerFetchDB
<1>6. ASSUME NEW p \in Openers, OpenDBFails(p) PROVE TableInv'
  BY <1>6 DEF OpenDBFails, UnlockDbMtx
<1>7. ASSUME NEW p \in Openers, NEW d \in Dbs, OpenDBSubscribe(p, d) PROVE TableInv'
  BY <1>7 DEF OpenDBSubscribe, StartWatcher, UnlockDbMtx, Unreferenced
<1>8. ASSUME NEW p \in Openers, SqliteOpen(p) PROVE TableInv'
  BY <1>8 DEF SqliteOpen
<1>9. ASSUME NEW p \in Openers, SqliteOpenFails(p) PROVE TableInv'
  BY <1>9 DEF SqliteOpenFails, ReturnNoConn
<1>10. ASSUME NEW p \in Openers, AddConn(p) PROVE TableInv'
  BY <1>10 DEF AddConn, RegisterConn
<1>11. ASSUME NEW p \in Openers, AddConnPanics(p) PROVE TableInv'
  BY <1>11 DEF AddConnPanics
<1>12. ASSUME NEW p \in Openers, Recover(p) PROVE TableInv'
  BY <1>12 DEF Recover, ReturnNoConn
<1>13. ASSUME NEW p \in Openers, CallConnClose(p) PROVE TableInv'
  BY <1>13 DEF CallConnClose
<1>14. ASSUME NEW p \in Openers, RemoveConn(p) PROVE TableInv'
  BY <1>14 DEF RemoveConn
<1>15. ASSUME NEW s \in Setters, NEW a \in Addrs, CallSetGraph(s, a) PROVE TableInv'
  BY <1>15 DEF CallSetGraph
<1>16. ASSUME NEW s \in Setters, SetGraphRejected(s) PROVE TableInv'
  BY <1>16 DEF SetGraphRejected
<1>17. ASSUME NEW s \in Setters, SetGraphStore(s) PROVE TableInv'
  BY <1>17 DEF SetGraphStore, LockRegMtx
<1>18. ASSUME NEW s \in Setters, NEW d \in Dbs, SendUpdate(s, d) PROVE TableInv'
  BY <1>18 DEF SendUpdate
<1>19. ASSUME NEW s \in Setters, SetGraphReturn(s) PROVE TableInv'
  BY <1>19 DEF SetGraphReturn
<1>20. ASSUME NEW d \in Dbs, WatcherFetchDB(d) PROVE TableInv'
  BY <1>20 DEF WatcherFetchDB
<1>21. ASSUME NEW d \in Dbs, WatcherFetchFails(d) PROVE TableInv'
  BY <1>21 DEF WatcherFetchFails
<1>22. ASSUME NEW d \in Dbs, ReopenConns(d) PROVE TableInv'
  BY <1>22 DEF ReopenConns, LockConnsMtx
<1>23. ASSUME NEW d \in Dbs, NEW p \in Openers, ReopenConn(d, p) PROVE TableInv'
  BY <1>23 DEF ReopenConn
<1>24. ASSUME NEW d \in Dbs, ReopenReturns(d) PROVE TableInv'
  BY <1>24 DEF ReopenReturns
<1>25. ASSUME NEW d \in Dbs, SubClose(d) PROVE TableInv'
  BY <1>25 DEF SubClose, Unsubscribe
<1>26. ASSUME NEW d \in Dbs, DbCloseLock(d) PROVE TableInv'
  BY <1>26 DEF DbCloseLock, LockConnsMtx
<1>27. ASSUME NEW d \in Dbs, DbClose(d) PROVE TableInv'
  BY <1>27 DEF DbClose, AllConnsClosed
<1>28. ASSUME NEW d \in Dbs, DeleteDB(d) PROVE TableInv'
  BY <1>28 DEF DeleteDB
<1>29. CASE UNCHANGED vars
  BY <1>29 DEF vars
<1> QED
  BY <1>1, <1>2, <1>3, <1>4, <1>5, <1>6, <1>7, <1>8, <1>9, <1>10, <1>11, <1>12, <1>13, <1>14, <1>15, <1>16, <1>17, <1>18, <1>19, <1>20, <1>21, <1>22, <1>23, <1>24, <1>25, <1>26, <1>27, <1>28, <1>29
     DEF Next, OpenerStep, SetterStep, WatcherStep

(* Every step keeps the subscriptions to running watchers: the set of an   *)
(* address changes only while no setter is sending.                        *)
LEMMA SubsStep ==
    ASSUME TypeOK, TypeOK', MutexInv, SubsInv, [Next]_vars
    PROVE  SubsInv'
<1> USE HexToAddressAssumption, ProcessesAssumption
<1> USE DEF MutexInv, SubsInv, TypeOK, WatcherStates, OpenerStates, HasDb, SetterStates, Version, driverVars, regVars, dbVars, watchVars, openVars, setVars
<1>1. ASSUME NEW p \in Openers, NEW n \in Names, CallOpen(p, n) PROVE SubsInv'
  BY <1>1 DEF CallOpen
<1>2. ASSUME NEW p \in Openers, OpenDBHit(p) PROVE SubsInv'
  BY <1>2 DEF OpenDBHit
<1>3. ASSUME NEW p \in Openers, OpenDBMiss(p) PROVE SubsInv'
  BY <1>3 DEF OpenDBMiss, LockDbMtx
<1>4. ASSUME NEW p \in Openers, RegistryGraph(p) PROVE SubsInv'
  BY <1>4 DEF RegistryGraph
<1>5. ASSUME NEW p \in Openers, OpenerFetchDB(p) PROVE SubsInv'
  BY <1>5 DEF OpenerFetchDB
<1>6. ASSUME NEW p \in Openers, OpenDBFails(p) PROVE SubsInv'
  BY <1>6 DEF OpenDBFails, UnlockDbMtx
<1>7. ASSUME NEW p \in Openers, NEW d \in Dbs, OpenDBSubscribe(p, d) PROVE SubsInv'
  BY <1>7 DEF OpenDBSubscribe, StartWatcher, UnlockDbMtx, Unreferenced
<1>8. ASSUME NEW p \in Openers, SqliteOpen(p) PROVE SubsInv'
  BY <1>8 DEF SqliteOpen
<1>9. ASSUME NEW p \in Openers, SqliteOpenFails(p) PROVE SubsInv'
  BY <1>9 DEF SqliteOpenFails, ReturnNoConn
<1>10. ASSUME NEW p \in Openers, AddConn(p) PROVE SubsInv'
  BY <1>10 DEF AddConn, RegisterConn
<1>11. ASSUME NEW p \in Openers, AddConnPanics(p) PROVE SubsInv'
  BY <1>11 DEF AddConnPanics
<1>12. ASSUME NEW p \in Openers, Recover(p) PROVE SubsInv'
  BY <1>12 DEF Recover, ReturnNoConn
<1>13. ASSUME NEW p \in Openers, CallConnClose(p) PROVE SubsInv'
  BY <1>13 DEF CallConnClose
<1>14. ASSUME NEW p \in Openers, RemoveConn(p) PROVE SubsInv'
  BY <1>14 DEF RemoveConn
<1>15. ASSUME NEW s \in Setters, NEW a \in Addrs, CallSetGraph(s, a) PROVE SubsInv'
  BY <1>15 DEF CallSetGraph
<1>16. ASSUME NEW s \in Setters, SetGraphRejected(s) PROVE SubsInv'
  BY <1>16 DEF SetGraphRejected
<1>17. ASSUME NEW s \in Setters, SetGraphStore(s) PROVE SubsInv'
  BY <1>17 DEF SetGraphStore, LockRegMtx
<1>18. ASSUME NEW s \in Setters, NEW d \in Dbs, SendUpdate(s, d) PROVE SubsInv'
  BY <1>18 DEF SendUpdate
<1>19. ASSUME NEW s \in Setters, SetGraphReturn(s) PROVE SubsInv'
  BY <1>19 DEF SetGraphReturn
<1>20. ASSUME NEW d \in Dbs, WatcherFetchDB(d) PROVE SubsInv'
  BY <1>20 DEF WatcherFetchDB
<1>21. ASSUME NEW d \in Dbs, WatcherFetchFails(d) PROVE SubsInv'
  BY <1>21 DEF WatcherFetchFails
<1>22. ASSUME NEW d \in Dbs, ReopenConns(d) PROVE SubsInv'
  BY <1>22 DEF ReopenConns, LockConnsMtx
<1>23. ASSUME NEW d \in Dbs, NEW p \in Openers, ReopenConn(d, p) PROVE SubsInv'
  BY <1>23 DEF ReopenConn
<1>24. ASSUME NEW d \in Dbs, ReopenReturns(d) PROVE SubsInv'
  BY <1>24 DEF ReopenReturns
<1>25. ASSUME NEW d \in Dbs, SubClose(d) PROVE SubsInv'
  BY <1>25 DEF SubClose, Unsubscribe
<1>26. ASSUME NEW d \in Dbs, DbCloseLock(d) PROVE SubsInv'
  BY <1>26 DEF DbCloseLock, LockConnsMtx
<1>27. ASSUME NEW d \in Dbs, DbClose(d) PROVE SubsInv'
  BY <1>27 DEF DbClose, AllConnsClosed
<1>28. ASSUME NEW d \in Dbs, DeleteDB(d) PROVE SubsInv'
  BY <1>28 DEF DeleteDB
<1>29. CASE UNCHANGED vars
  BY <1>29 DEF vars
<1> QED
  BY <1>1, <1>2, <1>3, <1>4, <1>5, <1>6, <1>7, <1>8, <1>9, <1>10, <1>11, <1>12, <1>13, <1>14, <1>15, <1>16, <1>17, <1>18, <1>19, <1>20, <1>21, <1>22, <1>23, <1>24, <1>25, <1>26, <1>27, <1>28, <1>29
     DEF Next, OpenerStep, SetterStep, WatcherStep

(* Every step keeps the order of versions: file, hash under way, registry. *)
LEMMA VersionStep ==
    ASSUME TypeOK, TypeOK', MutexInv, TableInv, SubsInv, VersionInv, [Next]_vars
    PROVE  VersionInv'
<1> USE HexToAddressAssumption, ProcessesAssumption
<1> USE DEF MutexInv, TableInv, SubsInv, VersionInv, TypeOK, WatcherStates, OpenerStates, HasDb, SetterStates, Version, driverVars, regVars, dbVars, watchVars, openVars, setVars
<1>1. ASSUME NEW p \in Openers, NEW n \in Names, CallOpen(p, n) PROVE VersionInv'
  BY <1>1 DEF CallOpen
<1>2. ASSUME NEW p \in Openers, OpenDBHit(p) PROVE VersionInv'
  BY <1>2 DEF OpenDBHit
<1>3. ASSUME NEW p \in Openers, OpenDBMiss(p) PROVE VersionInv'
  BY <1>3 DEF OpenDBMiss, LockDbMtx
<1>4. ASSUME NEW p \in Openers, RegistryGraph(p) PROVE VersionInv'
  BY <1>4 DEF RegistryGraph
<1>5. ASSUME NEW p \in Openers, OpenerFetchDB(p) PROVE VersionInv'
  <2>1. /\ dbMtx = p /\ dbs[oname[p]] = None
        /\ file[oname[p]] <= over[p]
        /\ over[p] <= hashes[HexToAddress[oname[p]]]
    BY <1>5 DEF OpenerFetchDB
  <2>2. \A n \in Names : file'[n] <= hashes'[HexToAddress[n]]
    BY <1>5, <2>1 DEF OpenerFetchDB
  <2>3. \A q \in Openers : opc'[q] # "fetch"
    <3> SUFFICES ASSUME NEW q \in Openers, q # p PROVE opc[q] # "fetch"
      BY <1>5 DEF OpenerFetchDB
    <3> QED
      BY <2>1
  <2>4. \A d \in Dbs : wpc[d] = "fetch" => dname[d] # oname[p]
    BY <2>1, LiveDbInTable
  <2> QED
    BY <1>5, <2>2, <2>3, <2>4 DEF OpenerFetchDB
<1>6. ASSUME NEW p \in Openers, OpenDBFails(p) PROVE VersionInv'
  BY <1>6 DEF OpenDBFails, UnlockDbMtx
<1>7. ASSUME NEW p \in Openers, NEW d \in Dbs, OpenDBSubscribe(p, d) PROVE VersionInv'
  BY <1>7 DEF OpenDBSubscribe, StartWatcher, UnlockDbMtx, Unreferenced
<1>8. ASSUME NEW p \in Openers, SqliteOpen(p) PROVE VersionInv'
  BY <1>8 DEF SqliteOpen
<1>9. ASSUME NEW p \in Openers, SqliteOpenFails(p) PROVE VersionInv'
  BY <1>9 DEF SqliteOpenFails, ReturnNoConn
<1>10. ASSUME NEW p \in Openers, AddConn(p) PROVE VersionInv'
  BY <1>10 DEF AddConn, RegisterConn
<1>11. ASSUME NEW p \in Openers, AddConnPanics(p) PROVE VersionInv'
  BY <1>11 DEF AddConnPanics
<1>12. ASSUME NEW p \in Openers, Recover(p) PROVE VersionInv'
  BY <1>12 DEF Recover, ReturnNoConn
<1>13. ASSUME NEW p \in Openers, CallConnClose(p) PROVE VersionInv'
  BY <1>13 DEF CallConnClose
<1>14. ASSUME NEW p \in Openers, RemoveConn(p) PROVE VersionInv'
  BY <1>14 DEF RemoveConn
<1>15. ASSUME NEW s \in Setters, NEW a \in Addrs, CallSetGraph(s, a) PROVE VersionInv'
  BY <1>15 DEF CallSetGraph
<1>16. ASSUME NEW s \in Setters, SetGraphRejected(s) PROVE VersionInv'
  BY <1>16 DEF SetGraphRejected
<1>17. ASSUME NEW s \in Setters, SetGraphStore(s) PROVE VersionInv'
  BY <1>17 DEF SetGraphStore, LockRegMtx
<1>18. ASSUME NEW s \in Setters, NEW d \in Dbs, SendUpdate(s, d) PROVE VersionInv'
  BY <1>18 DEF SendUpdate
<1>19. ASSUME NEW s \in Setters, SetGraphReturn(s) PROVE VersionInv'
  BY <1>19 DEF SetGraphReturn
<1>20. ASSUME NEW d \in Dbs, WatcherFetchDB(d) PROVE VersionInv'
  <2>1. /\ dbs[dname[d]] = d
        /\ file[dname[d]] <= wver[d]
        /\ wver[d] <= hashes[HexToAddress[dname[d]]]
    BY <1>20 DEF WatcherFetchDB
  <2>2. \A n \in Names : file'[n] <= hashes'[HexToAddress[n]]
    BY <1>20, <2>1 DEF WatcherFetchDB
  <2>3. \A p \in Openers : opc[p] = "fetch" => oname[p] # dname[d]
    BY <2>1
  <2>4. \A e \in Dbs : wpc'[e] = "fetch" => wpc[e] = "fetch" /\ dname[e] # dname[d]
    BY <1>20, <2>1 DEF WatcherFetchDB
  <2> QED
    BY <1>20, <2>2, <2>3, <2>4 DEF WatcherFetchDB
<1>21. ASSUME NEW d \in Dbs, WatcherFetchFails(d) PROVE VersionInv'
  BY <1>21 DEF WatcherFetchFails
<1>22. ASSUME NEW d \in Dbs, ReopenConns(d) PROVE VersionInv'
  BY <1>22 DEF ReopenConns, LockConnsMtx
<1>23. ASSUME NEW d \in Dbs, NEW p \in Openers, ReopenConn(d, p) PROVE VersionInv'
  BY <1>23 DEF ReopenConn
<1>24. ASSUME NEW d \in Dbs, ReopenReturns(d) PROVE VersionInv'
  BY <1>24 DEF ReopenReturns
<1>25. ASSUME NEW d \in Dbs, SubClose(d) PROVE VersionInv'
  BY <1>25 DEF SubClose, Unsubscribe
<1>26. ASSUME NEW d \in Dbs, DbCloseLock(d) PROVE VersionInv'
  BY <1>26 DEF DbCloseLock, LockConnsMtx
<1>27. ASSUME NEW d \in Dbs, DbClose(d) PROVE VersionInv'
  BY <1>27 DEF DbClose, AllConnsClosed
<1>28. ASSUME NEW d \in Dbs, DeleteDB(d) PROVE VersionInv'
  BY <1>28 DEF DeleteDB
<1>29. CASE UNCHANGED vars
  BY <1>29 DEF vars
<1> QED
  BY <1>1, <1>2, <1>3, <1>4, <1>5, <1>6, <1>7, <1>8, <1>9, <1>10, <1>11, <1>12, <1>13, <1>14, <1>15, <1>16, <1>17, <1>18, <1>19, <1>20, <1>21, <1>22, <1>23, <1>24, <1>25, <1>26, <1>27, <1>28, <1>29
     DEF Next, OpenerStep, SetterStep, WatcherStep

(* Every step keeps the connections registered with a db that is not       *)
(* closed.                                                                 *)
LEMMA ConnStep ==
    ASSUME TypeOK, TypeOK', MutexInv, TableInv, ConnInv, [Next]_vars
    PROVE  ConnInv'
<1> USE HexToAddressAssumption, ProcessesAssumption
<1> USE DEF MutexInv, TableInv, ConnInv, TypeOK, WatcherStates, OpenerStates, HasDb, SetterStates, Version, driverVars, regVars, dbVars, watchVars, openVars, setVars
<1>1. ASSUME NEW p \in Openers, NEW n \in Names, CallOpen(p, n) PROVE ConnInv'
  BY <1>1 DEF CallOpen
<1>2. ASSUME NEW p \in Openers, OpenDBHit(p) PROVE ConnInv'
  BY <1>2 DEF OpenDBHit
<1>3. ASSUME NEW p \in Openers, OpenDBMiss(p) PROVE ConnInv'
  BY <1>3 DEF OpenDBMiss, LockDbMtx
<1>4. ASSUME NEW p \in Openers, RegistryGraph(p) PROVE ConnInv'
  BY <1>4 DEF RegistryGraph
<1>5. ASSUME NEW p \in Openers, OpenerFetchDB(p) PROVE ConnInv'
  BY <1>5 DEF OpenerFetchDB
<1>6. ASSUME NEW p \in Openers, OpenDBFails(p) PROVE ConnInv'
  BY <1>6 DEF OpenDBFails, UnlockDbMtx
<1>7. ASSUME NEW p \in Openers, NEW d \in Dbs, OpenDBSubscribe(p, d) PROVE ConnInv'
  BY <1>7 DEF OpenDBSubscribe, StartWatcher, UnlockDbMtx, Unreferenced
<1>8. ASSUME NEW p \in Openers, SqliteOpen(p) PROVE ConnInv'
  BY <1>8 DEF SqliteOpen
<1>9. ASSUME NEW p \in Openers, SqliteOpenFails(p) PROVE ConnInv'
  BY <1>9 DEF SqliteOpenFails, ReturnNoConn
<1>10. ASSUME NEW p \in Openers, AddConn(p) PROVE ConnInv'
  BY <1>10 DEF AddConn, RegisterConn
<1>11. ASSUME NEW p \in Openers, AddConnPanics(p) PROVE ConnInv'
  BY <1>11 DEF AddConnPanics
<1>12. ASSUME NEW p \in Openers, Recover(p) PROVE ConnInv'
  BY <1>12 DEF Recover, ReturnNoConn
<1>13. ASSUME NEW p \in Openers, CallConnClose(p) PROVE ConnInv'
  BY <1>13 DEF CallConnClose
<1>14. ASSUME NEW p \in Openers, RemoveConn(p) PROVE ConnInv'
  BY <1>14 DEF RemoveConn
<1>15. ASSUME NEW s \in Setters, NEW a \in Addrs, CallSetGraph(s, a) PROVE ConnInv'
  BY <1>15 DEF CallSetGraph
<1>16. ASSUME NEW s \in Setters, SetGraphRejected(s) PROVE ConnInv'
  BY <1>16 DEF SetGraphRejected
<1>17. ASSUME NEW s \in Setters, SetGraphStore(s) PROVE ConnInv'
  BY <1>17 DEF SetGraphStore, LockRegMtx
<1>18. ASSUME NEW s \in Setters, NEW d \in Dbs, SendUpdate(s, d) PROVE ConnInv'
  BY <1>18 DEF SendUpdate
<1>19. ASSUME NEW s \in Setters, SetGraphReturn(s) PROVE ConnInv'
  BY <1>19 DEF SetGraphReturn
<1>20. ASSUME NEW d \in Dbs, WatcherFetchDB(d) PROVE ConnInv'
  BY <1>20 DEF WatcherFetchDB
<1>21. ASSUME NEW d \in Dbs, WatcherFetchFails(d) PROVE ConnInv'
  BY <1>21 DEF WatcherFetchFails
<1>22. ASSUME NEW d \in Dbs, ReopenConns(d) PROVE ConnInv'
  BY <1>22 DEF ReopenConns, LockConnsMtx
<1>23. ASSUME NEW d \in Dbs, NEW p \in Openers, ReopenConn(d, p) PROVE ConnInv'
  BY <1>23 DEF ReopenConn
<1>24. ASSUME NEW d \in Dbs, ReopenReturns(d) PROVE ConnInv'
  BY <1>24 DEF ReopenReturns
<1>25. ASSUME NEW d \in Dbs, SubClose(d) PROVE ConnInv'
  BY <1>25 DEF SubClose, Unsubscribe
<1>26. ASSUME NEW d \in Dbs, DbCloseLock(d) PROVE ConnInv'
  BY <1>26 DEF DbCloseLock, LockConnsMtx
<1>27. ASSUME NEW d \in Dbs, DbClose(d) PROVE ConnInv'
  BY <1>27 DEF DbClose, AllConnsClosed
<1>28. ASSUME NEW d \in Dbs, DeleteDB(d) PROVE ConnInv'
  BY <1>28 DEF DeleteDB
<1>29. CASE UNCHANGED vars
  BY <1>29 DEF vars
<1> QED
  BY <1>1, <1>2, <1>3, <1>4, <1>5, <1>6, <1>7, <1>8, <1>9, <1>10, <1>11, <1>12, <1>13, <1>14, <1>15, <1>16, <1>17, <1>18, <1>19, <1>20, <1>21, <1>22, <1>23, <1>24, <1>25, <1>26, <1>27, <1>28, <1>29
     DEF Next, OpenerStep, SetterStep, WatcherStep

(* Every step keeps the holders of the mutexes inside them.                *)
LEMMA HolderStep ==
    ASSUME TypeOK, TypeOK', MutexInv, HolderInv, [Next]_vars
    PROVE  HolderInv'
<1> USE HexToAddressAssumption, ProcessesAssumption
<1> USE DEF MutexInv, HolderInv, TypeOK, WatcherStates, OpenerStates, HasDb, SetterStates, Version, driverVars, regVars, dbVars, watchVars, openVars, setVars
<1>1. ASSUME NEW p \in Openers, NEW n \in Names, CallOpen(p, n) PROVE HolderInv'
  BY <1>1 DEF CallOpen
<1>2. ASSUME NEW p \in Openers, OpenDBHit(p) PROVE HolderInv'
  BY <1>2 DEF OpenDBHit
<1>3. ASSUME NEW p \in Openers, OpenDBMiss(p) PROVE HolderInv'
  BY <1>3 DEF OpenDBMiss, LockDbMtx
<1>4. ASSUME NEW p \in Openers, RegistryGraph(p) PROVE HolderInv'
  BY <1>4 DEF RegistryGraph
<1>5. ASSUME NEW p \in Openers, OpenerFetchDB(p) PROVE HolderInv'
  BY <1>5 DEF OpenerFetchDB
<1>6. ASSUME NEW p \in Openers, OpenDBFails(p) PROVE HolderInv'
  BY <1>6 DEF OpenDBFails, UnlockDbMtx
<1>7. ASSUME NEW p \in Openers, NEW d \in Dbs, OpenDBSubscribe(p, d) PROVE HolderInv'
  BY <1>7 DEF OpenDBSubscribe, StartWatcher, UnlockDbMtx, Unreferenced
<1>8. ASSUME NEW p \in Openers, SqliteOpen(p) PROVE HolderInv'
  BY <1>8 DEF SqliteOpen
<1>9. ASSUME NEW p \in Openers, SqliteOpenFails(p) PROVE HolderInv'
  BY <1>9 DEF SqliteOpenFails, ReturnNoConn
<1>10. ASSUME NEW p \in Openers, AddConn(p) PROVE HolderInv'
  BY <1>10 DEF AddConn, RegisterConn
<1>11. ASSUME NEW p \in Openers, AddConnPanics(p) PROVE HolderInv'
  BY <1>11 DEF AddConnPanics
<1>12. ASSUME NEW p \in Openers, Recover(p) PROVE HolderInv'
  BY <1>12 DEF Recover, ReturnNoConn
<1>13. ASSUME NEW p \in Openers, CallConnClose(p) PROVE HolderInv'
  BY <1>13 DEF CallConnClose
<1>14. ASSUME NEW p \in Openers, RemoveConn(p) PROVE HolderInv'
  BY <1>14 DEF RemoveConn
<1>15. ASSUME NEW s \in Setters, NEW a \in Addrs, CallSetGraph(s, a) PROVE HolderInv'
  BY <1>15 DEF CallSetGraph
<1>16. ASSUME NEW s \in Setters, SetGraphRejected(s) PROVE HolderInv'
  BY <1>16 DEF SetGraphRejected
<1>17. ASSUME NEW s \in Setters, SetGraphStore(s) PROVE HolderInv'
  BY <1>17 DEF SetGraphStore, LockRegMtx
<1>18. ASSUME NEW s \in Setters, NEW d \in Dbs, SendUpdate(s, d) PROVE HolderInv'
  BY <1>18 DEF SendUpdate
<1>19. ASSUME NEW s \in Setters, SetGraphReturn(s) PROVE HolderInv'
  BY <1>19 DEF SetGraphReturn
<1>20. ASSUME NEW d \in Dbs, WatcherFetchDB(d) PROVE HolderInv'
  BY <1>20 DEF WatcherFetchDB
<1>21. ASSUME NEW d \in Dbs, WatcherFetchFails(d) PROVE HolderInv'
  BY <1>21 DEF WatcherFetchFails
<1>22. ASSUME NEW d \in Dbs, ReopenConns(d) PROVE HolderInv'
  BY <1>22 DEF ReopenConns, LockConnsMtx
<1>23. ASSUME NEW d \in Dbs, NEW p \in Openers, ReopenConn(d, p) PROVE HolderInv'
  BY <1>23 DEF ReopenConn
<1>24. ASSUME NEW d \in Dbs, ReopenReturns(d) PROVE HolderInv'
  BY <1>24 DEF ReopenReturns
<1>25. ASSUME NEW d \in Dbs, SubClose(d) PROVE HolderInv'
  BY <1>25 DEF SubClose, Unsubscribe
<1>26. ASSUME NEW d \in Dbs, DbCloseLock(d) PROVE HolderInv'
  BY <1>26 DEF DbCloseLock, LockConnsMtx
<1>27. ASSUME NEW d \in Dbs, DbClose(d) PROVE HolderInv'
  BY <1>27 DEF DbClose, AllConnsClosed
<1>28. ASSUME NEW d \in Dbs, DeleteDB(d) PROVE HolderInv'
  BY <1>28 DEF DeleteDB
<1>29. CASE UNCHANGED vars
  BY <1>29 DEF vars
<1> QED
  BY <1>1, <1>2, <1>3, <1>4, <1>5, <1>6, <1>7, <1>8, <1>9, <1>10, <1>11, <1>12, <1>13, <1>14, <1>15, <1>16, <1>17, <1>18, <1>19, <1>20, <1>21, <1>22, <1>23, <1>24, <1>25, <1>26, <1>27, <1>28, <1>29
     DEF Next, OpenerStep, SetterStep, WatcherStep

(* Every step keeps the connections with their db and behind their file.   *)
LEMMA ReopenStep ==
    ASSUME TypeOK, TypeOK', VersionInv, ConnInv, HolderInv, ReopenInv, [Next]_vars
    PROVE  ReopenInv'
<1> USE HexToAddressAssumption, ProcessesAssumption
<1> USE DEF VersionInv, ConnInv, HolderInv, ReopenInv, HasConn, TypeOK, WatcherStates, OpenerStates, HasDb, SetterStates, Version, driverVars, regVars, dbVars, watchVars, openVars, setVars
<1>1. ASSUME NEW p \in Openers, NEW n \in Names, CallOpen(p, n) PROVE ReopenInv'
  BY <1>1 DEF CallOpen
<1>2. ASSUME NEW p \in Openers, OpenDBHit(p) PROVE ReopenInv'
  BY <1>2 DEF OpenDBHit
<1>3. ASSUME NEW p \in Openers, OpenDBMiss(p) PROVE ReopenInv'
  BY <1>3 DEF OpenDBMiss, LockDbMtx
<1>4. ASSUME NEW p \in Openers, RegistryGraph(p) PROVE ReopenInv'
  BY <1>4 DEF RegistryGraph
<1>5. ASSUME NEW p \in Openers, OpenerFetchDB(p) PROVE ReopenInv'
  BY <1>5 DEF OpenerFetchDB
<1>6. ASSUME NEW p \in Openers, OpenDBFails(p) PROVE ReopenInv'
  BY <1>6 DEF OpenDBFails, UnlockDbMtx
<1>7. ASSUME NEW p \in Openers, NEW d \in Dbs, OpenDBSubscribe(p, d) PROVE ReopenInv'
  BY <1>7 DEF OpenDBSubscribe, StartWatcher, UnlockDbMtx, Unreferenced
<1>8. ASSUME NEW p \in Openers, SqliteOpen(p) PROVE ReopenInv'
  BY <1>8 DEF SqliteOpen
<1>9. ASSUME NEW p \in Openers, SqliteOpenFails(p) PROVE ReopenInv'
  BY <1>9 DEF SqliteOpenFails, ReturnNoConn
<1>10. ASSUME NEW p \in Openers, AddConn(p) PROVE ReopenInv'
  BY <1>10 DEF AddConn, RegisterConn
<1>11. ASSUME NEW p \in Openers, AddConnPanics(p) PROVE ReopenInv'
  BY <1>11 DEF AddConnPanics
<1>12. ASSUME NEW p \in Openers, Recover(p) PROVE ReopenInv'
  BY <1>12 DEF Recover, ReturnNoConn
<1>13. ASSUME NEW p \in Openers, CallConnClose(p) PROVE ReopenInv'
  BY <1>13 DEF CallConnClose
<1>14. ASSUME NEW p \in Openers, RemoveConn(p) PROVE ReopenInv'
  BY <1>14 DEF RemoveConn
<1>15. ASSUME NEW s \in Setters, NEW a \in Addrs, CallSetGraph(s, a) PROVE ReopenInv'
  BY <1>15 DEF CallSetGraph
<1>16. ASSUME NEW s \in Setters, SetGraphRejected(s) PROVE ReopenInv'
  BY <1>16 DEF SetGraphRejected
<1>17. ASSUME NEW s \in Setters, SetGraphStore(s) PROVE ReopenInv'
  BY <1>17 DEF SetGraphStore, LockRegMtx
<1>18. ASSUME NEW s \in Setters, NEW d \in Dbs, SendUpdate(s, d) PROVE ReopenInv'
  BY <1>18 DEF SendUpdate
<1>19. ASSUME NEW s \in Setters, SetGraphReturn(s) PROVE ReopenInv'
  BY <1>19 DEF SetGraphReturn
<1>20. ASSUME NEW d \in Dbs, WatcherFetchDB(d) PROVE ReopenInv'
  BY <1>20 DEF WatcherFetchDB
<1>21. ASSUME NEW d \in Dbs, WatcherFetchFails(d) PROVE ReopenInv'
  BY <1>21 DEF WatcherFetchFails
<1>22. ASSUME NEW d \in Dbs, ReopenConns(d) PROVE ReopenInv'
  BY <1>22 DEF ReopenConns, LockConnsMtx
<1>23. ASSUME NEW d \in Dbs, NEW p \in Openers, ReopenConn(d, p) PROVE ReopenInv'
  BY <1>23 DEF ReopenConn
<1>24. ASSUME NEW d \in Dbs, ReopenReturns(d) PROVE ReopenInv'
  BY <1>24 DEF ReopenReturns
<1>25. ASSUME NEW d \in Dbs, SubClose(d) PROVE ReopenInv'
  BY <1>25 DEF SubClose, Unsubscribe
<1>26. ASSUME NEW d \in Dbs, DbCloseLock(d) PROVE ReopenInv'
  BY <1>26 DEF DbCloseLock, LockConnsMtx
<1>27. ASSUME NEW d \in Dbs, DbClose(d) PROVE ReopenInv'
  BY <1>27 DEF DbClose, AllConnsClosed
<1>28. ASSUME NEW d \in Dbs, DeleteDB(d) PROVE ReopenInv'
  BY <1>28 DEF DeleteDB
<1>29. CASE UNCHANGED vars
  BY <1>29 DEF vars
<1> QED
  BY <1>1, <1>2, <1>3, <1>4, <1>5, <1>6, <1>7, <1>8, <1>9, <1>10, <1>11, <1>12, <1>13, <1>14, <1>15, <1>16, <1>17, <1>18, <1>19, <1>20, <1>21, <1>22, <1>23, <1>24, <1>25, <1>26, <1>27, <1>28, <1>29
     DEF Next, OpenerStep, SetterStep, WatcherStep

(* Every step keeps the watchers quiet.                                    *)
LEMMA QuietStep ==
    ASSUME TypeOK, TypeOK', QuietInv, [Next]_vars
    PROVE  QuietInv'
<1> USE HexToAddressAssumption, ProcessesAssumption
<1> USE DEF QuietInv, TypeOK, WatcherStates, OpenerStates, HasDb, SetterStates, Version, driverVars, regVars, dbVars, watchVars, openVars, setVars
<1>1. ASSUME NEW p \in Openers, NEW n \in Names, CallOpen(p, n) PROVE QuietInv'
  BY <1>1 DEF CallOpen
<1>2. ASSUME NEW p \in Openers, OpenDBHit(p) PROVE QuietInv'
  BY <1>2 DEF OpenDBHit
<1>3. ASSUME NEW p \in Openers, OpenDBMiss(p) PROVE QuietInv'
  BY <1>3 DEF OpenDBMiss, LockDbMtx
<1>4. ASSUME NEW p \in Openers, RegistryGraph(p) PROVE QuietInv'
  BY <1>4 DEF RegistryGraph
<1>5. ASSUME NEW p \in Openers, OpenerFetchDB(p) PROVE QuietInv'
  BY <1>5 DEF OpenerFetchDB
<1>6. ASSUME NEW p \in Openers, OpenDBFails(p) PROVE QuietInv'
  BY <1>6 DEF OpenDBFails, UnlockDbMtx
<1>7. ASSUME NEW p \in Openers, NEW d \in Dbs, OpenDBSubscribe(p, d) PROVE QuietInv'
  BY <1>7 DEF OpenDBSubscribe, StartWatcher, UnlockDbMtx, Unreferenced
<1>8. ASSUME NEW p \in Openers, SqliteOpen(p) PROVE QuietInv'
  BY <1>8 DEF SqliteOpen
<1>9. ASSUME NEW p \in Openers, SqliteOpenFails(p) PROVE QuietInv'
  BY <1>9 DEF SqliteOpenFails, ReturnNoConn
<1>10. ASSUME NEW p \in Openers, AddConn(p) PROVE QuietInv'
  BY <1>10 DEF AddConn, RegisterConn
<1>11. ASSUME NEW p \in Openers, AddConnPanics(p) PROVE QuietInv'
  BY <1>11 DEF AddConnPanics
<1>12. ASSUME NEW p \in Openers, Recover(p) PROVE QuietInv'
  BY <1>12 DEF Recover, ReturnNoConn
<1>13. ASSUME NEW p \in Openers, CallConnClose(p) PROVE QuietInv'
  BY <1>13 DEF CallConnClose
<1>14. ASSUME NEW p \in Openers, RemoveConn(p) PROVE QuietInv'
  BY <1>14 DEF RemoveConn
<1>15. ASSUME NEW s \in Setters, NEW a \in Addrs, CallSetGraph(s, a) PROVE QuietInv'
  BY <1>15 DEF CallSetGraph
<1>16. ASSUME NEW s \in Setters, SetGraphRejected(s) PROVE QuietInv'
  BY <1>16 DEF SetGraphRejected
<1>17. ASSUME NEW s \in Setters, SetGraphStore(s) PROVE QuietInv'
  BY <1>17 DEF SetGraphStore, LockRegMtx
<1>18. ASSUME NEW s \in Setters, NEW d \in Dbs, SendUpdate(s, d) PROVE QuietInv'
  BY <1>18 DEF SendUpdate
<1>19. ASSUME NEW s \in Setters, SetGraphReturn(s) PROVE QuietInv'
  BY <1>19 DEF SetGraphReturn
<1>20. ASSUME NEW d \in Dbs, WatcherFetchDB(d) PROVE QuietInv'
  BY <1>20 DEF WatcherFetchDB
<1>21. ASSUME NEW d \in Dbs, WatcherFetchFails(d) PROVE QuietInv'
  BY <1>21 DEF WatcherFetchFails
<1>22. ASSUME NEW d \in Dbs, ReopenConns(d) PROVE QuietInv'
  BY <1>22 DEF ReopenConns, LockConnsMtx
<1>23. ASSUME NEW d \in Dbs, NEW p \in Openers, ReopenConn(d, p) PROVE QuietInv'
  BY <1>23 DEF ReopenConn
<1>24. ASSUME NEW d \in Dbs, ReopenReturns(d) PROVE QuietInv'
  BY <1>24 DEF ReopenReturns
<1>25. ASSUME NEW d \in Dbs, SubClose(d) PROVE QuietInv'
  BY <1>25 DEF SubClose, Unsubscribe
<1>26. ASSUME NEW d \in Dbs, DbCloseLock(d) PROVE QuietInv'
  BY <1>26 DEF DbCloseLock, LockConnsMtx
<1>27. ASSUME NEW d \in Dbs, DbClose(d) PROVE QuietInv'
  BY <1>27 DEF DbClose, AllConnsClosed
<1>28. ASSUME NEW d \in Dbs, DeleteDB(d) PROVE QuietInv'
  BY <1>28 DEF DeleteDB
<1>29. CASE UNCHANGED vars
  BY <1>29 DEF vars
<1> QED
  BY <1>1, <1>2, <1>3, <1>4, <1>5, <1>6, <1>7, <1>8, <1>9, <1>10, <1>11, <1>12, <1>13, <1>14, <1>15, <1>16, <1>17, <1>18, <1>19, <1>20, <1>21, <1>22, <1>23, <1>24, <1>25, <1>26, <1>27, <1>28, <1>29
     DEF Next, OpenerStep, SetterStep, WatcherStep

-----------------------------------------------------------------------------
(* The initial state satisfies the inductive invariant.                    *)
LEMMA DbInvInit == Init => DbInv
<1> SUFFICES ASSUME Init PROVE DbInv
  OBVIOUS
<1> USE DEF Init
<1>1. AnyName \in Names /\ AnyAddr \in Addrs
  BY NonEmptyAssumption DEF AnyName, AnyAddr
<1>2. TypeOK
  BY <1>1 DEF TypeOK, Version, WatcherStates, OpenerStates, HasDb, SetterStates
<1>3. MutexInv /\ TableInv /\ SubsInv
  BY DEF MutexInv, TableInv, SubsInv
<1>4. VersionInv
  BY HexToAddressAssumption DEF VersionInv
<1>5. ConnInv
  BY DEF ConnInv, HasDb
<1>6. HolderInv /\ ReopenInv /\ QuietInv
  BY ProcessesAssumption DEF HolderInv, ReopenInv, QuietInv, HasConn
<1> QED
  BY <1>2, <1>3, <1>4, <1>5, <1>6 DEF DbInv

(* Every step of the driver preserves the inductive invariant.             *)
LEMMA DbInvStep == DbInv /\ [Next]_vars => DbInv'
<1> SUFFICES ASSUME DbInv, [Next]_vars PROVE DbInv'
  OBVIOUS
<1>1. /\ TypeOK /\ MutexInv /\ TableInv /\ SubsInv /\ VersionInv /\ ConnInv
      /\ HolderInv /\ ReopenInv /\ QuietInv
  BY DEF DbInv
<1>2. TypeOK'
  BY <1>1, TypeStep
<1>3. MutexInv' /\ TableInv'
  BY <1>1, <1>2, MutexStep, TableStep
<1>4. SubsInv' /\ VersionInv' /\ ConnInv'
  BY <1>1, <1>2, SubsStep, VersionStep, ConnStep
<1>5. HolderInv' /\ ReopenInv' /\ QuietInv'
  BY <1>1, <1>2, HolderStep, ReopenStep, QuietStep
<1> QED
  BY <1>2, <1>3, <1>4, <1>5 DEF DbInv

(* The inductive invariant holds in every reachable state.                 *)
LEMMA DbInvHolds == Spec => []DbInv
BY DbInvInit, DbInvStep, PTL DEF Spec

-----------------------------------------------------------------------------
(* Every variable of the driver keeps its type.                            *)
THEOREM TypeCorrect == Spec => []TypeOK
<1>1. DbInv => TypeOK
  BY DEF DbInv
<1> QED
  BY <1>1, DbInvHolds, PTL

(* fetchDB never has two concurrent writers for the path of one name.      *)
THEOREM OneFetcherPerPathHolds == Spec => []OneFetcherPerPath
<1>1. DbInv => OneFetcherPerPath
  <2> SUFFICES ASSUME DbInv, NEW n \in Names,
                      NEW x \in Fetchers(n), NEW y \in Fetchers(n)
               PROVE  x = y
    BY DEF OneFetcherPerPath
  <2>1. TypeOK /\ MutexInv /\ TableInv
    BY DEF DbInv
  <2>2. CASE dbs[n] = None
    <3>1. \A z \in Fetchers(n) : dbMtx = z
      BY <2>1, <2>2, LiveDbInTable DEF Fetchers, MutexInv
    <3> QED
      BY <3>1
  <2>3. CASE dbs[n] # None
    <3>1. \A z \in Fetchers(n) : dbs[n] = z
      BY <2>1, <2>3, LiveDbInTable DEF Fetchers, MutexInv
    <3> QED
      BY <3>1
  <2> QED
    BY <2>2, <2>3
<1> QED
  BY <1>1, DbInvHolds, PTL

(* SetGraph only ever blocks on the channel of a db that is in the table.  *)
THEOREM SubscribersAreInTableHolds == Spec => []SubscribersAreInTable
<1>1. DbInv => SubscribersAreInTable
  BY DEF DbInv, TypeOK, TableInv, SubsInv, SubscribersAreInTable
<1> QED
  BY <1>1, DbInvHolds, PTL

(* No connection that Open returned is orphaned from the updates of its    *)
(* name.                                                                   *)
THEOREM OpenConnsAreRegisteredHolds == Spec => []OpenConnsAreRegistered
<1>1. DbInv => OpenConnsAreRegistered
  BY DEF DbInv, TypeOK, TableInv, ConnInv, HasDb, OpenConnsAreRegistered
<1> QED
  BY <1>1, DbInvHolds, PTL

(* fetchDB never replaces a file by an older published version.            *)
THEOREM FileNeverRegressesHolds == Spec => FileNeverRegresses
<1>1. ASSUME DbInv, [Next]_vars
      PROVE  [\A n \in Names : file'[n] >= file[n]]_vars
  <2> USE DEF driverVars
  <2>1. TypeOK /\ VersionInv
    BY <1>1 DEF DbInv
  <2>2. ASSUME NEW p \in Openers, OpenerFetchDB(p)
        PROVE  \A n \in Names : file'[n] >= file[n]
    BY <2>1, <2>2 DEF OpenerFetchDB, TypeOK, VersionInv, Version
  <2>3. ASSUME NEW d \in Dbs, WatcherFetchDB(d)
        PROVE  \A n \in Names : file'[n] >= file[n]
    BY <2>1, <2>3 DEF WatcherFetchDB, TypeOK, VersionInv, Version
  <2>4. ASSUME file' = file
        PROVE  \A n \in Names : file'[n] >= file[n]
    BY <2>1, <2>4 DEF TypeOK, Version
  <2>5. \/ UNCHANGED vars
        \/ file' = file
        \/ \E p \in Openers : OpenerFetchDB(p)
        \/ \E d \in Dbs : WatcherFetchDB(d)
    BY <1>1 DEF Next, OpenerStep, SetterStep, WatcherStep, CallOpen, OpenDBHit,
       OpenDBMiss, RegistryGraph, OpenDBFails, OpenDBSubscribe, SqliteOpen,
       SqliteOpenFails, AddConn, AddConnPanics, Recover, CallConnClose,
       RemoveConn, CallSetGraph, SetGraphRejected, SetGraphStore, SendUpdate,
       SetGraphReturn, WatcherFetchFails, ReopenConns, ReopenConn,
       ReopenReturns, SubClose, DbCloseLock, DbClose, DeleteDB
  <2> QED
    BY <2>2, <2>3, <2>4, <2>5
<1> QED
  BY <1>1, DbInvHolds, PTL DEF Spec, FileNeverRegresses

-----------------------------------------------------------------------------
(* The goroutines that wait for the registry's mutex wait for a SetGraph   *)
(* that sends, and it waits for no watcher but one in sub.Close: every     *)
(* other subscriber comes back to its select by itself.                    *)
LEMMA SenderWaitsForUnsub ==
    ASSUME DbInv, NEW s \in Setters, spc[s] = "send", NEW y, Awaits(s, y),
           NEW z, Awaits(y, z)
    PROVE  y \in Dbs /\ UnsubscribesLate(y)
<1> USE ProcessesAssumption
<1>1. s \notin AtDbMtx /\ s \notin AtRegMtx /\ \A d \in Dbs : s \notin AtConnsMtx(d)
  BY DEF AtDbMtx, AtRegMtx, AtConnsMtx
<1>2. y \in stodo[s] /\ wpc[y] # "select"
  BY <1>1 DEF Awaits
<1>3. y \in Dbs /\ wpc[y] \in {"fetch", "reopen", "reopening", "unsub"}
  BY <1>2 DEF DbInv, TypeOK, SubsInv
<1>4. CASE wpc[y] = "unsub"
  BY <1>2, <1>3, <1>4 DEF UnsubscribesLate
<1>5. CASE wpc[y] # "unsub"
  <2>1. y \notin AtDbMtx /\ y \notin AtRegMtx /\ y \notin Setters
    BY <1>3, <1>5 DEF AtDbMtx, AtRegMtx
  <2>2. \A d \in Dbs : connsMtx[d] => y \notin AtConnsMtx(d)
    BY <1>3, <1>5 DEF AtConnsMtx, ClosesItself, DbInv, HolderInv
  <2> QED
    BY <2>1, <2>2 DEF Awaits
<1> QED
  BY <1>4, <1>5

(* Only two circles of goroutines that wait for each other exist: over     *)
(* db.close() with a connection, and over sub.Close against SetGraph       *)
(* (db/db.go, testutil/util.go).  Every goroutine that waits, waits for    *)
(* one that is closer to the end of a chain: dbMtx before the registry's   *)
(* mutex, that before the watchers, and those before nothing.              *)
THEOREM OnlyTwoDeadlocksHolds == Spec => []OnlyTwoDeadlocks
<1>1. DbInv => OnlyTwoDeadlocks
  <2> SUFFICES ASSUME DbInv, NEW S \in SUBSET Waiting, Deadlocked(S),
                      \A d \in S \cap Dbs : ~ClosesItself(d) /\ ~UnsubscribesLate(d)
               PROVE  FALSE
    BY DEF OnlyTwoDeadlocks
  <2> USE ProcessesAssumption
  <2>1. \A x \in S : \E y \in S : Awaits(x, y)
    BY DEF Deadlocked
  <2>2. \A s \in Setters \cap S : spc[s] # "send"
    <3> SUFFICES ASSUME NEW s \in Setters, s \in S, spc[s] = "send" PROVE FALSE
      OBVIOUS
    <3>1. PICK y \in S : Awaits(s, y)
      BY <2>1
    <3>2. PICK z \in S : Awaits(y, z)
      BY <2>1
    <3> QED
      BY <3>1, <3>2, SenderWaitsForUnsub
  <2>3. \A x \in S : x \notin AtRegMtx
    <3> SUFFICES ASSUME NEW x \in S, x \in AtRegMtx PROVE FALSE
      OBVIOUS
    <3>1. PICK y \in S : Awaits(x, y)
      BY <2>1
    <3>2. x \notin AtDbMtx /\ ~(x \in Setters /\ spc[x] = "send")
      BY DEF AtDbMtx, AtRegMtx, DbInv, TypeOK
    <3>3. \A d \in Dbs : connsMtx[d] => x \notin AtConnsMtx(d)
      BY DEF AtRegMtx, AtConnsMtx, ClosesItself
    <3>4. regMtx = y /\ y \in Openers \cup Setters \cup Dbs
      BY <3>1, <3>2, <3>3 DEF Awaits, Waiting
    <3>5. y \in Setters /\ spc[y] = "send"
      BY <3>4 DEF DbInv, TypeOK, HolderInv
    <3> QED
      BY <2>2, <3>5
  <2>4. \A x \in S : x \notin AtDbMtx
    <3> SUFFICES ASSUME NEW x \in S, x \in AtDbMtx PROVE FALSE
      OBVIOUS
    <3>1. PICK y \in S : Awaits(x, y)
      BY <2>1
    <3>2. x \notin Setters
      BY DEF AtDbMtx
    <3>3. \A d \in Dbs : connsMtx[d] => x \notin AtConnsMtx(d)
      BY DEF AtDbMtx, AtConnsMtx, ClosesItself
    <3>4. dbMtx = y /\ y \in Openers \cup Setters \cup Dbs
      BY <2>3, <3>1, <3>2, <3>3 DEF Awaits, Waiting
    <3>5. y \in Openers /\ opc[y] \in {"graph", "fetch", "subscribe"}
      BY <3>4 DEF DbInv, TypeOK, HolderInv
    <3>6. PICK z \in S : Awaits(y, z)
      BY <2>1
    <3>7. y \notin AtRegMtx /\ y \notin Setters
      BY <2>3, <3>5
    <3>8. y \notin AtDbMtx /\ \A d \in Dbs : y \notin AtConnsMtx(d)
      BY <3>5 DEF AtDbMtx, AtConnsMtx
    <3> QED
      BY <3>6, <3>7, <3>8 DEF Awaits
  <2>5. PICK x \in S : TRUE
    BY DEF Deadlocked
  <2>6. PICK d \in S : Awaits(x, d)
    BY <2>1
  <2>7. d \in Dbs /\ connsMtx[d] /\ x \in AtConnsMtx(d)
    BY <2>2, <2>3, <2>4, <2>6 DEF Awaits
  <2>8. wpc[d] \in {"reopening", "closing"} /\ ~ClosesItself(d)
    BY <2>7 DEF DbInv, HolderInv
  <2>9. PICK e \in S : Awaits(d, e)
    BY <2>1
  <2>10. e \in Dbs /\ d \in AtConnsMtx(e)
    BY <2>2, <2>3, <2>4, <2>7, <2>9 DEF Awaits
  <2> QED
    BY <2>7, <2>8, <2>10 DEF AtConnsMtx
<1> QED
  BY <1>1, DbInvHolds, PTL

(* No circle of waiting goroutines at all.                                 *)
NoDeadlock == \A S \in SUBSET Waiting : ~Deadlocked(S)

(* While nothing fails, and whatever fails with a registry that announces  *)
(* no update, as registry.Client does today (SubscribeGraph), no circle of *)
(* goroutines of the driver ever wait for each other.                      *)
THEOREM QuietDriverHasNoDeadlock ==
    Faults = {} \/ ~Subscribes => (Spec => []NoDeadlock)
<1> SUFFICES ASSUME Faults = {} \/ ~Subscribes PROVE Spec => []NoDeadlock
  OBVIOUS
<1>1. DbInv /\ OnlyTwoDeadlocks => NoDeadlock
  BY DEF DbInv, QuietInv, OnlyTwoDeadlocks, NoDeadlock, ClosesItself, UnsubscribesLate
<1> QED
  BY <1>1, DbInvHolds, OnlyTwoDeadlocksHolds, PTL

-----------------------------------------------------------------------------
(* A step that leaves files, hashes and names alone, and no connection     *)
(* begins, ends or changes in, is no step of Replica.                      *)
LEMMA Unseen ==
    ASSUME file' = file, hashes' = hashes, oname' = oname, handle' = handle,
           \A p \in Openers : opc'[p] \in HasConn <=> opc[p] \in HasConn
    PROVE  UNCHANGED Graphs!vars
BY DEF Graphs!vars

(* The first state of the driver is one of Replica.                        *)
LEMMA ReplicaInit == Init => Graphs!Init
<1> SUFFICES ASSUME Init PROVE Graphs!Init
  OBVIOUS
<1>1. AnyName \in Names
  BY NonEmptyAssumption DEF AnyName
<1>2. {p \in Openers : opc[p] \in HasConn} = {}
  BY DEF Init, HasConn
<1> QED
  BY <1>1, <1>2 DEF Init, Graphs!Init

(* Every step of the driver is a step of Replica, or changes nothing there.*)
LEMMA ReplicaStep ==
    ASSUME DbInv, [Next]_vars
    PROVE  [Graphs!Next]_(Graphs!vars)
<1> DEFINE R == [Graphs!Next]_(Graphs!vars)
<1>0. /\ TypeOK /\ MutexInv /\ VersionInv /\ ConnInv /\ ReopenInv
  BY DEF DbInv
<1> USE HexToAddressAssumption, ProcessesAssumption
<1> USE DEF TypeOK, WatcherStates, OpenerStates, HasDb, HasConn, SetterStates, Version, driverVars, regVars, dbVars, watchVars, openVars, setVars
<1>1. ASSUME NEW p \in Openers, NEW n \in Names, CallOpen(p, n) PROVE R
  <2>1. Graphs!Ask(p, n)
    BY <1>0, <1>1 DEF CallOpen, Graphs!Ask
  <2> QED
    BY <2>1 DEF Graphs!Next
<1>2. ASSUME NEW p \in Openers, OpenDBHit(p) PROVE R
  BY <1>0, <1>2, Unseen DEF OpenDBHit
<1>3. ASSUME NEW p \in Openers, OpenDBMiss(p) PROVE R
  BY <1>0, <1>3, Unseen DEF OpenDBMiss, LockDbMtx
<1>4. ASSUME NEW p \in Openers, RegistryGraph(p) PROVE R
  BY <1>0, <1>4, Unseen DEF RegistryGraph
<1>5. ASSUME NEW p \in Openers, OpenerFetchDB(p) PROVE R
  <2>1. Graphs!Fetch(oname[p])
    <3>1. over[p] \in file[oname[p]] .. hashes[HexToAddress[oname[p]]]
      BY <1>0, <1>5 DEF OpenerFetchDB, VersionInv
    <3>2. {q \in Openers : opc'[q] \in HasConn} = {q \in Openers : opc[q] \in HasConn}
      BY <1>0, <1>5 DEF OpenerFetchDB
    <3> QED
      BY <1>5, <3>1, <3>2 DEF OpenerFetchDB, Graphs!Fetch
  <2> QED
    BY <1>0, <2>1 DEF Graphs!Next
<1>6. ASSUME NEW p \in Openers, OpenDBFails(p) PROVE R
  BY <1>0, <1>6, Unseen DEF OpenDBFails, UnlockDbMtx
<1>7. ASSUME NEW p \in Openers, NEW d \in Dbs, OpenDBSubscribe(p, d) PROVE R
  BY <1>0, <1>7, Unseen DEF OpenDBSubscribe, StartWatcher, UnlockDbMtx, Unreferenced
<1>8. ASSUME NEW p \in Openers, SqliteOpen(p) PROVE R
  <2>1. Graphs!Open(p)
    <3>1. {q \in Openers : opc'[q] \in HasConn} = {q \in Openers : opc[q] \in HasConn} \cup {p}
      BY <1>0, <1>8 DEF SqliteOpen
    <3>2. dname[odb[p]] = oname[p]
      BY <1>0, <1>8 DEF SqliteOpen, ConnInv
    <3> QED
      BY <1>8, <3>1, <3>2 DEF SqliteOpen, Graphs!Open
  <2> QED
    BY <2>1 DEF Graphs!Next
<1>9. ASSUME NEW p \in Openers, SqliteOpenFails(p) PROVE R
  BY <1>0, <1>9, Unseen DEF SqliteOpenFails, ReturnNoConn
<1>10. ASSUME NEW p \in Openers, AddConn(p) PROVE R
  BY <1>0, <1>10, Unseen DEF AddConn, RegisterConn
<1>11. ASSUME NEW p \in Openers, AddConnPanics(p) PROVE R
  BY <1>0, <1>11, Unseen DEF AddConnPanics
<1>12. ASSUME NEW p \in Openers, Recover(p) PROVE R
  <2>1. Graphs!Close(p)
    <3>1. {q \in Openers : opc'[q] \in HasConn} = {q \in Openers : opc[q] \in HasConn} \ {p}
      BY <1>0, <1>12 DEF Recover, ReturnNoConn
    <3> QED
      BY <1>12, <3>1 DEF Recover, Graphs!Close
  <2> QED
    BY <2>1 DEF Graphs!Next
<1>13. ASSUME NEW p \in Openers, CallConnClose(p) PROVE R
  BY <1>0, <1>13, Unseen DEF CallConnClose
<1>14. ASSUME NEW p \in Openers, RemoveConn(p) PROVE R
  <2>1. Graphs!Close(p)
    <3>1. {q \in Openers : opc'[q] \in HasConn} = {q \in Openers : opc[q] \in HasConn} \ {p}
      BY <1>0, <1>14 DEF RemoveConn
    <3> QED
      BY <1>14, <3>1 DEF RemoveConn, Graphs!Close
  <2> QED
    BY <2>1 DEF Graphs!Next
<1>15. ASSUME NEW s \in Setters, NEW a \in Addrs, CallSetGraph(s, a) PROVE R
  BY <1>0, <1>15, Unseen DEF CallSetGraph
<1>16. ASSUME NEW s \in Setters, SetGraphRejected(s) PROVE R
  BY <1>0, <1>16, Unseen DEF SetGraphRejected
<1>17. ASSUME NEW s \in Setters, SetGraphStore(s) PROVE R
  <2>1. Graphs!Publish(saddr[s])
    BY <1>17 DEF SetGraphStore, Graphs!Publish
  <2> QED
    BY <1>0, <2>1 DEF Graphs!Next
<1>18. ASSUME NEW s \in Setters, NEW d \in Dbs, SendUpdate(s, d) PROVE R
  BY <1>0, <1>18, Unseen DEF SendUpdate
<1>19. ASSUME NEW s \in Setters, SetGraphReturn(s) PROVE R
  BY <1>0, <1>19, Unseen DEF SetGraphReturn
<1>20. ASSUME NEW d \in Dbs, WatcherFetchDB(d) PROVE R
  <2>1. Graphs!Fetch(dname[d])
    <3>1. wver[d] \in file[dname[d]] .. hashes[HexToAddress[dname[d]]]
      BY <1>0, <1>20 DEF WatcherFetchDB, VersionInv
    <3> QED
      BY <1>20, <3>1 DEF WatcherFetchDB, Graphs!Fetch
  <2> QED
    BY <1>0, <2>1 DEF Graphs!Next
<1>21. ASSUME NEW d \in Dbs, WatcherFetchFails(d) PROVE R
  BY <1>0, <1>21, Unseen DEF WatcherFetchFails
<1>22. ASSUME NEW d \in Dbs, ReopenConns(d) PROVE R
  BY <1>0, <1>22, Unseen DEF ReopenConns, LockConnsMtx
<1>23. ASSUME NEW d \in Dbs, NEW p \in Openers, ReopenConn(d, p) PROVE R
  <2>1. Graphs!Reopen(p)
    <3>1. odb[p] = d /\ opc[p] \in {"have", "remove"}
      BY <1>0, <1>23 DEF ReopenConn, ReopenInv
    <3>2. dname[d] = oname[p] /\ handle[p] <= file[oname[p]]
      BY <1>0, <3>1 DEF ConnInv, ReopenInv
    <3> QED
      BY <1>23, <3>1, <3>2 DEF ReopenConn, Graphs!Reopen
  <2> QED
    BY <2>1 DEF Graphs!Next
<1>24. ASSUME NEW d \in Dbs, ReopenReturns(d) PROVE R
  BY <1>0, <1>24, Unseen DEF ReopenReturns
<1>25. ASSUME NEW d \in Dbs, SubClose(d) PROVE R
  BY <1>0, <1>25, Unseen DEF SubClose, Unsubscribe
<1>26. ASSUME NEW d \in Dbs, DbCloseLock(d) PROVE R
  BY <1>0, <1>26, Unseen DEF DbCloseLock, LockConnsMtx
<1>27. ASSUME NEW d \in Dbs, DbClose(d) PROVE R
  BY <1>0, <1>27, Unseen DEF DbClose, AllConnsClosed
<1>28. ASSUME NEW d \in Dbs, DeleteDB(d) PROVE R
  BY <1>0, <1>28, Unseen DEF DeleteDB
<1>29. CASE UNCHANGED vars
  BY <1>29, Unseen DEF vars
<1> HIDE DEF R
<1> QED
  BY <1>1, <1>2, <1>3, <1>4, <1>5, <1>6, <1>7, <1>8, <1>9, <1>10, <1>11, <1>12, <1>13, <1>14, <1>15, <1>16, <1>17, <1>18, <1>19, <1>20, <1>21, <1>22, <1>23, <1>24, <1>25, <1>26, <1>27, <1>28, <1>29
     DEF Next, OpenerStep, SetterStep, WatcherStep, R

(* The driver implements Replica: its files and connections only ever move *)
(* forward, along the versions that were published for their name.         *)
THEOREM ImplementsReplicaHolds == Spec => ImplementsReplica
BY ReplicaInit, ReplicaStep, DbInvHolds, PTL DEF Spec, ImplementsReplica, Graphs!Spec
=============================================================================
