--------------------------- MODULE KordNodeProofs ---------------------------
(* Proofs, for every number of requests, with or without a root dapp and   *)
(* failures, of the safety properties of KordNode.                         *)
EXTENDS KordNode, TLAPS

(* setRootDapp is not called before Kord.Start.                            *)
MainInv == mpc \in {"init", "kord"} => pc[Main] = "idle"

(* Which mutexes a call holds, by the place it has reached.                *)
HeldInv ==
    \A r \in Procs :
        /\ held["store"] = r =>
              /\ pc[r] # "idle" /\ kind[r] = "get"
              /\ pc[r] \in {"lock", "attach"} => pos[r] >= 1
        /\ held["db"] = r =>
              /\ pc[r] # "idle" /\ kind[r] # "set"
              /\ pc[r] \in {"lock", "attach"} => pos[r] >= IF kind[r] = "get" THEN 2 ELSE 1
        /\ held["lazy"] = r => pc[r] = "attach"
        /\ pc[r] \in {"lock", "attach"} /\ pos[r] >= 2 /\ held["store"] = r => held["db"] = r

(* A call attaches a client under the mutex of the lazy registry, and only *)
(* while there is none.                                                    *)
AttachInv ==
    \A r \in Procs :
        pc[r] = "attach" =>
            /\ held["lazy"] = r /\ ~client
            /\ held["store"] = r => held["db"] = r

(* A call that opens the db has a client, and one that makes the store has *)
(* an open db.                                                             *)
OpeningInv ==
    \A r \in Procs :
        pc[r] = "open" =>
            /\ held["db"] = r => client
            /\ held["store"] = r /\ held["db"] # r => "db" \in cached

(* RunNode is inside setRootDapp, inside Start or inside Stop exactly when *)
(* the node's lock and the place of each say so.                           *)
LifeInv ==
    /\ pc[Main] # "idle" => mpc = "listen" /\ rootDapp
    /\ lock = "start" <=> mpc \in {"kord", "listen", "rpc", "abort"}
    /\ lock = "stop" <=> spc = "shutdown"
    /\ spc # "idle" => mpc \in {"wait", "fail", "exit"}

(* With a root dapp RunNode never gets past setRootDapp: the first call    *)
(* that reaches the lazy registry does so under the lock of Start.         *)
RootInv ==
    rootDapp =>
        /\ mpc \in {"init", "kord", "listen", "abort", "exit"}
        /\ mpc = "listen" => pc[Main] \in {"lock", "attach"}
        /\ ~serving /\ ~server /\ ~client /\ cached = {} /\ spc = "idle"
        /\ \A r \in Requests : pc[r] = "idle"

(* The inductive invariant.                                                *)
NodeInv ==
    /\ TypeOK /\ MainInv /\ HeldInv /\ AttachInv /\ OpeningInv
    /\ OneClient /\ CachesAgree /\ LifeInv /\ RootInv

-----------------------------------------------------------------------------
(* The mutexes of each kind of call, in order.                             *)
LEMMA PathFacts ==
    /\ \A k \in Kinds : Len(Path(k)) \in 1 .. 3
    /\ Len(Path("get")) = 3 /\ Len(Path("create")) = 2 /\ Len(Path("set")) = 1
    /\ Path("get")[1] = "store" /\ Path("get")[2] = "db" /\ Path("get")[3] = "lazy"
    /\ Path("create")[1] = "db" /\ Path("create")[2] = "lazy"
    /\ Path("set")[1] = "lazy"
  BY DEF Path, Kinds

(* The next mutex of a call, by its kind and place.                        *)
LEMMA NextMutexCases ==
    ASSUME TypeOK, NEW r \in Procs, pc[r] = "lock"
    PROVE  \/ kind[r] = "get" /\ pos[r] = 0 /\ NextMutex(r) = "store"
           \/ kind[r] = "get" /\ pos[r] = 1 /\ NextMutex(r) = "db"
           \/ kind[r] = "get" /\ pos[r] = 2 /\ NextMutex(r) = "lazy"
           \/ kind[r] = "create" /\ pos[r] = 0 /\ NextMutex(r) = "db"
           \/ kind[r] = "create" /\ pos[r] = 1 /\ NextMutex(r) = "lazy"
           \/ kind[r] = "set" /\ pos[r] = 0 /\ NextMutex(r) = "lazy"
<1>1. /\ kind[r] \in Kinds
      /\ pos[r] \in 0 .. 3
      /\ pos[r] < Len(Path(kind[r]))
  BY DEF TypeOK
<1>2. CASE kind[r] = "get"
  <2>0. pos[r] < 3
    BY <1>1, <1>2, PathFacts
  <2>1. pos[r] \in {0, 1, 2}
    BY <1>1, <2>0
  <2> QED
    BY <1>2, <2>1, PathFacts DEF NextMutex
<1>3. CASE kind[r] = "create"
  <2>1. pos[r] \in {0, 1}
    BY <1>1, <1>3, PathFacts
  <2> QED
    BY <1>3, <2>1, PathFacts DEF NextMutex
<1>4. CASE kind[r] = "set"
  <2>1. pos[r] = 0
    BY <1>1, <1>4, PathFacts
  <2> QED
    BY <1>4, <2>1, PathFacts DEF NextMutex
<1> QED
  BY <1>1, <1>2, <1>3, <1>4 DEF Kinds

(* Every step keeps the types.                                             *)
LEMMA TypeStep ==
    ASSUME TypeOK, [Next]_vars
    PROVE  TypeOK'
<1> USE OptionsAssumption, ProcessesAssumption
<1> USE DEF TypeOK, nodeVars, reqVars, Procs, Mutexes
<1>1. ASSUME NodeStart PROVE TypeOK'
  BY <1>1 DEF NodeStart
<1>2. ASSUME KordStart PROVE TypeOK'
  <2>1. /\ pc' \in [Procs -> {"idle", "lock", "attach", "open"}]
        /\ kind' \in [Procs -> Kinds]
        /\ pos' \in [Procs -> 0 .. 3]
    BY <1>2 DEF KordStart, Begin, Kinds
  <2>2. ASSUME NEW q \in Procs
        PROVE  /\ pos'[q] <= Len(Path(kind'[q]))
               /\ pc'[q] = "lock" => pos'[q] < Len(Path(kind'[q]))
    BY <1>2, PathFacts DEF KordStart, Begin, Kinds
  <2> QED
    BY <1>2, <2>1, <2>2 DEF KordStart
<1>3. ASSUME Listen PROVE TypeOK'
  BY <1>3 DEF Listen
<1>4. ASSUME StartRPC PROVE TypeOK'
  BY <1>4 DEF StartRPC, UnlockNode
<1>5. ASSUME AbortStart PROVE TypeOK'
  BY <1>5 DEF AbortStart, UnlockNode
<1>6. ASSUME StartMining PROVE TypeOK'
  BY <1>6 DEF StartMining
<1>7. ASSUME Deploy PROVE TypeOK'
  BY <1>7 DEF Deploy
<1>8. ASSUME Exit PROVE TypeOK'
  BY <1>8 DEF Exit
<1>9. ASSUME StopOnCancel PROVE TypeOK'
  BY <1>9 DEF StopOnCancel
<1>10. ASSUME NodeStop PROVE TypeOK'
  BY <1>10 DEF NodeStop
<1>11. ASSUME ShutdownReturns PROVE TypeOK'
  BY <1>11 DEF ShutdownReturns
<1>12. ASSUME Cancel PROVE TypeOK'
  BY <1>12 DEF Cancel
<1>13. ASSUME NEW r \in Requests, NEW k \in Kinds, Arrive(r, k) PROVE TypeOK'
  <2>1. /\ pc' \in [Procs -> {"idle", "lock", "attach", "open"}]
        /\ kind' \in [Procs -> Kinds]
        /\ pos' \in [Procs -> 0 .. 3]
    BY <1>13 DEF Arrive, Begin, Kinds
  <2>2. ASSUME NEW q \in Procs
        PROVE  /\ pos'[q] <= Len(Path(kind'[q]))
               /\ pc'[q] = "lock" => pos'[q] < Len(Path(kind'[q]))
    BY <1>13, PathFacts DEF Arrive, Begin, Kinds
  <2> QED
    BY <1>13, <2>1, <2>2 DEF Arrive
<1>14. ASSUME NEW r \in Procs, Hit(r) PROVE TypeOK'
  BY <1>14, NextMutexCases DEF Hit, Free
<1>15. ASSUME NEW r \in Procs, Miss(r) PROVE TypeOK'
  <2>1. /\ pos[r] \in 0 .. 2
        /\ pos[r] + 1 <= Len(Path(kind[r]))
        /\ NextMutex(r) # "lazy" => pos[r] + 1 < Len(Path(kind[r]))
        /\ NextMutex(r) \in Mutexes
    BY <1>15, NextMutexCases, PathFacts DEF Miss
  <2>2. /\ pos' = [pos EXCEPT ![r] = pos[r] + 1]
        /\ pc' = [pc EXCEPT ![r] = IF NextMutex(r) = "lazy" THEN "attach" ELSE "lock"]
        /\ held' = [held EXCEPT ![NextMutex(r)] = r]
        /\ UNCHANGED <<nodeVars, cached, client, made, kind>>
    BY <1>15 DEF Miss
  <2>3. /\ pos' \in [Procs -> 0 .. 3]
        /\ pc' \in [Procs -> {"idle", "lock", "attach", "open"}]
        /\ held' \in [Mutexes -> Procs \cup {None}]
    BY <2>1, <2>2
  <2>4. ASSUME NEW q \in Procs
        PROVE  /\ pos'[q] <= Len(Path(kind'[q]))
               /\ pc'[q] = "lock" => pos'[q] < Len(Path(kind'[q]))
    <3>1. CASE q # r
      BY <2>2, <3>1
    <3>2. CASE q = r
      BY <2>1, <2>2, <3>2
    <3> QED
      BY <3>1, <3>2
  <2> QED
    BY <2>2, <2>3, <2>4
<1>16. ASSUME NEW r \in Procs, Attach(r) PROVE TypeOK'
  BY <1>16 DEF Attach
<1>17. ASSUME NEW r \in Procs, AttachFails(r) PROVE TypeOK'
  BY <1>17 DEF AttachFails, Release
<1>18. ASSUME NEW r \in Procs, OpenGraph(r) PROVE TypeOK'
  BY <1>18 DEF OpenGraph, Innermost
<1>19. ASSUME NEW r \in Procs, CallReturns(r) PROVE TypeOK'
  BY <1>19 DEF CallReturns
<1>20. ASSUME NEW r \in Procs, OpenGraphFails(r) PROVE TypeOK'
  BY <1>20 DEF OpenGraphFails, Release
<1>21. CASE UNCHANGED vars
  BY <1>21 DEF vars
<1> QED
  BY <1>1, <1>2, <1>3, <1>4, <1>5, <1>6, <1>7, <1>8,
     <1>9, <1>10, <1>11, <1>12, <1>13, <1>14, <1>15, <1>16,
     <1>17, <1>18, <1>19, <1>20, <1>21
     DEF Next, MainStep, StopStep, ProcStep

(* Initially the types hold.                                               *)
LEMMA TypeInit == Init => TypeOK
<1> SUFFICES ASSUME Init PROVE TypeOK
  OBVIOUS
<1>1. ASSUME NEW r \in Procs PROVE pos[r] = 0 /\ kind[r] = "get" /\ pc[r] = "idle"
  BY DEF Init
<1>2. Len(Path("get")) = 3
  BY PathFacts
<1>3. \A r \in Procs : pos[r] <= Len(Path(kind[r]))
  BY <1>1, <1>2
<1>4. \A r \in Procs : pc[r] = "lock" => pos[r] < Len(Path(kind[r]))
  BY <1>1
<1>5. held \in [Mutexes -> Procs \cup {None}]
  BY DEF Init
<1>6. /\ pc \in [Procs -> {"idle", "lock", "attach", "open"}]
      /\ kind \in [Procs -> Kinds]
      /\ pos \in [Procs -> 0 .. 3]
  BY DEF Init, Kinds
<1>7. rootDapp \in BOOLEAN
  BY OptionsAssumption DEF Init
<1> QED
  BY <1>3, <1>4, <1>5, <1>6, <1>7 DEF Init, TypeOK

(* The variables keep their types, and a call never passes its last mutex  *)
(* (registry of kord/meta.go, openDB of db/db.go, Get of graph/driver.go). *)
THEOREM TypeCorrect == Spec => []TypeOK
<1>1. TypeOK /\ [Next]_vars => TypeOK'
  BY TypeStep
<1> QED
  BY <1>1, TypeInit, PTL DEF Spec

-----------------------------------------------------------------------------
(* Every step keeps setRootDapp after Kord.Start.                          *)
LEMMA MainStepInv ==
    ASSUME TypeOK, MainInv, [Next]_vars
    PROVE  MainInv'
<1> USE ProcessesAssumption
<1> USE DEF TypeOK, MainInv, nodeVars, reqVars, Procs, Mutexes
<1>1. ASSUME NodeStart PROVE MainInv'
  BY <1>1 DEF NodeStart
<1>2. ASSUME KordStart PROVE MainInv'
  BY <1>2 DEF KordStart, Begin
<1>3. ASSUME Listen PROVE MainInv'
  BY <1>3 DEF Listen
<1>4. ASSUME StartRPC PROVE MainInv'
  BY <1>4 DEF StartRPC, UnlockNode
<1>5. ASSUME AbortStart PROVE MainInv'
  BY <1>5 DEF AbortStart, UnlockNode
<1>6. ASSUME StartMining PROVE MainInv'
  BY <1>6 DEF StartMining
<1>7. ASSUME Deploy PROVE MainInv'
  BY <1>7 DEF Deploy
<1>8. ASSUME Exit PROVE MainInv'
  BY <1>8 DEF Exit
<1>9. ASSUME StopOnCancel PROVE MainInv'
  BY <1>9 DEF StopOnCancel
<1>10. ASSUME NodeStop PROVE MainInv'
  BY <1>10 DEF NodeStop
<1>11. ASSUME ShutdownReturns PROVE MainInv'
  BY <1>11 DEF ShutdownReturns
<1>12. ASSUME Cancel PROVE MainInv'
  BY <1>12 DEF Cancel
<1>13. ASSUME NEW r \in Requests, NEW k \in Kinds, Arrive(r, k) PROVE MainInv'
  BY <1>13 DEF Arrive, Begin
<1>14. ASSUME NEW r \in Procs, Hit(r) PROVE MainInv'
  BY <1>14, NextMutexCases DEF Hit, Free
<1>15. ASSUME NEW r \in Procs, Miss(r) PROVE MainInv'
  BY <1>15, NextMutexCases DEF Miss, Free
<1>16. ASSUME NEW r \in Procs, Attach(r) PROVE MainInv'
  BY <1>16 DEF Attach
<1>17. ASSUME NEW r \in Procs, AttachFails(r) PROVE MainInv'
  BY <1>17 DEF AttachFails, Release
<1>18. ASSUME NEW r \in Procs, OpenGraph(r) PROVE MainInv'
  BY <1>18 DEF OpenGraph, Innermost
<1>19. ASSUME NEW r \in Procs, CallReturns(r) PROVE MainInv'
  BY <1>19 DEF CallReturns
<1>20. ASSUME NEW r \in Procs, OpenGraphFails(r) PROVE MainInv'
  BY <1>20 DEF OpenGraphFails, Release
<1>21. CASE UNCHANGED vars
  BY <1>21 DEF vars
<1> QED
  BY <1>1, <1>2, <1>3, <1>4, <1>5, <1>6, <1>7, <1>8,
     <1>9, <1>10, <1>11, <1>12, <1>13, <1>14, <1>15, <1>16,
     <1>17, <1>18, <1>19, <1>20, <1>21
     DEF Next, MainStep, StopStep, ProcStep

(* Every step keeps the mutexes where the place of a call says.            *)
LEMMA HeldStep ==
    ASSUME TypeOK, TypeOK', MainInv, AttachInv, HeldInv, [Next]_vars
    PROVE  HeldInv'
<1> USE ProcessesAssumption
<1> USE DEF TypeOK, MainInv, AttachInv, HeldInv, nodeVars, reqVars, Procs, Mutexes
<1>1. ASSUME NodeStart PROVE HeldInv'
  BY <1>1 DEF NodeStart
<1>2. ASSUME KordStart PROVE HeldInv'
  BY <1>2 DEF KordStart, Begin
<1>3. ASSUME Listen PROVE HeldInv'
  BY <1>3 DEF Listen
<1>4. ASSUME StartRPC PROVE HeldInv'
  BY <1>4 DEF StartRPC, UnlockNode
<1>5. ASSUME AbortStart PROVE HeldInv'
  BY <1>5 DEF AbortStart, UnlockNode
<1>6. ASSUME StartMining PROVE HeldInv'
  BY <1>6 DEF StartMining
<1>7. ASSUME Deploy PROVE HeldInv'
  BY <1>7 DEF Deploy
<1>8. ASSUME Exit PROVE HeldInv'
  BY <1>8 DEF Exit
<1>9. ASSUME StopOnCancel PROVE HeldInv'
  BY <1>9 DEF StopOnCancel
<1>10. ASSUME NodeStop PROVE HeldInv'
  BY <1>10 DEF NodeStop
<1>11. ASSUME ShutdownReturns PROVE HeldInv'
  BY <1>11 DEF ShutdownReturns
<1>12. ASSUME Cancel PROVE HeldInv'
  BY <1>12 DEF Cancel
<1>13. ASSUME NEW r \in Requests, NEW k \in Kinds, Arrive(r, k) PROVE HeldInv'
  BY <1>13 DEF Arrive, Begin
<1>14. ASSUME NEW r \in Procs, Hit(r) PROVE HeldInv'
  BY <1>14, NextMutexCases DEF Hit, Free
<1>15. ASSUME NEW r \in Procs, Miss(r) PROVE HeldInv'
  BY <1>15, NextMutexCases DEF Miss, Free
<1>16. ASSUME NEW r \in Procs, Attach(r) PROVE HeldInv'
  BY <1>16 DEF Attach
<1>17. ASSUME NEW r \in Procs, AttachFails(r) PROVE HeldInv'
  BY <1>17 DEF AttachFails, Release
<1>18. ASSUME NEW r \in Procs, OpenGraph(r) PROVE HeldInv'
  BY <1>18 DEF OpenGraph, Innermost
<1>19. ASSUME NEW r \in Procs, CallReturns(r) PROVE HeldInv'
  BY <1>19 DEF CallReturns
<1>20. ASSUME NEW r \in Procs, OpenGraphFails(r) PROVE HeldInv'
  BY <1>20 DEF OpenGraphFails, Release
<1>21. CASE UNCHANGED vars
  BY <1>21 DEF vars
<1> QED
  BY <1>1, <1>2, <1>3, <1>4, <1>5, <1>6, <1>7, <1>8,
     <1>9, <1>10, <1>11, <1>12, <1>13, <1>14, <1>15, <1>16,
     <1>17, <1>18, <1>19, <1>20, <1>21
     DEF Next, MainStep, StopStep, ProcStep

(* Every step keeps an attaching call alone and without a client.          *)
LEMMA AttachStep ==
    ASSUME TypeOK, MainInv, HeldInv, AttachInv, [Next]_vars
    PROVE  AttachInv'
<1> USE ProcessesAssumption
<1> USE DEF TypeOK, MainInv, HeldInv, AttachInv, nodeVars, reqVars, Procs, Mutexes
<1>1. ASSUME NodeStart PROVE AttachInv'
  BY <1>1 DEF NodeStart
<1>2. ASSUME KordStart PROVE AttachInv'
  BY <1>2 DEF KordStart, Begin
<1>3. ASSUME Listen PROVE AttachInv'
  BY <1>3 DEF Listen
<1>4. ASSUME StartRPC PROVE AttachInv'
  BY <1>4 DEF StartRPC, UnlockNode
<1>5. ASSUME AbortStart PROVE AttachInv'
  BY <1>5 DEF AbortStart, UnlockNode
<1>6. ASSUME StartMining PROVE AttachInv'
  BY <1>6 DEF StartMining
<1>7. ASSUME Deploy PROVE AttachInv'
  BY <1>7 DEF Deploy
<1>8. ASSUME Exit PROVE AttachInv'
  BY <1>8 DEF Exit
<1>9. ASSUME StopOnCancel PROVE AttachInv'
  BY <1>9 DEF StopOnCancel
<1>10. ASSUME NodeStop PROVE AttachInv'
  BY <1>10 DEF NodeStop
<1>11. ASSUME ShutdownReturns PROVE AttachInv'
  BY <1>11 DEF ShutdownReturns
<1>12. ASSUME Cancel PROVE AttachInv'
  BY <1>12 DEF Cancel
<1>13. ASSUME NEW r \in Requests, NEW k \in Kinds, Arrive(r, k) PROVE AttachInv'
  BY <1>13 DEF Arrive, Begin
<1>14. ASSUME NEW r \in Procs, Hit(r) PROVE AttachInv'
  BY <1>14, NextMutexCases DEF Hit, Free
<1>15. ASSUME NEW r \in Procs, Miss(r) PROVE AttachInv'
  BY <1>15, NextMutexCases DEF Miss, Free
<1>16. ASSUME NEW r \in Procs, Attach(r) PROVE AttachInv'
  BY <1>16 DEF Attach
<1>17. ASSUME NEW r \in Procs, AttachFails(r) PROVE AttachInv'
  BY <1>17 DEF AttachFails, Release
<1>18. ASSUME NEW r \in Procs, OpenGraph(r) PROVE AttachInv'
  BY <1>18 DEF OpenGraph, Innermost
<1>19. ASSUME NEW r \in Procs, CallReturns(r) PROVE AttachInv'
  BY <1>19 DEF CallReturns
<1>20. ASSUME NEW r \in Procs, OpenGraphFails(r) PROVE AttachInv'
  BY <1>20 DEF OpenGraphFails, Release
<1>21. CASE UNCHANGED vars
  BY <1>21 DEF vars
<1> QED
  BY <1>1, <1>2, <1>3, <1>4, <1>5, <1>6, <1>7, <1>8,
     <1>9, <1>10, <1>11, <1>12, <1>13, <1>14, <1>15, <1>16,
     <1>17, <1>18, <1>19, <1>20, <1>21
     DEF Next, MainStep, StopStep, ProcStep

(* Every step keeps what an opening call relies on.                        *)
LEMMA OpeningStep ==
    ASSUME TypeOK, HeldInv, AttachInv, OpeningInv, [Next]_vars
    PROVE  OpeningInv'
<1> USE ProcessesAssumption
<1> USE DEF TypeOK, HeldInv, AttachInv, OpeningInv, nodeVars, reqVars, Procs, Mutexes
<1>1. ASSUME NodeStart PROVE OpeningInv'
  BY <1>1 DEF NodeStart
<1>2. ASSUME KordStart PROVE OpeningInv'
  BY <1>2 DEF KordStart, Begin
<1>3. ASSUME Listen PROVE OpeningInv'
  BY <1>3 DEF Listen
<1>4. ASSUME StartRPC PROVE OpeningInv'
  BY <1>4 DEF StartRPC, UnlockNode
<1>5. ASSUME AbortStart PROVE OpeningInv'
  BY <1>5 DEF AbortStart, UnlockNode
<1>6. ASSUME StartMining PROVE OpeningInv'
  BY <1>6 DEF StartMining
<1>7. ASSUME Deploy PROVE OpeningInv'
  BY <1>7 DEF Deploy
<1>8. ASSUME Exit PROVE OpeningInv'
  BY <1>8 DEF Exit
<1>9. ASSUME StopOnCancel PROVE OpeningInv'
  BY <1>9 DEF StopOnCancel
<1>10. ASSUME NodeStop PROVE OpeningInv'
  BY <1>10 DEF NodeStop
<1>11. ASSUME ShutdownReturns PROVE OpeningInv'
  BY <1>11 DEF ShutdownReturns
<1>12. ASSUME Cancel PROVE OpeningInv'
  BY <1>12 DEF Cancel
<1>13. ASSUME NEW r \in Requests, NEW k \in Kinds, Arrive(r, k) PROVE OpeningInv'
  BY <1>13 DEF Arrive, Begin
<1>14. ASSUME NEW r \in Procs, Hit(r) PROVE OpeningInv'
  BY <1>14, NextMutexCases DEF Hit, Free
<1>15. ASSUME NEW r \in Procs, Miss(r) PROVE OpeningInv'
  BY <1>15, NextMutexCases DEF Miss, Free
<1>16. ASSUME NEW r \in Procs, Attach(r) PROVE OpeningInv'
  BY <1>16 DEF Attach
<1>17. ASSUME NEW r \in Procs, AttachFails(r) PROVE OpeningInv'
  BY <1>17 DEF AttachFails, Release
<1>18. ASSUME NEW r \in Procs, OpenGraph(r) PROVE OpeningInv'
  BY <1>18 DEF OpenGraph, Innermost
<1>19. ASSUME NEW r \in Procs, CallReturns(r) PROVE OpeningInv'
  BY <1>19 DEF CallReturns
<1>20. ASSUME NEW r \in Procs, OpenGraphFails(r) PROVE OpeningInv'
  BY <1>20 DEF OpenGraphFails, Release
<1>21. CASE UNCHANGED vars
  BY <1>21 DEF vars
<1> QED
  BY <1>1, <1>2, <1>3, <1>4, <1>5, <1>6, <1>7, <1>8,
     <1>9, <1>10, <1>11, <1>12, <1>13, <1>14, <1>15, <1>16,
     <1>17, <1>18, <1>19, <1>20, <1>21
     DEF Next, MainStep, StopStep, ProcStep

(* Every step keeps the one client.                                        *)
LEMMA OneClientStep ==
    ASSUME TypeOK, AttachInv, OneClient, [Next]_vars
    PROVE  OneClient'
<1> USE ProcessesAssumption
<1> USE DEF TypeOK, AttachInv, OneClient, nodeVars, reqVars, Procs, Mutexes
<1>1. ASSUME NodeStart PROVE OneClient'
  BY <1>1 DEF NodeStart
<1>2. ASSUME KordStart PROVE OneClient'
  BY <1>2 DEF KordStart, Begin
<1>3. ASSUME Listen PROVE OneClient'
  BY <1>3 DEF Listen
<1>4. ASSUME StartRPC PROVE OneClient'
  BY <1>4 DEF StartRPC, UnlockNode
<1>5. ASSUME AbortStart PROVE OneClient'
  BY <1>5 DEF AbortStart, UnlockNode
<1>6. ASSUME StartMining PROVE OneClient'
  BY <1>6 DEF StartMining
<1>7. ASSUME Deploy PROVE OneClient'
  BY <1>7 DEF Deploy
<1>8. ASSUME Exit PROVE OneClient'
  BY <1>8 DEF Exit
<1>9. ASSUME StopOnCancel PROVE OneClient'
  BY <1>9 DEF StopOnCancel
<1>10. ASSUME NodeStop PROVE OneClient'
  BY <1>10 DEF NodeStop
<1>11. ASSUME ShutdownReturns PROVE OneClient'
  BY <1>11 DEF ShutdownReturns
<1>12. ASSUME Cancel PROVE OneClient'
  BY <1>12 DEF Cancel
<1>13. ASSUME NEW r \in Requests, NEW k \in Kinds, Arrive(r, k) PROVE OneClient'
  BY <1>13 DEF Arrive, Begin
<1>14. ASSUME NEW r \in Procs, Hit(r) PROVE OneClient'
  BY <1>14, NextMutexCases DEF Hit, Free
<1>15. ASSUME NEW r \in Procs, Miss(r) PROVE OneClient'
  BY <1>15, NextMutexCases DEF Miss, Free
<1>16. ASSUME NEW r \in Procs, Attach(r) PROVE OneClient'
  BY <1>16 DEF Attach
<1>17. ASSUME NEW r \in Procs, AttachFails(r) PROVE OneClient'
  BY <1>17 DEF AttachFails, Release
<1>18. ASSUME NEW r \in Procs, OpenGraph(r) PROVE OneClient'
  BY <1>18 DEF OpenGraph, Innermost
<1>19. ASSUME NEW r \in Procs, CallReturns(r) PROVE OneClient'
  BY <1>19 DEF CallReturns
<1>20. ASSUME NEW r \in Procs, OpenGraphFails(r) PROVE OneClient'
  BY <1>20 DEF OpenGraphFails, Release
<1>21. CASE UNCHANGED vars
  BY <1>21 DEF vars
<1> QED
  BY <1>1, <1>2, <1>3, <1>4, <1>5, <1>6, <1>7, <1>8,
     <1>9, <1>10, <1>11, <1>12, <1>13, <1>14, <1>15, <1>16,
     <1>17, <1>18, <1>19, <1>20, <1>21
     DEF Next, MainStep, StopStep, ProcStep

(* Every step keeps the caches in agreement.                               *)
LEMMA CachesStep ==
    ASSUME TypeOK, AttachInv, OpeningInv, CachesAgree, [Next]_vars
    PROVE  CachesAgree'
<1> USE ProcessesAssumption
<1> USE DEF TypeOK, AttachInv, OpeningInv, CachesAgree, nodeVars, reqVars, Procs, Mutexes
<1>1. ASSUME NodeStart PROVE CachesAgree'
  BY <1>1 DEF NodeStart
<1>2. ASSUME KordStart PROVE CachesAgree'
  BY <1>2 DEF KordStart, Begin
<1>3. ASSUME Listen PROVE CachesAgree'
  BY <1>3 DEF Listen
<1>4. ASSUME StartRPC PROVE CachesAgree'
  BY <1>4 DEF StartRPC, UnlockNode
<1>5. ASSUME AbortStart PROVE CachesAgree'
  BY <1>5 DEF AbortStart, UnlockNode
<1>6. ASSUME StartMining PROVE CachesAgree'
  BY <1>6 DEF StartMining
<1>7. ASSUME Deploy PROVE CachesAgree'
  BY <1>7 DEF Deploy
<1>8. ASSUME Exit PROVE CachesAgree'
  BY <1>8 DEF Exit
<1>9. ASSUME StopOnCancel PROVE CachesAgree'
  BY <1>9 DEF StopOnCancel
<1>10. ASSUME NodeStop PROVE CachesAgree'
  BY <1>10 DEF NodeStop
<1>11. ASSUME ShutdownReturns PROVE CachesAgree'
  BY <1>11 DEF ShutdownReturns
<1>12. ASSUME Cancel PROVE CachesAgree'
  BY <1>12 DEF Cancel
<1>13. ASSUME NEW r \in Requests, NEW k \in Kinds, Arrive(r, k) PROVE CachesAgree'
  BY <1>13 DEF Arrive, Begin
<1>14. ASSUME NEW r \in Procs, Hit(r) PROVE CachesAgree'
  BY <1>14, NextMutexCases DEF Hit, Free
<1>15. ASSUME NEW r \in Procs, Miss(r) PROVE CachesAgree'
  BY <1>15, NextMutexCases DEF Miss, Free
<1>16. ASSUME NEW r \in Procs, Attach(r) PROVE CachesAgree'
  BY <1>16 DEF Attach
<1>17. ASSUME NEW r \in Procs, AttachFails(r) PROVE CachesAgree'
  BY <1>17 DEF AttachFails, Release
<1>18. ASSUME NEW r \in Procs, OpenGraph(r) PROVE CachesAgree'
  BY <1>18 DEF OpenGraph, Innermost
<1>19. ASSUME NEW r \in Procs, CallReturns(r) PROVE CachesAgree'
  BY <1>19 DEF CallReturns
<1>20. ASSUME NEW r \in Procs, OpenGraphFails(r) PROVE CachesAgree'
  BY <1>20 DEF OpenGraphFails, Release
<1>21. CASE UNCHANGED vars
  BY <1>21 DEF vars
<1> QED
  BY <1>1, <1>2, <1>3, <1>4, <1>5, <1>6, <1>7, <1>8,
     <1>9, <1>10, <1>11, <1>12, <1>13, <1>14, <1>15, <1>16,
     <1>17, <1>18, <1>19, <1>20, <1>21
     DEF Next, MainStep, StopStep, ProcStep

(* Every step keeps the node's lock with Start and Stop.                   *)
LEMMA LifeStep ==
    ASSUME TypeOK, LifeInv, [Next]_vars
    PROVE  LifeInv'
<1> USE ProcessesAssumption
<1> USE DEF TypeOK, LifeInv, nodeVars, reqVars, Procs, Mutexes
<1>1. ASSUME NodeStart PROVE LifeInv'
  BY <1>1 DEF NodeStart
<1>2. ASSUME KordStart PROVE LifeInv'
  BY <1>2 DEF KordStart, Begin
<1>3. ASSUME Listen PROVE LifeInv'
  BY <1>3 DEF Listen
<1>4. ASSUME StartRPC PROVE LifeInv'
  BY <1>4 DEF StartRPC, UnlockNode
<1>5. ASSUME AbortStart PROVE LifeInv'
  BY <1>5 DEF AbortStart, UnlockNode
<1>6. ASSUME StartMining PROVE LifeInv'
  BY <1>6 DEF StartMining
<1>7. ASSUME Deploy PROVE LifeInv'
  BY <1>7 DEF Deploy
<1>8. ASSUME Exit PROVE LifeInv'
  BY <1>8 DEF Exit
<1>9. ASSUME StopOnCancel PROVE LifeInv'
  BY <1>9 DEF StopOnCancel
<1>10. ASSUME NodeStop PROVE LifeInv'
  BY <1>10 DEF NodeStop
<1>11. ASSUME ShutdownReturns PROVE LifeInv'
  BY <1>11 DEF ShutdownReturns
<1>12. ASSUME Cancel PROVE LifeInv'
  BY <1>12 DEF Cancel
<1>13. ASSUME NEW r \in Requests, NEW k \in Kinds, Arrive(r, k) PROVE LifeInv'
  BY <1>13 DEF Arrive, Begin
<1>14. ASSUME NEW r \in Procs, Hit(r) PROVE LifeInv'
  BY <1>14, NextMutexCases DEF Hit, Free
<1>15. ASSUME NEW r \in Procs, Miss(r) PROVE LifeInv'
  BY <1>15, NextMutexCases DEF Miss, Free
<1>16. ASSUME NEW r \in Procs, Attach(r) PROVE LifeInv'
  BY <1>16 DEF Attach
<1>17. ASSUME NEW r \in Procs, AttachFails(r) PROVE LifeInv'
  BY <1>17 DEF AttachFails, Release
<1>18. ASSUME NEW r \in Procs, OpenGraph(r) PROVE LifeInv'
  BY <1>18 DEF OpenGraph, Innermost
<1>19. ASSUME NEW r \in Procs, CallReturns(r) PROVE LifeInv'
  BY <1>19 DEF CallReturns
<1>20. ASSUME NEW r \in Procs, OpenGraphFails(r) PROVE LifeInv'
  BY <1>20 DEF OpenGraphFails, Release
<1>21. CASE UNCHANGED vars
  BY <1>21 DEF vars
<1> QED
  BY <1>1, <1>2, <1>3, <1>4, <1>5, <1>6, <1>7, <1>8,
     <1>9, <1>10, <1>11, <1>12, <1>13, <1>14, <1>15, <1>16,
     <1>17, <1>18, <1>19, <1>20, <1>21
     DEF Next, MainStep, StopStep, ProcStep

(* Every step keeps a node with a root dapp from serving.                  *)
LEMMA RootStep ==
    ASSUME TypeOK, LifeInv, RootInv, [Next]_vars
    PROVE  RootInv'
<1> USE ProcessesAssumption
<1> USE DEF TypeOK, LifeInv, RootInv, nodeVars, reqVars, Procs, Mutexes
<1>1. ASSUME NodeStart PROVE RootInv'
  BY <1>1 DEF NodeStart
<1>2. ASSUME KordStart PROVE RootInv'
  BY <1>2 DEF KordStart, Begin
<1>3. ASSUME Listen PROVE RootInv'
  BY <1>3 DEF Listen
<1>4. ASSUME StartRPC PROVE RootInv'
  BY <1>4 DEF StartRPC, UnlockNode
<1>5. ASSUME AbortStart PROVE RootInv'
  BY <1>5 DEF AbortStart, UnlockNode
<1>6. ASSUME StartMining PROVE RootInv'
  BY <1>6 DEF StartMining
<1>7. ASSUME Deploy PROVE RootInv'
  BY <1>7 DEF Deploy
<1>8. ASSUME Exit PROVE RootInv'
  BY <1>8 DEF Exit
<1>9. ASSUME StopOnCancel PROVE RootInv'
  BY <1>9 DEF StopOnCancel
<1>10. ASSUME NodeStop PROVE RootInv'
  BY <1>10 DEF NodeStop
<1>11. ASSUME ShutdownReturns PROVE RootInv'
  BY <1>11 DEF ShutdownReturns
<1>12. ASSUME Cancel PROVE RootInv'
  BY <1>12 DEF Cancel
<1>13. ASSUME NEW r \in Requests, NEW k \in Kinds, Arrive(r, k) PROVE RootInv'
  BY <1>13 DEF Arrive, Begin
<1>14. ASSUME NEW r \in Procs, Hit(r) PROVE RootInv'
  BY <1>14, NextMutexCases DEF Hit, Free
<1>15. ASSUME NEW r \in Procs, Miss(r) PROVE RootInv'
  BY <1>15, NextMutexCases DEF Miss, Free
<1>16. ASSUME NEW r \in Procs, Attach(r) PROVE RootInv'
  BY <1>16 DEF Attach
<1>17. ASSUME NEW r \in Procs, AttachFails(r) PROVE RootInv'
  BY <1>17 DEF AttachFails, Release
<1>18. ASSUME NEW r \in Procs, OpenGraph(r) PROVE RootInv'
  BY <1>18 DEF OpenGraph, Innermost
<1>19. ASSUME NEW r \in Procs, CallReturns(r) PROVE RootInv'
  BY <1>19 DEF CallReturns
<1>20. ASSUME NEW r \in Procs, OpenGraphFails(r) PROVE RootInv'
  BY <1>20 DEF OpenGraphFails, Release
<1>21. CASE UNCHANGED vars
  BY <1>21 DEF vars
<1> QED
  BY <1>1, <1>2, <1>3, <1>4, <1>5, <1>6, <1>7, <1>8,
     <1>9, <1>10, <1>11, <1>12, <1>13, <1>14, <1>15, <1>16,
     <1>17, <1>18, <1>19, <1>20, <1>21
     DEF Next, MainStep, StopStep, ProcStep

(* The inductive invariant holds.                                          *)
LEMMA NodeInvariant == Spec => []NodeInv
<1>1. Init => NodeInv
  BY TypeInit, ProcessesAssumption
     DEF Init, NodeInv, MainInv, HeldInv, AttachInv, OpeningInv, OneClient, CachesAgree,
         LifeInv, RootInv, Procs, Mutexes
<1>2. NodeInv /\ [Next]_vars => NodeInv'
  BY TypeStep, MainStepInv, HeldStep, AttachStep, OpeningStep, OneClientStep, CachesStep,
     LifeStep, RootStep
     DEF NodeInv
<1> QED
  BY <1>1, <1>2, PTL DEF Spec

(* lazyRegistry.registry (kord/meta.go) attaches at most one client,       *)
(* however many requests and setRootDapp call it at once.                  *)
THEOREM OneClientHolds == Spec => []OneClient
<1>1. NodeInv => OneClient
  BY DEF NodeInv
<1> QED
  BY <1>1, NodeInvariant, PTL

(* A store is remembered (Get, graph/driver.go) only with its db (openDB,  *)
(* db/db.go), and a db only once the lazy registry has a client.           *)
THEOREM CachesAgreeHolds == Spec => []CachesAgree
<1>1. NodeInv => CachesAgree
  BY DEF NodeInv
<1> QED
  BY <1>1, NodeInvariant, PTL

-----------------------------------------------------------------------------
(* Requests, Start and Stop wait in a circle only in Start with a root     *)
(* dapp.  The mutexes are taken in one order (Get of graph/driver.go,      *)
(* openDB of db/db.go, registry of kord/meta.go), who has the last of them *)
(* waits for the node's lock alone, and Start without a root dapp and Stop *)
(* with its deadline wait for nobody while they hold that lock.            *)
THEOREM OnlyRootDappDeadlocksHolds == Spec => []OnlyRootDappDeadlocks
<1>1. NodeInv => OnlyRootDappDeadlocks
  <2> SUFFICES ASSUME NodeInv, NEW S \in SUBSET Waiting, Deadlocked(S),
                      ~(Main \in S /\ rootDapp /\ mpc = "listen" /\ pc[Main] = "attach")
               PROVE  FALSE
    BY DEF OnlyRootDappDeadlocks
  <2> USE ProcessesAssumption
  <2>1. /\ TypeOK /\ HeldInv /\ AttachInv /\ LifeInv /\ RootInv
        /\ \A x \in S : \E y \in S : Awaits(x, y)
        /\ \A x \in S : x \in Procs \cup {Stopper}
        /\ ShutdownDone
    BY DEF NodeInv, Deadlocked, Waiting, ShutdownDone, ShutdownDeadline
  <2>2. Stopper \notin S
    <3> SUFFICES ASSUME Stopper \in S PROVE FALSE
      OBVIOUS
    <3>1. PICK y \in S : Awaits(Stopper, y)
      BY <2>1
    <3>2. spc = "lock" /\ LockHolder = y
      BY <2>1, <3>1 DEF Awaits, Procs
    <3>3. lock = "free"
      BY <2>1, <3>2 DEF LifeInv, TypeOK
    <3> QED
      BY <2>1, <3>2, <3>3 DEF LockHolder, Procs
  <2>3. \A x \in S : \E y \in S :
           \/ pc[x] = "lock" /\ held[NextMutex(x)] = y
           \/ pc[x] = "attach" /\ LockHolder = y
    <3> SUFFICES ASSUME NEW x \in S, NEW y \in S, Awaits(x, y)
                 PROVE  \/ pc[x] = "lock" /\ held[NextMutex(x)] = y
                        \/ pc[x] = "attach" /\ LockHolder = y
      BY <2>1
    <3>1. ~(mpc = "init" /\ LockHolder = y)
      BY <2>1, <2>2 DEF LifeInv, TypeOK, LockHolder, Procs
    <3>2. x # Stopper /\ y # Stopper
      BY <2>2
    <3> QED
      BY <2>1, <3>1, <3>2 DEF Awaits
  <2>4. \A x \in S : pc[x] # "attach"
    <3> SUFFICES ASSUME NEW x \in S, pc[x] = "attach" PROVE FALSE
      OBVIOUS
    <3>1. LockHolder \in S
      BY <2>3
    <3>2. lock = "start" /\ Main \in S
      BY <2>1, <2>2, <3>1 DEF LockHolder, TypeOK, Procs
    <3>3. pc[Main] = "lock"
      BY <2>1, <2>3, <3>2 DEF LifeInv
    <3>4. x # Main /\ x \in Requests /\ rootDapp
      BY <2>1, <2>2, <3>3 DEF LifeInv, Procs
    <3> QED
      BY <2>1, <3>4 DEF RootInv
  <2>5. \A x \in S : x \in Procs /\ pc[x] = "lock" /\ held[NextMutex(x)] \in S
    BY <2>1, <2>2, <2>3, <2>4
  <2>6. \A x \in S : NextMutex(x) # "lazy"
    BY <2>1, <2>4, <2>5 DEF HeldInv
  <2>7. \A x \in S : NextMutex(x) # "db"
    <3> SUFFICES ASSUME NEW x \in S, NextMutex(x) = "db" PROVE FALSE
      OBVIOUS
    <3>1. PICK y \in S : held["db"] = y
      BY <2>5
    <3>2. kind[y] # "set" /\ pos[y] >= IF kind[y] = "get" THEN 2 ELSE 1
      BY <2>1, <2>5, <3>1 DEF HeldInv
    <3>3. NextMutex(y) = "lazy"
      BY <2>1, <2>5, <3>2, NextMutexCases
    <3> QED
      BY <2>6, <3>3
  <2>8. PICK x \in S : TRUE
    BY DEF Deadlocked
  <2>9. NextMutex(x) = "store"
    BY <2>1, <2>5, <2>6, <2>7, NextMutexCases
  <2>10. PICK y \in S : held["store"] = y
    BY <2>5, <2>9
  <2>11. kind[y] = "get" /\ pos[y] >= 1
    BY <2>1, <2>5, <2>10 DEF HeldInv
  <2>12. NextMutex(y) \in {"db", "lazy"}
    BY <2>1, <2>5, <2>11, NextMutexCases
  <2> QED
    BY <2>6, <2>7, <2>12
<1> QED
  BY <1>1, NodeInvariant, PTL

(* A node that is started with --root-dapp never serves a request, never   *)
(* has its RPC server and never gets a registry client, in any instance:   *)
(* Kord.Start opens the dapp's graph under the lock of node.Start, for     *)
(* which the lazy registry then waits (kord/meta.go).                      *)
THEOREM RootDappNeverServes ==
    Spec => [](rootDapp => ~serving /\ ~server /\ made = 0)
<1>1. NodeInv => (rootDapp => ~serving /\ ~server /\ made = 0)
  BY DEF NodeInv, RootInv, OneClient, TypeOK
<1> QED
  BY <1>1, NodeInvariant, PTL
=============================================================================
