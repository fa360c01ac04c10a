--------------------------- MODULE RegistryProofs ---------------------------
(* Proofs, for every number of callers, transactions and heads, of the     *)
(* safety properties of Registry.                                          *)
EXTENDS Registry, TLAPS

(* The signature of a transaction that exists, or is about to be sent, was *)
(* made by an owner, if it has the right shape.                            *)
SigInv ==
    \A t \in Txs :
        (txst[t] # "none" \/ \E p \in Callers : cpc[p] = "call" /\ ctx[p] = t)
            => txreq[t].sig \in issued \cup {Malformed}

(* No two calls share a transaction, and the chain does not know the       *)
(* transaction of a call that has not sent it.                             *)
TxInv ==
    /\ \A p, q \in Callers : ctx[p] # None /\ ctx[p] = ctx[q] => p = q
    /\ \A p \in Callers : cpc[p] = "call" => txst[ctx[p]] = "none"

(* The inductive invariant.                                                *)
RegistryInv == TypeOK /\ SigInv /\ TxInv /\ OnlySignedGraphs /\ ResultIsTrue

-----------------------------------------------------------------------------
(* The contract writes a hash under an address, or nothing.                *)
LEMMA SetGraphType ==
    ASSUME TypeOK, NEW t \in Txs, SetGraph(t)
    PROVE  /\ graphs' \in [Addrs \cup {Zero} -> Messages \cup {Empty}]
           /\ txst' \in [Txs -> {"none", "pending", "ok", "failed"}]
<1>1. txreq[t].hash \in Messages /\ txreq[t].sig \in Sigs \cup {Malformed}
  BY DEF TypeOK, Request
<1>2. txreq[t].sig # Malformed =>
          Ecrecover(txreq[t].hash, txreq[t].sig) \in Addrs \cup {Zero}
  BY <1>1 DEF Ecrecover, Sigs
<1> QED
  BY <1>1, <1>2 DEF SetGraph, TypeOK

(* Every step keeps the types.                                             *)
LEMMA TypeStep ==
    ASSUME TypeOK, [Next]_vars
    PROVE  TypeOK'
<1> USE BlockTimeoutAssumption, MaxHeadsAssumption, ValuesAssumption
<1> USE DEF TypeOK, chainVars, feedVars, callerVars
<1>1. ASSUME NEW a \in Addrs, NEW m \in Signed, Sign(a, m) PROVE TypeOK'
  BY <1>1 DEF Sign, Sigs
<1>2. ASSUME NewBlock PROVE TypeOK'
  <2>1. /\ graphs' \in [Addrs \cup {Zero} -> Messages \cup {Empty}]
        /\ txst' \in [Txs -> {"none", "pending", "ok", "failed"}]
    BY <1>2, SetGraphType DEF NewBlock
  <2>2. heads' \in 0 .. MaxHeads
    BY <1>2 DEF NewBlock
  <2> QED
    BY <1>2, <2>1, <2>2 DEF NewBlock
<1>3. ASSUME SubscriptionDies PROVE TypeOK'
  BY <1>3 DEF SubscriptionDies
<1>4. ASSUME PumpTakesHead PROVE TypeOK'
  BY <1>4 DEF PumpTakesHead
<1>5. ASSUME PumpSent PROVE TypeOK'
  BY <1>5 DEF PumpSent
<1>6. ASSUME PumpExits PROVE TypeOK'
  BY <1>6 DEF PumpExits
<1>7. ASSUME CloseClient PROVE TypeOK'
  BY <1>7 DEF CloseClient
<1>8. ASSUME NEW p \in Callers, TxSent(p) PROVE TypeOK'
  BY <1>8 DEF TxSent
<1>9. ASSUME NEW p \in Callers, TxFails(p) PROVE TypeOK'
  BY <1>9 DEF TxFails, Return
<1>10. ASSUME NEW p \in Callers, ReceiveHead(p) PROVE TypeOK'
  BY <1>10 DEF ReceiveHead, Return, TimedOut
<1>11. ASSUME NEW p \in Callers, ReceiptNotFound(p) PROVE TypeOK'
  BY <1>11 DEF ReceiptNotFound
<1>12. ASSUME NEW p \in Callers, ReceiptFound(p) PROVE TypeOK'
  BY <1>12 DEF ReceiptFound, Return, Status
<1>13. ASSUME NEW p \in Callers, ReceiptFails(p) PROVE TypeOK'
  BY <1>13 DEF ReceiptFails, Return
<1>14. ASSUME NEW p \in Callers, ClientClosed(p) PROVE TypeOK'
  BY <1>14 DEF ClientClosed, Return
<1>15. ASSUME NEW p \in Callers, NEW t \in Txs, NEW h \in Messages,
             NEW sig \in issued \cup {Malformed},
             CallDo(p, t, [hash |-> h, sig |-> sig])
      PROVE TypeOK'
  <2>1. [hash |-> h, sig |-> sig] \in Request
    BY DEF Request
  <2> QED
    BY <1>15, <2>1 DEF CallDo, Unused
<1>16. CASE UNCHANGED vars
  BY <1>16 DEF vars
<1> QED
  BY <1>1, <1>2, <1>3, <1>4, <1>5, <1>6, <1>7, <1>8, <1>9, <1>10, <1>11, <1>12, <1>13, <1>14, <1>15, <1>16
     DEF Next, PumpStep, DoStep

(* Every step keeps the signatures of transactions within the issued ones. *)
LEMMA SigStep ==
    ASSUME TypeOK, TypeOK', TxInv, SigInv, [Next]_vars
    PROVE  SigInv'
<1> USE ValuesAssumption
<1> USE DEF TypeOK, TxInv, SigInv, chainVars, feedVars, callerVars
<1>1. ASSUME NEW a \in Addrs, NEW m \in Signed, Sign(a, m) PROVE SigInv'
  BY <1>1 DEF Sign, Sigs
<1>2. ASSUME NewBlock PROVE SigInv'
  BY <1>2 DEF NewBlock, SetGraph
<1>3. ASSUME SubscriptionDies PROVE SigInv'
  BY <1>3 DEF SubscriptionDies
<1>4. ASSUME PumpTakesHead PROVE SigInv'
  BY <1>4 DEF PumpTakesHead
<1>5. ASSUME PumpSent PROVE SigInv'
  BY <1>5 DEF PumpSent
<1>6. ASSUME PumpExits PROVE SigInv'
  BY <1>6 DEF PumpExits
<1>7. ASSUME CloseClient PROVE SigInv'
  BY <1>7 DEF CloseClient
<1>8. ASSUME NEW p \in Callers, TxSent(p) PROVE SigInv'
  BY <1>8 DEF TxSent
<1>9. ASSUME NEW p \in Callers, TxFails(p) PROVE SigInv'
  BY <1>9 DEF TxFails, Return
<1>10. ASSUME NEW p \in Callers, ReceiveHead(p) PROVE SigInv'
  BY <1>10 DEF ReceiveHead, Return, TimedOut
<1>11. ASSUME NEW p \in Callers, ReceiptNotFound(p) PROVE SigInv'
  BY <1>11 DEF ReceiptNotFound
<1>12. ASSUME NEW p \in Callers, ReceiptFound(p) PROVE SigInv'
  BY <1>12 DEF ReceiptFound, Return, Status
<1>13. ASSUME NEW p \in Callers, ReceiptFails(p) PROVE SigInv'
  BY <1>13 DEF ReceiptFails, Return
<1>14. ASSUME NEW p \in Callers, ClientClosed(p) PROVE SigInv'
  BY <1>14 DEF ClientClosed, Return
<1>15. ASSUME NEW p \in Callers, NEW t \in Txs, NEW h \in Messages,
             NEW sig \in issued \cup {Malformed},
             CallDo(p, t, [hash |-> h, sig |-> sig])
      PROVE SigInv'
  BY <1>15 DEF CallDo, Unused
<1>16. CASE UNCHANGED vars
  BY <1>16 DEF vars
<1> QED
  BY <1>1, <1>2, <1>3, <1>4, <1>5, <1>6, <1>7, <1>8, <1>9, <1>10, <1>11, <1>12, <1>13, <1>14, <1>15, <1>16
     DEF Next, PumpStep, DoStep

(* Every step keeps transactions apart.                                    *)
LEMMA TxStep ==
    ASSUME TypeOK, TypeOK', TxInv, [Next]_vars
    PROVE  TxInv'
<1> USE ValuesAssumption
<1> USE DEF TypeOK, TxInv, chainVars, feedVars, callerVars
<1>1. ASSUME NEW a \in Addrs, NEW m \in Signed, Sign(a, m) PROVE TxInv'
  BY <1>1 DEF Sign, Sigs
<1>2. ASSUME NewBlock PROVE TxInv'
  BY <1>2 DEF NewBlock, SetGraph
<1>3. ASSUME SubscriptionDies PROVE TxInv'
  BY <1>3 DEF SubscriptionDies
<1>4. ASSUME PumpTakesHead PROVE TxInv'
  BY <1>4 DEF PumpTakesHead
<1>5. ASSUME PumpSent PROVE TxInv'
  BY <1>5 DEF PumpSent
<1>6. ASSUME PumpExits PROVE TxInv'
  BY <1>6 DEF PumpExits
<1>7. ASSUME CloseClient PROVE TxInv'
  BY <1>7 DEF CloseClient
<1>8. ASSUME NEW p \in Callers, TxSent(p) PROVE TxInv'
  BY <1>8 DEF TxSent
<1>9. ASSUME NEW p \in Callers, TxFails(p) PROVE TxInv'
  BY <1>9 DEF TxFails, Return
<1>10. ASSUME NEW p \in Callers, ReceiveHead(p) PROVE TxInv'
  BY <1>10 DEF ReceiveHead, Return, TimedOut
<1>11. ASSUME NEW p \in Callers, ReceiptNotFound(p) PROVE TxInv'
  BY <1>11 DEF ReceiptNotFound
<1>12. ASSUME NEW p \in Callers, ReceiptFound(p) PROVE TxInv'
  BY <1>12 DEF ReceiptFound, Return, Status
<1>13. ASSUME NEW p \in Callers, ReceiptFails(p) PROVE TxInv'
  BY <1>13 DEF ReceiptFails, Return
<1>14. ASSUME NEW p \in Callers, ClientClosed(p) PROVE TxInv'
  BY <1>14 DEF ClientClosed, Return
<1>15. ASSUME NEW p \in Callers, NEW t \in Txs, NEW h \in Messages,
             NEW sig \in issued \cup {Malformed},
             CallDo(p, t, [hash |-> h, sig |-> sig])
      PROVE TxInv'
  BY <1>15 DEF CallDo, Unused
<1>16. CASE UNCHANGED vars
  BY <1>16 DEF vars
<1> QED
  BY <1>1, <1>2, <1>3, <1>4, <1>5, <1>6, <1>7, <1>8, <1>9, <1>10, <1>11, <1>12, <1>13, <1>14, <1>15, <1>16
     DEF Next, PumpStep, DoStep

(* Every step leaves only signed hashes in the contract.                   *)
LEMMA SignedStep ==
    ASSUME TypeOK, TypeOK', SigInv, OnlySignedGraphs, [Next]_vars
    PROVE  OnlySignedGraphs'
<1> USE ValuesAssumption
<1> USE DEF TypeOK, SigInv, OnlySignedGraphs, chainVars, feedVars, callerVars
<1>1. ASSUME NEW a \in Addrs, NEW m \in Signed, Sign(a, m) PROVE OnlySignedGraphs'
  BY <1>1 DEF Sign, Sigs
<1>2. ASSUME NewBlock PROVE OnlySignedGraphs'
  BY <1>2 DEF NewBlock, SetGraph, Ecrecover, Sigs, Request
<1>3. ASSUME SubscriptionDies PROVE OnlySignedGraphs'
  BY <1>3 DEF SubscriptionDies
<1>4. ASSUME PumpTakesHead PROVE OnlySignedGraphs'
  BY <1>4 DEF PumpTakesHead
<1>5. ASSUME PumpSent PROVE OnlySignedGraphs'
  BY <1>5 DEF PumpSent
<1>6. ASSUME PumpExits PROVE OnlySignedGraphs'
  BY <1>6 DEF PumpExits
<1>7. ASSUME CloseClient PROVE OnlySignedGraphs'
  BY <1>7 DEF CloseClient
<1>8. ASSUME NEW p \in Callers, TxSent(p) PROVE OnlySignedGraphs'
  BY <1>8 DEF TxSent
<1>9. ASSUME NEW p \in Callers, TxFails(p) PROVE OnlySignedGraphs'
  BY <1>9 DEF TxFails, Return
<1>10. ASSUME NEW p \in Callers, ReceiveHead(p) PROVE OnlySignedGraphs'
  BY <1>10 DEF ReceiveHead, Return, TimedOut
<1>11. ASSUME NEW p \in Callers, ReceiptNotFound(p) PROVE OnlySignedGraphs'
  BY <1>11 DEF ReceiptNotFound
<1>12. ASSUME NEW p \in Callers, ReceiptFound(p) PROVE OnlySignedGraphs'
  BY <1>12 DEF ReceiptFound, Return, Status
<1>13. ASSUME NEW p \in Callers, ReceiptFails(p) PROVE OnlySignedGraphs'
  BY <1>13 DEF ReceiptFails, Return
<1>14. ASSUME NEW p \in Callers, ClientClosed(p) PROVE OnlySignedGraphs'
  BY <1>14 DEF ClientClosed, Return
<1>15. ASSUME NEW p \in Callers, NEW t \in Txs, NEW h \in Messages,
             NEW sig \in issued \cup {Malformed},
             CallDo(p, t, [hash |-> h, sig |-> sig])
      PROVE OnlySignedGraphs'
  BY <1>15 DEF CallDo, Unused
<1>16. CASE UNCHANGED vars
  BY <1>16 DEF vars
<1> QED
  BY <1>1, <1>2, <1>3, <1>4, <1>5, <1>6, <1>7, <1>8, <1>9, <1>10, <1>11, <1>12, <1>13, <1>14, <1>15, <1>16
     DEF Next, PumpStep, DoStep

(* Every step keeps what was reported true: an executed transaction does   *)
(* not change any more.                                                    *)
LEMMA ResultStep ==
    ASSUME TypeOK, TypeOK', TxInv, ResultIsTrue, [Next]_vars
    PROVE  ResultIsTrue'
<1> USE ValuesAssumption
<1> USE DEF TypeOK, TxInv, ResultIsTrue, chainVars, feedVars, callerVars
<1>1. ASSUME NEW a \in Addrs, NEW m \in Signed, Sign(a, m) PROVE ResultIsTrue'
  BY <1>1 DEF Sign, Sigs
<1>2. ASSUME NewBlock PROVE ResultIsTrue'
  BY <1>2 DEF NewBlock, SetGraph
<1>3. ASSUME SubscriptionDies PROVE ResultIsTrue'
  BY <1>3 DEF SubscriptionDies
<1>4. ASSUME PumpTakesHead PROVE ResultIsTrue'
  BY <1>4 DEF PumpTakesHead
<1>5. ASSUME PumpSent PROVE ResultIsTrue'
  BY <1>5 DEF PumpSent
<1>6. ASSUME PumpExits PROVE ResultIsTrue'
  BY <1>6 DEF PumpExits
<1>7. ASSUME CloseClient PROVE ResultIsTrue'
  BY <1>7 DEF CloseClient
<1>8. ASSUME NEW p \in Callers, TxSent(p) PROVE ResultIsTrue'
  BY <1>8 DEF TxSent
<1>9. ASSUME NEW p \in Callers, TxFails(p) PROVE ResultIsTrue'
  BY <1>9 DEF TxFails, Return
<1>10. ASSUME NEW p \in Callers, ReceiveHead(p) PROVE ResultIsTrue'
  BY <1>10 DEF ReceiveHead, Return, TimedOut
<1>11. ASSUME NEW p \in Callers, ReceiptNotFound(p) PROVE ResultIsTrue'
  BY <1>11 DEF ReceiptNotFound
<1>12. ASSUME NEW p \in Callers, ReceiptFound(p) PROVE ResultIsTrue'
  BY <1>12 DEF ReceiptFound, Return, Status
<1>13. ASSUME NEW p \in Callers, ReceiptFails(p) PROVE ResultIsTrue'
  BY <1>13 DEF ReceiptFails, Return
<1>14. ASSUME NEW p \in Callers, ClientClosed(p) PROVE ResultIsTrue'
  BY <1>14 DEF ClientClosed, Return
<1>15. ASSUME NEW p \in Callers, NEW t \in Txs, NEW h \in Messages,
             NEW sig \in issued \cup {Malformed},
             CallDo(p, t, [hash |-> h, sig |-> sig])
      PROVE ResultIsTrue'
  BY <1>15 DEF CallDo, Unused
<1>16. CASE UNCHANGED vars
  BY <1>16 DEF vars
<1> QED
  BY <1>1, <1>2, <1>3, <1>4, <1>5, <1>6, <1>7, <1>8, <1>9, <1>10, <1>11, <1>12, <1>13, <1>14, <1>15, <1>16
     DEF Next, PumpStep, DoStep

-----------------------------------------------------------------------------
(* The initial state satisfies the inductive invariant.                    *)
LEMMA RegistryInvInit == Init => RegistryInv
<1> SUFFICES ASSUME Init PROVE RegistryInv
  OBVIOUS
<1>1. AnyRequest \in Request
  <2>1. PICK h \in Messages : TRUE
    BY ValuesAssumption
  <2>2. [hash |-> h, sig |-> Malformed] \in Request
    BY DEF Request
  <2> QED
    BY <2>2 DEF AnyRequest
<1>2. TypeOK
  <2>1. 0 \in 0 .. BlockTimeout /\ 0 \in 0 .. MaxHeads
    BY BlockTimeoutAssumption, MaxHeadsAssumption
  <2>2. txreq \in [Txs -> Request]
    BY <1>1 DEF Init
  <2>3. count \in [Callers -> 0 .. BlockTimeout] /\ heads \in 0 .. MaxHeads
    BY <2>1 DEF Init
  <2> QED
    BY <2>2, <2>3 DEF Init, TypeOK
<1>3. SigInv /\ TxInv
  BY DEF Init, SigInv, TxInv
<1>4. OnlySignedGraphs /\ ResultIsTrue
  BY DEF Init, OnlySignedGraphs, ResultIsTrue
<1> QED
  BY <1>2, <1>3, <1>4 DEF RegistryInv

(* The inductive invariant holds in every reachable state.                 *)
LEMMA RegistryInvHolds == Spec => []RegistryInv
<1>1. RegistryInv /\ [Next]_vars => RegistryInv'
  <2> SUFFICES ASSUME RegistryInv, [Next]_vars PROVE RegistryInv'
    OBVIOUS
  <2>1. TypeOK /\ SigInv /\ TxInv /\ OnlySignedGraphs /\ ResultIsTrue
    BY DEF RegistryInv
  <2>2. TypeOK'
    BY <2>1, TypeStep
  <2>3. SigInv' /\ TxInv'
    BY <2>1, <2>2, SigStep, TxStep
  <2>4. OnlySignedGraphs' /\ ResultIsTrue'
    BY <2>1, <2>2, SignedStep, ResultStep
  <2> QED
    BY <2>2, <2>3, <2>4 DEF RegistryInv
<1> QED
  BY <1>1, RegistryInvInit, PTL DEF Spec

-----------------------------------------------------------------------------
(* Every variable of the client and the chain keeps its type.              *)
THEOREM TypeCorrect == Spec => []TypeOK
<1>1. RegistryInv => TypeOK
  BY DEF RegistryInv
<1> QED
  BY <1>1, RegistryInvHolds, PTL

(* The contract holds, for every address, only a hash its owner signed.    *)
THEOREM OnlySignedGraphsHolds == Spec => []OnlySignedGraphs
<1>1. RegistryInv => OnlySignedGraphs
  BY DEF RegistryInv
<1> QED
  BY <1>1, RegistryInvHolds, PTL

(* What SetGraph reports of its transaction is what the chain made of it.  *)
THEOREM ResultIsTrueHolds == Spec => []ResultIsTrue
<1>1. RegistryInv => ResultIsTrue
  BY DEF RegistryInv
<1> QED
  BY <1>1, RegistryInvHolds, PTL

-----------------------------------------------------------------------------
(* The callers whose call has not returned.                                *)
Busy == {p \in Callers : cpc[p] # "idle"}

(* A step that leaves the contract, the signatures, the transactions and   *)
(* the reports alone, and no caller comes or goes in, or is asked to send, *)
(* is no step of SignedRegister.                                           *)
LEMMA Unseen ==
    ASSUME UNCHANGED <<graphs, issued, txreq, ctx, res>>,
           Busy' = Busy,
           \A t \in Txs : Effect(t)' = Effect(t)
    PROVE  UNCHANGED Register!vars
<1>1. [a \in Addrs |-> graphs[a]]' = [a \in Addrs |-> graphs[a]]
  OBVIOUS
<1>2. [t \in Txs |-> Effect(t)]' = [t \in Txs |-> Effect(t)]
  OBVIOUS
<1> QED
  BY <1>1, <1>2 DEF Register!vars, Busy

(* The first state of the client and the chain is one of SignedRegister.   *)
LEMMA RegisterInit == Init => Register!Init
<1> SUFFICES ASSUME Init PROVE Register!Init
  OBVIOUS
<1>1. txreq \in [Txs -> Request]
  BY RegistryInvInit DEF RegistryInv, TypeOK
<1>2. \A t \in Txs : Effect(t) = "none"
  BY DEF Init, Effect
<1>3. {p \in Callers : cpc[p] # "idle"} = {}
  BY DEF Init
<1>4. [a \in Addrs |-> graphs[a]] = [a \in Addrs |-> Empty]
  BY DEF Init
<1> QED
  BY <1>1, <1>2, <1>3, <1>4 DEF Init, Register!Init, Request, Sigs

(* A call that returns is one of SignedRegister's returns, with the effect *)
(* its transaction has or, when it was not sent, with none.                *)
LEMMA ReturnStep ==
    ASSUME TypeOK, NEW p \in Callers, cpc[p] # "idle", NEW r, Return(p, r),
           UNCHANGED <<graphs, issued, txreq, ctx>>
    PROVE  Register!Return(p, r)
<1>1. Busy' = Busy \ {p}
  BY DEF TypeOK, Return, Busy
<1>2. [a \in Addrs |-> graphs[a]]' = [a \in Addrs |-> graphs[a]]
  OBVIOUS
<1> QED
  BY <1>1, <1>2 DEF Register!Return, Return, Busy

(* A block that executes a transaction makes its write take effect, or     *)
(* throw.                                                                  *)
LEMMA ExecuteStep ==
    ASSUME TypeOK, TxInv, NEW t \in Txs, txst[t] = "pending", SetGraph(t),
           UNCHANGED <<txreq, issued, callerVars>>
    PROVE  Register!TakesEffect(t) \/ Register!Throws(t)
<1> USE ValuesAssumption
<1>1. \A p \in Callers : ~(cpc[p] = "call" /\ ctx[p] = t)
  BY DEF TxInv
<1>2. Effect(t) = "pending" /\ Effect(t)' = txst'[t]
  BY <1>1 DEF Effect, callerVars
<1>3. \A u \in Txs \ {t} : Effect(u)' = Effect(u)
  BY DEF Effect, SetGraph, TypeOK, callerVars
<1>4. [u \in Txs |-> Effect(u)]' = [[u \in Txs |-> Effect(u)] EXCEPT ![t] = txst'[t]]
  BY <1>2, <1>3
<1>5. txreq[t].hash \in Messages /\ txreq[t].sig \in Sigs \cup {Malformed}
  BY DEF TypeOK, Request
<1>6. CASE txreq[t].sig = Malformed
  <2>1. graphs' = graphs /\ txst'[t] = "failed"
    BY <1>6 DEF SetGraph, TypeOK
  <2>2. Register!Throws(t)
    BY <1>2, <1>4, <1>6, <2>1 DEF Register!Throws, callerVars
  <2> QED
    BY <2>2
<1>7. CASE txreq[t].sig # Malformed
  <2>1. txst'[t] = "ok"
    BY <1>7 DEF SetGraph, TypeOK
  <2>2. ASSUME NEW a \in Addrs
        PROVE  graphs'[a] = IF Register!Signs(a, txreq[t]) THEN txreq[t].hash ELSE graphs[a]
    BY <1>5, <1>7, <2>2 DEF SetGraph, Ecrecover, Sigs, TypeOK, Register!Signs
  <2>3. [a \in Addrs |-> graphs[a]]'
            = [a \in Addrs |-> IF Register!Signs(a, txreq[t])
                               THEN txreq[t].hash ELSE [b \in Addrs |-> graphs[b]][a]]
    BY <2>2
  <2>4. Register!TakesEffect(t)
    BY <1>2, <1>4, <1>7, <2>1, <2>3 DEF Register!TakesEffect, callerVars
  <2> QED
    BY <2>4
<1> QED
  BY <1>6, <1>7

(* Every step of the client and the chain is a step of SignedRegister, or  *)
(* changes nothing there.                                                  *)
LEMMA RegisterStep ==
    ASSUME RegistryInv, [Next]_vars
    PROVE  [Register!Next]_(Register!vars)
<1> DEFINE R == [Register!Next]_(Register!vars)
<1>0. TypeOK /\ TxInv
  BY DEF RegistryInv
<1> USE ValuesAssumption, <1>0
<1> USE DEF chainVars, feedVars, callerVars
<1>1. ASSUME NEW a \in Addrs, NEW m \in Signed, Sign(a, m) PROVE R
  <2>1. \A t \in Txs : Effect(t)' = Effect(t)
    BY <1>1 DEF Sign, Effect
  <2>2. Register!Sign(a, m)
    BY <1>1, <2>1 DEF Sign, Register!Sign
  <2> QED
    BY <2>2 DEF Register!Next
<1>2. ASSUME NewBlock PROVE R
  <2>1. CASE UNCHANGED <<graphs, txst>>
    BY <1>2, <2>1, Unseen DEF NewBlock, Busy, Effect
  <2>2. ASSUME NEW t \in Txs, txst[t] = "pending", SetGraph(t) PROVE R
    <3>1. Register!TakesEffect(t) \/ Register!Throws(t)
      BY <1>2, <2>2, ExecuteStep DEF NewBlock
    <3> QED
      BY <3>1 DEF Register!Next
  <2> QED
    BY <1>2, <2>1, <2>2 DEF NewBlock
<1>3. ASSUME SubscriptionDies PROVE R
  BY <1>3, Unseen DEF SubscriptionDies, Busy, Effect
<1>4. ASSUME PumpTakesHead PROVE R
  BY <1>4, Unseen DEF PumpTakesHead, Busy, Effect
<1>5. ASSUME PumpSent PROVE R
  BY <1>5, Unseen DEF PumpSent, Busy, Effect
<1>6. ASSUME PumpExits PROVE R
  BY <1>6, Unseen DEF PumpExits, Busy, Effect
<1>7. ASSUME CloseClient PROVE R
  BY <1>7, Unseen DEF CloseClient, Busy, Effect
<1>8. ASSUME NEW p \in Callers, TxSent(p) PROVE R
  <2>1. ctx[p] \in Txs /\ txst[ctx[p]] = "none"
    BY <1>8 DEF TxSent, TypeOK, TxInv
  <2>2. ASSUME NEW t \in Txs PROVE Effect(t)' = Effect(t)
    <3>1. CASE t = ctx[p]
      BY <1>8, <2>1, <3>1 DEF TxSent, TypeOK, TxInv, Effect
    <3>2. CASE t # ctx[p]
      BY <1>8, <2>1, <3>2 DEF TxSent, TypeOK, Effect
    <3> QED
      BY <3>1, <3>2
  <2>3. Busy' = Busy
    BY <1>8 DEF TxSent, TypeOK, Busy
  <2> QED
    BY <1>8, <2>2, <2>3, Unseen DEF TxSent
<1>9. ASSUME NEW p \in Callers, TxFails(p) PROVE R
  <2>1. PICK t \in Txs : t = ctx[p] /\ txst[t] = "none" /\ cpc[p] = "call"
    BY <1>9 DEF TxFails, TypeOK, TxInv
  <2>2. Register!Return(p, "error")
    BY <1>9, <2>1, ReturnStep DEF TxFails
  <2>3. Effect(t) = "pending" /\ Effect(t)' = txst'[t]
    BY <1>9, <2>1 DEF TxFails, Return, TypeOK, TxInv, Effect
  <2>4. \A u \in Txs \ {t} : Effect(u)' = Effect(u)
    BY <1>9, <2>1 DEF TxFails, Return, TypeOK, Effect
  <2>5. p \in {q \in Callers : cpc[q] # "idle"}
    BY <2>1
  <2>6. CASE txst' = txst
    <3>1. [u \in Txs |-> Effect(u)]' = [[u \in Txs |-> Effect(u)] EXCEPT ![t] = "none"]
      BY <2>1, <2>3, <2>4, <2>6
    <3>2. Register!NotSent(p)
      BY <2>1, <2>2, <2>3, <2>5, <3>1 DEF Register!NotSent
    <3> QED
      BY <3>2 DEF Register!Next
  <2>7. CASE txst' = [txst EXCEPT ![t] = "pending"]
    <3>1. txst'[t] = "pending"
      BY <2>7 DEF TypeOK
    <3>2. [u \in Txs |-> Effect(u)]' = [u \in Txs |-> Effect(u)]
      BY <2>3, <2>4, <3>1
    <3>3. Register!GivesUp(p)
      BY <2>2, <2>5, <3>2 DEF Register!GivesUp
    <3> QED
      BY <3>3 DEF Register!Next
  <2> QED
    BY <1>9, <2>1, <2>6, <2>7 DEF TxFails
<1>10. ASSUME NEW p \in Callers, NEW r \in {"timeout", "error", "closed"},
              cpc[p] \in {"wait", "query"}, Return(p, r),
              UNCHANGED <<chainVars, issued, ctx>>
       PROVE R
  <2>1. Register!Return(p, r)
    BY <1>10, ReturnStep
  <2>2. [t \in Txs |-> Effect(t)]' = [t \in Txs |-> Effect(t)]
    BY <1>10 DEF Return, TypeOK, Effect
  <2>3. p \in {q \in Callers : cpc[q] # "idle"}
    BY <1>10
  <2>4. Register!GivesUp(p)
    BY <2>1, <2>2, <2>3 DEF Register!GivesUp
  <2> QED
    BY <2>4 DEF Register!Next
<1>11. ASSUME NEW p \in Callers, ReceiveHead(p) PROVE R
  <2>1. CASE Return(p, "timeout")
    BY <1>10, <1>11, <2>1 DEF ReceiveHead
  <2>2. CASE cpc' = [cpc EXCEPT ![p] = "query"] /\ UNCHANGED res
    <3>1. Busy' = Busy /\ \A t \in Txs : Effect(t)' = Effect(t)
      BY <1>11, <2>2 DEF ReceiveHead, TypeOK, Busy, Effect
    <3> QED
      BY <1>11, <2>2, <3>1, Unseen DEF ReceiveHead
  <2> QED
    BY <1>11, <2>1, <2>2 DEF ReceiveHead
<1>12. ASSUME NEW p \in Callers, ReceiptNotFound(p) PROVE R
  <2>1. Busy' = Busy /\ \A t \in Txs : Effect(t)' = Effect(t)
    BY <1>12 DEF ReceiptNotFound, TypeOK, Busy, Effect
  <2> QED
    BY <1>12, <2>1, Unseen DEF ReceiptNotFound
<1>13. ASSUME NEW p \in Callers, ReceiptFound(p) PROVE R
  <2>1. PICK r \in {"ok", "failed"} : r = txst[ctx[p]]
    BY <1>13 DEF ReceiptFound
  <2>2. ctx[p] \in Txs /\ cpc[p] = "query"
    BY <1>13 DEF ReceiptFound, TypeOK
  <2>3. Effect(ctx[p]) = r
    BY <1>13, <2>1, <2>2 DEF ReceiptFound, TxInv, Effect
  <2>4. Register!Return(p, r)
    BY <1>13, <2>1, <2>2, ReturnStep DEF ReceiptFound, Status
  <2>5. [t \in Txs |-> Effect(t)]' = [t \in Txs |-> Effect(t)]
    BY <1>13 DEF ReceiptFound, Return, TypeOK, Effect
  <2>6. p \in {q \in Callers : cpc[q] # "idle"}
    BY <2>2
  <2>7. [t \in Txs |-> Effect(t)][ctx[p]] = r
    BY <2>2, <2>3
  <2>8. Register!Reports(p)
    BY <2>4, <2>5, <2>6, <2>7 DEF Register!Reports, Register!Return
  <2> QED
    BY <2>8 DEF Register!Next
<1>14. ASSUME NEW p \in Callers, ReceiptFails(p) PROVE R
  BY <1>10, <1>14 DEF ReceiptFails
<1>15. ASSUME NEW p \in Callers, ClientClosed(p) PROVE R
  BY <1>10, <1>15 DEF ClientClosed
<1>16. ASSUME NEW p \in Callers, NEW t \in Txs, NEW h \in Messages,
             NEW sig \in issued \cup {Malformed},
             CallDo(p, t, [hash |-> h, sig |-> sig])
      PROVE R
  <2>1. Effect(t) = "none" /\ Effect(t)' = "pending"
    BY <1>16 DEF CallDo, Unused, TypeOK, Effect
  <2>2. \A u \in Txs \ {t} : Effect(u)' = Effect(u)
    BY <1>16 DEF CallDo, Unused, TypeOK, TxInv, Effect
  <2>3. [u \in Txs |-> Effect(u)]' = [[u \in Txs |-> Effect(u)] EXCEPT ![t] = "pending"]
    BY <2>1, <2>2
  <2>4. Busy' = Busy \cup {p} /\ p \notin Busy
    BY <1>16 DEF CallDo, Unused, TypeOK, Busy
  <2>5. [a \in Addrs |-> graphs[a]]' = [a \in Addrs |-> graphs[a]]
    BY <1>16 DEF CallDo, Unused
  <2>6. Register!Call(p, t, h, sig)
    BY <1>16, <2>1, <2>3, <2>4, <2>5 DEF CallDo, Unused, Register!Call, Busy
  <2> QED
    BY <2>6 DEF Register!Next
<1>17. CASE UNCHANGED vars
  BY <1>17, Unseen DEF vars, Busy, Effect
<1> QED
  BY <1>1, <1>2, <1>3, <1>4, <1>5, <1>6, <1>7, <1>8, <1>9, <1>11, <1>12, <1>13, <1>14, <1>15, <1>16, <1>17
     DEF Next, PumpStep, DoStep

(* SetGraph of the client is an at-most-once signed write, and exactly     *)
(* once when it reports so, for any number of callers, transactions and    *)
(* blocks, and whatever fails.                                             *)
THEOREM ImplementsSignedRegisterHolds == Spec => ImplementsSignedRegister
BY RegisterInit, RegisterStep, RegistryInvHolds, PTL
   DEF Spec, ImplementsSignedRegister, Register!Spec
=============================================================================
