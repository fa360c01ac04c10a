------------------------------ MODULE Registry ------------------------------
(***************************************************************************)
(* Publishing a graph on chain: the KORDRegistry contract and the client   *)
(* of registry/registry.go that calls it.                                  *)
(*                                                                         *)
(* Client.do sends a transaction and waits for its receipt, which it asks  *)
(* for whenever a new head arrives, for at most BlockTimeout heads.  Heads *)
(* come from one rpc subscription; the goroutine of subscribeBlocks takes  *)
(* them one by one and broadcasts each over an event.Feed, whose Send      *)
(* blocks until every subscriber has received it or unsubscribed.          *)
(*                                                                         *)
(* Callers are the goroutines inside do, Txs the transactions they create. *)
(* A transaction outlives the call that sent it.  The chain is external:   *)
(* a block executes at most one of the pending transactions, and there are *)
(* no reorganisations.                                                     *)
(*                                                                         *)
(* Definitions named "Bad" are mistakes the code could have been written   *)
(* with; no specification uses them.                                       *)
(***************************************************************************)
EXTENDS Naturals, FiniteSets

CONSTANTS
    Addrs,          \* KORD IDs: the addresses that sign
    Zero,           \* what ecrecover returns for a signature it rejects
    Messages,       \* 32 bytes: graph hashes, IDs of claims, anything
    Signed,         \* the messages the owners of the addresses may sign
    Empty,          \* the zero hash, which an unset mapping entry reads as
    Malformed,      \* a signature of the wrong length or recovery id
    Callers,
    Txs,            \* numbers of transactions
    None,
    BlockTimeout,   \* const blockTimeout
    MaxHeads,       \* bound: heads waiting in the rpc subscription
    RpcFails        \* may rpc calls and the rpc subscription fail?

ASSUME BlockTimeoutAssumption == BlockTimeout \in Nat \ {0}
ASSUME MaxHeadsAssumption == MaxHeads \in Nat
ASSUME RpcFailsAssumption == RpcFails \in BOOLEAN
ASSUME ValuesAssumption ==
    /\ Messages # {} /\ Signed \subseteq Messages
    /\ Zero \notin Addrs
    /\ Empty \notin Messages
    /\ Malformed \notin [signer : Addrs, hash : Messages]
    /\ None \notin Txs
ASSUME TxsAssumption == Txs \subseteq Nat

VARIABLES
    graphs,     \* contract: mapping(address => bytes32) graphs
    issued,     \* the signatures the owners of the addresses have made
    txst,       \* what the chain knows of a transaction
    txreq,      \* the arguments of its setGraph call
    alive,      \* the rpc subscription to new heads works
    heads,      \* heads it has delivered and subscribeBlocks has not taken
    closed,     \* Client.closed
    pump,       \* the goroutine of subscribeBlocks
    subs,       \* subscribers of Client.blocks
    todo,       \* those that Feed.Send has still to deliver the head to
    cpc,        \* where a caller is in do
    ctx,        \* its transaction
    count,      \* its number of heads
    res         \* what its last call returned

chainVars  == <<graphs, txst, txreq>>
feedVars   == <<pump, subs, todo>>
callerVars == <<cpc, ctx, count, res>>
vars == <<chainVars, issued, alive, heads, closed, feedVars, callerVars>>

Sigs == [signer : Addrs, hash : Messages]
Request == [hash : Messages, sig : Sigs \cup {Malformed}]

(* Every variable has its type; a caller in do, or back from it, has a     *)
(* transaction, and has not counted beyond the timeout.                    *)
TypeOK ==
    /\ graphs \in [Addrs \cup {Zero} -> Messages \cup {Empty}]
    /\ issued \subseteq Sigs
    /\ txst \in [Txs -> {"none", "pending", "ok", "failed"}]
    /\ txreq \in [Txs -> Request]
    /\ alive \in BOOLEAN
    /\ heads \in 0 .. MaxHeads
    /\ closed \in BOOLEAN
    /\ pump \in {"recv", "send", "exit"}
    /\ subs \subseteq Callers
    /\ todo \subseteq subs
    /\ cpc \in [Callers -> {"idle", "call", "wait", "query"}]
    /\ ctx \in [Callers -> Txs \cup {None}]
    /\ count \in [Callers -> 0 .. BlockTimeout]
    /\ res \in [Callers -> {"none", "ok", "failed", "timeout", "error", "closed"}]
    /\ \A p \in Callers : cpc[p] # "idle" \/ res[p] # "none" => ctx[p] # None

AnyRequest == CHOOSE r \in Request : TRUE

Init ==
    /\ graphs = [a \in Addrs \cup {Zero} |-> Empty]
    /\ issued = {}
    /\ txst = [t \in Txs |-> "none"]
    /\ txreq = [t \in Txs |-> AnyRequest]
    /\ alive = TRUE
    /\ heads = 0
    /\ closed = FALSE
    /\ pump = "recv"
    /\ subs = {}
    /\ todo = {}
    /\ cpc = [p \in Callers |-> "idle"]
    /\ ctx = [p \in Callers |-> None]
    /\ count = [p \in Callers |-> 0]
    /\ res = [p \in Callers |-> "none"]

-----------------------------------------------------------------------------
(* The owners and the contract.                                            *)

Sign(a, m) ==
    /\ issued' = issued \cup {[signer |-> a, hash |-> m]}
    /\ UNCHANGED <<chainVars, alive, heads, closed, feedVars, callerVars>>

(* Bad: the signer is believed without a look at what was signed.          *)
BadEcrecover(hash, sig) == sig.signer

(* ecrecover: the signer of exactly this hash, or nobody's address.        *)
Ecrecover(hash, sig) == IF sig.hash = hash THEN sig.signer ELSE Zero

(* Bad: a signature of the wrong shape makes setGraph return, not throw.   *)
BadSetGraph(t) ==
    LET r == txreq[t]
    IN  /\ txst' = [txst EXCEPT ![t] = "ok"]
        /\ graphs' = IF r.sig = Malformed THEN graphs
                     ELSE [graphs EXCEPT ![Ecrecover(r.hash, r.sig)] = r.hash]

(* KORDRegistry.setGraph: a signature of the wrong shape throws.           *)
SetGraph(t) ==
    LET r == txreq[t]
    IN  IF r.sig = Malformed
        THEN /\ txst' = [txst EXCEPT ![t] = "failed"]
             /\ UNCHANGED graphs
        ELSE /\ txst' = [txst EXCEPT ![t] = "ok"]
             /\ graphs' = [graphs EXCEPT ![Ecrecover(r.hash, r.sig)] = r.hash]

(* A block, whose head is announced to the rpc subscription.               *)
NewBlock ==
    /\ heads < MaxHeads
    /\ \/ UNCHANGED <<graphs, txst>>
       \/ \E t \in Txs : txst[t] = "pending" /\ SetGraph(t)
    /\ heads' = IF alive THEN heads + 1 ELSE heads
    /\ UNCHANGED <<txreq, issued, alive, closed, feedVars, callerVars>>

(* The rpc connection is lost.  Nobody reads the subscription's Err(), and *)
(* the heads channel is not closed: subscribeBlocks just hears no more.    *)
SubscriptionDies ==
    /\ RpcFails /\ alive
    /\ alive' = FALSE
    /\ UNCHANGED <<chainVars, issued, heads, closed, feedVars, callerVars>>

-----------------------------------------------------------------------------
(* subscribeBlocks and Feed.Send.                                          *)

PumpTakesHead ==
    /\ pump = "recv"
    /\ heads > 0
    /\ heads' = heads - 1
    /\ todo' = subs
    /\ pump' = "send"
    /\ UNCHANGED <<chainVars, issued, alive, closed, subs, callerVars>>

PumpSent ==
    /\ pump = "send"
    /\ todo = {}
    /\ pump' = "recv"
    /\ UNCHANGED <<chainVars, issued, alive, heads, closed, subs, todo, callerVars>>

PumpExits ==
    /\ pump = "recv"
    /\ closed
    /\ pump' = "exit"
    /\ UNCHANGED <<chainVars, issued, alive, heads, closed, subs, todo, callerVars>>

CloseClient ==
    /\ ~closed
    /\ closed' = TRUE
    /\ UNCHANGED <<chainVars, issued, alive, heads, feedVars, callerVars>>

-----------------------------------------------------------------------------
(* do, called by setGraph.                                                 *)

(* Bad: do returns without unsubscribing.                                  *)
BadReturn(p, r) ==
    /\ cpc' = [cpc EXCEPT ![p] = "idle"]
    /\ res' = [res EXCEPT ![p] = r]
    /\ UNCHANGED <<subs, todo>>

(* The deferred Unsubscribe and the return.                                *)
Return(p, r) ==
    /\ cpc' = [cpc EXCEPT ![p] = "idle"]
    /\ res' = [res EXCEPT ![p] = r]
    /\ subs' = subs \ {p}
    /\ todo' = todo \ {p}

Unused(t) == txst[t] = "none" /\ \A q \in Callers : ctx[q] # t

(* The subscription is made before the transaction, the next unused one,   *)
(* is sent.                                                                *)
CallDo(p, t, req) ==
    /\ cpc[p] = "idle"
    /\ Unused(t) /\ \A u \in Txs : Unused(u) => t <= u
    /\ txreq' = [txreq EXCEPT ![t] = req]
    /\ subs' = subs \cup {p}
    /\ ctx' = [ctx EXCEPT ![p] = t]
    /\ count' = [count EXCEPT ![p] = 0]
    /\ res' = [res EXCEPT ![p] = "none"]
    /\ cpc' = [cpc EXCEPT ![p] = "call"]
    /\ UNCHANGED <<graphs, txst, issued, alive, heads, closed, pump, todo>>

(* f() returns; heads announced since CallDo are waiting in the meantime.  *)
TxSent(p) ==
    /\ cpc[p] = "call"
    /\ txst' = [txst EXCEPT ![ctx[p]] = "pending"]
    /\ cpc' = [cpc EXCEPT ![p] = "wait"]
    /\ UNCHANGED <<graphs, txreq, issued, alive, heads, closed, feedVars,
                   ctx, count, res>>

(* f() fails, whether or not the node got the transaction.                 *)
TxFails(p) ==
    /\ cpc[p] = "call"
    /\ RpcFails
    /\ \/ UNCHANGED txst
       \/ txst' = [txst EXCEPT ![ctx[p]] = "pending"]
    /\ Return(p, "error")
    /\ UNCHANGED <<graphs, txreq, issued, alive, heads, closed, pump, ctx, count>>

(* Bad: count >= blockTimeout.                                             *)
BadTimedOut(n) == n >= BlockTimeout

(* Bad: the heads are not counted against the timeout.                     *)
BadNeverTimedOut(n) == FALSE

TimedOut(n) == n > BlockTimeout

(* The rendezvous of Feed.Send with the select of do.                      *)
ReceiveHead(p) ==
    /\ cpc[p] = "wait"
    /\ pump = "send" /\ p \in todo
    /\ \/ /\ ~TimedOut(count[p] + 1)
          /\ count' = [count EXCEPT ![p] = @ + 1]
          /\ cpc' = [cpc EXCEPT ![p] = "query"]
          /\ todo' = todo \ {p}
          /\ UNCHANGED <<subs, res>>
       \/ /\ TimedOut(count[p] + 1)
          /\ Return(p, "timeout")
          /\ UNCHANGED count
    /\ UNCHANGED <<chainVars, issued, alive, heads, closed, pump, ctx>>

(* TransactionReceipt finds nothing: back to the select.                   *)
ReceiptNotFound(p) ==
    /\ cpc[p] = "query"
    /\ txst[ctx[p]] = "pending"
    /\ cpc' = [cpc EXCEPT ![p] = "wait"]
    /\ UNCHANGED <<chainVars, issued, alive, heads, closed, feedVars, ctx, count, res>>

(* receipt.Status.                                                         *)
Status(t) == txst[t]

ReceiptFound(p) ==
    /\ cpc[p] = "query"
    /\ txst[ctx[p]] \in {"ok", "failed"}
    /\ Return(p, Status(ctx[p]))
    /\ UNCHANGED <<chainVars, issued, alive, heads, closed, pump, ctx, count>>

ReceiptFails(p) ==
    /\ cpc[p] = "query"
    /\ RpcFails
    /\ Return(p, "error")
    /\ UNCHANGED <<chainVars, issued, alive, heads, closed, pump, ctx, count>>

(* Bad: the select of do has no case for c.closed.                         *)
BadClientClosed(p) == FALSE

ClientClosed(p) ==
    /\ cpc[p] = "wait"
    /\ closed
    /\ Return(p, "closed")
    /\ UNCHANGED <<chainVars, issued, alive, heads, closed, pump, ctx, count>>

-----------------------------------------------------------------------------
PumpStep == PumpTakesHead \/ PumpSent \/ PumpExits

DoStep(p) ==
    \/ TxSent(p) \/ TxFails(p)
    \/ ReceiveHead(p) \/ ClientClosed(p)
    \/ ReceiptNotFound(p) \/ ReceiptFound(p) \/ ReceiptFails(p)

Next ==
    \/ \E a \in Addrs, m \in Signed : Sign(a, m)
    \/ NewBlock \/ SubscriptionDies
    \/ PumpStep \/ CloseClient
    \/ \E p \in Callers :
          \/ DoStep(p)
          \/ \E t \in Txs, h \in Messages, sig \in issued \cup {Malformed} :
                CallDo(p, t, [hash |-> h, sig |-> sig])

Spec == Init /\ [][Next]_vars

(* Goroutines that can run do, and the chain keeps producing blocks.  That *)
(* a pending transaction is ever executed is not assumed.                  *)
FairSpec ==
    /\ Spec
    /\ WF_vars(NewBlock) /\ WF_vars(PumpStep)
    /\ \A p \in Callers : WF_vars(DoStep(p))

-----------------------------------------------------------------------------
(* The contract stores for an address only hashes its owner has signed,    *)
(* whoever sent the transaction, with whatever signature, and however      *)
(* often it is replayed.                                                   *)
OnlySignedGraphs ==
    \A a \in Addrs :
        graphs[a] # Empty => [signer |-> a, hash |-> graphs[a]] \in issued

(* SetGraph reports success or "transaction failed" only when that is how  *)
(* its own transaction ended on chain, among concurrent calls that share   *)
(* the feed of heads.  ImplementsSignedRegister, below, implies it.        *)
ResultIsTrue ==
    \A p \in Callers :
        res[p] \in {"ok", "failed"} => txst[ctx[p]] = res[p]

(* A write that was not sent yet counts as pending from the call on.       *)
Effect(t) ==
    IF \E p \in Callers : cpc[p] = "call" /\ ctx[p] = t THEN "pending" ELSE txst[t]

Register ==
    INSTANCE SignedRegister WITH
        graphs <- [a \in Addrs |-> graphs[a]], request <- txreq,
        effect <- [t \in Txs |-> Effect(t)], call <- ctx, told <- res,
        busy <- {p \in Callers : cpc[p] # "idle"}

(* The client and the contract implement SignedRegister: SetGraph writes   *)
(* at most once, only for the address that signed, and exactly once,       *)
(* before it returns, when it reports so, whatever concurrent calls,       *)
(* timeouts, rpc failures and Close do.                                    *)
ImplementsSignedRegister == Register!Spec

(* No caller keeps the others' heads from them: do returns, by the timeout *)
(* if not before, as long as there are blocks and the rpc subscription     *)
(* delivers them.                                                          *)
DoReturns ==
    \A p \in Callers : cpc[p] # "idle" ~> (cpc[p] = "idle" \/ ~alive)

(* Closing the client releases every caller, even when the rpc             *)
(* subscription has died unnoticed and no head will ever arrive again.     *)
CloseReleases ==
    \A p \in Callers : (closed /\ cpc[p] # "idle") ~> cpc[p] = "idle"

(* A transaction executed while its caller has heads left to wait for is   *)
(* reported, unless the client is closed or an rpc call fails: the last of *)
(* the BlockTimeout heads still asks for the receipt.                      *)
MinedIsReported ==
    \A p \in Callers :
        (cpc[p] = "wait" /\ count[p] < BlockTimeout /\ txst[ctx[p]] # "pending")
            ~> (closed \/ ~alive \/ res[p] \in {"ok", "failed", "error"})
=============================================================================
