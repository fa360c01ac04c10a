--------------------------- MODULE SignedRegister ---------------------------
(***************************************************************************)
(* What SetGraph of the registry client promises its callers, without      *)
(* blocks, heads, the feed and the rpc connection: it is a write of its    *)
(* argument for the address that signed it, which takes effect at most     *)
(* once.  A call that reports "ok" or "failed" took effect, that way,      *)
(* while it was under way; one that gives up may take effect afterwards,   *)
(* or never.  Registry implements this specification; the transactions of  *)
(* GraphPublish are its pending writes, made with good signatures.         *)
(***************************************************************************)
CONSTANTS Addrs, Messages, Empty, Malformed, Callers, Txs, None

VARIABLES
    graphs,     \* the graph of each address
    issued,     \* the signatures made
    request,    \* the arguments of a call's write
    effect,     \* whether, and how, it took effect
    call,       \* the write of a caller's last call
    busy,       \* the callers whose call has not returned
    told        \* what a caller's last call returned

vars == <<graphs, issued, request, effect, call, busy, told>>

Init ==
    /\ graphs = [a \in Addrs |-> Empty]
    /\ issued = {}
    /\ request \in [Txs -> [hash : Messages,
                            sig : [signer : Addrs, hash : Messages] \cup {Malformed}]]
    /\ effect = [t \in Txs |-> "none"]
    /\ call = [p \in Callers |-> None]
    /\ busy = {}
    /\ told = [p \in Callers |-> "none"]

Sign(a, m) ==
    /\ issued' = issued \cup {[signer |-> a, hash |-> m]}
    /\ UNCHANGED <<graphs, request, effect, call, busy, told>>

Call(p, t, h, sig) ==
    /\ p \notin busy
    /\ effect[t] = "none" /\ \A q \in Callers : call[q] # t
    /\ request' = [request EXCEPT ![t] = [hash |-> h, sig |-> sig]]
    /\ effect' = [effect EXCEPT ![t] = "pending"]
    /\ call' = [call EXCEPT ![p] = t]
    /\ busy' = busy \cup {p}
    /\ told' = [told EXCEPT ![p] = "none"]
    /\ UNCHANGED <<graphs, issued>>

(* A signature of another hash writes nothing under any owner's address.   *)
Signs(a, r) == r.sig = [signer |-> a, hash |-> r.hash]

TakesEffect(t) ==
    /\ effect[t] = "pending"
    /\ request[t].sig # Malformed
    /\ effect' = [effect EXCEPT ![t] = "ok"]
    /\ graphs' = [a \in Addrs |-> IF Signs(a, request[t])
                                  THEN request[t].hash ELSE graphs[a]]
    /\ UNCHANGED <<issued, request, call, busy, told>>

Throws(t) ==
    /\ effect[t] = "pending"
    /\ request[t].sig = Malformed
    /\ effect' = [effect EXCEPT ![t] = "failed"]
    /\ UNCHANGED <<graphs, issued, request, call, busy, told>>

Return(p, r) ==
    /\ busy' = busy \ {p}
    /\ told' = [told EXCEPT ![p] = r]
    /\ UNCHANGED <<graphs, issued, request, call>>

Reports(p) ==
    /\ p \in busy
    /\ effect[call[p]] \in {"ok", "failed"}
    /\ Return(p, effect[call[p]])
    /\ UNCHANGED effect

GivesUp(p) ==
    /\ p \in busy
    /\ \E r \in {"timeout", "error", "closed"} : Return(p, r)
    /\ UNCHANGED effect

(* The write could not be sent, and will never take effect.                *)
NotSent(p) ==
    /\ p \in busy
    /\ effect[call[p]] = "pending"
    /\ effect' = [effect EXCEPT ![call[p]] = "none"]
    /\ Return(p, "error")

Next ==
    \/ \E a \in Addrs, m \in Messages : Sign(a, m)
    \/ \E t \in Txs : TakesEffect(t) \/ Throws(t)
    \/ \E p \in Callers :
          \/ Reports(p) \/ GivesUp(p) \/ NotSent(p)
          \/ \E t \in Txs, h \in Messages, sig \in issued \cup {Malformed} :
                Call(p, t, h, sig)

Spec == Init /\ [][Next]_vars
=============================================================================
