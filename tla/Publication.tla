----------------------------- MODULE Publication -----------------------------
(***************************************************************************)
(* What a client may rely on when it publishes a graph (cli/graph.go,      *)
(* cli/dapp.go, api/client.go): a command sends items, which the node      *)
(* acknowledges one by one, submits a write of a version with those items, *)
(* which anyone can fetch from Swarm, and ends well only after the write   *)
(* took effect.  The write of a command that gave up is not undone: it may *)
(* take effect at any time, over what later commands published.  Nodes,    *)
(* files, requests and watchers are left out: GraphPublish has them, and   *)
(* implements this specification.                                          *)
(***************************************************************************)
EXTENDS Naturals

CONSTANTS Clients, Items, Versions, Blank

VARIABLES
    stored,    \* the versions that can be fetched
    reg,       \* the version the registry names
    pending,   \* the writes submitted that have not taken effect
    phase,     \* how far a client's command is
    sent,      \* the items acknowledged to it
    writes,    \* how many were submitted so far
    own,       \* the number of the write of a client's command, or 0
    disturbed  \* the clients that lost what was acknowledged

registry == <<reg, pending, writes, own>>
vars == <<stored, registry, phase, sent, disturbed>>

Init ==
    /\ stored = {}
    /\ reg = Blank
    /\ pending = {}
    /\ phase = [c \in Clients |-> "idle"]
    /\ sent = [c \in Clients |-> {}]
    /\ writes = 0
    /\ own = [c \in Clients |-> 0]
    /\ disturbed = {}

Begin(c) ==
    /\ phase[c] \in {"idle", "done", "failed"}
    /\ phase' = [phase EXCEPT ![c] = "working"]
    /\ sent' = [sent EXCEPT ![c] = {}]
    /\ own' = [own EXCEPT ![c] = 0]
    /\ UNCHANGED <<stored, reg, pending, writes, disturbed>>

Acknowledge(c, i) ==
    /\ phase[c] = "working"
    /\ sent' = [sent EXCEPT ![c] = @ \cup {i}]
    /\ UNCHANGED <<stored, registry, phase, disturbed>>

Upload(v) ==
    /\ stored' = stored \cup {v}
    /\ UNCHANGED <<registry, phase, sent, disturbed>>

(* A stored version the command may ask the registry to name.              *)
Publishable(c, v) ==
    /\ phase[c] = "working"
    /\ c \in disturbed \/ sent[c] \subseteq v.items

Submit(c, v) ==
    /\ Publishable(c, v)
    /\ writes' = writes + 1
    /\ own' = [own EXCEPT ![c] = writes + 1]
    /\ pending' = pending \cup {[no |-> writes + 1, hash |-> v]}
    /\ phase' = [phase EXCEPT ![c] = "submitted"]
    /\ UNCHANGED <<stored, reg, sent, disturbed>>

(* A write takes effect, whatever became of its command.                   *)
TakesEffect(w) ==
    /\ w \in pending
    /\ pending' = pending \ {w}
    /\ reg' = w.hash
    /\ UNCHANGED <<stored, writes, own, phase, sent, disturbed>>

(* The write is seen to have taken effect.                                 *)
Confirm(c) ==
    /\ phase[c] = "submitted"
    /\ \A w \in pending : w.no # own[c]
    /\ \E p \in {"published", "done"} : phase' = [phase EXCEPT ![c] = p]
    /\ UNCHANGED <<stored, registry, sent, disturbed>>

(* A registry that takes writes at once: the client may not learn of it.   *)
Publish(c, v) ==
    /\ Publishable(c, v)
    /\ reg' = v
    /\ \E p \in {"published", "done", "failed"} : phase' = [phase EXCEPT ![c] = p]
    /\ UNCHANGED <<stored, pending, writes, own, sent, disturbed>>

Answer(c) ==
    /\ phase[c] = "published"
    /\ phase' = [phase EXCEPT ![c] = "done"]
    /\ UNCHANGED <<stored, registry, sent, disturbed>>

(* Some commands fail, together when a node goes down, and some lose what  *)
(* was acknowledged to them.                                               *)
Fail ==
    /\ UNCHANGED <<stored, registry, sent>>
    /\ disturbed \subseteq disturbed' /\ disturbed' \subseteq Clients
    /\ \E F \in SUBSET {c \in Clients : phase[c] \in {"working", "submitted", "published"}} :
          phase' = [c \in Clients |-> IF c \in F THEN "failed" ELSE phase[c]]

Next ==
    \/ \E w \in pending : TakesEffect(w)
    \/ \E v \in Versions : Upload(v)
    \/ Fail
    \/ \E c \in Clients :
          \/ Begin(c) \/ Confirm(c) \/ Answer(c)
          \/ \E i \in Items : Acknowledge(c, i)
          \/ \E v \in stored : Submit(c, v) \/ Publish(c, v)

Spec == Init /\ [][Next]_vars
=============================================================================
