----------------------------- MODULE QuadStore ------------------------------
(***************************************************************************)
(* The tables of a graph database and the one transaction that changes     *)
(* them: Cayley's ApplyDeltas, which splits a batch of deltas, calls the   *)
(* runTx of db/graph.go for the additions and deletes quads and unused     *)
(* nodes itself.  Foreign keys are switched off (NoForeignKeys), so that   *)
(* nothing but this code keeps the two tables consistent.                  *)
(*                                                                         *)
(* A transaction is one step: an error of any of its statements rolls it   *)
(* back.  A node is identified with its value (its hash is a function of   *)
(* the value).                                                             *)
(***************************************************************************)
EXTENDS Integers, FiniteSets, Sequences

CONSTANTS
    Values,     \* quad values: IRIs, literals
    Nil,        \* no value: a quad without a label
    Quads,      \* the quads that may be written
    ActionSets, \* the sets of actions a deployment's deltas may have
    MaxBatch,   \* bound: deltas in one batch
    MaxRefs     \* bound: the largest reference count that is followed

Directions == {"subject", "predicate", "object", "label"}

ASSUME QuadsAssumption ==
    /\ Nil \notin Values
    /\ Quads \subseteq [Directions -> Values \cup {Nil}]
ASSUME ActionSetsAssumption == ActionSets \subseteq SUBSET {"add", "delete"}
ASSUME MaxBatchAssumption == MaxBatch \in Nat
ASSUME MaxRefsAssumption == MaxRefs \in Nat

VARIABLES
    nodes,  \* the values that have a row in table nodes
    refs,   \* column nodes.refs, 0 for a value without a row
    quads,  \* the rows of table quads (unique by the spo and spol indexes)
    actions \* what the callers of ApplyDeltas use: it never changes

tables == <<nodes, refs, quads>>
vars == <<tables, actions>>

Delta == [action : actions, quad : Quads]
Batch == UNION {[1 .. k -> Delta] : k \in 0 .. MaxBatch}
IgnoreOpts == [dup : BOOLEAN, missing : BOOLEAN]

(* Every variable has its type: only rows have reference counts, and no    *)
(* count is negative, whatever is deleted.                                 *)
TypeOK ==
    /\ nodes \subseteq Values
    /\ refs \in [Values -> Nat]
    /\ quads \subseteq Quads
    /\ actions \in ActionSets
    /\ \A v \in Values \ nodes : refs[v] = 0

Init ==
    /\ nodes = {}
    /\ refs = [v \in Values |-> 0]
    /\ quads = {}
    /\ actions \in ActionSets

-----------------------------------------------------------------------------
(* graphlog.SplitDeltas.  Definitions named "Bad" are mistakes it could    *)
(* have been written with; no specification uses them.                     *)

Adds(in) == {i \in DOMAIN in : in[i].action = "add"}
Dels(in) == {i \in DOMAIN in : in[i].action = "delete"}

(* Bad: the label is not counted.                                          *)
BadMentions(in, I, v) ==
    {m \in I \X (Directions \ {"label"}) : in[m[1]].quad[m[2]] = v}

(* Where the quads of the deltas I mention v.                              *)
Mentions(in, I, v) ==
    {m \in I \X Directions : in[m[1]].quad[m[2]] = v}

Touched(in) == {v \in Values : Mentions(in, DOMAIN in, v) # {}}

RefInc(in, v) ==
    Cardinality(Mentions(in, Adds(in), v)) - Cardinality(Mentions(in, Dels(in), v))

IncNode(in) == {v \in Touched(in) : RefInc(in, v) >= 0}

DecNode(in) == {v \in Touched(in) : RefInc(in, v) < 0}

QuadAdd(in) == {in[i].quad : i \in Adds(in)}

QuadDel(in) == {in[i].quad : i \in Dels(in)}

-----------------------------------------------------------------------------
(* runTx: a row for every incremented node, whose count becomes RefInc     *)
(* whether the row is inserted or updated; then the quads.                 *)

RunTxNodes(in) == nodes \cup IncNode(in)

RunTxRefs(in) ==
    [v \in Values |-> IF v \in IncNode(in) THEN RefInc(in, v) ELSE refs[v]]

RunTxQuads(in) == quads \cup QuadAdd(in)

(* The INSERT of delta i fails on a unique index.                          *)
IsUniqueErr(in, i) ==
    \/ in[i].quad \in quads
    \/ \E j \in Adds(in) : j < i /\ in[j].quad = in[i].quad

(* The DELETE of delta i affects no row.                                   *)
NotAffected(in, i) ==
    \/ in[i].quad \notin RunTxQuads(in)
    \/ \E j \in Dels(in) : j < i /\ in[j].quad = in[i].quad

Fails(in, opts) ==
    \/ ~opts.dup /\ \E i \in Adds(in) : IsUniqueErr(in, i)
    \/ ~opts.missing /\ \E i \in Dels(in) : NotAffected(in, i)

(* The count of a decremented node, after the deletes that found no quad   *)
(* are taken back.                                                         *)
DecRefs(in, v) ==
    RunTxRefs(in)[v] + RefInc(in, v)
        + Cardinality(Mentions(in, {i \in Dels(in) : NotAffected(in, i)}, v))

(* The counts once decremented, if the row is there to be updated.         *)
UpdatedRefs(in) ==
    [v \in Values |-> IF v \in DecNode(in) \cap RunTxNodes(in)
                      THEN DecRefs(in, v) ELSE RunTxRefs(in)[v]]

(* Bad: the nodes were inserted when the duplicate was found, and stay.    *)
BadRollback(in) ==
    /\ nodes' = RunTxNodes(in)
    /\ refs' = RunTxRefs(in)
    /\ UNCHANGED quads

Rollback(in) == UNCHANGED tables

(* A batch whose deltas decrement no node leaves the unused rows alone.    *)
CommitIncOnly(in) ==
    /\ DecNode(in) = {}
    /\ nodes' = RunTxNodes(in)
    /\ refs' = RunTxRefs(in)
    /\ quads' = RunTxQuads(in) \ QuadDel(in)

(* Bad: DELETE FROM nodes WHERE refs = 0.                                  *)
BadUnused(n) == n = 0

Unused(n) == n <= 0

(* Any other ends with DELETE FROM nodes WHERE refs <= 0, all of them.     *)
CommitAndSweep(in) ==
    /\ DecNode(in) # {}
    /\ nodes' = {v \in RunTxNodes(in) : ~Unused(UpdatedRefs(in)[v])}
    /\ refs' = [v \in Values |-> IF v \in nodes' THEN UpdatedRefs(in)[v] ELSE 0]
    /\ quads' = RunTxQuads(in) \ QuadDel(in)

ApplyDeltas(in, opts) ==
    \/ Fails(in, opts) /\ Rollback(in)
    \/ ~Fails(in, opts) /\ CommitIncOnly(in)
    \/ ~Fails(in, opts) /\ CommitAndSweep(in)

Next ==
    /\ \E in \in Batch, opts \in IgnoreOpts : ApplyDeltas(in, opts)
    /\ \A v \in Values : refs'[v] <= MaxRefs
    /\ UNCHANGED actions

Spec == Init /\ [][Next]_vars

-----------------------------------------------------------------------------
(* The values the quads of the table mention.                              *)
Used == {v \in Values : \E q \in quads, dir \in Directions : q[dir] = v}

(* Referential integrity, which the missing foreign keys leave to runTx:   *)
(* every value of a stored quad has its row in nodes, so that reading the  *)
(* quad back finds it.                                                     *)
QuadsHaveNodes == Used \subseteq nodes

(* Referential integrity as far as the code of the repository relies on    *)
(* it: the claims, the graph loader and the dapp deployment only add, and  *)
(* then runTx keeps every node of every quad, although it overwrites the   *)
(* counts of the nodes it finds.                                           *)
AddedQuadsHaveNodes == actions = {"add"} => QuadsHaveNodes

(* No row of nodes is left over by batches of additions, be they rolled    *)
(* back or full of duplicates: every node is a value of a stored quad.     *)
NodesAreUsed == actions = {"add"} => nodes \subseteq Used
=============================================================================
