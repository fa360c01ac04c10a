--------------------------- MODULE QuadStoreProofs --------------------------
(* Proofs, for every set of quads and every batch size, about the tables   *)
(* that ApplyDeltas and runTx keep.                                        *)
EXTENDS QuadStore, FiniteSetTheorems, TLAPS

(* The places where deltas mention a value can be counted.                 *)
LEMMA MentionsFinite ==
    ASSUME NEW in \in Batch, NEW I \in SUBSET DOMAIN in, NEW v
    PROVE  /\ IsFiniteSet(Mentions(in, I, v))
           /\ Cardinality(Mentions(in, I, v)) \in Nat
<1>1. PICK k \in 0 .. MaxBatch : in \in [1 .. k -> Delta]
  BY DEF Batch
<1>2. IsFiniteSet(1 .. k)
  BY <1>1, MaxBatchAssumption, FS_Interval
<1>3. IsFiniteSet(I)
  BY <1>1, <1>2, FS_Subset
<1>4. IsFiniteSet(Directions)
  <2>1. IsFiniteSet({})
    BY FS_EmptySet
  <2>2. IsFiniteSet({"subject"})
    BY FS_Singleton
  <2>3. IsFiniteSet({"subject"} \cup {"predicate"})
    BY <2>2, FS_AddElement
  <2>4. IsFiniteSet({"subject"} \cup {"predicate"} \cup {"object"})
    BY <2>3, FS_AddElement
  <2>5. IsFiniteSet({"subject"} \cup {"predicate"} \cup {"object"} \cup {"label"})
    BY <2>4, FS_AddElement
  <2> QED
    BY <2>5, Directions = {"subject"} \cup {"predicate"} \cup {"object"} \cup {"label"}
       DEF Directions
<1>5. IsFiniteSet(I \X Directions)
  BY <1>3, <1>4, FS_Product
<1>6. Mentions(in, I, v) \subseteq I \X Directions
  BY DEF Mentions
<1> QED
  BY <1>5, <1>6, FS_Subset, FS_CardinalityType

(* The reference increment of a value is an integer.                       *)
LEMMA RefIncType ==
    ASSUME NEW in \in Batch, NEW v
    PROVE  RefInc(in, v) \in Int
<1>1. Adds(in) \in SUBSET DOMAIN in /\ Dels(in) \in SUBSET DOMAIN in
  BY DEF Adds, Dels
<1> QED
  BY <1>1, MentionsFinite DEF RefInc

(* What runTx leaves in the nodes table: natural counts, for rows only.    *)
LEMMA RunTxType ==
    ASSUME TypeOK, NEW in \in Batch
    PROVE  /\ RunTxNodes(in) \subseteq Values
           /\ RunTxRefs(in) \in [Values -> Nat]
           /\ \A v \in Values \ RunTxNodes(in) : RunTxRefs(in)[v] = 0
<1>1. \A v \in IncNode(in) : v \in Values /\ RefInc(in, v) \in Nat
  BY RefIncType DEF IncNode, Touched
<1> QED
  BY <1>1 DEF TypeOK, RunTxNodes, RunTxRefs

(* The quads a batch writes are quads.                                     *)
LEMMA RunTxQuadsType ==
    ASSUME TypeOK, NEW in \in Batch
    PROVE  RunTxQuads(in) \ QuadDel(in) \subseteq Quads
<1>1. PICK k \in 0 .. MaxBatch : in \in [1 .. k -> Delta]
  BY DEF Batch
<1>2. QuadAdd(in) \subseteq Quads
  BY <1>1 DEF QuadAdd, Adds, Delta
<1> QED
  BY <1>2 DEF TypeOK, RunTxQuads

(* Every batch keeps the types.                                            *)
LEMMA TypeStep == TypeOK /\ [Next]_vars => TypeOK'
<1> SUFFICES ASSUME TypeOK, [Next]_vars PROVE TypeOK'
  OBVIOUS
<1>1. CASE UNCHANGED vars
  BY <1>1 DEF TypeOK, vars, tables
<1> SUFFICES ASSUME UNCHANGED actions PROVE TypeOK'
  BY <1>1 DEF Next
<1>2. ASSUME NEW in \in Batch, CommitIncOnly(in) PROVE TypeOK'
  <2>1. quads' \subseteq Quads
    BY <1>2, RunTxQuadsType DEF CommitIncOnly
  <2> QED
    BY <1>2, <2>1, RunTxType DEF TypeOK, CommitIncOnly
<1>3. ASSUME NEW in \in Batch, CommitAndSweep(in) PROVE TypeOK'
  <2>1. quads' \subseteq Quads
    BY <1>3, RunTxQuadsType DEF CommitAndSweep
  <2>2. \A v \in Values : DecRefs(in, v) \in Int
    <3> SUFFICES ASSUME NEW v \in Values PROVE DecRefs(in, v) \in Int
      OBVIOUS
    <3> DEFINE missing == {i \in Dels(in) : NotAffected(in, i)}
    <3>1. missing \in SUBSET DOMAIN in
      BY DEF Dels
    <3>2. Cardinality(Mentions(in, missing, v)) \in Nat
      BY <3>1, MentionsFinite
    <3>3. RunTxRefs(in)[v] \in Nat
      BY RunTxType
    <3> QED
      BY <3>2, <3>3, RefIncType DEF DecRefs
  <2>3. UpdatedRefs(in) \in [Values -> Int]
    BY <2>2, RunTxType DEF UpdatedRefs
  <2>4. nodes' \subseteq Values
    BY <1>3, RunTxType DEF CommitAndSweep
  <2>5. refs' \in [Values -> Nat] /\ \A v \in Values \ nodes' : refs'[v] = 0
    BY <1>3, <2>3 DEF CommitAndSweep, Unused
  <2> QED
    BY <2>1, <2>4, <2>5 DEF TypeOK
<1> QED
  BY <1>1, <1>2, <1>3 DEF Next, ApplyDeltas, Rollback, vars

(* The tables keep their types and no reference count is ever negative,    *)
(* whatever batches of additions and deletions are applied.                *)
THEOREM TypeCorrect == Spec => []TypeOK
<1>1. Init => TypeOK
  BY DEF Init, TypeOK
<1> QED
  BY <1>1, TypeStep, PTL DEF Spec

-----------------------------------------------------------------------------
(* A batch of additions increments every node it mentions and decrements   *)
(* none.                                                                   *)
LEMMA AddsOnlyIncrement ==
    ASSUME actions = {"add"}, NEW in \in Batch
    PROVE  /\ Dels(in) = {} /\ Adds(in) = DOMAIN in
           /\ IncNode(in) = Touched(in) /\ DecNode(in) = {}
<1>1. PICK k \in 0 .. MaxBatch : in \in [1 .. k -> Delta]
  BY DEF Batch
<1>2. Dels(in) = {} /\ Adds(in) = DOMAIN in
  BY <1>1 DEF Dels, Adds, Delta
<1>3. ASSUME NEW v PROVE RefInc(in, v) >= 0
  <2>1. Cardinality(Mentions(in, Adds(in), v)) \in Nat
    BY <1>2, MentionsFinite
  <2>2. Mentions(in, Dels(in), v) = {}
    BY <1>2 DEF Mentions
  <2>3. Cardinality(Mentions(in, Dels(in), v)) = 0
    BY <2>2, FS_EmptySet
  <2> QED
    BY <2>1, <2>3 DEF RefInc
<1>4. \A v : RefInc(in, v) \in Int /\ RefInc(in, v) >= 0
  BY <1>3, RefIncType
<1> QED
  BY <1>2, <1>4 DEF IncNode, DecNode

(* The nodes table holds exactly the values of the stored quads.           *)
NodesMatchQuads == nodes = Used

(* A batch of additions keeps the two tables consistent.                   *)
LEMMA AddsStep ==
    ASSUME actions = {"add"}, TypeOK, NodesMatchQuads, [Next]_vars
    PROVE  NodesMatchQuads'
<1>2. CASE UNCHANGED vars
  BY <1>2 DEF NodesMatchQuads, Used, vars, tables
<1>3. ASSUME NEW in \in Batch, CommitIncOnly(in) PROVE NodesMatchQuads'
  <2>1. QuadDel(in) = {}
    BY AddsOnlyIncrement DEF QuadDel
  <2>2. nodes' = nodes \cup Touched(in)
    BY <1>3, AddsOnlyIncrement DEF CommitIncOnly, RunTxNodes
  <2>3. quads' = quads \cup {in[i].quad : i \in DOMAIN in}
    BY <1>3, <2>1, AddsOnlyIncrement DEF CommitIncOnly, RunTxQuads, QuadAdd
  <2>4. \A v \in Values : v \in Touched(in) <=>
            \E i \in DOMAIN in, dir \in Directions : in[i].quad[dir] = v
    <3> SUFFICES ASSUME NEW v \in Values
                 PROVE  Mentions(in, DOMAIN in, v) # {} <=>
                            \E i \in DOMAIN in, dir \in Directions : in[i].quad[dir] = v
      BY DEF Touched
    <3>1. ASSUME NEW i \in DOMAIN in, NEW dir \in Directions, in[i].quad[dir] = v
          PROVE  <<i, dir>> \in Mentions(in, DOMAIN in, v)
      BY <3>1 DEF Mentions
    <3> QED
      BY <3>1 DEF Mentions
  <2>5. Used' = Used \cup Touched(in)
    BY <2>3, <2>4 DEF Used, Touched
  <2> QED
    BY <2>2, <2>5 DEF NodesMatchQuads
<1>4. ASSUME NEW in \in Batch, CommitAndSweep(in) PROVE NodesMatchQuads'
  BY <1>4, AddsOnlyIncrement DEF CommitAndSweep
<1> QED
  BY <1>2, <1>3, <1>4 DEF Next, ApplyDeltas, Rollback, vars

(* The inductive invariant: where quads are only added, the tables match.  *)
AddsInv == TypeOK /\ (actions = {"add"} => NodesMatchQuads)

(* It holds from the first batch to the last.                              *)
LEMMA AddsInvHolds == Spec => []AddsInv
<1>1. Init => AddsInv
  BY DEF Init, AddsInv, TypeOK, NodesMatchQuads, Used
<1>2. AddsInv /\ [Next]_vars => AddsInv'
  <2> SUFFICES ASSUME AddsInv, [Next]_vars PROVE AddsInv'
    OBVIOUS
  <2>1. actions' = actions
    BY DEF Next, vars
  <2>2. TypeOK'
    BY TypeStep DEF AddsInv
  <2>3. CASE actions = {"add"}
    BY <2>2, <2>3, AddsStep DEF AddsInv
  <2>4. CASE actions # {"add"}
    BY <2>1, <2>2, <2>4 DEF AddsInv
  <2> QED
    BY <2>3, <2>4
<1> QED
  BY <1>1, <1>2, PTL DEF Spec

(* As long as quads are only added, which is all that the claims, the      *)
(* graph loader and the dapp deployment do, every stored quad has its      *)
(* nodes, although runTx overwrites the counts of nodes that exist.        *)
THEOREM AddsKeepQuadsHaveNodes == Spec => []AddedQuadsHaveNodes
<1>1. AddsInv => AddedQuadsHaveNodes
  BY DEF AddsInv, NodesMatchQuads, AddedQuadsHaveNodes, QuadsHaveNodes
<1> QED
  BY <1>1, AddsInvHolds, PTL

(* And no node is left over by a batch that was rolled back or contained   *)
(* duplicates.                                                             *)
THEOREM AddsKeepNodesAreUsed == Spec => []NodesAreUsed
<1>1. AddsInv => NodesAreUsed
  BY DEF AddsInv, NodesMatchQuads, NodesAreUsed
<1> QED
  BY <1>1, AddsInvHolds, PTL
=============================================================================
