------------------------- MODULE GraphPublishProofs -------------------------
(* Proofs, for every number of clients, nodes, items and commands, of the  *)
(* safety properties of GraphPublish.                                      *)
EXTENDS GraphPublish, FiniteSetTheorems, TLAPS

(* The graph is open where a command relies on it.                         *)
OpenInv ==
    \A c \in Clients :
        /\ pc[c] = "write" => at[c] \in open
        /\ c \notin disturbed /\ Midway(c) => at[c] \in open

(* What is left to send when a command reaches its commit: nothing.        *)
InputInv ==
    \A c \in Clients :
        /\ pc[c] = "batch" => Loads(job[c])
        /\ pc[c] = "batch" /\ todo[c] = {} => sent[c] # {}
        /\ pc[c] \in {"open", "write"} /\ job[c] = "claim" => \E i \in Items : todo[c] = {i}
        /\ pc[c] \in {"open", "write"} /\ Creates(job[c]) => todo[c] = {}
        /\ pc[c] \in {"open", "write"} /\ Loads(job[c]) => todo[c] # {}
        /\ pc[c] = "commit" /\ ~Loads(job[c]) => todo[c] = {}
        /\ pc[c] = "commit" /\ Loads(job[c]) => sent[c] # {}
        /\ pc[c] \in {"commitGraph", "sign", "set", "wait", "get", "done"} => todo[c] = {}

(* What was sent is in the node's file, and it stays there.                *)
PendingInv ==
    \A c \in Clients \ disturbed :
        pc[c] \in {"batch", "open", "write", "commit", "commitGraph"} =>
            sent[c] \subseteq file[at[c]].items

(* What was sent is in the version whose hash was taken.                   *)
SignedInv ==
    \A c \in Clients \ disturbed :
        pc[c] \in {"sign", "set", "wait", "get", "done"} => sent[c] \subseteq hash[c].items

(* The inductive invariant for what a command publishes.                   *)
SentInv == TypeOK /\ OpenInv /\ InputInv /\ PendingInv /\ SignedInv

(* A version about to be published has not more than the node's file.      *)
BehindInv ==
    \A c \in Clients \ disturbed :
        pc[c] \in {"sign", "set"} => hash[c].items \subseteq file[at[c]].items

(* Only a watcher of an open graph has an update, and it is the latest; no *)
(* transaction is sent where there are updates.                            *)
UpdateInv ==
    /\ subscribes => mempool = {} /\ \A c \in Clients : pc[c] # "wait"
    /\ \A n \in Nodes :
          /\ upd[n] \subseteq {reg}
          /\ n \notin open => upd[n] = {}
          /\ ~subscribes => upd[n] = {}

(* What a transaction may still publish is in the files served.            *)
PoolInv ==
    disturbed = {} /\ ~stale =>
        \A n \in open, t \in mempool : t.hash.items \subseteq file[n].items

-----------------------------------------------------------------------------
(* Writing, opening and creating give versions again.                      *)
LEMMA VersionTypes ==
    ASSUME TypeOK
    PROVE  /\ Blank \in Versions
           /\ \A n \in Nodes : file[n] \in Versions
           /\ \A n \in Nodes : [file[n] EXCEPT !.tables = TRUE] \in Versions
           /\ \A n \in Nodes, i \in Items : Written(n, i) \in Versions
  BY DEF TypeOK, Versions, Blank, Written

(* Every step keeps the types.                                             *)
LEMMA TypeStep ==
    ASSUME TypeOK, [Next]_vars
    PROVE  TypeOK'
<1> USE PublishOptionsAssumption, VersionTypes
<1> USE DEF TypeOK, InNode, InClient, Ended, nodeVars, chain, jobVars, history
<1>0. subscribes' = subscribes
  BY DEF Next, vars
<1> USE <1>0
<1>1. ASSUME NEW c \in Clients, NEW n \in Nodes, NEW k \in Jobs,
             NEW S \in Inputs(k), StartJob(c, n, k, S)
      PROVE  TypeOK'
  <2>1. S \subseteq Items
    BY DEF Inputs, Jobs, Creates
  <2> QED
    BY <1>1, <2>1 DEF StartJob, Goto
<1>2. ASSUME NEW c \in Clients, NextBatch(c)
      PROVE  TypeOK'
  BY <1>2 DEF NextBatch, Goto
<1>3. ASSUME NEW c \in Clients, SignHash(c)
      PROVE  TypeOK'
  BY <1>3 DEF SignHash, Goto
<1>4. ASSUME NEW c \in Clients, OpenGraph(c)
      PROVE  TypeOK'
  BY <1>4 DEF OpenGraph, OpenDB, Fetched, Outrun, Goto
<1>5. ASSUME NEW c \in Clients, InitQuadStore(c)
      PROVE  TypeOK'
  <2>1. file' \in [Nodes -> Versions]
    BY <1>5 DEF InitQuadStore, Versions
  <2> QED
    BY <1>5, <2>1 DEF InitQuadStore, Goto
<1>6. ASSUME NEW c \in Clients, NEW i \in Items, ApplyDeltas(c, i)
      PROVE  TypeOK'
  BY <1>6 DEF ApplyDeltas, Written, Goto, Creates, Loads, Jobs
<1>7. ASSUME NEW c \in Clients, Fails(c)
      PROVE  TypeOK'
  BY <1>7 DEF Fails, Goto
<1>8. ASSUME NEW c \in Clients, CommitBatch(c)
      PROVE  TypeOK'
  BY <1>8 DEF CommitBatch, Store, Committed, Goto, Loads
<1>9. ASSUME NEW c \in Clients, Commit(c)
      PROVE  TypeOK'
  BY <1>9 DEF Commit, Store, Committed, Goto, Loads
<1>10. ASSUME NEW c \in Clients, SetGraph(c)
      PROVE  TypeOK'
  <2>1. /\ upd' \in [Nodes -> SUBSET Versions]
        /\ \A n \in Nodes : Cardinality(upd'[n]) <= 1
    <3>1. hash[c] \in Versions /\ Cardinality({hash[c]}) = 1 /\ Cardinality({}) = 0
      BY FS_Singleton, FS_EmptySet
    <3>2. upd' = [n \in Nodes |-> IF n \in open THEN {hash[c]} ELSE {}]
      BY <1>10 DEF SetGraph, Notify
    <3> QED
      BY <3>1, <3>2
  <2> QED
    BY <1>10, <2>1 DEF SetGraph, Accepted, Goto
<1>11. ASSUME NEW c \in Clients, GetAfterSet(c)
      PROVE  TypeOK'
  BY <1>11 DEF GetAfterSet, OpenDB, Fetched, Outrun, Goto
<1>12. ASSUME NEW n \in Nodes, FetchUpdate(n)
      PROVE  TypeOK'
  <2>1. file' \in [Nodes -> Versions]
    BY <1>12 DEF FetchUpdate, Disturb
  <2>2. /\ upd' \in [Nodes -> SUBSET Versions]
        /\ \A m \in Nodes : Cardinality(upd'[m]) <= 1
    BY <1>12, FS_EmptySet DEF FetchUpdate, Disturb
  <2> QED
    BY <1>12, <2>1, <2>2 DEF FetchUpdate, Disturb
<1>13. ASSUME NEW n \in Nodes, Restart(n)
      PROVE  TypeOK'
  <2>1. /\ upd' \in [Nodes -> SUBSET Versions]
        /\ \A m \in Nodes : Cardinality(upd'[m]) <= 1
    BY <1>13, FS_EmptySet DEF Restart, Disturb
  <2> QED
    BY <1>13, <2>1 DEF Restart, Disturb
<1>14. ASSUME NEW c \in Clients, SendTx(c)
      PROVE  TypeOK'
  <2>1. [no |-> txs + 1, hash |-> hash[c]] \in Transactions
    BY DEF Transactions
  <2> QED
    BY <1>14, <2>1 DEF SendTx, Goto
<1>15. ASSUME NEW c \in Clients, Receipt(c)
      PROVE  TypeOK'
  BY <1>15 DEF Receipt, Accepted, Goto
<1>16. ASSUME NEW t \in mempool, Execute(t)
      PROVE  TypeOK'
  <2>1. t.hash \in Versions
    BY DEF Transactions
  <2> QED
    BY <1>16, <2>1 DEF Execute
<1>17. CASE UNCHANGED vars
  BY <1>17 DEF vars
<1> QED
  BY <1>1, <1>2, <1>3, <1>4, <1>5, <1>6, <1>7, <1>8,
     <1>9, <1>10, <1>11, <1>12, <1>13, <1>14, <1>15, <1>16, <1>17
     DEF Next, ClientStep

(* Initially the types hold.                                               *)
LEMMA TypeInit == Init => TypeOK
<1> SUFFICES ASSUME Init PROVE TypeOK
  OBVIOUS
<1>1. Blank \in Versions
  BY DEF Versions, Blank
<1>2. Cardinality({}) = 0
  BY FS_EmptySet
<1>3. stale \in BOOLEAN
  BY Zenon DEF Init
<1> QED
  BY <1>1, <1>2, <1>3, PublishOptionsAssumption
     DEF Init, TypeOK, Jobs, InNode, InClient, Ended

(* The variables keep their types; a watcher never has two updates to      *)
(* fetch, because the registry's send waits for it (testutil/util.go).     *)
THEOREM TypeCorrect == Spec => []TypeOK
<1>1. TypeOK /\ [Next]_vars => TypeOK'
  BY TypeStep
<1> QED
  BY <1>1, TypeInit, PTL DEF Spec

(* Every step keeps what is published within what is stored.               *)
LEMMA StoredStep ==
    ASSUME TypeOK, PublishedIsStored, [Next]_vars
    PROVE  PublishedIsStored'
<1> USE DEF TypeOK, InNode, InClient, Ended, PublishedIsStored, nodeVars, chain, jobVars, history
<1>1. ASSUME NEW c \in Clients, NEW n \in Nodes, NEW k \in Jobs,
             NEW S \in Inputs(k), StartJob(c, n, k, S)
      PROVE  PublishedIsStored'
  BY <1>1 DEF StartJob, Goto, Inputs, Creates, Loads, Jobs
<1>2. ASSUME NEW c \in Clients, NextBatch(c)
      PROVE  PublishedIsStored'
  BY <1>2 DEF NextBatch, Goto
<1>3. ASSUME NEW c \in Clients, SignHash(c)
      PROVE  PublishedIsStored'
  BY <1>3 DEF SignHash, Goto
<1>4. ASSUME NEW c \in Clients, OpenGraph(c)
      PROVE  PublishedIsStored'
  BY <1>4 DEF OpenGraph, OpenDB, Fetched, Outrun, Goto
<1>5. ASSUME NEW c \in Clients, InitQuadStore(c)
      PROVE  PublishedIsStored'
  BY <1>5 DEF InitQuadStore, Goto
<1>6. ASSUME NEW c \in Clients, NEW i \in Items, ApplyDeltas(c, i)
      PROVE  PublishedIsStored'
  BY <1>6 DEF ApplyDeltas, Written, Goto, Creates, Loads, Jobs
<1>7. ASSUME NEW c \in Clients, Fails(c)
      PROVE  PublishedIsStored'
  BY <1>7 DEF Fails, Goto
<1>8. ASSUME NEW c \in Clients, CommitBatch(c)
      PROVE  PublishedIsStored'
  BY <1>8 DEF CommitBatch, Store, Committed, Goto, Loads
<1>9. ASSUME NEW c \in Clients, Commit(c)
      PROVE  PublishedIsStored'
  BY <1>9 DEF Commit, Store, Committed, Goto, Loads
<1>10. ASSUME NEW c \in Clients, SetGraph(c)
      PROVE  PublishedIsStored'
  BY <1>10 DEF SetGraph, Notify, Accepted, Goto
<1>11. ASSUME NEW c \in Clients, GetAfterSet(c)
      PROVE  PublishedIsStored'
  BY <1>11 DEF GetAfterSet, OpenDB, Fetched, Outrun, Goto
<1>12. ASSUME NEW n \in Nodes, FetchUpdate(n)
      PROVE  PublishedIsStored'
  BY <1>12 DEF FetchUpdate, Disturb
<1>13. ASSUME NEW n \in Nodes, Restart(n)
      PROVE  PublishedIsStored'
  BY <1>13 DEF Restart, Disturb
<1>14. ASSUME NEW c \in Clients, SendTx(c)
      PROVE  PublishedIsStored'
  BY <1>14 DEF SendTx, Goto
<1>15. ASSUME NEW c \in Clients, Receipt(c)
      PROVE  PublishedIsStored'
  BY <1>15 DEF Receipt, Accepted, Goto
<1>16. ASSUME NEW t \in mempool, Execute(t)
      PROVE  PublishedIsStored'
  BY <1>16 DEF Execute
<1>17. CASE UNCHANGED vars
  BY <1>17 DEF vars
<1> QED
  BY <1>1, <1>2, <1>3, <1>4, <1>5, <1>6, <1>7, <1>8,
     <1>9, <1>10, <1>11, <1>12, <1>13, <1>14, <1>15, <1>16, <1>17
     DEF Next, ClientStep

(* Whatever is published, or on its way to a watcher, was stored in Swarm  *)
(* before: Commit (db/db.go) uploads the file before a client gets its     *)
(* hash to sign.                                                           *)
THEOREM PublishedIsStoredHolds == Spec => []PublishedIsStored
<1>1. Init => PublishedIsStored
  BY DEF Init, PublishedIsStored
<1>2. TypeOK /\ PublishedIsStored /\ [Next]_vars => PublishedIsStored'
  BY StoredStep
<1> QED
  BY <1>1, <1>2, TypeCorrect, PTL DEF Spec

-----------------------------------------------------------------------------
(* What a command sends, by its kind.                                      *)
LEMMA InputShapes ==
    ASSUME NEW k \in Jobs, NEW S \in Inputs(k)
    PROVE  /\ Loads(k) => S # {}
           /\ k = "claim" => \E i \in Items : S = {i}
           /\ Creates(k) => S = {}
           /\ Creates(k) => k # "claim" /\ ~Loads(k)
<1>1. CASE Creates(k)
  BY <1>1 DEF Inputs, Creates, Loads
<1>2. CASE k \in {"claim", "deploy"}
  <2>1. S \in {{i} : i \in Items}
    BY <1>2 DEF Inputs, Creates
  <2> QED
    BY <1>2, <2>1 DEF Creates, Loads
<1>3. CASE k = "load"
  BY <1>3 DEF Inputs, Creates, Loads
<1> QED
  BY <1>1, <1>2, <1>3 DEF Jobs, Creates

(* Every step keeps count of what is left to send.                         *)
LEMMA InputStep ==
    ASSUME TypeOK, InputInv, [Next]_vars
    PROVE  InputInv'
<1> USE DEF TypeOK, InNode, InClient, Ended, Versions, Midway, InputInv, Creates, Loads, nodeVars, chain, jobVars, history
<1>1. ASSUME NEW c \in Clients, NEW n \in Nodes, NEW k \in Jobs,
             NEW S \in Inputs(k), StartJob(c, n, k, S)
      PROVE  InputInv'
  <2>1. /\ Loads(k) => S # {}
        /\ k = "claim" => \E i \in Items : S = {i}
        /\ Creates(k) => S = {}
        /\ Creates(k) => k # "claim" /\ ~Loads(k)
    BY InputShapes
  <2>2. SUFFICES ASSUME NEW d \in Clients
                 PROVE  InputInv!(d)'
    BY DEF InputInv
  <2>3. CASE d # c
    BY <1>1, <2>3 DEF StartJob, Goto
  <2>4. CASE d = c
    BY <1>1, <2>1, <2>4 DEF StartJob, Goto, Creates, Loads
  <2> QED
    BY <2>3, <2>4
<1>2. ASSUME NEW c \in Clients, NextBatch(c)
      PROVE  InputInv'
  BY <1>2 DEF NextBatch, Goto
<1>3. ASSUME NEW c \in Clients, SignHash(c)
      PROVE  InputInv'
  BY <1>3 DEF SignHash, Goto
<1>4. ASSUME NEW c \in Clients, OpenGraph(c)
      PROVE  InputInv'
  BY <1>4 DEF OpenGraph, OpenDB, Fetched, Outrun, Goto
<1>5. ASSUME NEW c \in Clients, InitQuadStore(c)
      PROVE  InputInv'
  BY <1>5 DEF InitQuadStore, Goto
<1>6. ASSUME NEW c \in Clients, NEW i \in Items, ApplyDeltas(c, i)
      PROVE  InputInv'
  <2>1. SUFFICES ASSUME NEW d \in Clients
                 PROVE  InputInv!(d)'
    BY DEF InputInv
  <2>2. CASE d # c
    BY <1>6, <2>2 DEF ApplyDeltas, Goto
  <2>3. CASE d = c
    BY <1>6, <2>3 DEF ApplyDeltas, Goto, Creates, Loads, Jobs
  <2> QED
    BY <2>2, <2>3
<1>7. ASSUME NEW c \in Clients, Fails(c)
      PROVE  InputInv'
  BY <1>7 DEF Fails, Goto
<1>8. ASSUME NEW c \in Clients, CommitBatch(c)
      PROVE  InputInv'
  BY <1>8 DEF CommitBatch, Store, Committed, Goto, Loads
<1>9. ASSUME NEW c \in Clients, Commit(c)
      PROVE  InputInv'
  BY <1>9 DEF Commit, Store, Committed, Goto, Loads
<1>10. ASSUME NEW c \in Clients, SetGraph(c)
      PROVE  InputInv'
  BY <1>10 DEF SetGraph, Notify, Accepted, Goto
<1>11. ASSUME NEW c \in Clients, GetAfterSet(c)
      PROVE  InputInv'
  BY <1>11 DEF GetAfterSet, OpenDB, Fetched, Outrun, Goto
<1>12. ASSUME NEW n \in Nodes, FetchUpdate(n)
      PROVE  InputInv'
  BY <1>12 DEF FetchUpdate, Disturb
<1>13. ASSUME NEW n \in Nodes, Restart(n)
      PROVE  InputInv'
  BY <1>13 DEF Restart, Disturb
<1>14. ASSUME NEW c \in Clients, SendTx(c)
      PROVE  InputInv'
  BY <1>14 DEF SendTx, Goto
<1>15. ASSUME NEW c \in Clients, Receipt(c)
      PROVE  InputInv'
  BY <1>15 DEF Receipt, Accepted, Goto
<1>16. ASSUME NEW t \in mempool, Execute(t)
      PROVE  InputInv'
  BY <1>16 DEF Execute
<1>17. CASE UNCHANGED vars
  BY <1>17 DEF vars
<1> QED
  BY <1>1, <1>2, <1>3, <1>4, <1>5, <1>6, <1>7, <1>8,
     <1>9, <1>10, <1>11, <1>12, <1>13, <1>14, <1>15, <1>16, <1>17
     DEF Next, ClientStep

(* Every step keeps the graph open where a command relies on it.           *)
LEMMA OpenStep ==
    ASSUME TypeOK, InputInv, OpenInv, [Next]_vars
    PROVE  OpenInv'
<1> USE DEF TypeOK, InNode, InClient, Ended, Versions, Midway, InputInv, OpenInv, nodeVars, chain, jobVars, history
<1>1. ASSUME NEW c \in Clients, NEW n \in Nodes, NEW k \in Jobs,
             NEW S \in Inputs(k), StartJob(c, n, k, S)
      PROVE  OpenInv'
  BY <1>1 DEF StartJob, Goto, Inputs, Creates, Loads, Jobs
<1>2. ASSUME NEW c \in Clients, NextBatch(c)
      PROVE  OpenInv'
  BY <1>2 DEF NextBatch, Goto
<1>3. ASSUME NEW c \in Clients, SignHash(c)
      PROVE  OpenInv'
  BY <1>3 DEF SignHash, Goto
<1>4. ASSUME NEW c \in Clients, OpenGraph(c)
      PROVE  OpenInv'
  BY <1>4 DEF OpenGraph, OpenDB, Fetched, Outrun, Goto
<1>5. ASSUME NEW c \in Clients, InitQuadStore(c)
      PROVE  OpenInv'
  BY <1>5 DEF InitQuadStore, Goto
<1>6. ASSUME NEW c \in Clients, NEW i \in Items, ApplyDeltas(c, i)
      PROVE  OpenInv'
  BY <1>6 DEF ApplyDeltas, Written, Goto, Creates, Loads, Jobs
<1>7. ASSUME NEW c \in Clients, Fails(c)
      PROVE  OpenInv'
  BY <1>7 DEF Fails, Goto
<1>8. ASSUME NEW c \in Clients, CommitBatch(c)
      PROVE  OpenInv'
  BY <1>8 DEF CommitBatch, Store, Committed, Goto, Loads
<1>9. ASSUME NEW c \in Clients, Commit(c)
      PROVE  OpenInv'
  BY <1>9 DEF Commit, Store, Committed, Goto, Loads
<1>10. ASSUME NEW c \in Clients, SetGraph(c)
      PROVE  OpenInv'
  BY <1>10 DEF SetGraph, Notify, Accepted, Goto
<1>11. ASSUME NEW c \in Clients, GetAfterSet(c)
      PROVE  OpenInv'
  BY <1>11 DEF GetAfterSet, OpenDB, Fetched, Outrun, Goto
<1>12. ASSUME NEW n \in Nodes, FetchUpdate(n)
      PROVE  OpenInv'
  BY <1>12 DEF FetchUpdate, Disturb
<1>13. ASSUME NEW n \in Nodes, Restart(n)
      PROVE  OpenInv'
  BY <1>13 DEF Restart, Disturb
<1>14. ASSUME NEW c \in Clients, SendTx(c)
      PROVE  OpenInv'
  BY <1>14 DEF SendTx, Goto
<1>15. ASSUME NEW c \in Clients, Receipt(c)
      PROVE  OpenInv'
  BY <1>15 DEF Receipt, Accepted, Goto
<1>16. ASSUME NEW t \in mempool, Execute(t)
      PROVE  OpenInv'
  BY <1>16 DEF Execute
<1>17. CASE UNCHANGED vars
  BY <1>17 DEF vars
<1> QED
  BY <1>1, <1>2, <1>3, <1>4, <1>5, <1>6, <1>7, <1>8,
     <1>9, <1>10, <1>11, <1>12, <1>13, <1>14, <1>15, <1>16, <1>17
     DEF Next, ClientStep

(* Every step keeps what was sent in the file.                             *)
LEMMA PendingStep ==
    ASSUME TypeOK, OpenInv, PendingInv, [Next]_vars
    PROVE  PendingInv'
<1> USE DEF TypeOK, InNode, InClient, Ended, Versions, Midway, OpenInv, PendingInv, nodeVars, chain, jobVars, history
<1>1. ASSUME NEW c \in Clients, NEW n \in Nodes, NEW k \in Jobs,
             NEW S \in Inputs(k), StartJob(c, n, k, S)
      PROVE  PendingInv'
  BY <1>1 DEF StartJob, Goto, Inputs, Creates, Loads, Jobs
<1>2. ASSUME NEW c \in Clients, NextBatch(c)
      PROVE  PendingInv'
  BY <1>2 DEF NextBatch, Goto
<1>3. ASSUME NEW c \in Clients, SignHash(c)
      PROVE  PendingInv'
  BY <1>3 DEF SignHash, Goto
<1>4. ASSUME NEW c \in Clients, OpenGraph(c)
      PROVE  PendingInv'
  BY <1>4 DEF OpenGraph, OpenDB, Fetched, Outrun, Goto
<1>5. ASSUME NEW c \in Clients, InitQuadStore(c)
      PROVE  PendingInv'
  BY <1>5 DEF InitQuadStore, Goto
<1>6. ASSUME NEW c \in Clients, NEW i \in Items, ApplyDeltas(c, i)
      PROVE  PendingInv'
  BY <1>6 DEF ApplyDeltas, Written, Goto, Creates, Loads, Jobs
<1>7. ASSUME NEW c \in Clients, Fails(c)
      PROVE  PendingInv'
  BY <1>7 DEF Fails, Goto
<1>8. ASSUME NEW c \in Clients, CommitBatch(c)
      PROVE  PendingInv'
  BY <1>8 DEF CommitBatch, Store, Committed, Goto, Loads
<1>9. ASSUME NEW c \in Clients, Commit(c)
      PROVE  PendingInv'
  BY <1>9 DEF Commit, Store, Committed, Goto, Loads
<1>10. ASSUME NEW c \in Clients, SetGraph(c)
      PROVE  PendingInv'
  BY <1>10 DEF SetGraph, Notify, Accepted, Goto
<1>11. ASSUME NEW c \in Clients, GetAfterSet(c)
      PROVE  PendingInv'
  BY <1>11 DEF GetAfterSet, OpenDB, Fetched, Outrun, Goto
<1>12. ASSUME NEW n \in Nodes, FetchUpdate(n)
      PROVE  PendingInv'
  BY <1>12 DEF FetchUpdate, Disturb
<1>13. ASSUME NEW n \in Nodes, Restart(n)
      PROVE  PendingInv'
  BY <1>13 DEF Restart, Disturb
<1>14. ASSUME NEW c \in Clients, SendTx(c)
      PROVE  PendingInv'
  BY <1>14 DEF SendTx, Goto
<1>15. ASSUME NEW c \in Clients, Receipt(c)
      PROVE  PendingInv'
  BY <1>15 DEF Receipt, Accepted, Goto
<1>16. ASSUME NEW t \in mempool, Execute(t)
      PROVE  PendingInv'
  BY <1>16 DEF Execute
<1>17. CASE UNCHANGED vars
  BY <1>17 DEF vars
<1> QED
  BY <1>1, <1>2, <1>3, <1>4, <1>5, <1>6, <1>7, <1>8,
     <1>9, <1>10, <1>11, <1>12, <1>13, <1>14, <1>15, <1>16, <1>17
     DEF Next, ClientStep

(* Every step keeps what was sent in the signed version.                   *)
LEMMA SignedStep ==
    ASSUME TypeOK, PendingInv, SignedInv, [Next]_vars
    PROVE  SignedInv'
<1> USE DEF TypeOK, InNode, InClient, Ended, Versions, Midway, PendingInv, SignedInv, nodeVars, chain, jobVars, history
<1>1. ASSUME NEW c \in Clients, NEW n \in Nodes, NEW k \in Jobs,
             NEW S \in Inputs(k), StartJob(c, n, k, S)
      PROVE  SignedInv'
  BY <1>1 DEF StartJob, Goto, Inputs, Creates, Loads, Jobs
<1>2. ASSUME NEW c \in Clients, NextBatch(c)
      PROVE  SignedInv'
  BY <1>2 DEF NextBatch, Goto
<1>3. ASSUME NEW c \in Clients, SignHash(c)
      PROVE  SignedInv'
  BY <1>3 DEF SignHash, Goto
<1>4. ASSUME NEW c \in Clients, OpenGraph(c)
      PROVE  SignedInv'
  BY <1>4 DEF OpenGraph, OpenDB, Fetched, Outrun, Goto
<1>5. ASSUME NEW c \in Clients, InitQuadStore(c)
      PROVE  SignedInv'
  BY <1>5 DEF InitQuadStore, Goto
<1>6. ASSUME NEW c \in Clients, NEW i \in Items, ApplyDeltas(c, i)
      PROVE  SignedInv'
  BY <1>6 DEF ApplyDeltas, Written, Goto, Creates, Loads, Jobs
<1>7. ASSUME NEW c \in Clients, Fails(c)
      PROVE  SignedInv'
  BY <1>7 DEF Fails, Goto
<1>8. ASSUME NEW c \in Clients, CommitBatch(c)
      PROVE  SignedInv'
  BY <1>8 DEF CommitBatch, Store, Committed, Goto, Loads
<1>9. ASSUME NEW c \in Clients, Commit(c)
      PROVE  SignedInv'
  BY <1>9 DEF Commit, Store, Committed, Goto, Loads
<1>10. ASSUME NEW c \in Clients, SetGraph(c)
      PROVE  SignedInv'
  BY <1>10 DEF SetGraph, Notify, Accepted, Goto
<1>11. ASSUME NEW c \in Clients, GetAfterSet(c)
      PROVE  SignedInv'
  BY <1>11 DEF GetAfterSet, OpenDB, Fetched, Outrun, Goto
<1>12. ASSUME NEW n \in Nodes, FetchUpdate(n)
      PROVE  SignedInv'
  BY <1>12 DEF FetchUpdate, Disturb
<1>13. ASSUME NEW n \in Nodes, Restart(n)
      PROVE  SignedInv'
  BY <1>13 DEF Restart, Disturb
<1>14. ASSUME NEW c \in Clients, SendTx(c)
      PROVE  SignedInv'
  BY <1>14 DEF SendTx, Goto
<1>15. ASSUME NEW c \in Clients, Receipt(c)
      PROVE  SignedInv'
  BY <1>15 DEF Receipt, Accepted, Goto
<1>16. ASSUME NEW t \in mempool, Execute(t)
      PROVE  SignedInv'
  BY <1>16 DEF Execute
<1>17. CASE UNCHANGED vars
  BY <1>17 DEF vars
<1> QED
  BY <1>1, <1>2, <1>3, <1>4, <1>5, <1>6, <1>7, <1>8,
     <1>9, <1>10, <1>11, <1>12, <1>13, <1>14, <1>15, <1>16, <1>17
     DEF Next, ClientStep

(* The invariant of what a command publishes holds in every behaviour.     *)
LEMMA SentInvHolds == Spec => []SentInv
<1>1. Init => SentInv
  BY TypeInit DEF Init, SentInv, OpenInv, InputInv, PendingInv, SignedInv, Midway
<1>2. SentInv /\ [Next]_vars => SentInv'
  BY TypeStep, OpenStep, InputStep, PendingStep, SignedStep DEF SentInv
<1> QED
  BY <1>1, <1>2, PTL DEF Spec

(* A command that ends well has published what it sent, unless its node    *)
(* was restarted or its watcher fetched an update midway: the order of     *)
(* write, commit and sign in CreateClaim, ApplyDeltas, RunGraphLoad and    *)
(* RunDappDeploy suffices, with any number of clients on any number of     *)
(* nodes.                                                                  *)
THEOREM PublishedWhatWasSentHolds == Spec => []PublishedWhatWasSent
<1>1. SentInv => PublishedWhatWasSent
  BY DEF SentInv, InputInv, SignedInv, PublishedWhatWasSent
<1> QED
  BY <1>1, SentInvHolds, PTL

-----------------------------------------------------------------------------
(* Every step keeps the signed version within the file.                    *)
LEMMA BehindStep ==
    ASSUME TypeOK, OpenInv, BehindInv, [Next]_vars
    PROVE  BehindInv'
<1> USE DEF TypeOK, InNode, InClient, Ended, Versions, Midway, OpenInv, BehindInv, nodeVars, chain, jobVars, history
<1>1. ASSUME NEW c \in Clients, NEW n \in Nodes, NEW k \in Jobs,
             NEW S \in Inputs(k), StartJob(c, n, k, S)
      PROVE  BehindInv'
  BY <1>1 DEF StartJob, Goto, Inputs, Creates, Loads, Jobs
<1>2. ASSUME NEW c \in Clients, NextBatch(c)
      PROVE  BehindInv'
  BY <1>2 DEF NextBatch, Goto
<1>3. ASSUME NEW c \in Clients, SignHash(c)
      PROVE  BehindInv'
  BY <1>3 DEF SignHash, Goto
<1>4. ASSUME NEW c \in Clients, OpenGraph(c)
      PROVE  BehindInv'
  BY <1>4 DEF OpenGraph, OpenDB, Fetched, Outrun, Goto
<1>5. ASSUME NEW c \in Clients, InitQuadStore(c)
      PROVE  BehindInv'
  BY <1>5 DEF InitQuadStore, Goto
<1>6. ASSUME NEW c \in Clients, NEW i \in Items, ApplyDeltas(c, i)
      PROVE  BehindInv'
  BY <1>6 DEF ApplyDeltas, Written, Goto, Creates, Loads, Jobs
<1>7. ASSUME NEW c \in Clients, Fails(c)
      PROVE  BehindInv'
  BY <1>7 DEF Fails, Goto
<1>8. ASSUME NEW c \in Clients, CommitBatch(c)
      PROVE  BehindInv'
  BY <1>8 DEF CommitBatch, Store, Committed, Goto, Loads
<1>9. ASSUME NEW c \in Clients, Commit(c)
      PROVE  BehindInv'
  BY <1>9 DEF Commit, Store, Committed, Goto, Loads
<1>10. ASSUME NEW c \in Clients, SetGraph(c)
      PROVE  BehindInv'
  BY <1>10 DEF SetGraph, Notify, Accepted, Goto
<1>11. ASSUME NEW c \in Clients, GetAfterSet(c)
      PROVE  BehindInv'
  BY <1>11 DEF GetAfterSet, OpenDB, Fetched, Outrun, Goto
<1>12. ASSUME NEW n \in Nodes, FetchUpdate(n)
      PROVE  BehindInv'
  BY <1>12 DEF FetchUpdate, Disturb
<1>13. ASSUME NEW n \in Nodes, Restart(n)
      PROVE  BehindInv'
  BY <1>13 DEF Restart, Disturb
<1>14. ASSUME NEW c \in Clients, SendTx(c)
      PROVE  BehindInv'
  BY <1>14 DEF SendTx, Goto
<1>15. ASSUME NEW c \in Clients, Receipt(c)
      PROVE  BehindInv'
  BY <1>15 DEF Receipt, Accepted, Goto
<1>16. ASSUME NEW t \in mempool, Execute(t)
      PROVE  BehindInv'
  BY <1>16 DEF Execute
<1>17. CASE UNCHANGED vars
  BY <1>17 DEF vars
<1> QED
  BY <1>1, <1>2, <1>3, <1>4, <1>5, <1>6, <1>7, <1>8,
     <1>9, <1>10, <1>11, <1>12, <1>13, <1>14, <1>15, <1>16, <1>17
     DEF Next, ClientStep

(* Every step keeps the only update of a watcher the latest.               *)
LEMMA UpdateStep ==
    ASSUME TypeOK, UpdateInv, [Next]_vars
    PROVE  UpdateInv'
<1> USE DEF TypeOK, InNode, InClient, Ended, Versions, Midway, UpdateInv, nodeVars, chain, jobVars, history
<1>0. subscribes' = subscribes
  BY DEF Next, vars
<1> USE <1>0
<1>1. ASSUME NEW c \in Clients, NEW n \in Nodes, NEW k \in Jobs,
             NEW S \in Inputs(k), StartJob(c, n, k, S)
      PROVE  UpdateInv'
  BY <1>1 DEF StartJob, Goto, Inputs, Creates, Loads, Jobs
<1>2. ASSUME NEW c \in Clients, NextBatch(c)
      PROVE  UpdateInv'
  BY <1>2 DEF NextBatch, Goto
<1>3. ASSUME NEW c \in Clients, SignHash(c)
      PROVE  UpdateInv'
  BY <1>3 DEF SignHash, Goto
<1>4. ASSUME NEW c \in Clients, OpenGraph(c)
      PROVE  UpdateInv'
  BY <1>4 DEF OpenGraph, OpenDB, Fetched, Outrun, Goto
<1>5. ASSUME NEW c \in Clients, InitQuadStore(c)
      PROVE  UpdateInv'
  BY <1>5 DEF InitQuadStore, Goto
<1>6. ASSUME NEW c \in Clients, NEW i \in Items, ApplyDeltas(c, i)
      PROVE  UpdateInv'
  BY <1>6 DEF ApplyDeltas, Written, Goto, Creates, Loads, Jobs
<1>7. ASSUME NEW c \in Clients, Fails(c)
      PROVE  UpdateInv'
  BY <1>7 DEF Fails, Goto
<1>8. ASSUME NEW c \in Clients, CommitBatch(c)
      PROVE  UpdateInv'
  BY <1>8 DEF CommitBatch, Store, Committed, Goto, Loads
<1>9. ASSUME NEW c \in Clients, Commit(c)
      PROVE  UpdateInv'
  BY <1>9 DEF Commit, Store, Committed, Goto, Loads
<1>10. ASSUME NEW c \in Clients, SetGraph(c)
      PROVE  UpdateInv'
  <2>1. upd' = [n \in Nodes |-> IF n \in open THEN {hash[c]} ELSE {}]
    BY <1>10 DEF SetGraph, Notify
  <2> QED
    BY <1>10, <2>1, <1>0 DEF SetGraph, Accepted, Goto
<1>11. ASSUME NEW c \in Clients, GetAfterSet(c)
      PROVE  UpdateInv'
  BY <1>11 DEF GetAfterSet, OpenDB, Fetched, Outrun, Goto
<1>12. ASSUME NEW n \in Nodes, FetchUpdate(n)
      PROVE  UpdateInv'
  BY <1>12 DEF FetchUpdate, Disturb
<1>13. ASSUME NEW n \in Nodes, Restart(n)
      PROVE  UpdateInv'
  BY <1>13 DEF Restart, Disturb
<1>14. ASSUME NEW c \in Clients, SendTx(c)
      PROVE  UpdateInv'
  BY <1>14 DEF SendTx, Goto
<1>15. ASSUME NEW c \in Clients, Receipt(c)
      PROVE  UpdateInv'
  BY <1>15 DEF Receipt, Accepted, Goto
<1>16. ASSUME NEW t \in mempool, Execute(t)
      PROVE  UpdateInv'
  BY <1>16 DEF Execute
<1>17. CASE UNCHANGED vars
  BY <1>17 DEF vars
<1> QED
  BY <1>1, <1>2, <1>3, <1>4, <1>5, <1>6, <1>7, <1>8,
     <1>9, <1>10, <1>11, <1>12, <1>13, <1>14, <1>15, <1>16, <1>17
     DEF Next, ClientStep

(* A node that opened nothing stale has what the pending transactions have.*)
LEMMA OpenDBFresh ==
    ASSUME NEW n \in Nodes, OpenDB(n), ~stale'
    PROVE  ~stale /\ (n \notin open => \A t \in mempool : t.hash.items \subseteq reg.items)
  BY Zenon DEF OpenDB, Fetched, Outrun

(* Every step keeps the pending versions within the file of the only node. *)
LEMMA PoolStep ==
    ASSUME TypeOK, \A m, n \in Nodes : m = n,
           UpdateInv, OpenInv, BehindInv, PoolInv, [Next]_vars
    PROVE  PoolInv'
<1> USE DEF TypeOK, InNode, InClient, Ended, Versions, Midway, UpdateInv, OpenInv, BehindInv, PoolInv, nodeVars, chain, jobVars, history
<1>1. ASSUME NEW c \in Clients, NEW n \in Nodes, NEW k \in Jobs,
             NEW S \in Inputs(k), StartJob(c, n, k, S)
      PROVE  PoolInv'
  BY <1>1 DEF StartJob, Goto, Inputs, Creates, Loads, Jobs
<1>2. ASSUME NEW c \in Clients, NextBatch(c)
      PROVE  PoolInv'
  BY <1>2 DEF NextBatch, Goto
<1>3. ASSUME NEW c \in Clients, SignHash(c)
      PROVE  PoolInv'
  BY <1>3 DEF SignHash, Goto
<1>4. ASSUME NEW c \in Clients, OpenGraph(c)
      PROVE  PoolInv'
  <2> SUFFICES ASSUME ~stale' PROVE PoolInv'
    OBVIOUS
  <2>1. at[c] \in Nodes /\ OpenDB(at[c])
    BY <1>4 DEF OpenGraph
  <2>2. ~stale /\ (at[c] \notin open => \A t \in mempool : t.hash.items \subseteq reg.items)
    BY <2>1, OpenDBFresh
  <2> QED
    BY <1>4, <2>2 DEF OpenGraph, OpenDB, Fetched, Goto
<1>5. ASSUME NEW c \in Clients, InitQuadStore(c)
      PROVE  PoolInv'
  BY <1>5 DEF InitQuadStore, Goto
<1>6. ASSUME NEW c \in Clients, NEW i \in Items, ApplyDeltas(c, i)
      PROVE  PoolInv'
  BY <1>6 DEF ApplyDeltas, Written, Goto, Creates, Loads, Jobs
<1>7. ASSUME NEW c \in Clients, Fails(c)
      PROVE  PoolInv'
  BY <1>7 DEF Fails, Goto
<1>8. ASSUME NEW c \in Clients, CommitBatch(c)
      PROVE  PoolInv'
  BY <1>8 DEF CommitBatch, Store, Committed, Goto, Loads
<1>9. ASSUME NEW c \in Clients, Commit(c)
      PROVE  PoolInv'
  BY <1>9 DEF Commit, Store, Committed, Goto, Loads
<1>10. ASSUME NEW c \in Clients, SetGraph(c)
      PROVE  PoolInv'
  BY <1>10 DEF SetGraph, Notify, Accepted, Goto
<1>11. ASSUME NEW c \in Clients, GetAfterSet(c)
      PROVE  PoolInv'
  <2> SUFFICES ASSUME ~stale' PROVE PoolInv'
    OBVIOUS
  <2>1. at[c] \in Nodes /\ OpenDB(at[c])
    BY <1>11 DEF GetAfterSet
  <2>2. ~stale /\ (at[c] \notin open => \A t \in mempool : t.hash.items \subseteq reg.items)
    BY <2>1, OpenDBFresh
  <2> QED
    BY <1>11, <2>2 DEF GetAfterSet, OpenDB, Fetched, Goto
<1>12. ASSUME NEW n \in Nodes, FetchUpdate(n)
      PROVE  PoolInv'
  BY <1>12 DEF FetchUpdate
<1>13. ASSUME NEW n \in Nodes, Restart(n)
      PROVE  PoolInv'
  BY <1>13 DEF Restart, Disturb
<1>14. ASSUME NEW c \in Clients, SendTx(c)
      PROVE  PoolInv'
  BY <1>14 DEF SendTx, Goto
<1>15. ASSUME NEW c \in Clients, Receipt(c)
      PROVE  PoolInv'
  BY <1>15 DEF Receipt, Accepted, Goto
<1>16. ASSUME NEW t \in mempool, Execute(t)
      PROVE  PoolInv'
  BY <1>16 DEF Execute
<1>17. CASE UNCHANGED vars
  BY <1>17 DEF vars
<1> QED
  BY <1>1, <1>2, <1>3, <1>4, <1>5, <1>6, <1>7, <1>8,
     <1>9, <1>10, <1>11, <1>12, <1>13, <1>14, <1>15, <1>16, <1>17
     DEF Next, ClientStep

(* Every step keeps the published version within the file of the only node.*)
LEMMA ServesStep ==
    ASSUME TypeOK, \A m, n \in Nodes : m = n,
           UpdateInv, OpenInv, BehindInv, PoolInv, ServesPublished, [Next]_vars
    PROVE  ServesPublished'
<1> USE DEF TypeOK, InNode, InClient, Ended, Versions, Midway, UpdateInv, OpenInv, BehindInv, PoolInv, ServesPublished, nodeVars, chain, jobVars, history
<1>1. ASSUME NEW c \in Clients, NEW n \in Nodes, NEW k \in Jobs,
             NEW S \in Inputs(k), StartJob(c, n, k, S)
      PROVE  ServesPublished'
  BY <1>1 DEF StartJob, Goto, Inputs, Creates, Loads, Jobs
<1>2. ASSUME NEW c \in Clients, NextBatch(c)
      PROVE  ServesPublished'
  BY <1>2 DEF NextBatch, Goto
<1>3. ASSUME NEW c \in Clients, SignHash(c)
      PROVE  ServesPublished'
  BY <1>3 DEF SignHash, Goto
<1>4. ASSUME NEW c \in Clients, OpenGraph(c)
      PROVE  ServesPublished'
  BY <1>4 DEF OpenGraph, OpenDB, Fetched, Outrun, Goto
<1>5. ASSUME NEW c \in Clients, InitQuadStore(c)
      PROVE  ServesPublished'
  BY <1>5 DEF InitQuadStore, Goto
<1>6. ASSUME NEW c \in Clients, NEW i \in Items, ApplyDeltas(c, i)
      PROVE  ServesPublished'
  BY <1>6 DEF ApplyDeltas, Written, Goto, Creates, Loads, Jobs
<1>7. ASSUME NEW c \in Clients, Fails(c)
      PROVE  ServesPublished'
  BY <1>7 DEF Fails, Goto
<1>8. ASSUME NEW c \in Clients, CommitBatch(c)
      PROVE  ServesPublished'
  BY <1>8 DEF CommitBatch, Store, Committed, Goto, Loads
<1>9. ASSUME NEW c \in Clients, Commit(c)
      PROVE  ServesPublished'
  BY <1>9 DEF Commit, Store, Committed, Goto, Loads
<1>10. ASSUME NEW c \in Clients, SetGraph(c)
      PROVE  ServesPublished'
  BY <1>10 DEF SetGraph, Notify, Accepted, Goto
<1>11. ASSUME NEW c \in Clients, GetAfterSet(c)
      PROVE  ServesPublished'
  BY <1>11 DEF GetAfterSet, OpenDB, Fetched, Outrun, Goto
<1>12. ASSUME NEW n \in Nodes, FetchUpdate(n)
      PROVE  ServesPublished'
  <2>1. file' = [file EXCEPT ![n] = reg]
    <3>1. PICK v \in upd[n] : file' = [file EXCEPT ![n] = v]
      BY <1>12 DEF FetchUpdate
    <3>2. v = reg
      BY <3>1
    <3> QED
      BY <3>1, <3>2
  <2>2. reg' = reg /\ open' = open
    BY <1>12 DEF FetchUpdate
  <2> QED
    BY <1>12, <2>1, <2>2 DEF FetchUpdate, Disturb
<1>13. ASSUME NEW n \in Nodes, Restart(n)
      PROVE  ServesPublished'
  BY <1>13 DEF Restart, Disturb
<1>14. ASSUME NEW c \in Clients, SendTx(c)
      PROVE  ServesPublished'
  BY <1>14 DEF SendTx, Goto
<1>15. ASSUME NEW c \in Clients, Receipt(c)
      PROVE  ServesPublished'
  BY <1>15 DEF Receipt, Accepted, Goto
<1>16. ASSUME NEW t \in mempool, Execute(t)
      PROVE  ServesPublished'
  BY <1>16 DEF Execute
<1>17. CASE UNCHANGED vars
  BY <1>17 DEF vars
<1> QED
  BY <1>1, <1>2, <1>3, <1>4, <1>5, <1>6, <1>7, <1>8,
     <1>9, <1>10, <1>11, <1>12, <1>13, <1>14, <1>15, <1>16, <1>17
     DEF Next, ClientStep

(* The only node of a graph serves all that is published, in whatever      *)
(* order its clients write, commit, sign and set (Commit and openDB of     *)
(* db/db.go, SetGraph of api/graphql.go and kord/api.go), however late the *)
(* chain executes what do() of registry/registry.go has sent, and whatever *)
(* the node's watcher fetches between the commands; unless the node was    *)
(* stopped midway, or openDB fetched a version while a transaction with    *)
(* more items was pending.                                                 *)
THEOREM ServesPublishedHolds ==
    ASSUME \A m, n \in Nodes : m = n
    PROVE  Spec => []ServesPublished
<1> DEFINE Inv == UpdateInv /\ BehindInv /\ PoolInv /\ ServesPublished
<1>1. Init => Inv
  BY DEF Init, UpdateInv, BehindInv, PoolInv, ServesPublished
<1>2. SentInv /\ Inv /\ [Next]_vars => Inv'
  BY UpdateStep, BehindStep, PoolStep, ServesStep DEF SentInv
<1>3. Inv => ServesPublished
  OBVIOUS
<1> QED
  BY <1>1, <1>2, <1>3, SentInvHolds, PTL DEF Spec

-----------------------------------------------------------------------------
(* Transactions are told apart by their numbers.                           *)
NumberInv ==
    /\ \A t \in mempool : t.no <= txs
    /\ \A t, u \in mempool : t.no = u.no => t = u

(* With one writer and one node, what is published, and what a transaction *)
(* may still publish, is in the node's file, open or not, and in what the  *)
(* client is about to publish.                                             *)
WriterInv ==
    Calm => /\ \A n \in Nodes :
                  /\ reg.items \subseteq file[n].items
                  /\ \A t \in mempool : t.hash.items \subseteq file[n].items
            /\ \A c \in Clients :
                  pc[c] \in {"sign", "set"} =>
                      /\ reg.items \subseteq hash[c].items
                      /\ \A t \in mempool : t.hash.items \subseteq hash[c].items
                      /\ hash[c].items \subseteq file[at[c]].items

(* A later transaction has the items of an earlier one, and those of what  *)
(* is published unless a later one still published it.                     *)
OrderInv ==
    Calm => /\ \A t, u \in mempool : t.no < u.no => t.hash.items \subseteq u.hash.items
            /\ \A t \in mempool : InOrder(t) => reg.items \subseteq t.hash.items

(* Every step keeps the numbers of the transactions apart.                 *)
LEMMA NumberStep ==
    ASSUME TypeOK, NumberInv, [Next]_vars
    PROVE  NumberInv'
<1> USE DEF TypeOK, Transactions, InNode, InClient, Ended, Versions, Midway, NumberInv, nodeVars, chain, jobVars, history
<1>0. subscribes' = subscribes
  BY DEF Next, vars
<1> USE <1>0
<1>1. ASSUME NEW c \in Clients, NEW n \in Nodes, NEW k \in Jobs,
             NEW S \in Inputs(k), StartJob(c, n, k, S)
      PROVE  NumberInv'
  BY <1>1 DEF StartJob, Goto, Inputs, Creates, Loads, Jobs
<1>2. ASSUME NEW c \in Clients, NextBatch(c)
      PROVE  NumberInv'
  BY <1>2 DEF NextBatch, Goto
<1>3. ASSUME NEW c \in Clients, SignHash(c)
      PROVE  NumberInv'
  BY <1>3 DEF SignHash, Goto
<1>4. ASSUME NEW c \in Clients, OpenGraph(c)
      PROVE  NumberInv'
  BY <1>4 DEF OpenGraph, OpenDB, Fetched, Outrun, Goto
<1>5. ASSUME NEW c \in Clients, InitQuadStore(c)
      PROVE  NumberInv'
  BY <1>5 DEF InitQuadStore, Goto
<1>6. ASSUME NEW c \in Clients, NEW i \in Items, ApplyDeltas(c, i)
      PROVE  NumberInv'
  BY <1>6 DEF ApplyDeltas, Written, Goto, Creates, Loads, Jobs
<1>7. ASSUME NEW c \in Clients, Fails(c)
      PROVE  NumberInv'
  BY <1>7 DEF Fails, Goto
<1>8. ASSUME NEW c \in Clients, CommitBatch(c)
      PROVE  NumberInv'
  BY <1>8 DEF CommitBatch, Store, Committed, Goto, Loads
<1>9. ASSUME NEW c \in Clients, Commit(c)
      PROVE  NumberInv'
  BY <1>9 DEF Commit, Store, Committed, Goto, Loads
<1>10. ASSUME NEW c \in Clients, SetGraph(c)
      PROVE  NumberInv'
  BY <1>10 DEF SetGraph, Accepted, Goto
<1>11. ASSUME NEW c \in Clients, GetAfterSet(c)
      PROVE  NumberInv'
  BY <1>11 DEF GetAfterSet, OpenDB, Fetched, Outrun, Goto
<1>12. ASSUME NEW n \in Nodes, FetchUpdate(n)
      PROVE  NumberInv'
  BY <1>12 DEF FetchUpdate, Disturb
<1>13. ASSUME NEW n \in Nodes, Restart(n)
      PROVE  NumberInv'
  BY <1>13 DEF Restart, Disturb
<1>14. ASSUME NEW c \in Clients, SendTx(c)
      PROVE  NumberInv'
  BY <1>14 DEF SendTx, Goto
<1>15. ASSUME NEW c \in Clients, Receipt(c)
      PROVE  NumberInv'
  BY <1>15 DEF Receipt, Accepted, Goto
<1>16. ASSUME NEW t \in mempool, Execute(t)
      PROVE  NumberInv'
  BY <1>16 DEF Execute
<1>17. CASE UNCHANGED vars
  BY <1>17 DEF vars
<1> QED
  BY <1>1, <1>2, <1>3, <1>4, <1>5, <1>6, <1>7, <1>8,
     <1>9, <1>10, <1>11, <1>12, <1>13, <1>14, <1>15, <1>16, <1>17
     DEF Next, ClientStep

(* A writer that is calm was calm before.                                  *)
LEMMA CalmStep ==
    ASSUME TypeOK, [Next]_vars
    PROVE  Calm' => Calm
<1> USE DEF TypeOK, InNode, InClient, Ended, OneWriter, Calm, nodeVars, chain, jobVars, history
<1>0. subscribes' = subscribes
  BY DEF Next, vars
<1> USE <1>0
<1>1. ASSUME NEW c \in Clients, NEW n \in Nodes, NEW k \in Jobs,
             NEW S \in Inputs(k), StartJob(c, n, k, S)
      PROVE  Calm' => Calm
  BY <1>1 DEF StartJob, Goto, Inputs, Creates, Loads, Jobs
<1>2. ASSUME NEW c \in Clients, NextBatch(c)
      PROVE  Calm' => Calm
  BY <1>2 DEF NextBatch, Goto
<1>3. ASSUME NEW c \in Clients, SignHash(c)
      PROVE  Calm' => Calm
  BY <1>3 DEF SignHash, Goto
<1>4. ASSUME NEW c \in Clients, OpenGraph(c)
      PROVE  Calm' => Calm
  BY <1>4 DEF OpenGraph, OpenDB, Fetched, Outrun, Goto
<1>5. ASSUME NEW c \in Clients, InitQuadStore(c)
      PROVE  Calm' => Calm
  BY <1>5 DEF InitQuadStore, Goto
<1>6. ASSUME NEW c \in Clients, NEW i \in Items, ApplyDeltas(c, i)
      PROVE  Calm' => Calm
  BY <1>6 DEF ApplyDeltas, Written, Goto, Creates, Loads, Jobs
<1>7. ASSUME NEW c \in Clients, Fails(c)
      PROVE  Calm' => Calm
  BY <1>7 DEF Fails, Goto
<1>8. ASSUME NEW c \in Clients, CommitBatch(c)
      PROVE  Calm' => Calm
  BY <1>8 DEF CommitBatch, Store, Committed, Goto, Loads
<1>9. ASSUME NEW c \in Clients, Commit(c)
      PROVE  Calm' => Calm
  BY <1>9 DEF Commit, Store, Committed, Goto, Loads
<1>10. ASSUME NEW c \in Clients, SetGraph(c)
      PROVE  Calm' => Calm
  BY <1>10 DEF SetGraph, Notify, Accepted, Goto
<1>11. ASSUME NEW c \in Clients, GetAfterSet(c)
      PROVE  Calm' => Calm
  BY <1>11 DEF GetAfterSet, OpenDB, Fetched, Outrun, Goto
<1>12. ASSUME NEW n \in Nodes, FetchUpdate(n)
      PROVE  Calm' => Calm
  BY <1>12 DEF FetchUpdate, Disturb
<1>13. ASSUME NEW n \in Nodes, Restart(n)
      PROVE  Calm' => Calm
  BY <1>13 DEF Restart, Disturb
<1>14. ASSUME NEW c \in Clients, SendTx(c)
      PROVE  Calm' => Calm
  BY <1>14 DEF SendTx, Goto
<1>15. ASSUME NEW c \in Clients, Receipt(c)
      PROVE  Calm' => Calm
  BY <1>15 DEF Receipt, Accepted, Goto
<1>16. ASSUME NEW t \in mempool, Execute(t)
      PROVE  Calm' => Calm
  BY <1>16 DEF Execute
<1>17. CASE UNCHANGED vars
  BY <1>17 DEF vars
<1> QED
  BY <1>1, <1>2, <1>3, <1>4, <1>5, <1>6, <1>7, <1>8,
     <1>9, <1>10, <1>11, <1>12, <1>13, <1>14, <1>15, <1>16, <1>17
     DEF Next, ClientStep

(* Every step of the only client, and every restart, keeps that.           *)
LEMMA WriterStep ==
    ASSUME TypeOK, UpdateInv, \A m, n \in Nodes : m = n,
           Calm, Calm', WriterInv, [Next]_vars
    PROVE  WriterInv'
<1> USE DEF TypeOK, InNode, InClient, Ended, Versions, Midway, UpdateInv, WriterInv, Calm, OneWriter, nodeVars, chain, jobVars, history
<1>0. subscribes' = subscribes
  BY DEF Next, vars
<1> USE <1>0
<1>1. ASSUME NEW c \in Clients, NEW n \in Nodes, NEW k \in Jobs,
             NEW S \in Inputs(k), StartJob(c, n, k, S)
      PROVE  WriterInv'
  BY <1>1 DEF StartJob, Goto, Inputs, Creates, Loads, Jobs
<1>2. ASSUME NEW c \in Clients, NextBatch(c)
      PROVE  WriterInv'
  BY <1>2 DEF NextBatch, Goto
<1>3. ASSUME NEW c \in Clients, SignHash(c)
      PROVE  WriterInv'
  BY <1>3 DEF SignHash, Goto
<1>4. ASSUME NEW c \in Clients, OpenGraph(c)
      PROVE  WriterInv'
  <2> SUFFICES ASSUME ~stale' PROVE WriterInv'
    OBVIOUS
  <2>1. at[c] \in Nodes /\ OpenDB(at[c])
    BY <1>4 DEF OpenGraph
  <2>2. ~stale /\ (at[c] \notin open => \A t \in mempool : t.hash.items \subseteq reg.items)
    BY <2>1, OpenDBFresh
  <2> QED
    BY <1>4, <2>2 DEF OpenGraph, OpenDB, Fetched, Goto
<1>5. ASSUME NEW c \in Clients, InitQuadStore(c)
      PROVE  WriterInv'
  BY <1>5 DEF InitQuadStore, Goto
<1>6. ASSUME NEW c \in Clients, NEW i \in Items, ApplyDeltas(c, i)
      PROVE  WriterInv'
  BY <1>6 DEF ApplyDeltas, Written, Goto, Creates, Loads, Jobs
<1>7. ASSUME NEW c \in Clients, Fails(c)
      PROVE  WriterInv'
  BY <1>7 DEF Fails, Goto
<1>8. ASSUME NEW c \in Clients, CommitBatch(c)
      PROVE  WriterInv'
  BY <1>8 DEF CommitBatch, Store, Committed, Goto, Loads
<1>9. ASSUME NEW c \in Clients, Commit(c)
      PROVE  WriterInv'
  BY <1>9 DEF Commit, Store, Committed, Goto, Loads
<1>10. ASSUME NEW c \in Clients, SetGraph(c)
      PROVE  WriterInv'
  <2>1. /\ pc[c] = "set" /\ reg' = hash[c] /\ file' = file /\ hash' = hash /\ at' = at
        /\ mempool = {} /\ mempool' = {}
    BY <1>10 DEF SetGraph
  <2>2. pc'[c] \in {"get", "done", "failed"}
    BY <1>10 DEF SetGraph, Accepted, Goto
  <2>3. \A d \in Clients : pc'[d] \notin {"sign", "set"}
    BY <2>2
  <2>4. \A n \in Nodes : reg'.items \subseteq file'[n].items
    <3>1. hash[c].items \subseteq file[at[c]].items /\ at[c] \in Nodes
      BY <2>1
    <3> QED
      BY <2>1, <3>1
  <2> QED
    BY <2>1, <2>3, <2>4
<1>11. ASSUME NEW c \in Clients, GetAfterSet(c)
      PROVE  WriterInv'
  <2> SUFFICES ASSUME ~stale' PROVE WriterInv'
    OBVIOUS
  <2>1. at[c] \in Nodes /\ OpenDB(at[c])
    BY <1>11 DEF GetAfterSet
  <2>2. ~stale /\ (at[c] \notin open => \A t \in mempool : t.hash.items \subseteq reg.items)
    BY <2>1, OpenDBFresh
  <2> QED
    BY <1>11, <2>2 DEF GetAfterSet, OpenDB, Fetched, Goto
<1>12. ASSUME NEW n \in Nodes, FetchUpdate(n)
      PROVE  WriterInv'
  <2>1. file' = [file EXCEPT ![n] = reg]
    <3>1. PICK v \in upd[n] : file' = [file EXCEPT ![n] = v]
      BY <1>12 DEF FetchUpdate
    <3>2. v = reg
      BY <3>1
    <3> QED
      BY <3>1, <3>2
  <2>2. reg' = reg /\ open' = open /\ pc' = pc /\ hash' = hash /\ at' = at
    BY <1>12 DEF FetchUpdate
  <2>3. mempool = {} /\ mempool' = {}
    BY <1>12 DEF FetchUpdate
  <2> QED
    BY <1>12, <2>1, <2>2, <2>3 DEF FetchUpdate, Disturb
<1>13. ASSUME NEW n \in Nodes, Restart(n)
      PROVE  WriterInv'
  BY <1>13 DEF Restart, Disturb
<1>14. ASSUME NEW c \in Clients, SendTx(c)
      PROVE  WriterInv'
  BY <1>14 DEF SendTx, Goto
<1>15. ASSUME NEW c \in Clients, Receipt(c)
      PROVE  WriterInv'
  BY <1>15 DEF Receipt, Accepted, Goto
<1>16. ASSUME NEW t \in mempool, Execute(t)
      PROVE  WriterInv'
  BY <1>16 DEF Execute
<1>17. CASE UNCHANGED vars
  BY <1>17 DEF vars
<1> QED
  BY <1>1, <1>2, <1>3, <1>4, <1>5, <1>6, <1>7, <1>8,
     <1>9, <1>10, <1>11, <1>12, <1>13, <1>14, <1>15, <1>16, <1>17
     DEF Next, ClientStep

(* Every step keeps the transactions in that order.                        *)
LEMMA OrderStep ==
    ASSUME TypeOK, UpdateInv, NumberInv, Calm, WriterInv, OrderInv, [Next]_vars
    PROVE  OrderInv'
<1>1. ASSUME NEW c \in Clients, SetGraph(c)
      PROVE  OrderInv'
  <2>1. mempool' = {}
    BY <1>1 DEF SetGraph, UpdateInv
  <2> QED
    BY <2>1 DEF OrderInv
<1>2. ASSUME NEW c \in Clients, SendTx(c)
      PROVE  OrderInv'
  <2> DEFINE new == [no |-> txs + 1, hash |-> hash[c]]
  <2>1. /\ mempool' = mempool \cup {new} /\ txs' = txs + 1 /\ reg' = reg
        /\ txs \in Nat /\ \A t \in mempool : t.no \in Nat /\ t.no <= txs
    BY <1>2 DEF SendTx, NumberInv, TypeOK, Transactions
  <2>2. /\ reg.items \subseteq hash[c].items
        /\ \A t \in mempool : t.hash.items \subseteq hash[c].items
    BY <1>2 DEF SendTx, WriterInv
  <2>3. ASSUME NEW t \in mempool, InOrder(t)'
        PROVE  InOrder(t)
    BY <2>1, <2>3 DEF InOrder
  <2>4. \A t, u \in mempool' : t.no < u.no => t.hash.items \subseteq u.hash.items
    BY <2>1, <2>2 DEF OrderInv
  <2>5. \A t \in mempool' : InOrder(t)' => reg'.items \subseteq t.hash.items
    BY <2>1, <2>2, <2>3 DEF OrderInv
  <2> QED
    BY <2>4, <2>5 DEF OrderInv
<1>3. ASSUME NEW t \in mempool, Execute(t)
      PROVE  OrderInv'
  <2>1. /\ mempool' = mempool \ {t} /\ txs' = txs /\ reg' = t.hash
        /\ txs \in Nat /\ \A u \in mempool : u.no \in Nat /\ u.no <= txs
    BY <1>3 DEF Execute, NumberInv, TypeOK, Transactions
  <2>2. ASSUME NEW u \in mempool', InOrder(u)'
        PROVE  t.hash.items \subseteq u.hash.items
    <3>1. u \in mempool /\ t.no # u.no
      BY <2>1 DEF NumberInv
    <3>2. ~(t.no \in (u.no + 1) .. txs)
      BY <2>1, <2>2 DEF InOrder, NumberInv
    <3>3. t.no < u.no
      BY <2>1, <3>1, <3>2
    <3> QED
      BY <3>1, <3>3 DEF OrderInv
  <2> QED
    BY <2>1, <2>2 DEF OrderInv
<1>4. CASE /\ ~ \E c \in Clients : SetGraph(c) \/ SendTx(c)
           /\ ~ \E t \in mempool : Execute(t)
  <2>1. reg' = reg /\ mempool' = mempool /\ txs' = txs
    BY <1>4 DEF Next, ClientStep, StartJob, NextBatch, SignHash, OpenGraph,
       InitQuadStore, ApplyDeltas, Fails, CommitBatch, Commit, Receipt,
       GetAfterSet, FetchUpdate, Restart, chain, vars
  <2> QED
    BY <2>1 DEF OrderInv, InOrder
<1> QED
  BY <1>1, <1>2, <1>3, <1>4

(* Nothing published is taken back while the owner works from one client   *)
(* on one node, however often the node is restarted and whatever fails     *)
(* between ApplyDeltas, Commit and SetGraph (kord/api.go, api/graphql.go): *)
(* openDB fetches the published version before anything is written again.  *)
(* The exceptions are what do() (registry/registry.go) leaves behind when  *)
(* it gives up: a transaction executed after a later one, or one that      *)
(* openDB outran.                                                          *)
THEOREM PublishedStaysHolds ==
    ASSUME \A m, n \in Nodes : m = n
    PROVE  Spec => PublishedStays
<1> DEFINE Inv == TypeOK /\ UpdateInv /\ NumberInv /\ WriterInv /\ OrderInv
<1>1. Init => Inv
  BY TypeInit DEF Init, UpdateInv, NumberInv, WriterInv, OrderInv
<1>2. Inv /\ [Next]_vars => Inv'
  <2> SUFFICES ASSUME Inv, [Next]_vars PROVE Inv'
    OBVIOUS
  <2>1. CASE Calm'
    BY <2>1, TypeStep, UpdateStep, NumberStep, CalmStep, WriterStep, OrderStep
  <2>2. CASE ~Calm'
    BY <2>2, TypeStep, UpdateStep, NumberStep DEF WriterInv, OrderInv
  <2> QED
    BY <2>1, <2>2
<1>3. Inv /\ [Next]_vars
      => [Calm /\ (\A t \in mempool \ mempool' : InOrder(t))
          => reg.items \subseteq reg'.items]_vars
  <2> SUFFICES ASSUME Inv, Next, Calm, \A t \in mempool \ mempool' : InOrder(t)
               PROVE  reg.items \subseteq reg'.items
    BY DEF vars, chain
  <2>1. ASSUME NEW c \in Clients, SetGraph(c)
        PROVE  reg.items \subseteq reg'.items
    BY <2>1 DEF SetGraph, WriterInv
  <2>2. ASSUME NEW t \in mempool, Execute(t)
        PROVE  reg.items \subseteq reg'.items
    <3>1. InOrder(t) /\ reg' = t.hash
      BY <2>2 DEF Execute
    <3> QED
      BY <3>1 DEF OrderInv
  <2>3. CASE /\ ~ \E c \in Clients : SetGraph(c)
             /\ ~ \E t \in mempool : Execute(t)
    <3>1. reg' = reg
      BY <2>3 DEF Next, ClientStep, StartJob, NextBatch, SignHash, OpenGraph,
         InitQuadStore, ApplyDeltas, Fails, CommitBatch, Commit, SendTx, Receipt,
         GetAfterSet, FetchUpdate, Restart, chain
    <3> QED
      BY <3>1
  <2> QED
    BY <2>1, <2>2, <2>3
<1> QED
  BY <1>1, <1>2, <1>3, PTL DEF Spec, PublishedStays

-----------------------------------------------------------------------------
(* Every step of a command, a watcher or a node is one of Publication, or  *)
(* changes nothing that Publication has.                                   *)
LEMMA PublicationStep ==
    ASSUME SentInv, TypeOK', PublishedIsStored, [Next]_vars
    PROVE  [Promise!Next]_(Promise!vars)
<1> DEFINE phase == [c \in Clients |-> Phase(c)]
<1> USE DEF SentInv, nodeVars, chain, jobVars, history, Promise!vars, Promise!registry
<1>1. ASSUME NEW c \in Clients, NEW n \in Nodes, NEW k \in Jobs,
             NEW S \in Inputs(k), StartJob(c, n, k, S)
      PROVE  [Promise!Next]_(Promise!vars)
  <2>1. Promise!Begin(c)
    BY <1>1 DEF StartJob, Goto, Phase, TypeOK, Ended, Promise!Begin
  <2> QED
    BY <2>1 DEF Promise!Next
<1>2. ASSUME NEW c \in Clients, NextBatch(c)
      PROVE  [Promise!Next]_(Promise!vars)
  <2>1. phase' = phase
    BY <1>2 DEF NextBatch, Goto, Phase, TypeOK, Ended
  <2> QED
    BY <1>2, <2>1 DEF NextBatch
<1>3. ASSUME NEW c \in Clients, SignHash(c)
      PROVE  [Promise!Next]_(Promise!vars)
  <2>1. phase' = phase
    BY <1>3 DEF SignHash, Goto, Phase, TypeOK, Ended
  <2> QED
    BY <1>3, <2>1 DEF SignHash
<1>4. ASSUME NEW c \in Clients, OpenGraph(c)
      PROVE  [Promise!Next]_(Promise!vars)
  <2>1. phase' = phase
    BY <1>4 DEF OpenGraph, Goto, Phase, TypeOK, Ended
  <2> QED
    BY <1>4, <2>1 DEF OpenGraph, OpenDB
<1>5. ASSUME NEW c \in Clients, InitQuadStore(c)
      PROVE  [Promise!Next]_(Promise!vars)
  <2>1. phase' = phase
    BY <1>5 DEF InitQuadStore, Goto, Phase, TypeOK, Ended
  <2> QED
    BY <1>5, <2>1 DEF InitQuadStore
<1>6. ASSUME NEW c \in Clients, NEW i \in Items, ApplyDeltas(c, i)
      PROVE  [Promise!Next]_(Promise!vars)
  <2>1. phase[c] = "working"
    BY <1>6 DEF ApplyDeltas, Phase, TypeOK, Ended
  <2>2. phase' = phase
    BY <1>6 DEF ApplyDeltas, Goto, Phase, TypeOK, Ended
  <2>3. Promise!Acknowledge(c, i)
    BY <1>6, <2>1, <2>2 DEF ApplyDeltas, Promise!Acknowledge
  <2> QED
    BY <2>3 DEF Promise!Next
<1>7. ASSUME NEW c \in Clients, Fails(c)
      PROVE  [Promise!Next]_(Promise!vars)
  <2>1. phase' = [d \in Clients |-> IF d \in {c} THEN "failed" ELSE phase[d]]
    BY <1>7 DEF Fails, Goto, Phase, TypeOK, Ended
  <2>2. phase[c] \in {"working", "submitted", "published"}
    BY <1>7 DEF Fails, Phase, InNode, InClient, Ended
  <2>3. Promise!Fail
    BY <1>7, <2>1, <2>2 DEF Fails, TypeOK, Promise!Fail
  <2> QED
    BY <2>3 DEF Promise!Next
<1>8. ASSUME NEW c \in Clients, CommitBatch(c)
      PROVE  [Promise!Next]_(Promise!vars)
  <2>1. phase' = phase
    BY <1>8 DEF CommitBatch, Goto, Phase, TypeOK, Ended
  <2>2. file[at[c]] \in Versions
    BY DEF TypeOK
  <2>3. Promise!Upload(file[at[c]])
    BY <1>8, <2>1 DEF CommitBatch, Store, Committed, Promise!Upload
  <2> QED
    BY <2>2, <2>3 DEF Promise!Next
<1>9. ASSUME NEW c \in Clients, Commit(c)
      PROVE  [Promise!Next]_(Promise!vars)
  <2>1. phase' = phase
    BY <1>9 DEF Commit, Goto, Phase, TypeOK, Ended
  <2>2. file[at[c]] \in Versions
    BY DEF TypeOK
  <2>3. Promise!Upload(file[at[c]])
    BY <1>9, <2>1 DEF Commit, Store, Committed, Promise!Upload
  <2> QED
    BY <2>2, <2>3 DEF Promise!Next
<1>10. ASSUME NEW c \in Clients, SetGraph(c)
      PROVE  [Promise!Next]_(Promise!vars)
  <2>1. hash[c] \in stored /\ hash[c] \in Versions
    BY <1>10 DEF SetGraph, PublishedIsStored, TypeOK
  <2>2. c \in disturbed \/ sent[c] \subseteq hash[c].items
    BY <1>10 DEF SetGraph, SignedInv
  <2>3. \E p \in {"published", "done", "failed"} : phase' = [phase EXCEPT ![c] = p]
    <3>1. PICK q \in {"get", "done", "failed"} : pc' = [pc EXCEPT ![c] = q]
      BY <1>10 DEF SetGraph, Accepted, Goto
    <3>2. phase' = [phase EXCEPT ![c] = IF q = "get" THEN "published" ELSE q]
      BY <3>1 DEF Phase, TypeOK, Ended
    <3> QED
      BY <3>2
  <2>4. Promise!Publish(c, hash[c])
    BY <1>10, <2>1, <2>2, <2>3 DEF SetGraph, Phase, TypeOK, Ended, Promise!Publish, Promise!Publishable
  <2> QED
    BY <2>1, <2>4 DEF Promise!Next
<1>11. ASSUME NEW c \in Clients, GetAfterSet(c)
      PROVE  [Promise!Next]_(Promise!vars)
  <2>1. Promise!Answer(c)
    BY <1>11 DEF GetAfterSet, OpenDB, Goto, Phase, TypeOK, Ended, Promise!Answer
  <2> QED
    BY <2>1 DEF Promise!Next
<1>12. ASSUME NEW n \in Nodes, FetchUpdate(n)
      PROVE  [Promise!Next]_(Promise!vars)
  <2>1. phase' = phase
    BY <1>12 DEF FetchUpdate, Phase
  <2>2. phase' = [c \in Clients |-> IF c \in {} THEN "failed" ELSE phase[c]]
    BY <2>1
  <2> DEFINE working == {c \in Clients : phase[c] \in {"working", "submitted", "published"}}
  <2>3. \E F \in SUBSET working :
           phase' = [c \in Clients |-> IF c \in F THEN "failed" ELSE phase[c]]
    <3>1. {} \in SUBSET working
      OBVIOUS
    <3> HIDE DEF working, phase
    <3> QED
      BY <2>2, <3>1
  <2>4. disturbed \subseteq disturbed' /\ disturbed' \subseteq Clients
    BY <1>12 DEF FetchUpdate, Disturb, TypeOK
  <2>5. Promise!Fail
    BY <1>12, <2>3, <2>4 DEF FetchUpdate, Promise!Fail
  <2> QED
    BY <2>5 DEF Promise!Next
<1>13. ASSUME NEW n \in Nodes, Restart(n)
      PROVE  [Promise!Next]_(Promise!vars)
  <2> DEFINE F == {c \in Clients : at[c] = n /\ pc[c] \in InNode}
  <2>1. phase' = [c \in Clients |-> IF c \in F THEN "failed" ELSE phase[c]]
    BY <1>13 DEF Restart, Phase, TypeOK, Ended
  <2>2. \A c \in F : phase[c] \in {"working", "submitted", "published"}
    BY DEF Phase, InNode, Ended
  <2>3. Promise!Fail
    BY <1>13, <2>1, <2>2 DEF Restart, Disturb, TypeOK, Promise!Fail
  <2> QED
    BY <2>3 DEF Promise!Next
<1>14. ASSUME NEW c \in Clients, SendTx(c)
      PROVE  [Promise!Next]_(Promise!vars)
  <2>1. hash[c] \in stored
    BY <1>14 DEF SendTx, PublishedIsStored
  <2>2. c \in disturbed \/ sent[c] \subseteq hash[c].items
    BY <1>14 DEF SendTx, SignedInv
  <2>3. phase[c] = "working" /\ phase' = [phase EXCEPT ![c] = "submitted"]
    BY <1>14 DEF SendTx, Goto, Phase, TypeOK, Ended
  <2>4. Promise!Submit(c, hash[c])
    BY <1>14, <2>2, <2>3 DEF SendTx, Promise!Submit, Promise!Publishable
  <2> QED
    BY <2>1, <2>4 DEF Promise!Next
<1>15. ASSUME NEW c \in Clients, Receipt(c)
      PROVE  [Promise!Next]_(Promise!vars)
  <2>1. \E p \in {"published", "done"} : phase' = [phase EXCEPT ![c] = p]
    <3>1. PICK q \in {"get", "done"} : pc' = [pc EXCEPT ![c] = q]
      BY <1>15 DEF Receipt, Accepted, Goto
    <3>2. phase' = [phase EXCEPT ![c] = IF q = "get" THEN "published" ELSE q]
      BY <3>1 DEF Phase, TypeOK, Ended
    <3> QED
      BY <3>2
  <2>2. phase[c] = "submitted"
    BY <1>15 DEF Receipt, Phase, Ended
  <2>3. Promise!Confirm(c)
    BY <1>15, <2>1, <2>2 DEF Receipt, Pending, Promise!Confirm
  <2> QED
    BY <2>3 DEF Promise!Next
<1>16. ASSUME NEW t \in mempool, Execute(t)
      PROVE  [Promise!Next]_(Promise!vars)
  <2>1. phase' = phase
    BY <1>16 DEF Execute, Phase
  <2>2. Promise!TakesEffect(t)
    BY <1>16, <2>1 DEF Execute, Promise!TakesEffect
  <2> QED
    BY <2>2 DEF Promise!Next
<1>17. CASE UNCHANGED vars
  BY <1>17 DEF vars, Phase
<1> QED
  BY <1>1, <1>2, <1>3, <1>4, <1>5, <1>6, <1>7, <1>8,
     <1>9, <1>10, <1>11, <1>12, <1>13, <1>14, <1>15, <1>16, <1>17
     DEF Next, ClientStep

(* The commands of cli/graph.go, cli/dapp.go and api/client.go implement   *)
(* Publication, with any number of clients and nodes, restarts, failures,  *)
(* updates, and transactions executed after do() (registry/registry.go)    *)
(* has given up.                                                           *)
THEOREM PublicationIsImplemented == Spec => ImplementsPublication
<1>1. Init => Promise!Init
  BY DEF Init, Promise!Init, Phase, Ended
<1>2. SentInv /\ SentInv' /\ PublishedIsStored /\ [Next]_vars => [Promise!Next]_(Promise!vars)
  BY PublicationStep DEF SentInv
<1> QED
  BY <1>1, <1>2, SentInvHolds, PublishedIsStoredHolds, PTL
     DEF Spec, ImplementsPublication, Promise!Spec
=============================================================================
