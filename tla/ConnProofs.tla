----------------------------- MODULE ConnProofs -----------------------------
(* Proofs, for every number of clients, batches and fetched versions, of   *)
(* the safety properties of Conn.                                          *)
EXTENDS Conn, TLAPS

(* No handle, transaction or open file is of an inode yet to be made.      *)
PastInv ==
    \A c \in Clients : handle[c] <= path /\ tx[c] <= path /\ fd[c] <= path

(* A transaction whose handle was not swapped has its rows in its own      *)
(* work and, from its first statement on, the lock of its file.            *)
TxInv ==
    ~swapped => \A c \in Clients :
        /\ pc[c] \in {"nodes", "quads"} => handle[c] = tx[c]
        /\ pc[c] \in {"quads", "commit", "flush"} => lock[tx[c]] = c
        /\ pc[c] = "nodes" => work[c]["nodes"] = {} /\ work[c]["quads"] = {}
        /\ pc[c] = "quads" => work[c]["nodes"] = {batch[c]} /\ work[c]["quads"] = {}
        /\ pc[c] \in {"commit", "flush"} =>
              work[c]["nodes"] = {batch[c]} /\ work[c]["quads"] = {batch[c]}

(* No version with half a batch was fetched into file f.                   *)
Sound(f) == f = 0 \/ ~torn

(* A file is whole but for the batch that is being written to it.          *)
FileInv ==
    ~swapped => /\ \A f \in Inodes : Sound(f) => Flushing(f) \/ Whole(content[f])
                /\ \A c \in Clients :
                      pc[c] = "flush" /\ Sound(tx[c])
                        => content[tx[c]]["nodes"] = content[tx[c]]["quads"] \cup {batch[c]}

(* Nobody writes to a file that Commit is reading.                         *)
CopyInv ==
    ~swapped /\ ~torn =>
        /\ \A v \in stored : Whole(v)
        /\ \A c \in Clients :
              pc[c] = "copying" => /\ ~Flushing(fd[c])
                                   /\ copy[c]["nodes"] = content[fd[c]]["nodes"]

(* The batch of a request that has not lost its file is where it should    *)
(* be: its handle is of the file that the path names, so reopenConns has   *)
(* no other to give it, and a file never loses rows.                       *)
BatchInv ==
    \A c \in Clients \ lost :
        /\ pc[c] \in InTx => handle[c] = path
        /\ pc[c] \in InTx \cup {"copy"} => tx[c] = path
        /\ pc[c] = "quads" => batch[c] \in work[c]["nodes"]
        /\ pc[c] \in {"commit", "flush"} => \A t \in Tables : batch[c] \in work[c][t]
        /\ pc[c] = "flush" => batch[c] \in content[path]["nodes"]
        /\ pc[c] = "copy" => \A t \in Tables : batch[c] \in content[path][t]
        /\ pc[c] = "copying" => /\ batch[c] \in copy[c]["nodes"]
                                /\ batch[c] \in content[fd[c]]["quads"]
        /\ pc[c] = "done" => HasBatch(c)

(* Before the first update nothing is lost and no handle is swapped.       *)
FirstInv == path = 0 => lost = {} /\ ~swapped /\ stale = {}

ConnInv == TypeOK /\ PastInv /\ TxInv /\ FileInv /\ CopyInv /\ BatchInv /\ FirstInv

-----------------------------------------------------------------------------
(* Every step keeps the types.                                             *)
LEMMA TypeStep ==
    ASSUME TypeOK, [Next]_vars
    PROVE  TypeOK'
<1> USE FetchesAssumption, NobodyAssumption
<1> USE DEF TypeOK, InTx, Versions, Tables, Blank, fileVars, connVars, copyVars, reqVars
<1>1. ASSUME NEW c \in Clients, NEW b \in Batches, BeginTx(c, b)
      PROVE  TypeOK'
  BY <1>1 DEF BeginTx, Goto
<1>2. ASSUME NEW c \in Clients, InsertNodes(c)
      PROVE  TypeOK'
  <2>1. Add(work[c], "nodes", batch[c]) \in Versions /\ Add(content[handle[c]], "nodes", batch[c]) \in Versions
    BY DEF Add
  <2> HIDE DEF Versions, Tables
  <2>2. content' \in [Inodes -> Versions] /\ work' \in [Clients -> Versions]
    <3>1. CASE InTransaction(c)
      BY <1>2, <2>1, <3>1 DEF InsertNodes, Execute
    <3>2. CASE ~InTransaction(c)
      BY <1>2, <2>1, <3>2 DEF InsertNodes, Execute
    <3> QED
      BY <3>1, <3>2
  <2>3. lock' = lock \/ lock' = [lock EXCEPT ![tx[c]] = c]
    BY <1>2 DEF InsertNodes, Execute
  <2>4. pc' \in [Clients -> InTx \cup {"idle", "copy", "copying", "done", "failed"}] /\ pc'[c] \in InTx
    BY <1>2 DEF InsertNodes, Goto
  <2>5. \A f \in Inodes, d \in Clients : lock'[f] = d => pc'[d] \in InTx /\ tx'[d] = f
    BY <1>2, <2>3, <2>4 DEF InsertNodes, Execute, Goto
  <2>6. lock' \in [Inodes -> Clients \cup {Nobody}]
    BY <2>3
  <2> QED
    BY <1>2, <2>2, <2>4, <2>5, <2>6 DEF InsertNodes, Execute
<1>3. ASSUME NEW c \in Clients, InsertQuads(c)
      PROVE  TypeOK'
  <2>1. Add(work[c], "quads", batch[c]) \in Versions /\ Add(content[handle[c]], "quads", batch[c]) \in Versions
    BY DEF Add
  <2> HIDE DEF Versions, Tables
  <2>2. content' \in [Inodes -> Versions] /\ work' \in [Clients -> Versions]
    <3>1. CASE InTransaction(c)
      BY <1>3, <2>1, <3>1 DEF InsertQuads, Execute
    <3>2. CASE ~InTransaction(c)
      BY <1>3, <2>1, <3>2 DEF InsertQuads, Execute
    <3> QED
      BY <3>1, <3>2
  <2>3. lock' = lock \/ lock' = [lock EXCEPT ![tx[c]] = c]
    BY <1>3 DEF InsertQuads, Execute
  <2>4. pc' \in [Clients -> InTx \cup {"idle", "copy", "copying", "done", "failed"}] /\ pc'[c] \in InTx
    BY <1>3 DEF InsertQuads, Goto
  <2>5. \A f \in Inodes, d \in Clients : lock'[f] = d => pc'[d] \in InTx /\ tx'[d] = f
    BY <1>3, <2>3, <2>4 DEF InsertQuads, Execute, Goto
  <2>6. lock' \in [Inodes -> Clients \cup {Nobody}]
    BY <2>3
  <2> QED
    BY <1>3, <2>2, <2>4, <2>5, <2>6 DEF InsertQuads, Execute
<1>4. ASSUME NEW c \in Clients, RollbackTx(c)
      PROVE  TypeOK'
  BY <1>4 DEF RollbackTx, Unlock, Goto
<1>5. ASSUME NEW c \in Clients, CommitTx(c)
      PROVE  TypeOK'
  BY <1>5 DEF CommitTx, Write, Disturb, Reading, Goto
<1>6. ASSUME NEW c \in Clients, CommittedTx(c)
      PROVE  TypeOK'
  BY <1>6 DEF CommittedTx, Write, Disturb, Reading, Unlock, Goto
<1>7. ASSUME NEW c \in Clients, OpenFile(c)
      PROVE  TypeOK'
  BY <1>7 DEF OpenFile, Committed, Goto
<1>8. ASSUME NEW c \in Clients, StoreFile(c)
      PROVE  TypeOK'
  <2> DEFINE V == [copy[c] EXCEPT !["quads"] = content[fd[c]]["quads"]]
  <2>1. V \in Versions
    OBVIOUS
  <2>2. copy' = [copy EXCEPT ![c] = V] /\ stored' = stored \cup {copy'[c]}
    BY <1>8 DEF StoreFile
  <2> HIDE DEF V
  <2>3. copy' \in [Clients -> Versions] /\ stored' \subseteq Versions
    BY <2>1, <2>2
  <2> QED
    BY <1>8, <2>3 DEF StoreFile, Goto
<1>9. ASSUME NEW c \in Clients, CommitFails(c)
      PROVE  TypeOK'
  BY <1>9 DEF CommitFails, Goto
<1>10. ASSUME NEW c \in Clients, ReopenConn(c)
      PROVE  TypeOK'
  BY <1>10 DEF ReopenConn
<1>11. ASSUME NEW v \in stored \cup {Blank}, FetchDB(v)
      PROVE  TypeOK'
  BY <1>11 DEF FetchDB, Inodes
<1>12. CASE UNCHANGED vars
  BY <1>12 DEF vars
<1> QED
  BY <1>1, <1>2, <1>3, <1>4, <1>5, <1>6, <1>7, <1>8, <1>9, <1>10, <1>11, <1>12
     DEF Next

(* Initially the types hold.                                               *)
LEMMA TypeInit == Init => TypeOK
<1> SUFFICES ASSUME Init PROVE TypeOK
  OBVIOUS
<1>1. AnyBatch \in Batches
  BY BatchesAssumption DEF AnyBatch
<1>2. Blank \in Versions /\ 0 \in Inodes
  BY FetchesAssumption DEF Blank, Versions, Inodes
<1> QED
  BY <1>1, <1>2, NobodyAssumption DEF Init, TypeOK

(* Every step keeps inodes in the past.                                    *)
LEMMA PastStep ==
    ASSUME TypeOK, PastInv, [Next]_vars
    PROVE  PastInv'
<1> USE FetchesAssumption
<1> USE DEF TypeOK, Inodes, PastInv, fileVars, connVars, copyVars, reqVars
<1>1. ASSUME NEW c \in Clients, NEW b \in Batches, BeginTx(c, b)
      PROVE  PastInv'
  BY <1>1 DEF BeginTx, Goto
<1>2. ASSUME NEW c \in Clients, InsertNodes(c)
      PROVE  PastInv'
  BY <1>2 DEF InsertNodes, Execute, InTransaction, Goto, Add
<1>3. ASSUME NEW c \in Clients, InsertQuads(c)
      PROVE  PastInv'
  BY <1>3 DEF InsertQuads, Execute, InTransaction, Goto, Add
<1>4. ASSUME NEW c \in Clients, RollbackTx(c)
      PROVE  PastInv'
  BY <1>4 DEF RollbackTx, Unlock, Goto
<1>5. ASSUME NEW c \in Clients, CommitTx(c)
      PROVE  PastInv'
  BY <1>5 DEF CommitTx, Write, Disturb, Reading, Goto
<1>6. ASSUME NEW c \in Clients, CommittedTx(c)
      PROVE  PastInv'
  BY <1>6 DEF CommittedTx, Write, Disturb, Reading, Unlock, Goto
<1>7. ASSUME NEW c \in Clients, OpenFile(c)
      PROVE  PastInv'
  BY <1>7 DEF OpenFile, Committed, Goto
<1>8. ASSUME NEW c \in Clients, StoreFile(c)
      PROVE  PastInv'
  BY <1>8 DEF StoreFile, Goto
<1>9. ASSUME NEW c \in Clients, CommitFails(c)
      PROVE  PastInv'
  BY <1>9 DEF CommitFails, Goto
<1>10. ASSUME NEW c \in Clients, ReopenConn(c)
      PROVE  PastInv'
  BY <1>10 DEF ReopenConn
<1>11. ASSUME NEW v \in stored \cup {Blank}, FetchDB(v)
      PROVE  PastInv'
  BY <1>11 DEF FetchDB, Inodes
<1>12. CASE UNCHANGED vars
  BY <1>12 DEF vars
<1> QED
  BY <1>1, <1>2, <1>3, <1>4, <1>5, <1>6, <1>7, <1>8, <1>9, <1>10, <1>11, <1>12
     DEF Next

(* Every step keeps a transaction together.                                *)
LEMMA TxStep ==
    ASSUME TypeOK, TypeOK', PastInv, TxInv, [Next]_vars
    PROVE  TxInv'
<1> USE FetchesAssumption, NobodyAssumption
<1> USE DEF TypeOK, InTx, Versions, Tables, Blank, PastInv, TxInv, fileVars, connVars, copyVars, reqVars
<1>1. ASSUME NEW c \in Clients, NEW b \in Batches, BeginTx(c, b)
      PROVE  TxInv'
  BY <1>1 DEF BeginTx, Goto
<1>2. ASSUME NEW c \in Clients, InsertNodes(c)
      PROVE  TxInv'
  BY <1>2 DEF InsertNodes, Execute, InTransaction, Goto, Add
<1>3. ASSUME NEW c \in Clients, InsertQuads(c)
      PROVE  TxInv'
  BY <1>3 DEF InsertQuads, Execute, InTransaction, Goto, Add
<1>4. ASSUME NEW c \in Clients, RollbackTx(c)
      PROVE  TxInv'
  BY <1>4 DEF RollbackTx, Unlock, Goto
<1>5. ASSUME NEW c \in Clients, CommitTx(c)
      PROVE  TxInv'
  BY <1>5 DEF CommitTx, Write, Disturb, Reading, Goto
<1>6. ASSUME NEW c \in Clients, CommittedTx(c)
      PROVE  TxInv'
  BY <1>6 DEF CommittedTx, Write, Disturb, Reading, Unlock, Goto
<1>7. ASSUME NEW c \in Clients, OpenFile(c)
      PROVE  TxInv'
  BY <1>7 DEF OpenFile, Committed, Goto
<1>8. ASSUME NEW c \in Clients, StoreFile(c)
      PROVE  TxInv'
  BY <1>8 DEF StoreFile, Goto
<1>9. ASSUME NEW c \in Clients, CommitFails(c)
      PROVE  TxInv'
  BY <1>9 DEF CommitFails, Goto
<1>10. ASSUME NEW c \in Clients, ReopenConn(c)
      PROVE  TxInv'
  <2>1. SUFFICES ASSUME ~swapped', NEW d \in Clients
                 PROVE  TxInv!2!(d)'
    BY DEF TxInv
  <2>2. ~swapped /\ pc[c] \notin {"nodes", "quads"}
    BY <1>10, <2>1 DEF ReopenConn
  <2> QED
    BY <1>10, <2>2 DEF ReopenConn
<1>11. ASSUME NEW v \in stored \cup {Blank}, FetchDB(v)
      PROVE  TxInv'
  BY <1>11 DEF FetchDB, Inodes
<1>12. CASE UNCHANGED vars
  BY <1>12 DEF vars
<1> QED
  BY <1>1, <1>2, <1>3, <1>4, <1>5, <1>6, <1>7, <1>8, <1>9, <1>10, <1>11, <1>12
     DEF Next

(* A step that writes no file and neither begins nor ends a COMMIT keeps   *)
(* the files whole.                                                        *)
LEMMA FileKept ==
    ASSUME FileInv, swapped' = swapped, torn => torn', content' = content,
           \A d \in Clients : /\ pc'[d] = "flush" <=> pc[d] = "flush"
                              /\ pc[d] = "flush" => tx'[d] = tx[d] /\ batch'[d] = batch[d]
    PROVE  FileInv'
BY DEF FileInv, Sound, Flushing, Whole

(* Every step keeps the files whole.                                       *)
LEMMA FileStep ==
    ASSUME TypeOK, TypeOK', PastInv, TxInv, CopyInv, FileInv, [Next]_vars
    PROVE  FileInv'
<1> USE FetchesAssumption, NobodyAssumption
<1> USE DEF TypeOK, InTx, Versions, Tables, Blank, PastInv, TxInv, CopyInv, FileInv, Sound, Flushing, Whole, fileVars, connVars, copyVars, reqVars
<1>1. ASSUME NEW c \in Clients, NEW b \in Batches, BeginTx(c, b)
      PROVE  FileInv'
  <2>1. /\ swapped' = swapped /\ (torn => torn') /\ content' = content
        /\ \A d \in Clients : /\ pc'[d] = "flush" <=> pc[d] = "flush"
                              /\ pc[d] = "flush" => tx'[d] = tx[d] /\ batch'[d] = batch[d]
    BY <1>1 DEF BeginTx, Goto
  <2> QED
    BY <2>1, FileKept
<1>2. ASSUME NEW c \in Clients, InsertNodes(c)
      PROVE  FileInv'
  <2>1. SUFFICES ASSUME ~swapped' PROVE FileInv!2'
    BY DEF FileInv
  <2>2. ~swapped /\ torn' = torn /\ content' = content /\ tx' = tx /\ batch' = batch
    BY <1>2, <2>1 DEF InsertNodes, Execute, InTransaction
  <2>3. \A d \in Clients : pc'[d] = "flush" <=> pc[d] = "flush"
    BY <1>2 DEF InsertNodes, Goto
  <2> QED
    BY <2>2, <2>3
<1>3. ASSUME NEW c \in Clients, InsertQuads(c)
      PROVE  FileInv'
  <2>1. SUFFICES ASSUME ~swapped' PROVE FileInv!2'
    BY DEF FileInv
  <2>2. ~swapped /\ torn' = torn /\ content' = content /\ tx' = tx /\ batch' = batch
    BY <1>3, <2>1 DEF InsertQuads, Execute, InTransaction
  <2>3. \A d \in Clients : pc'[d] = "flush" <=> pc[d] = "flush"
    BY <1>3 DEF InsertQuads, Goto
  <2> QED
    BY <2>2, <2>3
<1>4. ASSUME NEW c \in Clients, RollbackTx(c)
      PROVE  FileInv'
  BY <1>4 DEF RollbackTx, Unlock, Goto
<1>5. ASSUME NEW c \in Clients, CommitTx(c)
      PROVE  FileInv'
  <2>1. SUFFICES ASSUME ~swapped' PROVE FileInv!2'
    BY DEF FileInv
  <2>2. ~swapped /\ (torn => torn')
    BY <1>5, <2>1 DEF CommitTx, Disturb
  <2>3. \A d \in Clients : pc[d] = "flush" => tx[d] # tx[c]
    BY <1>5, <2>2 DEF CommitTx
  <2>4. Sound(tx[c]) => Whole(content[tx[c]])
    <3>1. ~Flushing(tx[c]) /\ tx[c] \in Inodes
      BY <2>3
    <3> QED
      BY <2>2, <3>1
  <2>5. /\ content'[tx[c]]["nodes"] = content[tx[c]]["nodes"] \cup {batch[c]}
        /\ content'[tx[c]]["quads"] = content[tx[c]]["quads"]
        /\ \A f \in Inodes : f # tx[c] => content'[f] = content[f]
    BY <1>5, <2>2 DEF CommitTx, Write
  <2>6. tx' = tx /\ batch' = batch /\ pc' = [pc EXCEPT ![c] = "flush"]
    BY <1>5 DEF CommitTx, Goto
  <2>7. \A d \in Clients : pc'[d] = "flush" <=> d = c \/ pc[d] = "flush"
    BY <2>6
  <2>8. ASSUME NEW f \in Inodes PROVE Sound(f)' => Flushing(f)' \/ Whole(content'[f])
    <3>1. CASE f = tx[c]
      BY <2>6, <2>7, <3>1
    <3>2. CASE f # tx[c] /\ Flushing(f)
      <4>1. PICK d \in Clients : pc[d] = "flush" /\ tx[d] = f
        BY <3>2
      <4>2. pc'[d] = "flush" /\ tx'[d] = f
        BY <2>6, <2>7, <3>2, <4>1
      <4> QED
        BY <4>2
    <3>3. CASE f # tx[c] /\ ~Flushing(f)
      <4>1. Sound(f) => Whole(content[f])
        BY <2>2, <3>3
      <4> QED
        BY <2>2, <2>5, <3>3, <4>1
    <3> QED
      BY <3>1, <3>2, <3>3
  <2>9. ASSUME NEW d \in Clients, pc'[d] = "flush"
        PROVE  Sound(tx[d])' => content'[tx'[d]]["nodes"] = content'[tx'[d]]["quads"] \cup {batch'[d]}
    BY <2>2, <2>3, <2>4, <2>5, <2>6, <2>7, <2>9
  <2> QED
    BY <2>8, <2>9
<1>6. ASSUME NEW c \in Clients, CommittedTx(c)
      PROVE  FileInv'
  <2>1. SUFFICES ASSUME ~swapped' PROVE FileInv!2'
    BY DEF FileInv
  <2>2. ~swapped /\ (torn => torn')
    BY <1>6, <2>1 DEF CommittedTx, Disturb
  <2>3. \A d \in Clients : pc[d] = "flush" /\ d # c => tx[d] # tx[c]
    BY <1>6, <2>2 DEF CommittedTx
  <2>4. Sound(tx[c]) => content[tx[c]]["nodes"] = content[tx[c]]["quads"] \cup {batch[c]}
    BY <1>6, <2>2 DEF CommittedTx
  <2>5. /\ content'[tx[c]]["nodes"] = content[tx[c]]["nodes"]
        /\ content'[tx[c]]["quads"] = content[tx[c]]["quads"] \cup {batch[c]}
        /\ \A f \in Inodes : f # tx[c] => content'[f] = content[f]
    BY <1>6, <2>2 DEF CommittedTx, Write
  <2>6. tx' = tx /\ batch' = batch /\ pc' = [pc EXCEPT ![c] = "copy"]
    BY <1>6 DEF CommittedTx, Goto
  <2>7. \A d \in Clients : pc'[d] = "flush" <=> d # c /\ pc[d] = "flush"
    BY <2>6
  <2>8. ASSUME NEW f \in Inodes PROVE Sound(f)' => Flushing(f)' \/ Whole(content'[f])
    <3>1. CASE f = tx[c]
      BY <2>2, <2>4, <2>5, <3>1
    <3>2. CASE f # tx[c] /\ Flushing(f)
      <4>1. PICK d \in Clients : pc[d] = "flush" /\ tx[d] = f
        BY <3>2
      <4>2. pc'[d] = "flush" /\ tx'[d] = f
        BY <2>6, <2>7, <3>2, <4>1
      <4> QED
        BY <4>2
    <3>3. CASE f # tx[c] /\ ~Flushing(f)
      <4>1. Sound(f) => Whole(content[f])
        BY <2>2, <3>3
      <4> QED
        BY <2>2, <2>5, <3>3, <4>1
    <3> QED
      BY <3>1, <3>2, <3>3
  <2>9. ASSUME NEW d \in Clients, pc'[d] = "flush"
        PROVE  Sound(tx[d])' => content'[tx'[d]]["nodes"] = content'[tx'[d]]["quads"] \cup {batch'[d]}
    BY <2>2, <2>3, <2>5, <2>6, <2>7, <2>9
  <2> QED
    BY <2>8, <2>9
<1>7. ASSUME NEW c \in Clients, OpenFile(c)
      PROVE  FileInv'
  <2>1. /\ swapped' = swapped /\ (torn => torn') /\ content' = content
        /\ \A d \in Clients : /\ pc'[d] = "flush" <=> pc[d] = "flush"
                              /\ pc[d] = "flush" => tx'[d] = tx[d] /\ batch'[d] = batch[d]
    BY <1>7 DEF OpenFile, Committed, Goto
  <2> QED
    BY <2>1, FileKept
<1>8. ASSUME NEW c \in Clients, StoreFile(c)
      PROVE  FileInv'
  BY <1>8 DEF StoreFile, Goto
<1>9. ASSUME NEW c \in Clients, CommitFails(c)
      PROVE  FileInv'
  BY <1>9 DEF CommitFails, Goto
<1>10. ASSUME NEW c \in Clients, ReopenConn(c)
      PROVE  FileInv'
  BY <1>10 DEF ReopenConn
<1>11. ASSUME NEW v \in stored \cup {Blank}, FetchDB(v)
      PROVE  FileInv'
  <2>1. SUFFICES ASSUME ~swapped' PROVE FileInv!2'
    BY DEF FileInv
  <2>2. ~swapped /\ torn' = torn /\ (~torn => Whole(v)) /\ path + 1 # 0
    <3>1. Whole(Blank)
      BY DEF Blank
    <3>2. path + 1 # 0
      BY DEF Inodes
    <3> QED
      BY <1>11, <2>1, <3>1, <3>2 DEF FetchDB
  <2>3. path + 1 \in Inodes /\ content' = [content EXCEPT ![path + 1] = v]
    BY <1>11 DEF FetchDB, Inodes
  <2>4. tx' = tx /\ batch' = batch /\ pc' = pc /\ \A d \in Clients : tx[d] # path + 1
    BY <1>11 DEF FetchDB, Inodes
  <2> QED
    BY <2>2, <2>3, <2>4
<1>12. CASE UNCHANGED vars
  BY <1>12 DEF vars
<1> QED
  BY <1>1, <1>2, <1>3, <1>4, <1>5, <1>6, <1>7, <1>8, <1>9, <1>10, <1>11, <1>12
     DEF Next

(* Every step keeps what Commit reads and stores whole.                    *)
LEMMA CopyStep ==
    ASSUME TypeOK, TypeOK', PastInv, TxInv, FileInv, CopyInv, [Next]_vars
    PROVE  CopyInv'
<1> USE FetchesAssumption, NobodyAssumption
<1> USE DEF TypeOK, InTx, Versions, Tables, Blank, PastInv, TxInv, FileInv, Sound, CopyInv, Flushing, Whole, fileVars, connVars, copyVars, reqVars
<1>1. ASSUME NEW c \in Clients, NEW b \in Batches, BeginTx(c, b)
      PROVE  CopyInv'
  BY <1>1 DEF BeginTx, Goto
<1>2. ASSUME NEW c \in Clients, InsertNodes(c)
      PROVE  CopyInv'
  BY <1>2 DEF InsertNodes, Execute, InTransaction, Goto, Add
<1>3. ASSUME NEW c \in Clients, InsertQuads(c)
      PROVE  CopyInv'
  BY <1>3 DEF InsertQuads, Execute, InTransaction, Goto, Add
<1>4. ASSUME NEW c \in Clients, RollbackTx(c)
      PROVE  CopyInv'
  BY <1>4 DEF RollbackTx, Unlock, Goto
<1>5. ASSUME NEW c \in Clients, CommitTx(c)
      PROVE  CopyInv'
  <2>1. SUFFICES ASSUME ~swapped', ~torn' PROVE CopyInv!2'
    BY DEF CopyInv
  <2>2. ~swapped /\ ~torn /\ \A d \in Clients : pc[d] = "copying" => fd[d] # tx[c]
    BY <1>5, <2>1 DEF CommitTx, Disturb, Reading
  <2>3. /\ tx' = tx /\ fd' = fd /\ copy' = copy /\ stored' = stored
        /\ pc' = [pc EXCEPT ![c] = "flush"]
        /\ \A f \in Inodes : f # tx[c] => content'[f] = content[f]
    BY <1>5 DEF CommitTx, Write, Goto
  <2> QED
    BY <1>5, <2>2, <2>3 DEF CommitTx
<1>6. ASSUME NEW c \in Clients, CommittedTx(c)
      PROVE  CopyInv'
  BY <1>6 DEF CommittedTx, Write, Disturb, Reading, Unlock, Goto
<1>7. ASSUME NEW c \in Clients, OpenFile(c)
      PROVE  CopyInv'
  <2>1. SUFFICES ASSUME ~swapped', ~torn' PROVE CopyInv!2'
    BY DEF CopyInv
  <2>2. ~swapped /\ ~torn /\ \A d \in Clients : pc[d] = "flush" => tx[d] # path
    BY <1>7, <2>1 DEF OpenFile, Committed
  <2>3. /\ tx' = tx /\ content' = content /\ stored' = stored
        /\ pc' = [pc EXCEPT ![c] = "copying"]
        /\ fd' = [fd EXCEPT ![c] = path]
        /\ copy'[c]["nodes"] = content[path]["nodes"]
        /\ \A d \in Clients : d # c => copy'[d] = copy[d]
    BY <1>7 DEF OpenFile, Committed, Goto
  <2> QED
    BY <2>2, <2>3
<1>8. ASSUME NEW c \in Clients, StoreFile(c)
      PROVE  CopyInv'
  <2>1. SUFFICES ASSUME ~swapped, ~torn PROVE CopyInv!2'
    BY <1>8 DEF CopyInv, StoreFile
  <2>2. copy'[c]["nodes"] = content[fd[c]]["nodes"] /\ copy'[c]["quads"] = content[fd[c]]["quads"]
    BY <1>8, <2>1 DEF StoreFile
  <2>3. Whole(copy'[c])
    BY <1>8, <2>1, <2>2 DEF StoreFile
  <2>4. /\ tx' = tx /\ content' = content /\ fd' = fd /\ stored' = stored \cup {copy'[c]}
        /\ pc' = [pc EXCEPT ![c] = "done"]
        /\ \A d \in Clients : d # c => copy'[d] = copy[d]
    BY <1>8 DEF StoreFile, Goto
  <2> QED
    BY <2>1, <2>3, <2>4
<1>9. ASSUME NEW c \in Clients, CommitFails(c)
      PROVE  CopyInv'
  BY <1>9 DEF CommitFails, Goto
<1>10. ASSUME NEW c \in Clients, ReopenConn(c)
      PROVE  CopyInv'
  BY <1>10 DEF ReopenConn
<1>11. ASSUME NEW v \in stored \cup {Blank}, FetchDB(v)
      PROVE  CopyInv'
  BY <1>11 DEF FetchDB, Inodes
<1>12. CASE UNCHANGED vars
  BY <1>12 DEF vars
<1> QED
  BY <1>1, <1>2, <1>3, <1>4, <1>5, <1>6, <1>7, <1>8, <1>9, <1>10, <1>11, <1>12
     DEF Next

(* Files only grow, but for the one that a fetch makes.                    *)
LEMMA ContentGrows ==
    ASSUME TypeOK, [Next]_vars
    PROVE  /\ \A f \in Inodes, t \in Tables :
                 f <= path => content[f][t] \subseteq content'[f][t]
           /\ path' = path \/ (path' = path + 1 /\ pc' = pc /\ copy' = copy)
<1> USE FetchesAssumption
<1> USE DEF TypeOK, Versions, Tables, Inodes, fileVars, connVars, copyVars, reqVars
<1>1. ASSUME NEW c \in Clients, NEW t \in Tables, Execute(c, t)
      PROVE  \A f \in Inodes, u \in Tables : content[f][u] \subseteq content'[f][u]
  <2>1. CASE InTransaction(c)
    BY <1>1, <2>1 DEF Execute
  <2>2. CASE ~InTransaction(c)
    <3>1. content' = [content EXCEPT ![handle[c]] = Add(content[handle[c]], t, batch[c])]
      BY <1>1, <2>2 DEF Execute
    <3>2. \A u \in Tables : content[handle[c]][u] \subseteq Add(content[handle[c]], t, batch[c])[u]
      BY DEF Add
    <3> QED
      BY <3>1, <3>2
  <2> QED
    BY <2>1, <2>2
<1>2. ASSUME NEW c \in Clients, NEW t \in Tables, Write(c, t)
      PROVE  \A f \in Inodes, u \in Tables : content[f][u] \subseteq content'[f][u]
  BY <1>2 DEF Write
<1>3. ASSUME NEW v \in stored \cup {Blank}, FetchDB(v)
      PROVE  /\ \A f \in Inodes : f <= path => content'[f] = content[f]
             /\ path' = path + 1 /\ pc' = pc /\ copy' = copy
  BY <1>3 DEF FetchDB
<1>4. CASE \E v \in stored \cup {Blank} : FetchDB(v)
  BY <1>3, <1>4
<1>5. ASSUME NEW c \in Clients, InsertNodes(c) \/ InsertQuads(c)
      PROVE  path' = path /\ \E t \in Tables : Execute(c, t)
  BY <1>5 DEF InsertNodes, InsertQuads, Execute
<1>6. ASSUME NEW c \in Clients, CommitTx(c) \/ CommittedTx(c)
      PROVE  path' = path /\ \E t \in Tables : Write(c, t)
  BY <1>6 DEF CommitTx, CommittedTx
<1>7. ASSUME NEW c \in Clients,
             \/ \E b \in Batches : BeginTx(c, b)
             \/ RollbackTx(c) \/ OpenFile(c) \/ StoreFile(c) \/ CommitFails(c) \/ ReopenConn(c)
      PROVE  path' = path /\ content' = content
  BY <1>7 DEF BeginTx, RollbackTx, OpenFile, StoreFile, CommitFails, ReopenConn
<1>8. CASE UNCHANGED vars
  BY <1>8 DEF vars
<1> HIDE DEF Tables, Inodes, Versions, TypeOK
<1> QED
  BY <1>1, <1>2, <1>4, <1>5, <1>6, <1>7, <1>8 DEF Next

(* Every step keeps a request's batch on its way.                          *)
LEMMA BatchStep ==
    ASSUME TypeOK, TypeOK', PastInv, BatchInv, [Next]_vars
    PROVE  BatchInv'
<1>0. /\ \A f \in Inodes, t \in Tables : f <= path => content[f][t] \subseteq content'[f][t]
      /\ path \in Inodes
      /\ path <= path
      /\ \A c \in Clients : fd[c] \in Inodes /\ fd[c] <= path
  <2>1. path \in Inodes /\ path <= path
    BY FetchesAssumption DEF TypeOK, Inodes
  <2>2. \A c \in Clients : fd[c] \in Inodes /\ fd[c] <= path
    BY DEF TypeOK, PastInv
  <2> QED
    BY <2>1, <2>2, ContentGrows
<1> USE FetchesAssumption, NobodyAssumption
<1> USE DEF TypeOK, InTx, Versions, Tables, Blank, PastInv, BatchInv, HasBatch, fileVars, connVars, copyVars, reqVars
<1>1. ASSUME NEW c \in Clients, NEW b \in Batches, BeginTx(c, b)
      PROVE  BatchInv'
  BY <1>0, <1>1 DEF BeginTx, Goto
<1>2. ASSUME NEW c \in Clients, InsertNodes(c)
      PROVE  BatchInv'
  BY <1>0, <1>2 DEF InsertNodes, Execute, InTransaction, Goto, Add
<1>3. ASSUME NEW c \in Clients, InsertQuads(c)
      PROVE  BatchInv'
  <2>1. /\ path' = path /\ handle' = handle /\ tx' = tx /\ fd' = fd /\ copy' = copy
        /\ batch' = batch /\ lost' = lost /\ pc' = [pc EXCEPT ![c] = "commit"]
    BY <1>3 DEF InsertQuads, Execute, Goto
  <2>2. \A d \in Clients : d # c => work'[d] = work[d]
    BY <1>3 DEF InsertQuads, Execute
  <2>3. c \notin lost => \A t \in Tables : batch[c] \in work'[c][t]
    <3>1. SUFFICES ASSUME c \notin lost PROVE \A t \in Tables : batch[c] \in work'[c][t]
      OBVIOUS
    <3>2. InTransaction(c) /\ batch[c] \in work[c]["nodes"]
      BY <1>3, <3>1 DEF InsertQuads, InTransaction
    <3>3. work'[c] = Add(work[c], "quads", batch[c])
      BY <1>3, <3>2 DEF InsertQuads, Execute
    <3> QED
      BY <3>2, <3>3 DEF Add
  <2> QED
    BY <1>0, <1>3, <2>1, <2>2, <2>3 DEF InsertQuads
<1>4. ASSUME NEW c \in Clients, RollbackTx(c)
      PROVE  BatchInv'
  BY <1>0, <1>4 DEF RollbackTx, Unlock, Goto
<1>5. ASSUME NEW c \in Clients, CommitTx(c)
      PROVE  BatchInv'
  BY <1>0, <1>5 DEF CommitTx, Write, Goto
<1>6. ASSUME NEW c \in Clients, CommittedTx(c)
      PROVE  BatchInv'
  BY <1>0, <1>6 DEF CommittedTx, Write, Unlock, Goto
<1>7. ASSUME NEW c \in Clients, OpenFile(c)
      PROVE  BatchInv'
  BY <1>0, <1>7 DEF OpenFile, Committed, Goto
<1>8. ASSUME NEW c \in Clients, StoreFile(c)
      PROVE  BatchInv'
  BY <1>0, <1>8 DEF StoreFile, Goto
<1>9. ASSUME NEW c \in Clients, CommitFails(c)
      PROVE  BatchInv'
  BY <1>0, <1>9 DEF CommitFails, Goto
<1>10. ASSUME NEW c \in Clients, ReopenConn(c)
      PROVE  BatchInv'
  BY <1>0, <1>10 DEF ReopenConn
<1>11. ASSUME NEW v \in stored \cup {Blank}, FetchDB(v)
      PROVE  BatchInv'
  BY <1>0, <1>11 DEF FetchDB, Inodes
<1>12. CASE UNCHANGED vars
  BY <1>12 DEF vars
<1> QED
  BY <1>1, <1>2, <1>3, <1>4, <1>5, <1>6, <1>7, <1>8, <1>9, <1>10, <1>11, <1>12
     DEF Next

(* Every step but a fetch keeps the first file the only one.               *)
LEMMA FirstStep ==
    ASSUME TypeOK, PastInv, FirstInv, [Next]_vars
    PROVE  FirstInv'
<1> USE FetchesAssumption
<1> USE DEF TypeOK, Inodes, PastInv, FirstInv, fileVars, connVars, copyVars, reqVars
<1>1. ASSUME NEW c \in Clients, NEW b \in Batches, BeginTx(c, b)
      PROVE  FirstInv'
  BY <1>1 DEF BeginTx, Goto
<1>2. ASSUME NEW c \in Clients, InsertNodes(c)
      PROVE  FirstInv'
  BY <1>2 DEF InsertNodes, Execute, InTransaction, Goto, Add
<1>3. ASSUME NEW c \in Clients, InsertQuads(c)
      PROVE  FirstInv'
  BY <1>3 DEF InsertQuads, Execute, InTransaction, Goto, Add
<1>4. ASSUME NEW c \in Clients, RollbackTx(c)
      PROVE  FirstInv'
  BY <1>4 DEF RollbackTx, Unlock, Goto
<1>5. ASSUME NEW c \in Clients, CommitTx(c)
      PROVE  FirstInv'
  BY <1>5 DEF CommitTx, Write, Goto
<1>6. ASSUME NEW c \in Clients, CommittedTx(c)
      PROVE  FirstInv'
  BY <1>6 DEF CommittedTx, Write, Unlock, Goto
<1>7. ASSUME NEW c \in Clients, OpenFile(c)
      PROVE  FirstInv'
  BY <1>7 DEF OpenFile, Committed, Goto
<1>8. ASSUME NEW c \in Clients, StoreFile(c)
      PROVE  FirstInv'
  BY <1>8 DEF StoreFile, Goto
<1>9. ASSUME NEW c \in Clients, CommitFails(c)
      PROVE  FirstInv'
  BY <1>9 DEF CommitFails, Goto
<1>10. ASSUME NEW c \in Clients, ReopenConn(c)
      PROVE  FirstInv'
  BY <1>10 DEF ReopenConn
<1>11. ASSUME NEW v \in stored \cup {Blank}, FetchDB(v)
      PROVE  FirstInv'
  BY <1>11 DEF FetchDB, Inodes
<1>12. CASE UNCHANGED vars
  BY <1>12 DEF vars
<1> QED
  BY <1>1, <1>2, <1>3, <1>4, <1>5, <1>6, <1>7, <1>8, <1>9, <1>10, <1>11, <1>12
     DEF Next

(* The invariant holds in every behaviour.                                 *)
LEMMA ConnInvHolds == Spec => []ConnInv
<1>1. Init => ConnInv
  <2> SUFFICES ASSUME Init PROVE ConnInv
    OBVIOUS
  <2>1. TypeOK
    BY TypeInit
  <2>2. PastInv
    <3>1. path = 0 /\ \A c \in Clients : handle[c] = 0 /\ tx[c] = 0 /\ fd[c] = 0
      BY DEF Init
    <3>2. SUFFICES ASSUME NEW c \in Clients
                   PROVE  handle[c] <= path /\ tx[c] <= path /\ fd[c] <= path
      BY DEF PastInv
    <3>3. handle[c] = 0 /\ tx[c] = 0 /\ fd[c] = 0
      BY <3>1
    <3>4. 0 <= 0
      OBVIOUS
    <3> QED
      BY <3>1, <3>3, <3>4, Zenon
  <2>3. TxInv /\ FileInv /\ CopyInv /\ BatchInv /\ FirstInv
    BY DEF Init, TxInv, FileInv, CopyInv, BatchInv, FirstInv, InTx, Whole, Blank, Tables
  <2> QED
    BY <2>1, <2>2, <2>3 DEF ConnInv
<1>2. ConnInv /\ [Next]_vars => ConnInv'
  <2> SUFFICES ASSUME ConnInv, [Next]_vars PROVE ConnInv'
    OBVIOUS
  <2>1. TypeOK'
    BY TypeStep DEF ConnInv
  <2>2. PastInv' /\ TxInv'
    BY <2>1, PastStep, TxStep DEF ConnInv
  <2>3. FileInv' /\ CopyInv' /\ BatchInv' /\ FirstInv'
    BY <2>1, FileStep, CopyStep, BatchStep, FirstStep DEF ConnInv
  <2> QED
    BY <2>1, <2>2, <2>3 DEF ConnInv
<1> QED
  BY <1>1, <1>2, PTL DEF Spec

(* The variables keep their types, and a transaction holds the lock of no  *)
(* file but its own and only until it ends (runTx of db/graph.go).         *)
THEOREM TypeCorrect == Spec => []TypeOK
<1>1. ConnInv => TypeOK
  BY DEF ConnInv
<1> QED
  BY <1>1, ConnInvHolds, PTL

(* Half a batch gets into the node's file only when reopenConns swaps a    *)
(* handle in the middle of a transaction, and into Swarm only then or      *)
(* when Commit reads a file that is being written (db/db.go): never        *)
(* through a roll back, a failure, a locked file or a fetch between two    *)
(* transactions.                                                           *)
THEOREM BatchesAreWholeHolds == Spec => []BatchesAreWhole
<1>1. ConnInv => BatchesAreWhole
  BY DEF ConnInv, FileInv, CopyInv, Sound, BatchesAreWhole
<1> QED
  BY <1>1, ConnInvHolds, PTL

(* The version whose hash ApplyDeltas (kord/api.go) answers with has the   *)
(* batch, unless the watcher replaced the file before Commit opened it;    *)
(* no other race with reopenConns or with another request can lose it.     *)
THEOREM StoredHasBatchHolds == Spec => []StoredHasBatch
<1>1. ConnInv => StoredHasBatch
  BY DEF ConnInv, BatchInv, StoredHasBatch
<1> QED
  BY <1>1, ConnInvHolds, PTL

(* Until the first update is fetched no batch is lost or halved, with any  *)
(* number of requests at a time (ApplyDeltas of kord/api.go).              *)
THEOREM UntilAnUpdateHolds == Spec => []UntilAnUpdate
<1>1. ConnInv => UntilAnUpdate
  <2> SUFFICES ASSUME ConnInv, path = 0 PROVE UntilAnUpdate!2
    BY DEF UntilAnUpdate
  <2>1. lost = {} /\ ~swapped
    BY DEF ConnInv, FirstInv
  <2>2. 0 \in Inodes
    BY FetchesAssumption DEF Inodes
  <2>3. Flushing(0) \/ Whole(content[0])
    BY <2>1, <2>2 DEF ConnInv, FileInv, Sound
  <2> QED
    BY <2>1, <2>3 DEF ConnInv, BatchInv
<1> QED
  BY <1>1, ConnInvHolds, PTL

(* A node whose registry announces no update, as the registry client of    *)
(* every node today (SubscribeGraph in registry/registry.go), never loses  *)
(* a file: what UntilAnUpdate says holds for good.                         *)
THEOREM WithoutUpdates ==
    MaxFetches = 0 => (Spec => [](path = 0 /\ lost = {} /\ UntilAnUpdate))
<1>1. SUFFICES ASSUME MaxFetches = 0
               PROVE  Spec => [](path = 0 /\ lost = {} /\ UntilAnUpdate)
  OBVIOUS
<1>2. ConnInv => path = 0 /\ lost = {}
  BY <1>1 DEF ConnInv, TypeOK, Inodes, FirstInv
<1> QED
  BY <1>2, ConnInvHolds, UntilAnUpdateHolds, PTL
=============================================================================
