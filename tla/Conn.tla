-------------------------------- MODULE Conn --------------------------------
(***************************************************************************)
(* The statements and the file below a graph: the Conn of db/db.go that    *)
(* forwards every statement to whatever SQLite handle it has at the time,  *)
(* the transaction of a batch that database/sql runs over it (runTx of     *)
(* db/graph.go, ApplyDeltas of the quad store), Driver.Commit, which       *)
(* copies the file to Swarm without a lock of SQLite's, and the watcher,   *)
(* which renames a fetched version over the path and swaps the handles.    *)
(*                                                                         *)
(* A request writes a batch and commits the graph (ApplyDeltas of          *)
(* kord/api.go) over its own connection of the pool.  A batch puts rows    *)
(* into two tables, nodes and quads; a table stands for the pages it has   *)
(* in the file.  Every fetched version is a new inode; a handle keeps the  *)
(* inode it opened.  SQLite itself is external: one writer per file from   *)
(* its first statement to COMMIT, which then writes the pages one by one.  *)
(*                                                                         *)
(* Definitions named "Bad" are mistakes the code could have been written   *)
(* with; no specification uses them.                                       *)
(***************************************************************************)
EXTENDS Naturals

CONSTANTS
    Clients,
    Batches,
    Nobody,
    MaxFetches   \* bound on the updates that the watcher fetches

ASSUME FetchesAssumption == MaxFetches \in Nat
ASSUME NobodyAssumption == Nobody \notin Clients
ASSUME BatchesAssumption == Batches # {}

Inodes == 0 .. MaxFetches
Tables == {"nodes", "quads"}
Versions == [Tables -> SUBSET Batches]
Blank == [t \in Tables |-> {}]

VARIABLES
    content,  \* what is in an inode
    path,     \* the inode that the path names
    stale,    \* connections that reopenConns has still to re-open
    lock,     \* the client whose transaction writes the inode
    handle,   \* the inode of Conn.sqliteConn
    pc,       \* where a client's request is
    batch,    \* its batch
    used,     \* batches that were sent
    tx,       \* the inode of the handle its transaction began on
    work,     \* rows that are written and not yet in the file
    fd,       \* the inode that Commit reads
    copy,     \* what it has read
    stored,   \* the versions in Swarm
    lost,     \* history: the file was replaced before Commit opened it
    swapped,  \* history: a handle was swapped between the statements of a
              \* transaction
    torn      \* history: pages were written while Commit read them

fileVars == <<content, path, stale, lock>>
connVars == <<handle, tx, work>>
copyVars == <<fd, copy, stored>>
reqVars  == <<batch, used>>
vars == <<fileVars, connVars, copyVars, reqVars, pc, lost, swapped, torn>>

InTx == {"nodes", "quads", "commit", "flush"}

(* Every variable has its type; only the transaction that took the lock of *)
(* an inode holds it, until it is committed or rolled back.                *)
TypeOK ==
    /\ content \in [Inodes -> Versions]
    /\ path \in Inodes
    /\ stale \subseteq Clients
    /\ lock \in [Inodes -> Clients \cup {Nobody}]
    /\ handle \in [Clients -> Inodes]
    /\ pc \in [Clients -> InTx \cup {"idle", "copy", "copying", "done", "failed"}]
    /\ batch \in [Clients -> Batches]
    /\ used \subseteq Batches
    /\ tx \in [Clients -> Inodes]
    /\ work \in [Clients -> Versions]
    /\ fd \in [Clients -> Inodes]
    /\ copy \in [Clients -> Versions]
    /\ stored \subseteq Versions
    /\ lost \subseteq Clients
    /\ swapped \in BOOLEAN /\ torn \in BOOLEAN
    /\ \A f \in Inodes, c \in Clients : lock[f] = c => pc[c] \in InTx /\ tx[c] = f

AnyBatch == CHOOSE b \in Batches : TRUE

Init ==
    /\ content = [f \in Inodes |-> Blank]
    /\ path = 0
    /\ stale = {}
    /\ lock = [f \in Inodes |-> Nobody]
    /\ handle = [c \in Clients |-> 0]
    /\ pc = [c \in Clients |-> "idle"]
    /\ batch = [c \in Clients |-> AnyBatch]
    /\ used = {}
    /\ tx = [c \in Clients |-> 0]
    /\ work = [c \in Clients |-> Blank]
    /\ fd = [c \in Clients |-> 0]
    /\ copy = [c \in Clients |-> Blank]
    /\ stored = {}
    /\ lost = {}
    /\ swapped = FALSE /\ torn = FALSE

-----------------------------------------------------------------------------
(* The transaction of a batch.                                             *)

Goto(c, where) == pc' = [pc EXCEPT ![c] = where]

Add(v, t, b) == [v EXCEPT ![t] = @ \cup {b}]

(* qs.db.Begin: the driver.Tx belongs to the handle of this moment.        *)
BeginTx(c, b) ==
    /\ pc[c] \in {"idle", "done", "failed"}
    /\ b \notin used
    /\ used' = used \cup {b}
    /\ batch' = [batch EXCEPT ![c] = b]
    /\ tx' = [tx EXCEPT ![c] = handle[c]]
    /\ work' = [work EXCEPT ![c] = Blank]
    /\ lost' = IF handle[c] = path THEN lost \ {c} ELSE lost \cup {c}
    /\ Goto(c, "nodes")
    /\ UNCHANGED <<fileVars, handle, copyVars, swapped, torn>>

Reading(d, f) == pc[d] = "copying" /\ fd[d] = f

(* Bad: the statements are executed on the database, not on the Tx.        *)
BadInTransaction(c) == FALSE

(* Does the handle of this moment have the transaction?                    *)
InTransaction(c) == handle[c] = tx[c]

(* A statement on table t, prepared on the handle of this moment.  On the  *)
(* transaction's handle it takes the lock of the file and its rows wait    *)
(* for COMMIT; on any other it runs in a transaction of its own.           *)
Execute(c, t) ==
    /\ lock[handle[c]] \in {Nobody, c}
    /\ IF InTransaction(c)
       THEN /\ lock' = [lock EXCEPT ![tx[c]] = c]
            /\ work' = [work EXCEPT ![c] = Add(@, t, batch[c])]
            /\ UNCHANGED content
       ELSE /\ content' = [content EXCEPT ![handle[c]] = Add(@, t, batch[c])]
            /\ UNCHANGED <<lock, work>>
    /\ UNCHANGED <<path, stale, handle, tx, copyVars, reqVars, lost, swapped, torn>>

(* The loop over nodes of runTx, then the loop over quads.                 *)
InsertNodes(c) == pc[c] = "nodes" /\ Execute(c, "nodes") /\ Goto(c, "quads")

InsertQuads(c) == pc[c] = "quads" /\ Execute(c, "quads") /\ Goto(c, "commit")

(* Bad: tx.Rollback is forgotten, and the transaction stays open.          *)
BadUnlock(c) == UNCHANGED lock

Unlock(c) == lock' = [f \in Inodes |-> IF lock[f] = c THEN Nobody ELSE lock[f]]

(* A statement fails, or finds the file locked until its timeout: the      *)
(* transaction is rolled back on the handle it began on.                   *)
RollbackTx(c) ==
    /\ pc[c] \in {"nodes", "quads", "commit"}
    /\ Unlock(c)
    /\ work' = [work EXCEPT ![c] = Blank]
    /\ Goto(c, "failed")
    /\ UNCHANGED <<content, path, stale, handle, tx, copyVars, reqVars, lost, swapped, torn>>

Write(c, t) == content' = [content EXCEPT ![tx[c]][t] = @ \cup work[c][t]]

Disturb(f) == torn' = (torn \/ \E d \in Clients : Reading(d, f))

(* tx.Commit: the pages are written, one after the other, under the lock.  *)
CommitTx(c) ==
    /\ pc[c] = "commit"
    /\ Write(c, "nodes")
    /\ Disturb(tx[c])
    /\ Goto(c, "flush")
    /\ UNCHANGED <<path, stale, lock, connVars, copyVars, reqVars, lost, swapped>>

CommittedTx(c) ==
    /\ pc[c] = "flush"
    /\ Write(c, "quads")
    /\ Disturb(tx[c])
    /\ Unlock(c)
    /\ Goto(c, "copy")
    /\ UNCHANGED <<path, stale, connVars, copyVars, reqVars, lost, swapped>>

-----------------------------------------------------------------------------
(* Driver.Commit.                                                          *)

(* Bad: Commit keeps the first file it opened.                             *)
BadCommitted(c) == 0

(* os.Open of the path.                                                    *)
Committed(c) == path

OpenFile(c) ==
    /\ pc[c] = "copy"
    /\ fd' = [fd EXCEPT ![c] = Committed(c)]
    /\ copy' = [copy EXCEPT ![c]["nodes"] = content[Committed(c)]["nodes"]]
    /\ torn' = (torn \/ \E d \in Clients : pc[d] = "flush" /\ tx[d] = Committed(c))
    /\ Goto(c, "copying")
    /\ UNCHANGED <<fileVars, connVars, stored, reqVars, lost, swapped>>

StoreFile(c) ==
    /\ pc[c] = "copying"
    /\ copy' = [copy EXCEPT ![c]["quads"] = content[fd[c]]["quads"]]
    /\ stored' = stored \cup {copy'[c]}
    /\ Goto(c, "done")
    /\ UNCHANGED <<fileVars, connVars, fd, reqVars, lost, swapped, torn>>

(* Opening or storing the file fails.                                      *)
CommitFails(c) ==
    /\ pc[c] \in {"copy", "copying"}
    /\ Goto(c, "failed")
    /\ UNCHANGED <<fileVars, connVars, copyVars, reqVars, lost, swapped, torn>>

-----------------------------------------------------------------------------
(* The watcher.                                                            *)

(* fetchDB: a version of Swarm in a new file, renamed over the path.       *)
FetchDB(v) ==
    /\ stale = {}
    /\ path < MaxFetches
    /\ path' = path + 1
    /\ content' = [content EXCEPT ![path + 1] = v]
    /\ stale' = Clients
    /\ lost' = lost \cup {c \in Clients : pc[c] \in InTx \cup {"copy"}}
    /\ UNCHANGED <<lock, connVars, copyVars, reqVars, pc, swapped, torn>>

(* reopenConns, one connection after the other; a transaction stays with   *)
(* the handle it began on.                                                 *)
ReopenConn(c) ==
    /\ c \in stale
    /\ stale' = stale \ {c}
    /\ handle' = [handle EXCEPT ![c] = path]
    /\ swapped' = (swapped \/ pc[c] \in {"nodes", "quads"})
    /\ UNCHANGED <<content, path, lock, tx, work, copyVars, reqVars, pc, lost, torn>>

-----------------------------------------------------------------------------
Next ==
    \/ \E c \in Clients :
          \/ \E b \in Batches : BeginTx(c, b)
          \/ InsertNodes(c) \/ InsertQuads(c) \/ RollbackTx(c)
          \/ CommitTx(c) \/ CommittedTx(c)
          \/ OpenFile(c) \/ StoreFile(c) \/ CommitFails(c)
          \/ ReopenConn(c)
    \/ \E v \in stored \cup {Blank} : FetchDB(v)

Spec == Init /\ [][Next]_vars

-----------------------------------------------------------------------------
Whole(v) == v["nodes"] = v["quads"]

Flushing(f) == \E c \in Clients : pc[c] = "flush" /\ tx[c] = f

(* A batch is in a file, and in what Commit stores in Swarm, with all of   *)
(* its rows or with none, whatever is rolled back and whoever waits for    *)
(* the lock.  Half a batch only gets into the node's own file when         *)
(* reopenConns swaps a handle between two statements of a transaction,     *)
(* and only gets into Swarm, and from there into a fetched file, then or   *)
(* when Commit reads a file that a transaction is being written to.        *)
BatchesAreWhole ==
    ~swapped => /\ \A f \in Inodes :
                      f = 0 \/ ~torn => Flushing(f) \/ Whole(content[f])
                /\ ~torn => \A v \in stored : Whole(v)

HasBatch(c) == \A t \in Tables : batch[c] \in copy[c][t]

(* What ApplyDeltas stores and answers with the hash of has the whole of   *)
(* the batch it was asked to apply, whoever else writes and commits the    *)
(* graph, unless the watcher replaced the file before Commit opened it.    *)
StoredHasBatch == \A c \in Clients \ lost : pc[c] = "done" => HasBatch(c)

(* While no update was fetched, and the registry client of a node today    *)
(* announces none, nothing is lost: the file has every batch whole, and    *)
(* every request is answered with the hash of a version with its batch.    *)
UntilAnUpdate ==
    path = 0 => /\ Flushing(0) \/ Whole(content[0])
                /\ \A c \in Clients : pc[c] = "done" => HasBatch(c)
=============================================================================
