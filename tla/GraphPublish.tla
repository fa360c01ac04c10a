---------------------------- MODULE GraphPublish ----------------------------
(***************************************************************************)
(* How a graph gets from a client into the registry: `kord graph create`,  *)
(* `kord graph load` and `kord dapp deploy` (cli/graph.go, cli/dapp.go)    *)
(* over the RPC API of a node (kord/client.go, kord/api.go), and the       *)
(* createGraph, createClaim and setGraph mutations of the GraphQL API      *)
(* (api/client.go, api/graphql.go), down to Create, Get and Commit of the  *)
(* graph driver and db driver (graph/driver.go, db/db.go).                 *)
(*                                                                         *)
(* There is one graph.  Each node keeps a local SQLite file of it, Swarm   *)
(* keeps the versions that were committed, and the registry names the      *)
(* published one.  A version has tables or, being the empty file that      *)
(* stands for the empty hash, has none; and it has items: the quads of a   *)
(* batch, or of a claim.  Swarm is content addressed, so a version is its  *)
(* own hash.  The clients hold the key of the graph.                       *)
(*                                                                         *)
(* The registry is one of two.  That of the tests (testutil/util.go) takes *)
(* a hash at once and sends it to the open graphs.  registry.Client sends  *)
(* a transaction and waits for its receipt; when it gives up, after a      *)
(* number of blocks or with the node, the transaction stays pending and    *)
(* the chain may still execute it.                                         *)
(*                                                                         *)
(* Definitions named "Bad" are mistakes the code could have been written   *)
(* with; no specification uses them.                                       *)
(***************************************************************************)
EXTENDS Naturals, FiniteSets

CONSTANTS
    Clients, Nodes, Items,
    ValidClaims,    \* items that are claims with the issuer's signature
    SubscribeModes, \* what SubscribeGraph may do, see variable subscribes
    Restarts,       \* may a node be stopped and started again?
    MayFail,        \* may the registry, Swarm or SQLite fail?
    MaxJobs         \* bound on the client commands that are started

ASSUME ClaimsAssumption == ValidClaims \subseteq Items
ASSUME PublishOptionsAssumption ==
    /\ SubscribeModes \subseteq BOOLEAN
    /\ Restarts \in BOOLEAN
    /\ MayFail \in BOOLEAN
    /\ MaxJobs \in Nat

Versions == [tables : BOOLEAN, items : SUBSET Items]

Blank == [tables |-> FALSE, items |-> {}]

VARIABLES
    file,       \* the file of the graph in each node's directory
    open,       \* the nodes whose driver has the graph in dbs
    upd,        \* the update a node's watcher received and has not fetched
    stored,     \* the versions Swarm holds
    reg,        \* the version the registry names
    mempool,    \* the transactions sent and not executed
    txs,        \* how many were sent so far
    pc,         \* where a client's command is
    job,        \* which command it runs
    at,         \* on which node
    todo,       \* items it still has to send
    sent,       \* items a node told it were written
    hash,       \* the hash it signs
    jobs,       \* commands started so far
    tx,         \* the number of the transaction sent for it, or 0
    disturbed,  \* history: the clients whose node lost or replaced the
                \* file while a command of theirs was midway
    stale,      \* history: has a node opened a version that lacks items of
                \* a transaction still pending?
    subscribes  \* does SubscribeGraph deliver updates, as that of the
                \* tests' registry does, or nothing, as registry.Client's?

nodeVars == <<file, open, upd>>
chain    == <<reg, mempool, txs, tx>>
jobVars  == <<job, at, todo, jobs>>
history  == <<disturbed, stale>>
vars == <<nodeVars, stored, chain, pc, jobVars, sent, hash, history, subscribes>>

(* A transaction that sets the graph.  The number stands for its hash,     *)
(* which tells it from any other.                                          *)
Transactions == [no : Nat \ {0}, hash : Versions]

Jobs == {"create", "gqlCreate", "load", "deploy", "claim"}

GraphQL(k) == k \in {"gqlCreate", "claim"}
Creates(k) == k \in {"create", "gqlCreate"}
Loads(k)   == k \in {"load", "deploy"}

(* The places inside a request to the node, and between two requests.      *)
InNode   == {"open", "write", "commit", "commitGraph", "set", "wait", "get"}
InClient == {"batch", "sign"}
Ended    == {"idle", "done", "failed"}

(* Every variable has its type; a watcher has received at most one update, *)
(* since its channel is unbuffered.                                        *)
TypeOK ==
    /\ file \in [Nodes -> Versions]
    /\ open \subseteq Nodes
    /\ upd \in [Nodes -> SUBSET Versions]
    /\ \A n \in Nodes : Cardinality(upd[n]) <= 1
    /\ stored \subseteq Versions
    /\ reg \in Versions
    /\ mempool \subseteq Transactions
    /\ txs \in Nat
    /\ tx \in [Clients -> Nat]
    /\ pc \in [Clients -> InNode \cup InClient \cup Ended]
    /\ job \in [Clients -> Jobs]
    /\ at \in [Clients -> Nodes]
    /\ todo \in [Clients -> SUBSET Items]
    /\ sent \in [Clients -> SUBSET Items]
    /\ hash \in [Clients -> Versions]
    /\ jobs \in 0 .. MaxJobs
    /\ disturbed \subseteq Clients
    /\ stale \in BOOLEAN
    /\ subscribes \in SubscribeModes

Init ==
    /\ file = [n \in Nodes |-> Blank]
    /\ open = {}
    /\ upd = [n \in Nodes |-> {}]
    /\ stored = {}
    /\ reg = Blank
    /\ mempool = {}
    /\ txs = 0
    /\ tx = [c \in Clients |-> 0]
    /\ pc = [c \in Clients |-> "idle"]
    /\ job = [c \in Clients |-> "create"]
    /\ at \in [Clients -> Nodes]
    /\ todo = [c \in Clients |-> {}]
    /\ sent = [c \in Clients |-> {}]
    /\ hash = [c \in Clients |-> Blank]
    /\ jobs = 0
    /\ disturbed = {}
    /\ stale = FALSE
    /\ subscribes \in SubscribeModes

-----------------------------------------------------------------------------
(* The client's side.                                                      *)

Goto(c, where) == pc' = [pc EXCEPT ![c] = where]

(* What a command sends: nothing, the quads of a file in batches, or the   *)
(* few quads of a claim or of a dapp.                                      *)
Inputs(k) ==
    CASE Creates(k) -> {{}}
      [] k \in {"claim", "deploy"} -> {{i} : i \in Items}
      [] k = "load" -> (SUBSET Items) \ {{}}

(* A command is started on a node.                                         *)
StartJob(c, n, k, S) ==
    /\ pc[c] \in Ended
    /\ jobs < MaxJobs
    /\ jobs' = jobs + 1
    /\ Goto(c, IF Loads(k) THEN "batch" ELSE "open")
    /\ job' = [job EXCEPT ![c] = k]
    /\ at' = [at EXCEPT ![c] = n]
    /\ todo' = [todo EXCEPT ![c] = S]
    /\ sent' = [sent EXCEPT ![c] = {}]
    /\ hash' = [hash EXCEPT ![c] = Blank]
    /\ tx' = [tx EXCEPT ![c] = 0]
    /\ UNCHANGED <<nodeVars, stored, reg, mempool, txs, history>>

(* The writer sends the next batch with kord_applyDeltas, or is at the end  *)
(* of its quads, and the graph is committed with kord_commitGraph.          *)
NextBatch(c) ==
    /\ pc[c] = "batch"
    /\ Goto(c, IF todo[c] # {} THEN "open" ELSE "commitGraph")
    /\ UNCHANGED <<nodeVars, stored, chain, jobVars, sent, hash, history>>

(* signHash, then kord_setGraph or the setGraph mutation.                  *)
SignHash(c) ==
    /\ pc[c] = "sign"
    /\ Goto(c, "set")
    /\ UNCHANGED <<nodeVars, stored, chain, jobVars, sent, hash, history>>

-----------------------------------------------------------------------------
(* The node's side.                                                        *)

(* Bad: openDB does not ask the registry which version to fetch.           *)
BadFetched == Blank

(* What openDB puts into the file when the graph is not open.              *)
Fetched == reg

(* A version that lacks items of a transaction still pending.              *)
Outrun(v) == \E t \in mempool : ~(t.hash.items \subseteq v.items)

(* openDB, for InitQuadStore and for Get.                                  *)
OpenDB(n) ==
    /\ open' = open \cup {n}
    /\ file' = IF n \in open THEN file ELSE [file EXCEPT ![n] = Fetched]
    /\ stale' = (stale \/ (n \notin open /\ Outrun(Fetched)))
    /\ UNCHANGED <<upd, disturbed>>

(* writeClaim verifies the claim before it opens the graph.                *)
VerifyClaim(c) == job[c] = "claim" => todo[c] \subseteq ValidClaims

OpenGraph(c) ==
    /\ pc[c] = "open"
    /\ VerifyClaim(c)
    /\ OpenDB(at[c])
    /\ Goto(c, "write")
    /\ UNCHANGED <<stored, chain, jobVars, sent, hash>>

(* InitQuadStore creates the tables, which fails when they exist.          *)
InitQuadStore(c) ==
    /\ pc[c] = "write" /\ Creates(job[c])
    /\ ~file[at[c]].tables
    /\ file' = [file EXCEPT ![at[c]].tables = TRUE]
    /\ Goto(c, "commit")
    /\ UNCHANGED <<open, upd, stored, chain, jobVars, sent, hash, history>>

(* Bad: the batch replaces what the graph held.                            *)
BadWritten(n, i) == [file[n] EXCEPT !.items = {i}]

Written(n, i) == [file[n] EXCEPT !.items = @ \cup {i}]

(* ApplyDeltas of a batch, or the quads of the claim: duplicates are       *)
(* ignored, and without tables the statements fail.                        *)
ApplyDeltas(c, i) ==
    /\ pc[c] = "write" /\ ~Creates(job[c])
    /\ i \in todo[c]
    /\ file[at[c]].tables
    /\ file' = [file EXCEPT ![at[c]] = Written(at[c], i)]
    /\ todo' = [todo EXCEPT ![c] = @ \ {i}]
    /\ sent' = [sent EXCEPT ![c] = @ \cup {i}]
    /\ Goto(c, "commit")
    /\ UNCHANGED <<open, upd, stored, chain, job, at, jobs, hash, history>>

(* The claim is not signed by its issuer, the tables exist already or do   *)
(* not exist, or some service fails: the command ends with the error.  So  *)
(* it does when do() waits for more than blockTimeout heads, or its client *)
(* is closed: the transaction stays where it is.                           *)
Rejected(c) ==
    \/ pc[c] = "open" /\ ~VerifyClaim(c)
    \/ pc[c] = "write" /\ (Creates(job[c]) <=> file[at[c]].tables)

Fails(c) ==
    /\ pc[c] \in InNode \cup InClient
    /\ Rejected(c) \/ MayFail
    /\ Goto(c, "failed")
    /\ UNCHANGED <<nodeVars, stored, chain, jobVars, sent, hash, history>>

(* Bad: Commit returns the hash of what was published, not of the file.    *)
BadCommitted(c) == reg

Committed(c) == file[at[c]]

(* Bad: the hash is computed and nothing is uploaded.                      *)
BadStore(v) == UNCHANGED stored

Store(v) == stored' = stored \cup {v}

(* Driver.Commit stores the file in Swarm.  The hash that ApplyDeltas gets *)
(* for a batch is not used.                                                *)
CommitBatch(c) ==
    /\ pc[c] = "commit" /\ Loads(job[c])
    /\ Store(Committed(c))
    /\ Goto(c, "batch")
    /\ UNCHANGED <<nodeVars, chain, jobVars, sent, hash, history>>

Commit(c) ==
    /\ IF Loads(job[c]) THEN pc[c] = "commitGraph" ELSE pc[c] = "commit"
    /\ Store(Committed(c))
    /\ hash' = [hash EXCEPT ![c] = Committed(c)]
    /\ Goto(c, "sign")
    /\ UNCHANGED <<nodeVars, chain, jobVars, sent, history>>

(* Bad: a buffered channel, so that an update waits behind another.        *)
BadNotify(v) ==
    upd' = [n \in Nodes |-> IF n \in open THEN upd[n] \cup {v} ELSE upd[n]]

(* The update goes to the watchers of the nodes that have the graph open,  *)
(* each of which must have finished the previous one.                      *)
Notify(v) ==
    /\ \A n \in open : upd[n] = {}
    /\ upd' = [n \in Nodes |-> IF n \in open THEN {v} ELSE {}]

(* The GraphQL mutation opens the graph to answer with it.                 *)
Accepted(c) == Goto(c, IF GraphQL(job[c]) THEN "get" ELSE "done")

(* The tests' registry accepts the hash; the answer may be lost.           *)
SetGraph(c) ==
    /\ subscribes
    /\ pc[c] = "set"
    /\ reg' = hash[c]
    /\ Notify(hash[c])
    /\ Accepted(c) \/ (MayFail /\ Goto(c, "failed"))
    /\ UNCHANGED <<file, open, stored, mempool, txs, tx, jobVars, sent, hash, history>>

(* do() of registry.Client sends the transaction and waits for heads.      *)
SendTx(c) ==
    /\ ~subscribes
    /\ pc[c] = "set"
    /\ txs' = txs + 1
    /\ tx' = [tx EXCEPT ![c] = txs + 1]
    /\ mempool' = mempool \cup {[no |-> txs + 1, hash |-> hash[c]]}
    /\ Goto(c, "wait")
    /\ UNCHANGED <<nodeVars, stored, reg, jobVars, sent, hash, history>>

(* The chain executes a transaction, sooner or later or never, and in      *)
(* whatever order: nonces only order those of one key in one pool.         *)
Execute(t) ==
    /\ t \in mempool
    /\ mempool' = mempool \ {t}
    /\ reg' = t.hash
    /\ UNCHANGED <<nodeVars, stored, txs, tx, pc, jobVars, sent, hash, history>>

(* Bad: do() does not look for the receipt.                                *)
BadPending(c) == FALSE

(* The chain has no receipt of the command's transaction.                  *)
Pending(c) == \E t \in mempool : t.no = tx[c]

(* A head has come, and the receipt is there.                              *)
Receipt(c) ==
    /\ pc[c] = "wait"
    /\ ~Pending(c)
    /\ Accepted(c)
    /\ UNCHANGED <<nodeVars, stored, chain, jobVars, sent, hash, history>>

GetAfterSet(c) ==
    /\ pc[c] = "get"
    /\ OpenDB(at[c])
    /\ Goto(c, "done")
    /\ UNCHANGED <<stored, chain, jobVars, sent, hash>>

(* The command has changed the node's file, and its hash was not sent to   *)
(* the registry yet.                                                       *)
Midway(c) ==
    \/ pc[c] \in {"commit", "commitGraph", "sign", "set"}
    \/ pc[c] \in {"batch", "open", "write"} /\ sent[c] # {}

Disturb(n) ==
    /\ disturbed' = disturbed \cup {c \in Clients : at[c] = n /\ Midway(c)}
    /\ UNCHANGED stale

(* The watcher of openDB fetches the update.                               *)
FetchUpdate(n) ==
    /\ \E v \in upd[n] : file' = [file EXCEPT ![n] = v]
    /\ upd' = [upd EXCEPT ![n] = {}]
    /\ Disturb(n)
    /\ UNCHANGED <<open, stored, chain, pc, jobVars, sent, hash>>

(* The node is stopped and started again: its file stays until openDB      *)
(* replaces it.  Requests in progress fail, do() among them, and leave     *)
(* their transactions pending; the client reconnects for the next one.     *)
Restart(n) ==
    /\ Restarts
    /\ n \in open
    /\ open' = open \ {n}
    /\ upd' = [upd EXCEPT ![n] = {}]
    /\ pc' = [c \in Clients |-> IF at[c] = n /\ pc[c] \in InNode THEN "failed"
                                ELSE pc[c]]
    /\ Disturb(n)
    /\ UNCHANGED <<file, stored, chain, jobVars, sent, hash>>

-----------------------------------------------------------------------------
ClientStep(c) ==
    \/ NextBatch(c) \/ SignHash(c)
    \/ OpenGraph(c) \/ InitQuadStore(c) \/ \E i \in Items : ApplyDeltas(c, i)
    \/ CommitBatch(c) \/ Commit(c)
    \/ SetGraph(c) \/ SendTx(c) \/ Receipt(c) \/ GetAfterSet(c) \/ Fails(c)

Next ==
    /\ \/ \E c \in Clients, n \in Nodes, k \in Jobs :
             \E S \in Inputs(k) : StartJob(c, n, k, S)
       \/ \E c \in Clients : ClientStep(c)
       \/ \E t \in mempool : Execute(t)
       \/ \E n \in Nodes : FetchUpdate(n) \/ Restart(n)
    /\ UNCHANGED subscribes

Spec == Init /\ [][Next]_vars

-----------------------------------------------------------------------------
(* A command that ends well has published what it sent: the hash it signed *)
(* was taken after every batch was in the node's file, although the file   *)
(* is read without a lock, after the write, and other clients of the node  *)
(* write it and commit it at the same time.  Only a restart of the node or *)
(* an update fetched over its file midway can make a command publish less. *)
PublishedWhatWasSent ==
    \A c \in Clients \ disturbed :
        pc[c] = "done" => todo[c] = {} /\ sent[c] \subseteq hash[c].items

(* A node that has the graph open serves every published item, in whatever *)
(* order the clients of that node commit, sign and set, and the chain      *)
(* executes their transactions, those whose command gave up included, and  *)
(* whatever its watcher fetches; as long as no command was disturbed       *)
(* midway, and the node, opening the graph, did not outrun a transaction   *)
(* that was executed only later.                                           *)
ServesPublished ==
    disturbed = {} /\ ~stale => \A n \in open : reg.items \subseteq file[n].items

(* Whatever is published, is about to be, may still be by a transaction    *)
(* whose command gave up, or is on its way to a watcher was stored in      *)
(* Swarm before: a node never fetches a hash that no one uploaded.         *)
PublishedIsStored ==
    /\ reg \in stored \cup {Blank}
    /\ \A t \in mempool : t.hash \in stored
    /\ \A c \in Clients : pc[c] \in {"sign", "set"} => hash[c] \in stored
    /\ \A n \in Nodes : upd[n] \subseteq stored

OneWriter == \A c, d \in Clients : pc[c] # "idle" /\ pc[d] # "idle" => c = d

(* A writer that may rely on what it published: the only one, no node      *)
(* outran a transaction of its, and no watcher fetched an update under it. *)
Calm == OneWriter /\ ~stale /\ (~subscribes \/ disturbed = {})

(* No transaction that was sent later has been executed.                   *)
InOrder(t) == \A k \in (t.no + 1) .. txs : \E u \in mempool : u.no = k

(* Nothing that a calm writer published is taken back, except by a         *)
(* transaction, of a command that gave up, which the chain executes after  *)
(* a later one: any other step replaces a version only by one that has its *)
(* items, whatever fails between the write, the commit and the set,        *)
(* however often the node is restarted, and however late the chain         *)
(* executes what was sent.                                                 *)
PublishedStays ==
    [][Calm /\ (\A t \in mempool \ mempool' : InOrder(t))
       => reg.items \subseteq reg'.items]_vars

-----------------------------------------------------------------------------
(* What the commands promise their callers, whatever goes on in between.   *)
Phase(c) ==
    CASE pc[c] \in Ended -> pc[c]
      [] pc[c] = "wait" -> "submitted"
      [] pc[c] = "get" -> "published"
      [] OTHER -> "working"

Promise == INSTANCE Publication WITH
    phase <- [c \in Clients |-> Phase(c)],
    pending <- mempool, writes <- txs, own <- tx

(* The commands implement Publication: each submits at most one write, of  *)
(* a version that was stored before and that, unless the command was       *)
(* disturbed, has everything the node acknowledged to it; it ends well     *)
(* only after its write took effect; and what is published changes only by *)
(* such a write, taking effect at once or late, when the command has given *)
(* up, and at most once.                                                   *)
ImplementsPublication == Promise!Spec
=============================================================================
