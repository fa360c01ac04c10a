# A TLA+ development for go-kord

KORD keeps identity graphs as SQLite databases in Swarm. A registry contract on
an Ethereum chain names, for each KORD ID, the Swarm hash of its current graph.
A KORD node fetches the graphs, serves them over GraphQL and RPC, and lets the
owner of an ID write to a graph, commit it to Swarm and publish the new hash.

The modules here model the parts of the repository that have state shared by
several goroutines, processes or machines. TLC checks small instances of them,
and TLAPS proves their safety properties for all instances.

## The system

| part | state | operations | talks to |
|---|---|---|---|
| db driver, `db/db.go` | `Driver.dbs`, the file per name, `db.conns`, `dbMtx`, `connsMtx` | `Open`, `Commit`, `Conn.Close`; a watcher goroutine per db | registry (`Graph`, `SubscribeGraph`), Swarm, SQLite |
| graph tables, `db/graph.go` with Cayley's `ApplyDeltas` | tables `nodes` (with `refs`) and `quads` | one transaction per batch | SQLite through the db driver |
| registry client, `registry/registry.go` | the feed of heads, its subscribers, `closed` | `Graph`, `SetGraph` (`do`), `Close`; a goroutine that forwards heads | the chain |
| contract, `contracts/KORDRegistry.sol` | `graphs` | `setGraph`, `graph` | |
| test registry, `testutil/util.go` | `hashes`, `subs`, `mtx` | `Graph`, `SetGraph`, `SubscribeGraph` | the watchers of the db driver |
| graph driver, `graph/driver.go` | `stores`, `storeMtx` | `Create`, `Get`, `SetGraph`, `Commit` | db driver, registry |
| kord service, `kord/meta.go`, `kord/http.go` | the lazily attached registry client, the HTTP server, the root dapp | `Start`, `Stop`, `setRootDapp` | the go-ethereum node that hosts it |
| RPC API and client, `kord/api.go`, `kord/client.go` | none | `CreateGraph`, `ApplyDeltas`, `CommitGraph`, `SetGraph`, `SetRootDapp` | graph driver |
| GraphQL API and client, `api/` | none | `createGraph`, `createClaim`, `setGraph`, queries | graph driver |
| claims and dapps, `api/types.go`, `dapp/dapp.go`, `pkg/uri/uri.go` | quads of a graph, manifests in Swarm | `createClaim`, claim queries, deploy, set-root, serve | graph tables, Swarm |
| commands, `cli/` | none | `node`, `graph create`, `graph load`, `dapp deploy`, `dapp set-root`, `id` | RPC API, the node |

What is hard about it:

* **Concurrency in the db driver.** Openers, the setters of the registry and one
  watcher per db share four kinds of mutex and an unbuffered channel; files are
  replaced under open connections; a watcher that fails tears its db down while
  others open it.
* **Files below transactions.** A connection forwards each statement to the handle it
  has at the time, the watcher swaps handles and renames new files over the path,
  and `Commit` reads the file while others write it.
* **Reading in one step, using in another.** `openDB` reads the hash and subscribes
  later; `newConn` opens and registers later; a client writes a batch, commits,
  signs and sets in separate requests, while others write the same file.
* **Locks across components.** A request holds up to three mutexes when it asks
  the hosting node to attach a client, and `Start` and `Stop` of that node hold
  its lock while they call into the service.
* **Delays and failures.** A transaction may be mined before, at or after the
  timeout of `do`, when its command has failed and later ones have begun, or never; the rpc subscription may die; Swarm, SQLite and the
  registry may fail between any two steps; a node may restart.
* **Counting.** Nothing but `runTx` and `ApplyDeltas` keeps `nodes` and `quads`
  consistent, since foreign keys are switched off.
* **Reading back what was written.** Nothing is ever deleted, an object is loaded field by
  field, and IDs, texts and URIs are converted on the way in and on the way out.

## Modules

| module | models | proofs | instances |
|---|---|---|---|
| `DbDriver` | `db/db.go`, `testutil.Registry` | `DbDriverProofs` | `MCDbDriver` |
| `Replica` | what `Driver.Open` promises the users of a graph, without mutexes, watchers and failures | in `DbDriverProofs` | `MCDbDriver` |
| `QuadStore` | `db/graph.go`, Cayley's `SplitDeltas` and `ApplyDeltas` | `QuadStoreProofs` | `MCQuadStore` |
| `Registry` | `registry/registry.go`, `KORDRegistry.sol` | `RegistryProofs` | `MCRegistry` |
| `SignedRegister` | what `SetGraph` of the registry client promises its callers, without blocks, heads and rpc | in `RegistryProofs` | `MCRegistry` |
| `KordNode` | `cli/node.go`, `kord/meta.go`, the locks of `graph/driver.go` and `db/db.go` | `KordNodeProofs` | `MCKordNode` |
| `GraphPublish` | `cli/graph.go`, `cli/dapp.go`, `kord/api.go`, `kord/client.go`, `api/graphql.go`, the data of `graph/driver.go` and `db/db.go` | `GraphPublishProofs` | `MCGraphPublish` |
| `Publication` | what these promise a client, without nodes, files and watchers | in `GraphPublishProofs` | `MCGraphPublish` |
| `Conn` | `Conn`, `Commit` and the file of `db/db.go`, the transaction of `runTx` and `ApplyDeltas` | `ConnProofs` | `MCConn` |
| `Objects` | `api/types.go`, the claims of `api/graphql.go`, `cli/dapp.go`, `dapp/dapp.go`, `pkg/uri/uri.go`, the root dapp of `kord/meta.go` and `kord/http.go` | `ObjectsProofs` | `MCObjects` |

`PROJECT.json` maps each definition to the lines it stands for. Definitions named
`Bad...` are mistakes that a statement could have been written with; nothing uses
them, except the runs that replace one definition by its mistake to see that the
property named with it notices.

### DbDriver

An opener calls `Open`, keeps its connection and closes it; a setter calls
`SetGraph`; a `*db` value is also the identity of its watcher. The program
counters `opc`, `spc` and `wpc` name the next statement that touches shared state.
`dbMtx` and `regMtx` record their holder, `connsMtx` whether it is held: its read
lock is taken only by the one watcher of the db, so one bit is enough. A Swarm
hash is the number of the `SetGraph` call that published it, which makes "older"
a comparison. The name a file has and the address the registry knows are
different (`HexToAddress`), as in the code, where caches are keyed by the spelling.

`db.close` is modelled as what it does: with a connection registered it never
gets past its loop, since `Conn.Close` locks the mutex `close` holds. A `*db`
whose watcher has ended may be allocated again once nobody refers to it, which is
how a garbage collector lets a bounded set of identities stand for unboundedly many.

A panic in `addConn` unwinds to the HTTP or RPC server, which recovers
(`Recover`). With `Subscribes = FALSE`, `SubscribeGraph` is that of
`registry.Client`, which does nothing. Neither registry returns an error from it, so `openDB`'s return of one is left out.

`Awaits(x, y)` says that a goroutine cannot go on until another has released a mutex or come back to its
`select`; a circle of it is a deadlock, whatever else the system can still do. `KordNode` has a relation of the same name.

### Replica

Files of names, versions published for addresses, and openers with or without a connection. A file moves to any version
from its own to the last published one; a connection sees the file as it was when it was opened or last re-opened. `DbDriver`
implements it (`ImplementsReplica`) with the registry's table as `published` and the openers from `sqlite.Open` to
`Conn.Close` as `open`. How far a connection may stay behind is not promised, since the code does not keep it (`DbGap`).

### QuadStore

One transaction is one step, since an error of any statement rolls it back. A
batch is a sequence of deltas. `Mentions` counts the places where deltas name a
value, `RefInc` is the increment `SplitDeltas` computes, and `RunTxRefs` sets the
count to it, for rows that are inserted and for rows that are there, as the SQL of
`runTx` does. `DecRefs` and `Unused` are the generic second half of `ApplyDeltas`,
which is skipped when no node is decremented. The variable `actions` says what the
callers send: additions only, which is all that the commands and the GraphQL API of this
repository do, or deletes too, which `kord_applyDeltas` accepts. It never changes.

### Registry

Callers are the goroutines inside `do`. `PumpTakesHead`, `PumpSent` and `ReceiveHead`
are `subscribeBlocks` and `Feed.Send`: a head is delivered to each subscriber by
rendezvous, and the next is taken when all have it. The chain executes at most one
pending transaction per block, or none. The owner's signatures are recorded in
`issued`; a call may use any signature ever made, or a malformed one, with any message.
`ecrecover` gives the signer for the message that was signed, and an address nobody owns
for any other. `Messages` are 32 bytes of any kind, since the contract takes any, and `Signed` are those that
owners sign: the hashes of graphs and, with the same scheme, the IDs of claims. A claim ID that its issuer signed
can be set as a graph, and `OnlySignedGraphs` does not exclude it.

### SignedRegister

A call is a write of a hash for the address that signed it. It takes effect at most once; a call that reports "ok" or
"failed" has taken effect, that way, before it returns, and one that gives up may still do so later. `Registry` implements it
(`ImplementsSignedRegister`): a write counts as pending from the call on, though the transaction is sent later. `GraphPublish` has the same writes,
with the commands around them: sent, executed sooner or later or never, and reported or not.

### KordNode

A call goes through the mutexes of `Path(kind)`: `Get` through `storeMtx`, `dbMtx` and the
lazy registry's, `Create` through the last two, `SetGraph` through the last. It either
finds what it looks for (`Hit`) or holds the mutex and goes on (`Miss`), and
attaches a client when it gets to the end. Cached entries are made from the innermost
mutex outwards. `RunNode` is `mpc`, and `node.Stop` is `spc`, whether called by the goroutine
that waits for the cancellation or on an error path; `Stopper` is the name of that goroutine in `Awaits`. The HTTP server accepts requests
from `Kord.Start` on, so requests may wait for the lock that `Start` still holds. `Attach` has the node's `Attach`,
which takes that lock, and `NewClient` after it in one step; the call holds the lazy registry's mutex over both, and nothing looks in between.
What `RunNode` does before `stack.Start`, the configuration and its error returns, is left out. A call of `do` may return or not: a
`SetGraph` request waits in it without any mutex (`InDo`), and `RunNode` itself in `Deploy`.

### GraphPublish

There is one graph, a file of it on each node, the versions Swarm has and the one the
registry names. A version is whether the tables exist and which items it has; it is its own
hash. A command is a client's program counter: `open`, `write`, `commit` inside a
request, `batch` and `sign` between requests. `graph load` and `dapp deploy` go through
`batch` and commit in a request of their own; `createGraph` and `createClaim` commit in the
request that wrote. `Fails` may happen at any of these places and leaves what
was done.

There are two registries. That of the tests takes a hash at once and sends it to the open graphs (`SetGraph`);
`registry.Client`, which every running node has, sends a transaction (`SendTx`), waits for the receipt (`Receipt`), and announces no
update. `subscribes` says which one it is. The wait ends in `Fails` when `do` gives up, or in `Restart`; the transaction stays in
`mempool` and the chain may execute it at any time (`Execute`): while the command waits, after it has failed, during a later one, or
never. The chain executes them in any order. Nonces order the transactions of one key in one pool, and every node signs with the key of
`registry.DefaultConfig`; but a pool may drop a transaction or replace it by one with the same nonce, and nodes read the nonce from
pools of their own, so no order is assumed. A number tells a transaction from any other, as its hash does.

The watcher's fetch and re-opening are one step here, and its failures are left out:
these details are `DbDriver`'s and `Conn`'s. A restart makes the node forget that the graph is
open; the file stays until `openDB` replaces it. Requests in progress fail, and the
client's next one reconnects, as the vendored rpc client does.

Two history variables record what can go wrong. `disturbed` has the clients whose node was restarted, or whose file was
replaced by a late update, while a command of theirs was midway (`Midway`: the file has some
of it, and the hash was not sent to the registry). Those commands may publish less than they were told is written. A client
stays in `disturbed`, since what was lost stays lost. `stale` says that a node has opened the
graph at a version without the items of a transaction still pending (`Outrun`). When the chain then executes that transaction, the
node does not have what is published. The properties say that nothing else can go wrong.

### Publication

The specification a client could be given: a command sends items that are acknowledged one by one,
versions are uploaded, a command submits one write of an uploaded version that has what was
acknowledged, unless it was disturbed, and it ends well only after that write took effect. A command may fail at any time, and its
write, once submitted, may take effect later all the same, at most once and over what other commands published in the meantime. `GraphPublish` implements
it with the program counter mapped to a phase (`ImplementsPublication`): what is published then changes by submitted writes, or by those of the tests' registry, in no other way,
and everything a node does in between is invisible.

### Conn

This is below `GraphPublish`, where a write and a commit are one step each. A connection is that of one
request; its transaction belongs to the handle it began on (`tx`), and its statements go to the
handle the connection has when they run (`handle`). A batch has rows in two tables, which stand for two
pages of the file. A file is an inode: a fetch makes a new one and lets the path name it, and handles keep
theirs until they are swapped. SQLite is external: one writer per file from its first
statement on, and pages written one by one under the lock at COMMIT. `Commit` opens the path and reads one
page after the other, without the lock. `lost`, `swapped` and `torn` record the three things that can go
wrong: the file was replaced before `Commit` opened it, a handle was swapped between two statements, or a
page was read while another transaction was half written. The properties say what each of them can damage, and what it cannot.

### Objects

`quads` has, for each predicate, pairs of a node and a value. A claim is a node named by its ID,
a hash of the fields one after the other, which is modelled as the tuple of the two addresses, which have a
fixed length, and the concatenated texts. Texts are sequences of characters, so that both the
concatenation and `StringToValue`, which reads N-Quads syntax, are what they are in the code. A claim is
written in one transaction and acknowledged after the commit; a failure in between leaves it there.
`Matches` is the path of a claim query, and `Loaded` the set of claims that `LoadPathTo` and `ToClaim` may make
of a node: it sets each field once per value it meets, so one value per field is left.
A claim arrives with a signature made for it, by the issuer or by another, or with one read from an acknowledged claim.

A dapp is a node named by its URI. A URI is an address, a path and how the two are spelt: as `URI.String` writes them (`"checksum"`),
in another way that `Parse` accepts (`"other"`: another case of the address, another escaping of the path, a query or a
fragment, both of which `Parse` drops), or in one that it refuses. `URIString` gives the first form of what was parsed. `deploy` writes the URI with the checksum of the
address, `set-root` looks it up as it was given, and the server keeps the manifest it found.

The module has one graph on one node that stays up, and leaves publication and restarts to
`GraphPublish`. It assumes that `graph load` does not write quads of the `kord:` and `dapp:` vocabularies
by itself.

## Runs

| run | instance | checks | result |
|---|---|---|---|
| `DbSafe` | 2 openers, 2 setters, 2 dbs, 3 versions, all faults | `TypeOK`, `OneFetcherPerPath`, `SubscribersAreInTable`, `OpenConnsAreRegistered`, `OnlyTwoDeadlocks`, `ImplementsReplica` | hold |
| `DbLive` | 2 openers, 1 setter, 1 db, 2 versions, no faults, fairness | `OpenAndCloseReturn`, `SetGraphReturns`, `UpdateReachesConns` | hold |
| `DbGap` | 1 opener, 1 setter, 1 version | `ConnsFollowRegistry` | violated |
| `DbClose` | 2 openers, 1 setter, 2 dbs, failing fetches, fairness | `OpenAndCloseReturn` | violated |
| `Quads` | 5 quads sharing 3 values, batches of up to 2 additions, or additions and deletes | `TypeOK`, `AddedQuadsHaveNodes`, `NodesAreUsed` | hold |
| `QuadsDeletes` | the 5 quads, one addition or delete at a time | `QuadsHaveNodes` | violated |
| `Registry` | 2 callers, 2 transactions, a message that is signed and one that is not, timeout of 1 head, rpc failures, fairness | `TypeOK`, `OnlySignedGraphs`, `ImplementsSignedRegister`, `DoReturns`, `CloseReleases`, `MinedIsReported` | hold |
| `Node` | 2 requests, with and without root dapp, all failures, fairness | `TypeOK`, `OneClient`, `CachesAgree`, `OnlyRootDappDeadlocks`, `StartReturns`, `RequestReturns`, `CancelExits` | hold |
| `NodeRootDapp` | 1 request, root dapp, fairness | `RootDappStarts` | violated |
| `Publish` | 2 clients, 1 node, 2 items, 3 commands, restarts, all failures, both registries, transactions executed in any order, late or never | `TypeOK`, `PublishedWhatWasSent`, `ServesPublished`, `PublishedIsStored`, `PublishedStays`, `ImplementsPublication` | hold |
| `Conn` | 2 clients, 3 batches, 2 fetches, all failures | `TypeOK`, `BatchesAreWhole`, `StoredHasBatch`, `UntilAnUpdate` | hold |
| `Objects` | 2 requests at a time, 3 in all; 2 IDs, 3 properties, 3 contents, 2 signatures per key, 2 manifests, all failures | `TypeOK`, `AcknowledgedIsFound`, `LoadedClaimsVerify`, `DeployedIsFound`, `ServedIsUploaded` | hold |

`ImplementsReplica` implies `FileNeverRegresses`, and `ImplementsSignedRegister` implies `ResultIsTrue`; these two have theorems of their own and are
not checked again by a run. `StartReturns` and `CancelExits` are stated for a node without a root dapp, since with one it does not
start at all (`NodeRootDapp`). `AddedQuadsHaveNodes` and `NodesAreUsed` are stated for additions, since
deletes break the first (`QuadsDeletes`). `PublishedStays` is stated for the time in which one client writes,
with updates only until a command is disturbed; `ServesPublished` and `PublishedStays` hold until a node outruns a pending transaction (`stale`),
and the latter excepts the step in which the chain executes a transaction after a later one (`InOrder`). `PublishedWhatWasSent` and `ServesPublished` except disturbed commands,
`RequestReturns` a request that waits in `do` for its own transaction, and `CancelExits` the deployment of the registry, which does the same,
`BatchesAreWhole` the cases in `swapped` and `torn`, `StoredHasBatch` those in `lost`, and `UntilAnUpdate` ends with the first fetch. `LoadedClaimsVerify` excepts nodes to which
claims with different properties were written (`Clashes`), and `AcknowledgedIsFound` texts that a filter reads
as something else than a literal (`Plain`). Each exception is a case that really happens, as described below.

### What the violated runs show

Each of these checks what a comment, a message, a usage text or a test of the
repository says, against what the code does; `PROJECT.json` quotes the lines.

* `DbGap`: `openDB` asks for the hash, fetches, and subscribes last. An update in between
  is lost until the next one.
* `DbClose`: one failed fetch makes the watcher close the db, and `close` blocks on the mutex
  it holds as soon as a connection is registered; the opener's own `Close` then blocks too.
* `QuadsDeletes`: `runTx` sets `refs` where it should add to it. Add two quads that share a
  value in two batches, delete one: the node goes and the other quad keeps its hash.
* `NodeRootDapp`: with `--root-dapp`, `Start` waits for the lock it holds. `RootDappNeverServes` proves that it never
  gets any further, in any instance.

### What else the models show

These follow from the same modules and have no run of their own.

* `ConnsFollowRegistry` fails in two more ways. `newConn` opens the file before it registers the
  connection, so an update handled in between leaves the connection on the replaced file; and
  the `SubscribeGraph` of `registry.Client` is a TODO, so in a running node no connection
  is ever re-opened (`Subscribes = FALSE`).
* Besides the `close` of `DbClose` there is one more circle in the db driver: `SetGraph` of the test registry sends to a watcher
  while it holds the registry's mutex, and a watcher that has failed waits for that mutex in `sub.Close`. `OnlyTwoDeadlocks` says that
  there is no third, and `QuietDriverHasNoDeadlock` that neither occurs without a failure, or without updates.
* A request whose signature does not match its hash is executed and reported as a success, and changes the graph of no owner:
  `ecrecover` gives some other address, which the contract does not look at (`SignedRegister`).
* A db is emptied before it leaves the table, so an `Open` in between writes to a nil map
  (`AddConnPanics`).
* A load whose node is restarted between two batches loses the first: `ApplyDeltas` answers once a batch is in the
  node's file (`kord/api.go:60`), which `openDB` of the restarted node replaces; the client reconnects, publishes the rest and
  reports "quads loaded successfully" with the full count (`cli/graph.go:122`).
* A load that ends in the timeout of `do` leaves its transaction pending. If the node is restarted and the next load opens the graph
  before the chain executes it, the registry then names a version that the open graph lacks items of (`ServesPublished` without `~stale`
  fails after 15 states), and what the second load publishes takes them back (`PublishedStays` without it, after 20 states). Without a restart nothing is lost as long as the
  chain keeps the order; an older transaction executed after a newer one takes back what the newer one added.
* A cancellation during the deployment of the registry is not noticed if the subscription to heads has died: `Deploy` then waits in `do`
  for ever, and `RunNode` with it.
* With `subscribes`, a watcher that fetches an earlier update late replaces the file between the write of a
  claim and its commit, as in the sequence of `api/api_test.go`: the claim is not in what is published.
* A swapped handle splits a transaction: with one client and one fetch a file gets the quads of a batch and not its nodes.
  Without fetches two clients are enough for a stored version with half a batch, since `Commit` reads while the
  other's transaction is written; the file itself stays whole.
* Property and claim are hashed without a length, so `("a", "ab")` and `("aa", "b")` of one issuer about one subject have
  one ID, and each signature is valid for the other. Both are written to one node, and a query may return a mixture
  with a third ID.
* A claim query does not find a claim whose property is spelt like an IRI or a quoted string, nor an issuer in lower case.
* `dapp set-root` finds a dapp only under the URI with the checksum, though `dapp deploy` accepts any spelling.
  A dapp deployed again has two manifest hashes, and `set-root` takes the one it meets last.
* Heads that were waiting when a transaction was sent count towards the "after %d blocks" of `do`.
* After deletes, a reference count may also grow without bound: a batch that adds a stored quad again and deletes
  a missing one that shares a node raises it each time. `MaxRefs` bounds what is followed.

### Bounds, and why they are enough

* Two processes of a kind show every race between two of them. Two dbs let one be closed while its name is
  opened again.
* `MaxSets = 3` lets an update be published while another is being sent and a third has been
  fetched. The versions are only compared, and the proofs have no bound.
* `BlockTimeout = 1` has the last head within the timeout and the one after it. The code's 50
  would only lengthen the same loop.
* `MaxHeads` is the number of heads waiting; the rpc client's own queue is longer. One waiting
  head and one being broadcast is enough for a caller to fall behind.
* `MaxBatch = 2` with 5 quads has batches with a duplicate, with an addition and a delete of one
  quad, and with two deletes of it; `MaxRefs = 4` is the largest count such additions give.
* `MaxJobs` counts the commands or requests started: in `Publish` a create and two that interfere, so that up to three transactions are pending,
  one of them given up on before a restart; in `Objects`
  two writes to one node of the graph, or a deploy, and one more request that reads or overwrites it.
* `MaxFetches = 2` lets a handle stay behind by one file and by two. Three batches let both clients write and one write again.
* The texts of `Objects` have two pairs with one concatenation, one text that reads as an IRI, and the empty text, which
  is refused.
* `DbLive` has one db because it has no faults, so no db is ever closed.
* Runs say `CHECK_DEADLOCK FALSE` where the system may stop: a command or a node ends, the bound on
  the commands is reached, or a `db.close` is stuck, which is what `DbClose` is about.
* Symmetry is used in safety runs only.

### Fairness

`DbDriver` and `KordNode` assume strong fairness of the steps of each goroutine: the Go scheduler
runs whatever can run, and mutexes of the Go version the repository builds with (1.9) hand over to
a waiter that has starved for a millisecond, so a wait for a mutex that is released again and again
ends. Nothing is assumed of callers: nobody has to open, close, set or cancel. In `KordNode`, the
deadline of `Shutdown` is a step that can always be taken, and nothing is assumed of `do`: neither a `SetGraph` request nor `Deploy` has to
return from it, since it waits without a deadline once the subscription to heads has died. `Registry` assumes weak fairness of `do`,
of the goroutine that forwards heads, and of the chain's blocks, and does not assume that
a pending transaction is ever executed. `Conn`, `Objects` and `GraphPublish` state safety only and assume no fairness.

## Proofs

All theorems hold for every value of the constants that satisfies the named assumptions: process
sets are disjoint, timeouts and bounds are naturals, options are Booleans, quads are functions from
the four directions to values. Steps are split by action, as the code is.

* **DbDriver.** `DbInv` is inductive. An opener past its lookup holds `dbMtx` and its name
  is not in the table (`MutexInv`); the table has exactly the dbs whose watcher runs
  (`TableInv`): together one fetcher per path. Subscribed dbs have a watcher that has not
  finished `sub.Close` (`SubsInv`). `VersionInv` orders file, fetched hash and registry: the setter that
  sends holds the registry's mutex, so what it sends is the newest, and a watcher that has not
  fetched keeps the next send waiting. `ConnInv` says that a connection in use is
  registered, and that its db cannot pass `close` while it is: the deadlock of `DbClose`
  is the very reason that no connection is orphaned. Theorems: `TypeCorrect`,
  `OneFetcherPerPathHolds`, `SubscribersAreInTableHolds`, `OpenConnsAreRegisteredHolds`,
  `FileNeverRegressesHolds`.
  For `OnlyTwoDeadlocksHolds`, every mutex that is held has a holder that is at a place where it has it (`HolderInv`). The lock order is then
  `dbMtx` before the registry's mutex; a setter that sends waits for watchers, and a watcher for nothing but `connsMtx`, `dbMtx` and `sub.Close`.
  Following a circle along that order ends in `db.close` or in `sub.Close`. Both need a watcher that has left its loop, and it leaves it
  only after a fault in handling an update (`QuietInv`): `QuietDriverHasNoDeadlock`. `ImplementsReplicaHolds` uses `VersionInv` for the fetches, and
  for the re-opening that a connection being re-opened is registered, so its opener has not closed it (`ReopenInv`).
* **QuadStore.** `TypeCorrect` (no negative count, no count without a row) rests on the sweep of
  everything at or below zero. With additions only, `NodesMatchQuads` (the rows of `nodes` are exactly
  the values used) is inductive, since such a batch decrements nothing: `AddsKeepQuadsHaveNodes`,
  `AddsKeepNodesAreUsed`. The invariant needs `actions = {"add"}`, which all callers in this
  repository satisfy: claims, loads and deployments only add.
* **Registry.** `RegistryInv` adds that a transaction's signature was issued or is malformed
  (`SigInv`) and that no two calls share a transaction (`TxInv`). Theorems: `TypeCorrect`,
  `OnlySignedGraphsHolds`, `ResultIsTrueHolds`, and `ImplementsSignedRegisterHolds`: `TxInv` makes a block's execution the effect of one write, every
  return is one of the abstract returns, and heads, the feed and `Close` are stutters.
* **KordNode.** `NodeInv` says which mutexes a call holds by the place it has reached (`HeldInv`),
  that a call attaches only under the lazy registry's mutex and while there is no client
  (`AttachInv`), and that an opening call has what is below it (`OpeningInv`). Theorems: `TypeCorrect`,
  `OneClientHolds`, `CachesAgreeHolds`, with a root dapp or without. `LifeInv` ties the places of `RunNode` and `Stop` to who
  holds the node's lock. With it, `OnlyRootDappDeadlocksHolds` follows a circle through the mutexes, which
  are taken in one order, to the node's lock; its holders wait for requests only as long as `Shutdown` allows, unless the holder is `Start`
  opening the root dapp's graph. `RootInv` says that such a `Start` never gets past it: `RootDappNeverServes`.
* **GraphPublish.** `PublishedIsStored` is inductive with `TypeOK`, whatever fails, restarts or arrives
  late. `PublishedWhatWasSentHolds` has no further assumption: what a client that was not disturbed has sent is in
  the file of an open graph (`OpenInv`, `PendingInv`) until it is in the version that was
  hashed (`SignedInv`), and nothing is left to send (`InputInv`); together `SentInv`. `ServesPublishedHolds` assumes
  one node, as two nodes do not see each other's publications in time: an update that
  a watcher has not fetched is the published version (`UpdateInv`), a version about to be set has no more than the
  file (`BehindInv`), and neither has one that a pending transaction may still publish (`PoolInv`), unless `openDB` outran it. `PublishedStaysHolds` assumes one
  node and is about the only writer: what is published or pending is in the file and in what the client signs (`WriterInv`), so
  a later transaction has the items of an earlier one (`OrderInv`), and those of what is published unless a later one published it; numbers tell them apart (`NumberInv`). With
  two writers an older hash may be set last, and `setGraph` of the contract says so in its TODO on replays.
* **Publication.** `PublicationIsImplemented`: `SentInv` and `PublishedIsStored` give the guard of `Publish` and `Submit` when the
  registry is asked; an executed transaction is a write that takes effect, whatever its command does by then; every other step of `GraphPublish` is
  a step of `Publication` that changes the phase, `sent` or `stored`, or a stutter.
* **Conn.** `ConnInv`: as long as no handle was swapped inside a transaction, a transaction has its statements on its own handle and the lock from
  the first on (`TxInv`), so a file is whole but for the one batch being written to it (`FileInv`); what is being read is not being written unless it
  is recorded as torn (`CopyInv`); and the batch of a request is where the request has got to (`BatchInv`). `Sound` says which files the
  first two histories can have reached: a torn copy gets into Swarm and from there into fetched files, and never into the file of the node that
  wrote it. That a request's batch is in what it stored needs neither history: pages only gain batches (`ContentGrows`),
  the handle of a request that is not in `lost` is of the file the path names, so that `reopenConns` has no other to give it, and its own transaction
  was written before `Commit` began. `FirstInv`: until the first fetch no handle is stale, so none is swapped and nothing is lost. Theorems: `TypeCorrect`, `BatchesAreWholeHolds`, `StoredHasBatchHolds`, `UntilAnUpdateHolds`, for
  any number of clients, batches and fetches, and `WithoutUpdates` for nodes without updates, which is every node with the registry client as it is.
* **Objects.** `ObjectsInv`: every value stored at a node belongs to a claim with that node's ID (`NodesInv`), the
  quads of what was acknowledged are stored (`AckedInv`), and a manifest is uploaded before a quad names it
  (`DappInv`). Two values of a field other than the signature then need two properties at one node, which is what `Clashes` says.
  Theorems: `TypeCorrect`, `LoadedClaimsVerifyHolds`, `AcknowledgedIsFoundHolds`, `DeployedIsFoundHolds`,
  `ServedIsUploadedHolds`, for any texts, signatures and spellings. `PrefixFreePropertiesAreSafe`: of two properties that begin one
  concatenation one begins the other, so if no property begins another there is no clash, and both claim properties hold without their exceptions.

`QuietDriverHasNoDeadlock`, `WithoutUpdates` and `PrefixFreePropertiesAreSafe` have a hypothesis on the constants that an instance may or may not
satisfy: no failures or no updates, no fetches, and a vocabulary without prefixes. The first two are how a node runs today, since its registry
client never announces an update.

Only model-checked: the liveness properties (`OpenAndCloseReturn`, `SetGraphReturns`, `UpdateReachesConns`,
`DoReturns`, `CloseReleases`, `MinedIsReported`, `StartReturns`, `RequestReturns`, `CancelExits`), because the prover does not
reason about fairness and `ENABLED`. What of them is safety is proved: that nobody waits in a circle (`OnlyTwoDeadlocksHolds`,
`QuietDriverHasNoDeadlock`, `OnlyRootDappDeadlocksHolds`), which leaves to TLC that whoever can run does.
No module has a recursive operator or needs induction over data, which this prover could not do.

## Not modelled

* Cayley's iterators and the SQL of queries: `Objects` has what a claim query and a dapp lookup select, not how.
* JSON of requests and responses, the HTTP transport of the GraphQL client, CORS.
* Argument parsing, configuration, keystores, progress bars: sequential input and output without state of its own.
* The layout of SQLite files: `Conn` has two pages and a lock, no rollback journal and no read locks. A `Commit` that finds a
  hot journal is the half-written version that `torn` records.
* Swarm beyond "a stored version can be fetched, unless that fails"; the chain beyond blocks and one
  execution per transaction (no reorganisations, no gas, no nonces); generated bindings.

## Plan

Done: the db driver, the tables, the registry, the node, publication, the connections below a graph, and claims and dapps, each with its safety
theorems; the abstract specifications `Replica`, `SignedRegister` and `Publication`, each with the proof that it is implemented; and
freedom from circular waits for the db driver and the node. What is left, in this order:

1. **Proofs**: `QuadsHaveNodes` for deletes of quads that share no value; `GraphPublish` with several nodes, where `ServesPublished` needs a
   condition on who opened the graph when.
2. **Composition of `DbDriver` and `Conn`**, so that the fetch, the re-opening and the statements are interleaved with
   `Open` and `Close` of the same connections; today `Conn` has one connection per request and no failing re-open.
3. **Two graphs**: the caches are keyed by the spelling of an ID, and `GraphPublish` has one graph under one name.
