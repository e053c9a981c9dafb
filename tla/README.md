# A TLA+ model of all4one

all4one is a peer-to-peer cluster agent in Rust: every machine runs the same
`all4one-agent`, which schedules jobs, runs them as child processes, keeps a
table of the cluster, stores objects, issues certificates and keeps a replicated
registry. There is no central node. This directory holds TLA+ modules translated
from the agent's source, the TLC configurations that check them, and TLAPS proofs.
`PROJECT.json` maps every definition to the lines it models and lists the runs,
the hazards of the code, and the findings.

Paths below are relative to `src/`.

## 1. Inventory

| Component | State | Operations | Talks to |
|---|---|---|---|
| Job API (`agent/src/api_rest/mod.rs`) | `jobs`: in-memory map of `JobRecord`s under a `RwLock` | POST and DELETE `/v1/jobs`, `dispatch_to_assigned`, `spawn_retry_dispatch`, `enqueue_remote_job`, `apply_terminal_job_update` | scheduler, executor, other agents over gRPC |
| Executor (`agent/src/executor/mod.rs`) | one task per launched job; writes `jobs` | `spawn_job`: mark running, run the child, write the result, report to the origin | `jobs`, `ReportJobStatus` of the origin |
| gRPC client and server (`agent/src/grpc_*`) | none of their own | `SubmitJob`, `ReportJobStatus`, `Join`, `TransferChunk`, `FetchChunk` | the handlers above and below |
| Membership (`agent/src/main.rs`, `discovery`, `gossip`) | `cluster` table, `last_seen`, certificate bundle on disk | enrolment by `Join`, two-phase discovery loop, failure detector | peers' `/v1/internal/nodes` |
| Scheduler (`agent/src/scheduler/mod.rs`) | none | `pick_node` over the cluster table | cluster table |
| Object store (`agent/src/storage/*`, handlers in `api_rest`) | sled index, shard files | PUT, GET, DELETE of objects, fan-out of shards to storage peers, buckets, listing | peers' `TransferChunk` |
| Erasure coding, placement (`storage/chunks.rs`, `storage/placement.rs`) | none | `encode_erasure`, `decode_erasure`, `determine_placement`, `is_recoverable` | object store (placement: unused) |
| Raft store (`agent/src/raft/store.rs`, `commands.rs`, `mod.rs`) | two sled databases: log, vote and committed index; `RaftState` (registry, tokens, membership) | append, truncate, purge, vote, committed; `apply_command`, apply, build and install snapshot | openraft, which calls it |
| Certificates and identity (`agent/src/certificates/mod.rs`, `node/mod.rs`) | `node-id`; CA and node bundles, `crl.json` in `certs_dir` | `node_id`, `init_ca`, `join`, `save_node_cert`, `add_to_crl`, `is_revoked` | enrolment |
| Output streams and operations feed (`executor`, `api_rest`) | `output_channels`, `ops_events`: broadcast channels | pumps of a child's output, `start_ops_watchers`, two SSE streams | clients |
| Metrics, dashboard, REST authentication | counters | `/health`, `/metrics`, shared-secret check | clients |
| Configuration, node profile | files | load, validate, detect capabilities | everyone, at start-up |

What is hard in this code, and what must hold all the same:

* **Jobs.** Submission, acknowledgement, execution, report, retry and
  cancellation are tasks on two machines. A report can overtake the
  acknowledgement of its submission; a failed call may have been served; a crash
  forgets the table; the executor awaits an RPC under a write lock. A verdict must
  be true, final where there is one child, and arrive.
* **Membership.** Tables change by merges, Joins and a detector that works from a
  copy. Tables should converge when nodes stay up; dead nodes should be shown as
  offline; wrong suspicions should be short; schedulers should agree.
* **Object store.** Handlers write shard files in place, without locks, and index
  afterwards; the fan-out reads them again later. A read must return one version
  of the right object or an error, whatever is in the files.
  Any of these writes may fail, and nothing undoes the ones before it. The index is
  opened by whoever comes first, and two may.
* **Raft store.** openraft relies on what the store reported: a vote or an entry on
  disk stays there. The log and the state machine are separate databases, flushed
  at different times, and removals are loops that a crash may cut anywhere.
* **Certificates and identity.** A start decides from which files exist, while
  every file is written in place, one after the other.
* **Erasure coding.** A length prefix, a division and padding, whose boundaries
  are where such code breaks.
* **Live feeds.** Clients and launches find one channel in any order, readers may
  fall behind, and the operations feed is the difference of two polls.

The list `hazards` of `PROJECT.json` names each of these at its line.

## 2. Modules

| Module | Models | Extended by |
|---|---|---|
| `JobLifecycle` | job API, executor, job RPCs | `MCJobLifecycle`, `JobLifecycleProofs`, `JobOutcomeProofs` |
| `JobPromise` | abstract: what the origin of a job may show of it | instantiated by `JobLifecycle` |
| `Membership` | enrolment, discovery, failure detector, scheduler | `MCMembership`, `MembershipProofs` |
| `ObjectStore` | PUT, GET, DELETE, fan-out, `TransferChunk`, the index's handle | `MCObjectStore`, `ObjectStoreProofs` |
| `ErasureCoding` | encoding and decoding of objects, byte by byte; `is_recoverable` | `ErasureCodingProofs` (TLC checks it directly) |
| `RaftCommands` | the replicated commands and `apply_command` | `Registry`, `RaftStore` |
| `Registry` | abstract: what a node's registry promises | instantiated by `RaftStore` |
| `RaftStore` | `SledLogStore`, `SledStateMachine`, `init_raft` | `MCRaftStore`, `RaftStoreProofs` |
| `Certificates` | node id, CA, node bundle, revocation list | `MCCertificates`, `CertificatesProofs` |
| `LiveStreams` | output channels, operations feed | `MCLiveStreams`, `LiveStreamsProofs` |

The components do not share state in the model. What one needs of another is a
constant or an environment action: `JobLifecycle` may get any answer in `Picks`
from the scheduler at each call, which covers every table `Membership` can reach,
`ObjectStore` takes its storage peers from `Peers`, and the cluster table moves
under `LiveStreams` in any way `Membership` lets it. `ObjectStore` treats shards
as values that decode or do not, and `ErasureCoding` shows that the bytes do.

`Peers` is what the table says of the others' capability `storage_node`, which
hardly ever gets there: neither peer lists nor Join carry it (`MergedEntry`,
section 4). In the agent as it is `Peers` is mostly empty, as in `StoreChaos`, and
what is said of replicas is what the fan-out does once a table has storage peers.

### JobLifecycle

* `jobs[n][j]` is the record of job `j` in the table of node `n`. `exit_code` is
  an `Option<i32>` reduced to none, zero, nonzero; `error` says whether there is a
  text. Status "none" is an absent record.
* `disp[j]` is the task that dispatches `j` at its origin: the POST handler itself
  (mode "once") or the loop of `spawn_retry_dispatch` (mode "retry"). `failed` is
  a history of the dispatches that returned false.
* `exec[t]` is the executor task of dispatch `t` = (job, node, attempt), with the
  `outcome` of its child.
* `lock[n]` is the write guard of the jobs table of `n` where it outlives a step:
  `spawn_job` keeps it while it awaits `report_job_status`. All other critical
  sections contain no await and are single steps guarded by `lock[n] = {}`.
* `submits`, `acks`, `reports`, `replies` are the two RPCs in flight. Sets, not
  queues: tonic multiplexes calls, nothing orders them.

One action per step: `Submit`, `DispatchLocal`, `DispatchRemote`, `DispatchAck`,
`DispatchFault`, `DispatchRefused`, `HandlerDropped` (hyper drops the handler of
a client that hung up), `RetryCheck`, `RetryPick`, `RetryExhausted`,
`HandleSubmit`, `ExecStart`, `ExecFinish`, `HandleReport`, `ReportReturn`,
`ReportFault`, `ReportRefused`, `Cancel`, `Crash`. A broken connection may lose
the request, or leave it to be served while the caller sees an error.

`JobPromise` is the abstract specification of one job as the client sees it that
keeps asking where it submitted (`get_job`): unknown, then queued; the status moves
to running or to a verdict only when a child was launched, to a verdict only when a
child ended so, and a verdict moves again only when there is a second child; a
cancelled job is heard of again only if a child of it was launched; what a crash
lost stays lost. Nodes, calls, retries and locks are gone. `JobLifecycle` implements
it with `seen <- Shown`, `launched <- Children`, `ended <- Ended` (`JobPromiseKept`).

### Membership

Time is counted in the five-second periods in which both loops sleep. `Tick` ends
a period once each running loop has made its round, or is stuck in a request that
is never answered: the HTTP client of the discovery loop sets no timeout. A
process is down, enrolling, serving or frozen (it accepts and does not answer).

* `nodes[n][m]` is the status and the capabilities of `m` in the table of `n`,
  `last_seen[n][m]` the age of the last sighting, saturating at the offline limit.
* `pending[n]`: entries in the table that do not have their `last_seen` yet. Join
  and `upsert_peer` write the two maps in two critical sections.
* `disc[n]` is the discovery loop (seeds, then mesh, the addresses left to ask),
  `det[n]` the detector between its two critical sections, with its copy of
  `last_seen`.

Actions: `Boot`, `Join`, `RecordHeartbeat`, `EnrollGiveUp`, `NextPhase`, `PollOk`,
`PollRefused`, `PollHangs`, `PollUnhangs`, `PollFallback`, `DetectRead`,
`DetectApply`, `Tick`, `Kill`, `Freeze`, `Thaw`. `Pick` is `pick_node`: docker
stands for the runtimes that need a capability.

### ObjectStore

* `index[n][k]` is the sled entry, `durable[n]` what sled has flushed of it: a
  crash falls back to it. The shard files survive a crash of the agent.
* `files[n][f][i]` is shard file `i` under file name `f`. `fs::write` truncates
  before it writes, so a file can be seen torn: `OpenShard`, then `FillShard`.
* `op[o]` is the handler of request `o` and, for a PUT, its fan-out task. The body
  of a PUT is its own id: SHA-256 and zstd are injective.
* `xfers` are `TransferChunk` calls; the peer writes the file, then the index.
* `spoiled` is a history of file names last changed by a PUT that then failed, at
  a later write or at the index, and so has the files of no entry. The next PUT to
  that name that reaches the index takes it out.

Parity shards are written as zeros and never used to decode, so only data shards
are modelled. Policy "hot" has one, "warm" `WarmShards`; cold and archive differ
from warm only in the number.

`handle[n]` is the cached handle of the index. `get_db` looks the cache up and
fills it in two critical sections, and opens the database in between; sled locks
its file, so whoever comes meanwhile fails (`AccessFails`). A PUT meets the index
twice: when it creates the bucket, where it ignores the error, and when it writes
the entry, after its files. The agent never calls `init_storage`, so the race is
there after each start.

Every operation on a file or on sled may return an error. `StorageError` is the `?`
of a handler at any of them: a PUT ends with 500 and leaves what it truncated or
overwrote, the old entry over it; a GET fails; a fan-out stops. `ReceiveError` is
the peer's side: a shard that cannot be written is a refused transfer, an insertion
into its index that fails is ignored. `MaxFaults` counts them with the lost calls.

Actions: `OpensIndex`, `BeginPut`, `OpenShard`, `FillShard`, `PutIndex`,
`PutIndexFails`, `ReceiverOpensIndex`, `ReceiveIndexFails`, `CollectIndex`,
`CollectShard`, `SendShard`, `TransferDone`, `TransferFault`, `ReceiveOpen`,
`ReceiveFill`, `ReceiveIndex`, `BeginGet`, `ReadShard`, `GetHeader`, `Delete`,
`StorageError`, `ReceiveError`, `Flush`, `Crash`.

### RaftStore, RaftCommands, Registry

* `mem` is the log database as its readers see it: entries, `last_purged`, vote,
  committed index. `disk` is what a crash would leave of it. A sled write changes
  `mem`; `flush()`, and `Persist` at any other moment, copies `mem` to `disk`. `sm`
  and `smDisk` are the same for the state machine.
* Every operation is a write and the flush that ends the call, in two actions
  (`SaveVote`, `SaveVoteDone`), so that a crash may come in between and so that
  what openraft is told (`granted`, `acked`) is told after the flush. `truncate`
  and `purge` collect their keys and remove them one by one (`RemoveNext`).
* openraft is external: the guards say what it may call next. It appends at the
  end of the log, commits what was acknowledged, never truncates a committed entry,
  purges what a snapshot covers.
* A vote is a term, a node and whether the node is known to lead (`committed`), in
  openraft's order (`Less`): term, node id, committed. The agent does not enable
  `single-term-leader` (`agent/Cargo.toml:24`), so `SaveVote` may be called with any
  vote greater than the stored one, in the same term too: for a candidate of a larger
  id, or for the leader that was elected. `granted` is the last vote answered.
* `chosen` is the history of commands that the cluster committed. After a crash
  this node may have to be told again; what is committed again is the same.
* `Restart` is the crash and `init_raft` together: both databases are read back,
  and a log that ends before the state machine is purged, as openraft does.

A log id is its index: the ids the store keeps are those of committed entries, of
which there is one per index. A blank entry, `AddMember` and `RemoveMember`
change nothing but `last_applied`.

`Registry` is the abstract specification: a sequence of commands that only grows,
and a registry that moves from the outcome of one prefix to that of a longer one.
`RaftStore` implements it with `history <- chosen`, `view <- smDisk`
(`RegistryPromise`): applying, replaying after a crash and installing a snapshot
all are such a step, and a crash is a stutter.

### Certificates

`files[n]` has the four PEM files of a node, each absent, torn, or of a generation;
a certificate and a key match when their generations do. `fs::write` empties the
file and then fills it: `WriteOpen`, `WriteFill`, with the writes still to be made
in `todo`. `StartIssuer` is `init_ca`, `StartMember` the choice between the bundle
there is and enrolment, `Join` the handler at the seed together with the answer,
`JoinAnswerLost` the handler alone. `NodeIdOpen` and `NodeIdFill` make the node id.
`AddToCrl` rewrites the list, `CrashInAddToCrl` is a crash in the middle of that.
`Reconfigure` is an operator who edits tier or seeds of a stopped node, and a node
in `copied` was given a `ca.crt` before its first start. Only process crashes are
modelled: what was written stays written.

### ErasureCoding

Operators with the source's names. A byte is below `Base`, the length prefix has
`PrefixLen` bytes; zstd is a frame that only a decompression removes; a hash is the
data it was taken of. `Init` is a stored object of any content up to `MaxLen`
under any policy, `Lose` loses a shard file, `Get` is `get_chunks`.

### LiveStreams

A channel is the sequence of all it was sent; a reader has a position, and one
that is more than `Capacity` behind skips to the oldest message kept and is marked
`lagged` (the streams filter the error out, so the client is not told).

`task[t]` is an executor task with what was written to the two pipes of its child
and what the pumps sent; a retried job has two. A pump ends at the end of its pipe,
which a process the child left behind may still write to, or at a read that fails
(`PumpFails`, the pipe is then in `broken`): a line that is not UTF-8 is enough.
`RecordResult` waits for the child and for both pumps to end, either way.

`view` is the cluster table and `watcher` the task of `start_ops_watchers`, with
`last_status` and the events of a poll still to be published. `Baseline` publishes
nothing. `ops` is a client of the feed with what it was told of each peer, at first
nothing: `StreamOps` replays nothing, events come by `OpsReceive`, and `GetNodes`
lists the table. `Compared` is what the watcher has of each peer, `ahead` a history
of the peers listed to the client with another status than that.

## 3. Runs that pass

| Run | States | Shows |
|---|---|---|
| `JobFaults` | 70,973 | One job, three nodes, two lost calls, a crash, retries: verdicts are true (`TerminalTruth`) and exact for a once-dispatched job (`VerdictExact`); duplicates come only from lost answers (`DuplicateNeedsLostAck`); a verdict is final (`OnceDispatchFinal`); a job cancelled before its first dispatch never runs (`CancelBeatsRetry`); what the origin shows implements `JobPromise` (`JobPromiseKept`). |
| `JobSettles` | 24,265 | Two jobs, no failures, one submitting node: every job comes to rest (`EventuallySettled`). |
| `MemberPair` | 504,681 | Two nodes, a death and restart, a hang, a failed request: a wrong suspicion lasts at most one period (`WrongSuspicionIsShort`), an entry gets its sighting (`SightingFollowsEntry`), a dead node ends up offline (`DeadShownOffline`). |
| `MemberConverges` | 217,226 | Three nodes, one of which joins a settled pair, no deaths: tables converge (`Convergence`), schedulers agree (`PlacementAgrees`). |
| `StoreChaos` | 372,036 | Three overlapping requests of all kinds on two keys with one file name, an index that is still closed, a failed write or read, and a crash: a GET answers with one PUT of its key or fails (`GetIntegrity`); an object that cannot be read had two PUTs on its file name (`DamageNeedsRival`): a crash, a failed write or a lost race for the index alone does not damage one. |
| `StoreReplicas` | 2,347,799 | Two nodes with fan-out, a failed transfer, write or read and a crash, one writer at a time per key: every object indexed by its own node is readable, whatever policies its versions had, unless the last PUT that changed its files failed, and again after the next that succeeds (`SerialPutsReadable`); a single PUT without failures reaches the peer (`SinglePutReplicated`); `GetIntegrity` on a peer in the middle of transfers. |
| `RaftCrash` | 1,843,800 | Three indexes, two registrations of one job and a status, two candidates of one term, two crashes anywhere: after a vote was answered no smaller one is, in the same term too (`VotesGoUp`); what append reported stays (`AckedSurvives`); a restart has the committed entries it must replay, unless a truncation was cut short (`RestartCanReplay`); a hole in the log is what a removal loop cut short leaves, and after a purge the state machine has the missing entry (`HoleNeedsCut`); the first registration stays (`JobOwnerKept`); the registry on disk implements `Registry` (`RegistryPromise`). |
| `CertCrash` | 523,644 | An issuer and a member, three crashes between any two halves of a write, lost answers, one changed role: a certificate is issued only for an id that every restart finds (`IdentityKept`); a CA that was handed out is whole and stays (`HandedCaKept`); a bundle that a start accepts is whole, unless the crash tore the very file that completed it (`AcceptedBundleWhole`); a revocation is never forgotten (`RevocationKept`). |
| `ErasureRoundTrip` | 516,382 | All objects of up to six bytes, four policies, up to five lost shards: the bytes come back exactly when the data shards are there (`RoundTrip`); what `is_recoverable` gives up is never served (`GivenUpNotServed`). |
| `LiveFeeds` | 497,933 | Two launches of a job whose pipes may fail, a client of its output, channels of capacity two: who never lagged missed nothing and has the lines in order (`NothingMissed`); when the result is recorded, it has of each pipe all that was written, or all that was sent before a read failed (`ResultAfterOutput`). Two peers, four changes of the table, a job event, a client of the feed that subscribes and lists the nodes at any time: between polls what it was told agrees with the watcher (`FeedTracksWatcher`), and at last with the table (`FeedCatchesUp`), except for a peer it was told nothing of, and for a status it listed that was gone before the watcher looked. |

`properties` of each run in `PROJECT.json` are exactly those of its `.cfg`; each
has a mutant, a plausible slip in the code (the operators with an underscore in
their names, such as `AckedRecord_NoGuard`) that TLC refutes.

**Bounds.** `MaxRetries` is 60 in the code; two iterations already give a
duplicate, its late report, and the end of the loop. `SuspectAfter` is 7 and
`OfflineAfter` 20 periods; the runs use 2 and 3, or 3 and 4, which keeps the order
round < suspected < offline that the arguments use (`WrongSuspicionIsShort` says
nothing below 3, hence the larger pair in `MemberPair`). Warm has 4 data shards;
two are enough for a mixture of versions and for a torn file beside a whole one.
`MaxFaults` (lost calls, failed writes and reads), `MaxCrashes`, `MaxKills`,
`MaxFreezes` and `MaxGlitches` bound the environment only. Three nodes in
`JobFaults` give an origin and two delegates, so that a retry may go back to the first delegate or to another; three in
`MemberConverges` and `MemberGhost` because a third party's opinion matters.

Three log indexes give a log with an entry before, at and after the point where a
removal is cut; two crashes give a crash during the recovery from another. Two
candidates of one term give votes that differ in node id, in commitment and, from
the vote of a new node, in term. Four
generations in `CertCrash` are two CAs and two bundles. `ErasureRoundTrip` has
prefix 2 and six bytes, which makes lengths below, at and above the multiples of
4, 6 and 8 shards, empty objects and shards of padding only; the prefix must have
room for the largest length, as a u64 has (`PrefixAssumption`). Channels of capacity 2
make a reader lag; four changes of two peers let a status come and go between two
polls while the other peer's change is announced. The two feeds share no variable
and no action, and every property, or conjunct of `TypeOK`, reads one of them: so
`LiveFeeds` looks at each of them while the other has not begun (the action constraint
`OneFeed`), and every state and step of either is still reached.

**Symmetry** is used for safety only: over requests in the store runs, over the
nodes that register a job in `RaftCrash`.

**Deadlock.** All runs but those of the membership set `CHECK_DEADLOCK FALSE`:
clients make finitely many requests, bounds are reached, and the system comes to
rest. The membership runs check it: the loops never end.

**Fairness.** `FairSpec` of `JobLifecycle` is weak fairness of `Progress`, the
steps of the agents' own tasks: tokio polls every ready task, its `RwLock` is
FIFO, and a child is assumed to end. Clients and failures are not fair.
`FairSpec` of `Membership` is weak fairness of `Progress` and of `Tick`: both
loops are timers. `FairSpec` of `LiveStreams` is weak fairness of `Watcher`, whose
sleep ends, and of `OpsReceive`, a client that reads; the executor, the table and
other clients need not move.

## 4. Where the code and its documentation differ

Two claims have a run that TLC refutes; `findings` quotes both sides.

| Run | The documentation's claim | What the model shows |
|---|---|---|
| `JobReportDeadlock` | terminal status propagates | two agents report to each other, each under its own lock: both wait for ever |
| `MemberGhost` | the online count drops during a failure | with two survivors a dead node is refreshed by hearsay, for ever |

`DeadShownOffline` appears on both sides: it holds for two nodes (`MemberPair`) and
fails for three.

The modules show more behaviour of this kind that has no run of its own; the
action named models it as the code has it. Jobs:

* `HandleSubmit`: a second SubmitJob of a known id runs the job again
  (`api_rest/mod.rs:963`), where docs/decisions/002-no-central-node.md:122 says
  "the current state is returned without relaunching".
* `ExecStart`: the executor sets a record running without looking at its status,
  so a job cancelled while queued runs all the same and may complete
  (`executor/mod.rs:41`).
* `AfterFailure`: the dispatch made by the POST handler itself is not repeated
  when it fails; the job stays queued (`api_rest/mod.rs:924`).

Membership:

* `NextPhase`: a restarted node without seeds asks nobody, and nobody announces
  itself to it (`discovery/mod.rs:118`): no "self-healing mesh" (line 116) for a
  bootstrap node that restarts.
* `Join`, then `RecordHeartbeat`: the detector may run in between and suspect a
  newcomer (`grpc_server/mod.rs:206`). `WrongSuspicionIsShort` bounds it.
* `MergedEntry`: peer lists carry no capabilities and Join stores none, so no node
  learns those of another (`discovery/mod.rs:95`).
* `PollHangs`: a seed that accepts and never answers stops the loop, and with it
  all discovery (`discovery/mod.rs:40`).

Object store:

* `FileName`: `x/y` and `x-y` share their shard files (`storage/chunks.rs:108`):
  storing one destroys the other, though docs/api/rest-api.md:56 allows slashes.
* `SendShard`, `ReceiveIndex`: two fan-outs of one key may leave the peer with an
  old version or one it cannot read, and nothing repairs it, where
  docs/api/rest-api.md:75 says "eventual consistency" (`api_rest/mod.rs:535`).
* `PutIndexFails`, `ReceiveIndexFails`: the first requests after a start race for
  the index; a PUT fails with its files written, or a peer acknowledges a transfer
  whose entry it dropped (`storage/index.rs:37`, `grpc_server/mod.rs:284`).
* `StorageError`: a PUT whose write fails, on a full disk say, answers 500, but has
  truncated or overwritten files of the version before, whose entry stays and can no
  longer be read until a later PUT succeeds (`storage/chunks.rs:128`).
* `encode_erasure`: parity shards are zeros, so enough shards in the sense of
  `is_recoverable` (`storage/placement.rs:58`) are not enough to read.
  `determine_placement` gives one node for every policy but hot, for which
  `is_recoverable` is then false from the start.
* `GetHeader`: the ETag is looked up again after the body was read
  (`api_rest/mod.rs:590`).
* `Delete`: the index entry goes, the shard files and the replicas stay
  (`storage/index.rs:99`).

Raft store:

* `RemoveNext`, `Restart`: a crash in `truncate` leaves a log with a hole, and
  `get_log_state` takes its last key for the end of the log. A snapshot installed
  over the hole repairs it only when its own database is flushed: with four indexes
  a second crash before that finds a saved committed index whose entries are gone,
  which is why `AckedSurvives` and `RestartCanReplay` exclude a cut truncation.
* `apply_command`: a second `StoreEnrollToken` makes a used token valid again
  (`raft/store.rs:339`; raft/commands.rs:29 calls it single-use), and `expires_at`
  is never read. `UpdateJobStatus` stamps `updated_at` with the local clock
  (line 312), so replicas differ in it; the model leaves timestamps out.

Certificates and identity:

* `NodeIdOpen`: a crash between the two halves of the write leaves an empty
  `node-id`, and the agent refuses to start from then on (`node/mod.rs:16`).
* `WriteOpen`: a bundle whose last file is torn is taken for complete.
* `Reconfigure`: an issuer that becomes a member and enrols elsewhere overwrites
  its `ca.crt` and keeps its `ca.key`; as it still has a key it goes on serving
  Join (`grpc_server/mod.rs:108`), now with another CA's certificate.

Live feeds:

* `StreamOutput`: channels are never removed, so a stream does not end with the
  job; who subscribes late hears nothing of what was; and at the origin of a
  delegated job the stream stays empty, for the child runs elsewhere.
* `PumpFails`: a line that is not UTF-8 ends its output stream without a word; what
  follows is never sent, and the result is recorded all the same
  (`executor/mod.rs:96`, `:106`).
* `Baseline`: a peer that is in the table when the watcher starts is not announced
  (`api_rest/mod.rs:688`), and discovery starts long before (`main.rs:103`); a client
  learns of it by listing the nodes.
* `Poll`: a status that changes and changes back between two polls is never told
  (docs/phases/phase-3.md:113: "emits node status transitions"). A client that listed
  the nodes in between keeps the status that is gone: `ahead` in `FeedCatchesUp`.
* `OpsReceive`: a reader that lagged is not told that it did.

## 5. Proofs

Eight modules hold the proofs. Each theorem holds for every value of the constants
that satisfies the assumptions named, which are only that bounds are numbers, that
the "none" values are not members of the sets they extend, that tables map nodes
to nodes, and that a length fits into its prefix; two theorems about the object store
have hypotheses of their own. Every property below is also checked by a run. A proof that a step
preserves an invariant has one lemma per action or group of actions and one step
per conjunct that the action can disturb.

### Jobs (`JobLifecycleProofs`, `JobOutcomeProofs`; from `ConstantsAssumption`)

* `TypeCorrect`: `Spec => []TypeOK`. Not inductive alone: a dispatch to a target
  that is no node would leave the types, so the step carries `TargetChosen`.
* `DispatchInvariant`: `Spec => []DispatchInv`, the inductive invariant of the
  dispatcher's bookkeeping, one part per idea. `IssuedInOrder`: every dispatch on
  its way or launched has failed, or is the current one, sent to the current
  target. `FailedInOrder`: a failure is recorded only when the dispatcher was told
  so. `OneTaskPerDispatch`: one number, one task. `NewIsUntouched`.
* `DuplicatesExplained`: `Spec => []DuplicateNeedsLostAck`. It follows from
  `DispatchInv`: two launched tasks of a job have different numbers, so the lower
  one is not current, so it is in `failed`.
* `VerdictsTrue`: `Spec => []TerminalTruth`, by `VerdictInv`: the outcome of a
  task is set once (`OutcomeSetOnce`), and a report on its way says what its task
  did (`ReportsTrue`), so what the origin copies is true. It needs `DispatchInv`
  as well, for a launch must not reset a task that has an outcome already:
  `OneTaskPerDispatch` rules that out.
* `VerdictsExact`: `Spec => []VerdictExact`, by `OnceInv` on top of the two above.
  That records are exact is not inductive: the handler guesses from a 0 whether
  there was an exit code, so the invariant says that every report on its way is the
  encoding of its task's outcome (`ReportsExact`) and that the record it meets is
  still as it was made (`ReportsAwaited`, `RecordsExact`).
* `OnceFinal`: `Spec => OnceDispatchFinal`, an action property from the same
  invariant: whatever could rewrite the verdict is a report, and there is none.
* `CancelWins`: `Spec => CancelBeatsRetry`. From the cancelled state on `NeverRuns`
  is inductive: nothing of the job was issued, and the dispatcher that is left will
  find the record cancelled. The temporal argument about one job is propositional.
* `JobPromiseImplemented`: `Spec => JobPromiseKept`, the refinement of `JobPromise`,
  by `ShownInv` on top of the three invariants. Whoever will write the origin's
  record finds one: a dispatcher that goes on (`LiveHasRecord`), a task that has not
  ended (`TaskHasRecord`); an acknowledgement is of a task that was launched
  (`AcksLaunched`), so a job is shown as running only after a launch; the report of
  an only child finds no verdict at the origin (`ReportsHeard`), so a verdict that
  changes had a second child. Each action moves at most one job, by one action of
  `JobPromise` (`MovedIsStep`, `ShownDispatch`, `ShownTask`); a crash is `Lose` of
  all jobs of the node, and so needs that a job not yet submitted has no origin
  (`NewAtNoNode`). TLC checked `ShownInv` with two origins and two jobs first.

### Membership (`MembershipProofs`; from `ConstantsAssumption`)

* `TypeCorrect`: ages stay in range, whatever the timeouts.
* `SightingsFollow`: `Spec => []SightingFollowsEntry`, inductive with the types.
  The attempt showed a mistake of the model: `EnrollGiveUp` kept `pending`, which
  the agent loses with its process; it is corrected.
* `SuspicionsShort`: `Spec => []WrongSuspicionIsShort`, by `SuspicionInv`. The
  detector's copy is right but for those heard of since (`CopyOvertaken`), so after
  its round whoever is shown down is silent or was heard of in this very period
  (`RoundsRepair`); the end of the period makes that sighting one period old.

### Object store (`ObjectStoreProofs`; from `ConstantsAssumption`)

* `TypeCorrect`, by `TypeInv`: each handler stands at a shard that its policy has.
* `GetsWhole`: `Spec => []GetIntegrity`. The hash check is what saves the reader,
  so the invariant is about it: entries of the index, flushed or not, and of
  transfers name PUTs of their own key (`EntriesNamed`, `ExpectOk`,
  `FanoutOfPuts`), and a body that passed the check is all shards of that PUT
  (`BodyOk`).
* `DamageExplained`: `Spec => []DamageNeedsRival`, by `DamageInv`: a PUT without a
  rival finds its shards as it left them (`WritingFilled`), and the index, flushed
  or not, names it only after all of them (`EntriesFilled`). A PUT that fails never
  gets there.
* `SerialReadable`: `Spec => []SerialPutsReadable`, where PUTs to one file name do
  not overlap (`~Overlap`) and keys have file names of their own (`DistinctFiles`),
  as in the run that checks it; without either the code does not keep it
  (`StoreChaos`, section 4), and where the last PUT that changed the files did not
  fail (`spoiled`). By `SerialInv`: the entry that a node's clients wrote last has its
  shards, except while the one writer of that file has truncated one and has not
  indexed (`Overwritten`), or after such a PUT failed. Only a PUT that reaches the
  index ends that (`HealedByPut`), and it has filled every shard (`WritingSerial`).
* `PutReplicates`: `Spec => []SinglePutReplicated`, where `DistinctFiles`. By
  `FanoutInv`, which follows the only PUT of a key through its fan-out: how far it
  came tells which shards have left, and a shard that left is on its way, being
  written, or there, until a call, a write or a read fails, a node crashes or an
  access loses the race for an index.

### Raft store (`RaftStoreProofs`; from `BoundsAssumption`, `SentAssumption`, `NoEntryAssumption`, `CandidateAssumption`)

All seven properties of the store, for logs of any length and any number of crashes.

* `VotesSaved`: `Spec => []VoteInv`. What was answered says nothing of the vote a
  crash leaves, so the invariant says where votes are: memory and disk have the same
  one, except while `save_vote` has not flushed yet, and then the disk's is the
  smaller (`VoteSaved`); the last answer is not greater than the vote on disk
  (`AnswerSaved`). `VotesNeverBack`: `Spec => VotesGoUp`, an action property from it:
  an answer is given when memory and disk agree, and `Less` is a strict order.
* What `ApplyRange` computes. It is a recursive function; the lemmas about it are
  proved by least counterexample, from the well-foundedness of `<` on the numbers
  (`LeastNumber`): the function exists (`LoopFunction`), unrolls
  (`RangeUnrolled`), reads only the entries of its range (`RangeReads`), can be cut
  in two (`RangeSplit`), keeps types and the node of every registered job
  (`RangeTyped`).
* `StoreKept`: `Spec => []StoreInv`. Its parts: memory and disk are the same when
  nothing is under way (`Quiet`); purges, snapshots and `last_applied` never
  overtake what is on disk and committed (`Order`); what a removal may still remove
  (`OpShape`); a log, in memory or on disk, has only committed entries where the
  commit is known (`Agree`), has what was acknowledged (`AckedIn`), and has no hole
  except where a removal goes on (`NoHole`, `NoGap`); both registries are
  `StateAfter` of the committed history (`States`). A crash swaps memory for disk,
  so every part is stated of both.
* `TypeCorrect`, `AcksSurvive`, `HolesExplained` follow from it. `ReplayPossible`:
  a saved committed index is acknowledged, so its entries are on disk (`AckedIn`),
  and they are the committed ones (`Agree`). The attempt to prove it without
  excluding a cut truncation failed for a good reason (section 4).
* `OwnersKept`: `Spec => JobOwnerKept`, and `RegistryImplemented`:
  `Spec => RegistryPromise`, the refinement of `Registry`. A step leaves the
  registry on disk, or replaces it by the one in memory (`DiskMoves`); by `States`
  both are outcomes of prefixes of one history, the second the longer.

### Certificates (`CertificatesProofs`; from `BoundAssumption`)

* `RevocationsKept`: `Spec => []RevocationKept`, by `CrlInv`: a revoked node is in
  the list, or the list is torn and stays so.
* `IdentitiesKept`: `Spec => []IdentityKept`, by `IdInv`: a node that is past
  `node_id` has a whole id, and one whose id is still to be made has no certificate.
* `HandedCasKept`: `Spec => []HandedCaKept`, by `CaInv`: a node that was never an
  issuer has no CA key and will write none (`MemberHasNoKey`); an issuer that has a
  key, torn or not, has a whole certificate that no planned write touches
  (`IssuerKeyLast`); what was handed out is of an issuer with a key
  (`HandedWhole`). It rests on the order of the two writes of `init_ca`.
* `TypeCorrect`, and `BundlesWhole`: `Spec => []AcceptedBundleWhole`, by `MembersOk`
  on top of `CaInv`: the files of a bundle appear in one order (`InOrder`), and where
  `save_node_cert` stands tells which are there (`Saving`); a member enrols only while
  the last one is missing.

### Live feeds (`LiveStreamsProofs`; from `CapacityAssumption`, `BoundsAssumption`)

* `OutputKept`: `Spec => []OutputInv`: a job has one channel, from the first lookup
  on (`OneChannel`); a client that kept up has heard the lines from where it joined
  to where it is (`HeardSoFar`); a task records when each pump has sent all or has
  failed (`SentSoFar`).
  `NothingIsMissed` and `ResultsAfterOutput` follow.
* `FeedTracks`: `Spec => []FeedTracksWatcher`, by `FeedInv`: before its baseline the
  watcher has published nothing (`NothingBefore`); the last event about a peer carries
  what the watcher has of it, in the middle of a poll too (`LastEventHolds`, over
  `Compared`); a client knows this of every peer that no event is left to read about,
  unless it was told nothing of it or listed more (`ToldWhatIsRead`). `TypeCorrect`.

### Erasure coding (`ErasureCodingProofs`; from `BaseAssumption`, `PrefixAssumption`)

* `RoundTrips`: `Spec => []RoundTrip`, for objects of any length. `encode_erasure`
  and `decode_erasure` are recursive functions; the library's induction theorems
  cannot be used here, so induction is proved for a set of numbers from
  well-foundedness (`Induction`, `InductionUpTo`) and so is the existence of the
  functions (`Recursion`). Repeated division and Horner's rule are inverse up to
  the capacity of the prefix (`Digits`, `Horner`, `PrefixRead`); the shards joined
  are the padded bytes (`ConcatCut`, `PaddedBytes`, `CeilEnough`), of which the
  first are the object (`Encoded`, `Decoded`). `RoundInv` is inductive: a shard is
  as it was encoded or missing, and what was read is the object exactly if no data
  shard is missing.
* `GivenUpStays`: `Spec => []GivenUpNotServed`. The policy tables of both sides and
  the threshold of `is_recoverable` agree (`TablesAgree`), a served object had all
  its data shards (`ServedInv`), and those alone are enough for the count.

### Only model-checked

Every invariant and every action property of the passing runs is proved, and so are
both refinements. What stays with TLC is liveness under fairness, which is out of
the prover's reach: `EventuallySettled`, `DeadShownOffline`, `Convergence`,
`PlacementAgrees`, `FeedCatchesUp`; and the two claims of section 4, which are false.

## 6. What is not modelled

* Rejected requests (bad payload, zero resources, wrong secret): no state changes.
* Command lines, memory limits: process I/O.
* `seed_to_rest`: an address is the node behind it. TLS and cryptography.
* A PUT handler whose client hangs up before the fan-out: the same as a fan-out in
  which every transfer fails, as far as the properties tell.
* Buckets (one is modelled; a tree per bucket, never removed) and listing, which
  reads; `FetchChunk` and `determine_placement`, which nothing calls.
* A sled database that cannot be opened at all, but for the race of two openers; and
  an index error when the ETag header is looked up, which gives an empty header.
* The Raft transport (`raft/network.rs`, `grpc_server/raft_service.rs`): each RPC is
  an encoding, a call and a decoding, without state.
* Dashboard, metrics, diagnostics, authentication: they read, or check one request.
* Configuration and profile: their values are constants.
* The consensus protocol of openraft: a library, present by the calls it may make.
  The agent starts it on quorum participants as a cluster of one, and no handler
  submits a command yet.

## 7. What could come next

1. Placement and listing: `determine_placement` when something calls it, and buckets
   when deleting one removes its objects.
2. The Raft transport with openraft's own log ids, once the agent forms clusters of
   more than one node and a handler submits commands.
3. `JobPromise` with more than one place to ask: a client that asks a delegate sees
   another record, which `TerminalTruth` covers and the abstract job does not.
