------------------------------ MODULE RaftStore ------------------------------
(***************************************************************************)
(* The storage of one Raft node: SledLogStore and SledStateMachine         *)
(* (raft/store.rs), opened and bootstrapped by init_raft (raft/mod.rs).    *)
(*                                                                         *)
(* The log store and the state machine are two sled databases.  sled keeps *)
(* writes in memory and makes them durable in order: all of them on        *)
(* flush(), and some prefix of them at any moment in the background.  A    *)
(* crash therefore leaves a database as it was after some earlier write,   *)
(* and never before its last flush.                                        *)
(*                                                                         *)
(* openraft calls the log store from one task and the state machine from   *)
(* another, one operation at a time each; it is external, and modelled by  *)
(* the operations it may call next.  A storage error stops openraft, which *)
(* leaves on disk what a crash at that moment leaves.                      *)
(***************************************************************************)
EXTENDS RaftCommands, FiniteSets

CONSTANTS
    Sent,       \* the commands clients write: a subset of Command
    Candidate,  \* nodes that ask for votes, as numbers: node ids are ordered
    NoEntry,    \* no log entry at this index
    MaxTerm,    \* bound on the terms of votes
    MaxIndex,   \* bound on the log's indexes
    MaxBatch,   \* bound on the entries of one append
    MaxCrashes  \* bound on crashes

ASSUME SentAssumption      == Sent \subseteq Command
ASSUME NoEntryAssumption   == NoEntry \notin Command
ASSUME BoundsAssumption    == {MaxTerm, MaxIndex, MaxBatch, MaxCrashes} \subseteq Nat
ASSUME CandidateAssumption == Candidate \subseteq Nat \ {0}

VARIABLES
    mem,        \* raft-log as its readers see it
    disk,       \* raft-log as a crash would leave it
    op,         \* the log store operation under way
    sm,         \* SledStateMachine.state, also the value last inserted in raft-sm
    smDisk,     \* raft-sm as a crash would leave it
    smOp,       \* the state machine operation under way
    known,      \* openraft: the index committed, as far as this node knows
    snap,       \* openraft: the last index of the newest snapshot
    acked,      \* history: the last index whose append was reported complete
    granted,    \* history: the vote this node answered last
    chosen,     \* history: the commands committed, in order
    cut,        \* history: the operations that a crash cut short
    crashes     \* history: number of crashes

vars == <<mem, disk, op, sm, smDisk, smOp, known, snap, acked, granted, chosen,
          cut, crashes>>

Index == 1..MaxIndex
Vote  == [term : 0..MaxTerm, node : Candidate \cup {0}, committed : BOOLEAN]
\* Votes that are asked for: a candidate's, or a leader's, which is committed.
Ballot == [term : 1..MaxTerm, node : Candidate, committed : BOOLEAN]
NoVote == [term |-> 0, node |-> 0, committed |-> FALSE]

\* The order of votes in openraft without its feature single-term-leader: a term
\* may have several leaders, of growing node ids.
Less(v, w) ==
    \/ v.term < w.term
    \/ v.term = w.term /\ v.node < w.node
    \/ v.term = w.term /\ v.node = w.node /\ ~v.committed /\ w.committed

\* The trees "entries" and "meta".  Index 0 stands for None.
LogStore == [entries   : [Index -> Command \cup {NoEntry}],
             purged    : 0..MaxIndex,
             vote      : Vote,
             committed : 0..MaxIndex]

\* The operation under way: the keys it has still to remove, and its argument.
Idle == [kind |-> "idle", left |-> {}, upto |-> 0]
Operation == [kind : {"idle", "save_vote", "save_committed", "append", "truncate", "purge"},
              left : SUBSET Index,
              upto : 0..MaxIndex]

Init ==
    /\ mem = [entries |-> [i \in Index |-> NoEntry], purged |-> 0,
              vote |-> NoVote, committed |-> 0]
    /\ disk = mem
    /\ op = Idle
    /\ sm = DefaultState
    /\ smDisk = DefaultState
    /\ smOp = "idle"
    /\ known = 0 /\ snap = 0 /\ acked = 0
    /\ granted = NoVote /\ chosen = <<>>
    /\ cut = {} /\ crashes = 0

-----------------------------------------------------------------------------
(* The log as its readers see it *)

Present(l) == {i \in Index : l.entries[i] # NoEntry}

LargestOf(S) == CHOOSE x \in S : \A y \in S : y <= x
SmallestOf(S) == CHOOSE x \in S : \A y \in S : x <= y

\* get_log_state: the last key of the tree, whatever was purged before it.
get_log_state(l) == [last_purged_log_id |-> l.purged,
                     last_log_id        |-> LargestOf(Present(l) \cup {0})]

\* The end of the log as openraft counts it: purged entries are part of it.
LastIndex == LargestOf(Present(mem) \cup {mem.purged})

\* try_get_log_entries finds every index of the range.
Readable(first, last) == first..last \subseteq Present(mem)

-----------------------------------------------------------------------------
(* Log store operations: a write, then the flush that ends the call *)

smVars == <<sm, smDisk, smOp, snap>>

Begin(kind, left, upto) ==
    /\ op = Idle
    /\ op' = [kind |-> kind, left |-> left, upto |-> upto]

\* save_vote for a vote that openraft accepts, a candidate's, its own or that of a
\* leader: any that is greater than the stored one, of the same term too.
SaveVote(v) ==
    /\ Less(mem.vote, v)
    /\ Begin("save_vote", {}, 0)
    /\ mem' = [mem EXCEPT !.vote = v]
    /\ UNCHANGED <<disk, smVars, known, acked, granted, chosen, cut, crashes>>

\* save_vote returns and the candidate, or the leader, is answered.
SaveVoteDone_NoFlush ==
    /\ op.kind = "save_vote"
    /\ op' = Idle
    /\ granted' = mem.vote
    /\ UNCHANGED <<mem, disk, smVars, known, acked, chosen, cut, crashes>>
SaveVoteDone ==
    /\ op.kind = "save_vote"
    /\ op' = Idle
    /\ disk' = mem
    /\ granted' = mem.vote
    /\ UNCHANGED <<mem, smVars, known, acked, chosen, cut, crashes>>

\* The same node asks again, and is answered from the vote read_vote gave.
AnswerAgain ==
    /\ op = Idle
    /\ mem.vote # NoVote
    /\ granted' = mem.vote
    /\ UNCHANGED <<mem, disk, op, smVars, known, acked, chosen, cut, crashes>>

\* append: one batch after the end of the log.  init_raft writes the first
\* entry, the membership, when the log is empty; client_write and the leader's
\* append_entries write the others.
AppendEntries(batch) ==
    LET from == LastIndex
    IN  /\ known <= from
        /\ from + Len(batch) <= MaxIndex
        /\ from = 0 <=> batch = <<Membership>>
        /\ Begin("append", {}, from + Len(batch))
        /\ mem' = [mem EXCEPT !.entries =
                     [i \in Index |-> IF i > from /\ i <= from + Len(batch)
                                        THEN batch[i - from] ELSE @[i]]]
        /\ UNCHANGED <<disk, smVars, known, acked, granted, chosen, cut, crashes>>

\* append flushes and reports the entries complete.
AppendEntriesDone_NoFlush ==
    /\ op.kind = "append"
    /\ op' = Idle
    /\ acked' = op.upto
    /\ UNCHANGED <<mem, disk, smVars, known, granted, chosen, cut, crashes>>
AppendEntriesDone ==
    /\ op.kind = "append"
    /\ op' = Idle
    /\ disk' = mem
    /\ acked' = op.upto
    /\ UNCHANGED <<mem, smVars, known, granted, chosen, cut, crashes>>

\* The entries first .. last of the log, as a sequence.
EntriesOf(first, last) == [i \in 1..(last + 1 - first) |-> mem.entries[first + i - 1]]

\* save_committed: a quorum, this node's acknowledgement included, has the
\* entries up to n.  openraft never passes None.  What the cluster committed
\* before a crash of this node is what it commits again after it.
SaveCommitted_OneMore(n) ==
    /\ known < n /\ n <= acked
    /\ Readable(known + 1, n)
    /\ \A i \in known + 1 .. n : i <= Len(chosen) => mem.entries[i] = chosen[i]
    /\ Begin("save_committed", {}, n)
    /\ mem' = [mem EXCEPT !.committed = n + 1]
    /\ chosen' = IF n > Len(chosen) THEN chosen \o EntriesOf(Len(chosen) + 1, n) ELSE chosen
    /\ UNCHANGED <<disk, smVars, known, acked, granted, cut, crashes>>
SaveCommitted(n) ==
    /\ known < n /\ n <= acked
    /\ Readable(known + 1, n)
    /\ \A i \in known + 1 .. n : i <= Len(chosen) => mem.entries[i] = chosen[i]
    /\ Begin("save_committed", {}, n)
    /\ mem' = [mem EXCEPT !.committed = n]
    /\ chosen' = IF n > Len(chosen) THEN chosen \o EntriesOf(Len(chosen) + 1, n) ELSE chosen
    /\ UNCHANGED <<disk, smVars, known, acked, granted, cut, crashes>>

SaveCommittedDone ==
    /\ op.kind = "save_committed"
    /\ op' = Idle
    /\ disk' = mem
    /\ known' = op.upto
    /\ UNCHANGED <<mem, smVars, acked, granted, chosen, cut, crashes>>

\* truncate: a new leader's log differs from index i on.  It never differs in
\* a committed entry.
Truncate(i) ==
    /\ i > Len(chosen) /\ i <= LastIndex
    /\ Begin("truncate", {k \in Present(mem) : k >= i}, i)
    /\ acked' = IF acked < i THEN acked ELSE i - 1
    /\ UNCHANGED <<mem, disk, smVars, known, granted, chosen, cut, crashes>>

\* purge: up to the last index of a snapshot.
Purge(n) ==
    /\ mem.purged < n /\ n <= snap
    /\ Begin("purge", {k \in Present(mem) : k <= n}, n)
    /\ UNCHANGED <<mem, disk, smVars, known, acked, granted, chosen, cut, crashes>>

\* Both remove the keys they collected one by one, in the tree's order.
RemoveNext ==
    /\ op.left # {}
    /\ LET k == SmallestOf(op.left)
       IN  /\ mem' = [mem EXCEPT !.entries[k] = NoEntry]
           /\ op' = [op EXCEPT !.left = @ \ {k}]
    /\ UNCHANGED <<disk, smVars, known, acked, granted, chosen, cut, crashes>>

TruncateDone ==
    /\ op.kind = "truncate" /\ op.left = {}
    /\ op' = Idle
    /\ disk' = mem
    /\ UNCHANGED <<mem, smVars, known, acked, granted, chosen, cut, crashes>>

\* purge records last_purged after the last removal, and flushes both trees.
PurgeDone_NotRecorded ==
    /\ op.kind = "purge" /\ op.left = {}
    /\ op' = Idle
    /\ disk' = mem
    /\ UNCHANGED <<mem, smVars, known, acked, granted, chosen, cut, crashes>>
PurgeDone_OneMore ==
    /\ op.kind = "purge" /\ op.left = {}
    /\ op' = Idle
    /\ mem' = [mem EXCEPT !.purged = op.upto + 1]
    /\ disk' = mem'
    /\ UNCHANGED <<smVars, known, acked, granted, chosen, cut, crashes>>
PurgeDone ==
    /\ op.kind = "purge" /\ op.left = {}
    /\ op' = Idle
    /\ mem' = [mem EXCEPT !.purged = op.upto]
    /\ disk' = mem'
    /\ UNCHANGED <<smVars, known, acked, granted, chosen, cut, crashes>>

-----------------------------------------------------------------------------
(* State machine operations *)

logVars == <<mem, disk, op>>

\* apply: the committed entries up to n, read from the log; the new state is
\* inserted as one value.
Apply(n) ==
    /\ smOp = "idle"
    /\ sm.last_applied < n /\ n <= known
    /\ Readable(sm.last_applied + 1, n)
    /\ sm' = ApplyRange(sm, mem.entries, sm.last_applied + 1, n)
    /\ smOp' = "apply"
    /\ UNCHANGED <<logVars, smDisk, snap, known, acked, granted, chosen, cut, crashes>>

\* install_snapshot: the leader's state after entries this node does not have,
\* cmds being those not committed here yet.  A log that differs from it was
\* truncated first.
InstallSnapshot_KeepsState(cmds) ==
    LET history == chosen \o cmds
    IN  /\ smOp = "idle" /\ op = Idle
        /\ chosen # <<>>
        /\ Len(history) <= MaxIndex /\ Len(history) > known
        /\ \A i \in Present(mem) : i <= Len(history) => mem.entries[i] = history[i]
        /\ chosen' = history
        /\ sm' = [sm EXCEPT !.last_applied = Len(history)]
        /\ smOp' = "install"
        /\ known' = Len(history)
        /\ UNCHANGED <<logVars, smDisk, snap, acked, granted, cut, crashes>>
InstallSnapshot(cmds) ==
    LET history == chosen \o cmds
    IN  /\ smOp = "idle"
        /\ chosen # <<>>
        /\ Len(history) <= MaxIndex /\ Len(history) > known
        /\ \A i \in Present(mem) : i <= Len(history) => mem.entries[i] = history[i]
        /\ op = Idle
        /\ chosen' = history
        /\ sm' = StateAfter(history, Len(history))
        /\ smOp' = "install"
        /\ known' = Len(history)
        /\ UNCHANGED <<logVars, smDisk, snap, acked, granted, cut, crashes>>

\* Both end with a flush.
StateDone ==
    /\ smOp # "idle"
    /\ smOp' = "idle"
    /\ smDisk' = sm
    /\ IF smOp = "install"
         THEN /\ snap' = sm.last_applied
              /\ acked' = LargestOf({acked, sm.last_applied})
         ELSE UNCHANGED <<snap, acked>>
    /\ UNCHANGED <<logVars, sm, known, granted, chosen, cut, crashes>>

\* build_snapshot serializes a clone of the state; get_current_snapshot gives
\* the state itself, and nothing before the first apply.
BuildSnapshot ==
    /\ smOp = "idle"
    /\ snap < sm.last_applied
    /\ snap' = sm.last_applied
    /\ UNCHANGED <<logVars, sm, smDisk, smOp, known, acked, granted, chosen, cut, crashes>>

-----------------------------------------------------------------------------
(* sled, and crashes *)

\* The background flush of either database.
Persist ==
    \/ /\ disk # mem
       /\ disk' = mem
       /\ UNCHANGED <<mem, op, smVars, known, acked, granted, chosen, cut, crashes>>
    \/ /\ smDisk # sm
       /\ smDisk' = sm
       /\ UNCHANGED <<logVars, sm, smOp, snap, known, acked, granted, chosen, cut, crashes>>

\* The process dies and starts again: init_raft opens both databases, and
\* openraft reads the state it left.  A log that ends before the state machine
\* is what a snapshot installed before its purge leaves: it is purged now.
Restart ==
    /\ crashes < MaxCrashes
    /\ crashes' = crashes + 1
    /\ cut' = cut \cup ({op.kind} \cap {"truncate", "purge"})
    /\ mem' = disk
    /\ sm' = smDisk
    /\ smOp' = "idle"
    /\ snap' = smDisk.last_applied
    /\ known' = LargestOf({disk.committed, smDisk.last_applied})
    /\ op' = IF get_log_state(disk).last_log_id < smDisk.last_applied
               THEN [kind |-> "purge",
                     left |-> {k \in Present(disk) : k <= smDisk.last_applied},
                     upto |-> smDisk.last_applied]
               ELSE Idle
    /\ UNCHANGED <<disk, smDisk, acked, granted, chosen>>

Batch == (UNION {[1..n -> Sent] : n \in 1..MaxBatch}) \cup {<<Membership>>}

Next ==
    \/ \E v \in Ballot : SaveVote(v)
    \/ SaveVoteDone
    \/ AnswerAgain
    \/ \E batch \in Batch : AppendEntries(batch)
    \/ AppendEntriesDone
    \/ \E n \in Index : SaveCommitted(n)
    \/ SaveCommittedDone
    \/ \E i \in Index : Truncate(i)
    \/ \E n \in Index : Purge(n)
    \/ RemoveNext
    \/ TruncateDone
    \/ PurgeDone
    \/ \E n \in Index : Apply(n)
    \/ \E cmds \in Batch \cup {<<>>} : InstallSnapshot(cmds)
    \/ StateDone
    \/ BuildSnapshot
    \/ Persist
    \/ Restart

Spec == Init /\ [][Next]_vars

-----------------------------------------------------------------------------
(* Properties *)

\* Every variable has its type.
TypeOK ==
    /\ mem \in LogStore /\ disk \in LogStore
    /\ op \in Operation
    /\ sm \in RaftState /\ smDisk \in RaftState
    /\ smOp \in {"idle", "apply", "install"}
    /\ known \in 0..MaxIndex /\ snap \in 0..MaxIndex /\ acked \in 0..MaxIndex
    /\ granted \in Vote
    /\ chosen \in Seq(Command)
    /\ cut \subseteq {"truncate", "purge"}
    /\ crashes \in 0..MaxCrashes

\* A node that has answered a vote never answers a smaller one, restarts included:
\* save_vote has the vote on disk before the answer leaves.  That is what the order
\* of leaders rests on, within a term too.
VotesGoUp == [][~Less(granted', granted)]_vars

\* What append reported complete is on disk, in the log or in the state
\* machine, whenever a crash comes, unless an earlier one cut a truncation short.
AckedSurvives ==
    "truncate" \notin cut =>
        \A i \in 1..acked : i <= smDisk.last_applied \/ i \in Present(disk)

\* A restart can re-apply everything the state machine lacks: the entries
\* between its last_applied and the saved committed index are on disk, and are
\* the committed ones.  Two databases, flushed at different times, agree on it,
\* unless an earlier crash cut a truncation short: a snapshot over the hole may
\* not be on disk yet when a later committed index is.
RestartCanReplay ==
    "truncate" \notin cut =>
        \A i \in Index : smDisk.last_applied < i /\ i <= disk.committed =>
            i <= Len(chosen) /\ disk.entries[i] = chosen[i]

\* A hole in the log on disk is what a crash, past or yet to come, leaves of a
\* removal loop: a purge (then the state machine has the entry) or a truncation.
HoleNeedsCut ==
    \A i \in Index : disk.purged < i /\ i < LargestOf(Present(disk) \cup {0})
                       /\ i \notin Present(disk) =>
        \/ "purge" \in cut \cup {op.kind} /\ i <= smDisk.last_applied
        \/ "truncate" \in cut \cup {op.kind}

\* RegisterJob: first writer wins, and no crash, replay or snapshot makes a
\* registered job disappear from the disk or change its node.
JobOwnerKept ==
    [][\A j \in Job : Registered(smDisk, j) =>
         smDisk'.job_registry[j].node = smDisk.job_registry[j].node]_vars

\* The registry on disk is the outcome of a growing prefix of the committed
\* commands: apply, replay after a crash and snapshots all implement that.
Promise == INSTANCE Registry WITH history <- chosen, view <- smDisk
RegistryPromise == Promise!Spec
=============================================================================
