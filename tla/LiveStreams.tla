---------------------------- MODULE LiveStreams ----------------------------
(***************************************************************************)
(* The two live feeds of an agent: the output of a job, from spawn_job     *)
(* (executor/mod.rs) to stream_output, and the operations feed, from       *)
(* start_ops_watchers and the job handlers to stream_ops_events            *)
(* (api_rest/mod.rs).                                                      *)
(*                                                                         *)
(* Both are tokio broadcast channels: a message is kept for the readers    *)
(* that subscribed before it, the newest Capacity of them; a reader that   *)
(* falls behind skips to the oldest one kept.  The streams drop the error  *)
(* that says so, and the reader is not told.                               *)
(***************************************************************************)
EXTENDS Integers, Sequences, FiniteSets

CONSTANTS
    Launch,     \* executor tasks of the job on this agent: a retry adds one
    Listener,   \* clients of GET /v1/jobs/{id}/output/stream
    Peer,       \* the other nodes of the cluster table
    Capacity,   \* messages a channel keeps (256 and 1024)
    Lines,      \* Lines[t][s]: bound on the lines the child of t writes to s
    MaxMoves,   \* bound on the changes of the cluster table
    MaxJobs     \* bound on job events

ASSUME CapacityAssumption == Capacity \in Nat \ {0}
ASSUME BoundsAssumption   == /\ {MaxMoves, MaxJobs} \subseteq Nat
                             /\ Lines \in [Launch -> [{"stdout", "stderr"} -> Nat]]

VARIABLES
    chans,      \* the output channels made so far, each with all it was sent
    current,    \* the channel of the job in output_channels, or 0
    task,       \* task[t]: an executor task and its child
    reader,     \* reader[l]: a client of the output stream
    produced,   \* history: the lines sent, in order
    view,       \* cluster.nodes: the status of every peer
    watcher,    \* the task of start_ops_watchers
    feed,       \* the channel ops_events, with all it was sent
    ops,        \* a client of GET /v1/ops/events, and the statuses it was given
    ahead,      \* history: peers listed to it with a status the watcher had not
    moves,      \* changes of the table so far
    jobs        \* job events so far

outVars == <<chans, current, task, reader, produced>>
opsVars == <<view, watcher, feed, ops, ahead, moves, jobs>>
vars == <<chans, current, task, reader, produced, view, watcher, feed, ops,
          ahead, moves, jobs>>

Stream == {"stdout", "stderr"}
Line   == [from : Launch, stream : Stream \cup {"executor"}, nr : Nat \ {0}]
Status == {"absent", "online", "suspected", "offline"}
Unknown == [p \in Peer |-> "untold"]
OpsEvent == [node : Peer, status : Status] \cup [job : {"updated"}]

\* A receiver: the messages it has taken or skipped, and whether it skipped any.
NotThere == [chan |-> 0, pos |-> 0, lagged |-> FALSE, heard |-> <<>>, joined |-> 0]

Init ==
    /\ chans = <<>> /\ current = 0
    /\ task = [t \in Launch |-> [pc |-> "queued", chan |-> 0,
                                 written |-> [s \in Stream |-> 0],
                                 sent |-> [s \in Stream |-> 0],
                                 broken |-> {}]]
    /\ reader = [l \in Listener |-> NotThere]
    /\ produced = <<>>
    /\ view = [p \in Peer |-> "absent"]
    /\ watcher = [pc |-> "start", last_status |-> Unknown, todo |-> {}]
    /\ feed = <<>>
    /\ ops = [there |-> FALSE, pos |-> 0, lagged |-> FALSE, told |-> Unknown]
    /\ ahead = {}
    /\ moves = 0 /\ jobs = 0

-----------------------------------------------------------------------------
(* tokio::sync::broadcast *)

\* The messages of q that are gone for a reader that has not taken them.
Dropped(q) == IF Len(q) > Capacity THEN Len(q) - Capacity ELSE 0

Behind(q, r) == r.pos < Dropped(q)
Ready(q, r)  == Dropped(q) <= r.pos /\ r.pos < Len(q)

-----------------------------------------------------------------------------
(* Job output *)

\* output_channels.entry(job).or_insert_with(channel): the channel there is, or
\* a new one.  Neither side removes it.
ChannelOf ==
    IF current # 0 THEN [chans |-> chans, current |-> current]
      ELSE [chans |-> Append(chans, <<>>), current |-> Len(chans) + 1]

\* The lookup of spawn_job is the same.
ExecutorChannel_Insert == [chans |-> Append(chans, <<>>), current |-> Len(chans) + 1]
ExecutorChannel == ChannelOf

\* stream_output: a client subscribes, before, while or after the job runs.
StreamOutput(l) ==
    /\ reader[l] = NotThere
    /\ chans' = ChannelOf.chans
    /\ current' = ChannelOf.current
    /\ reader' = [reader EXCEPT ![l] = [chan |-> current', pos |-> Len(chans'[current']),
                                        lagged |-> FALSE, heard |-> <<>>,
                                        joined |-> Len(produced)]]
    /\ UNCHANGED <<task, produced, opsVars>>

\* The stream of a client takes its next message, or skips what is gone.
OutputReceive(l) ==
    LET r == reader[l]
        q == chans[r.chan]
    IN  /\ r # NotThere
        /\ \/ /\ Behind(q, r)
              /\ reader' = [reader EXCEPT ![l].pos = Dropped(q), ![l].lagged = TRUE]
           \/ /\ Ready(q, r)
              /\ reader' = [reader EXCEPT ![l].pos = @ + 1,
                                          ![l].heard = Append(@, q[r.pos + 1])]
    /\ UNCHANGED <<chans, current, task, produced, opsVars>>

\* spawn_job has marked the record running and looks its channel up.
OpenChannel(t) ==
    /\ task[t].pc = "queued"
    /\ chans' = ExecutorChannel.chans
    /\ current' = ExecutorChannel.current
    /\ task' = [task EXCEPT ![t].pc = "opened", ![t].chan = current']
    /\ UNCHANGED <<reader, produced, opsVars>>

Send(t, line) ==
    /\ chans' = [chans EXCEPT ![task[t].chan] = Append(@, line)]
    /\ produced' = Append(produced, line)

\* The command cannot be spawned: one message says so, and the job has failed.
SpawnFails(t) ==
    /\ task[t].pc = "opened"
    /\ Send(t, [from |-> t, stream |-> "executor", nr |-> 1])
    /\ task' = [task EXCEPT ![t].pc = "recorded"]
    /\ UNCHANGED <<current, reader, opsVars>>

Spawn(t) ==
    /\ task[t].pc = "opened"
    /\ task' = [task EXCEPT ![t].pc = "running"]
    /\ UNCHANGED <<chans, current, reader, produced, opsVars>>

\* The child, or a process it left behind, writes a line to one of the pipes.  A
\* pipe whose pump is gone has no reader and takes no more.
ChildWrites(t, s) ==
    /\ task[t].pc \in {"running", "exited"}
    /\ s \notin task[t].broken
    /\ task[t].written[s] < Lines[t][s]
    /\ task' = [task EXCEPT ![t].written[s] = @ + 1]
    /\ UNCHANGED <<chans, current, reader, produced, opsVars>>

\* out_task and err_task: the next line of the pipe goes to the channel.
Pump_PastEnd(t, s) ==
    /\ task[t].pc \in {"running", "exited"}
    /\ Send(t, [from |-> t, stream |-> s, nr |-> task[t].sent[s] + 1])
    /\ task' = [task EXCEPT ![t].sent[s] = @ + 1]
    /\ UNCHANGED <<current, reader, opsVars>>
Pump(t, s) ==
    /\ task[t].pc \in {"running", "exited"}
    /\ s \notin task[t].broken
    /\ task[t].sent[s] < task[t].written[s]
    /\ Send(t, [from |-> t, stream |-> s, nr |-> task[t].sent[s] + 1])
    /\ task' = [task EXCEPT ![t].sent[s] = @ + 1]
    /\ UNCHANGED <<current, reader, opsVars>>

\* next_line returns an error (a line that is not UTF-8, a failed read): the
\* loop ends like at the end of the pipe, and nothing more of it is sent.
PumpFails(t, s) ==
    /\ task[t].pc \in {"running", "exited"}
    /\ s \notin task[t].broken
    /\ task' = [task EXCEPT ![t].broken = @ \cup {s}]
    /\ UNCHANGED <<chans, current, reader, produced, opsVars>>

\* child.wait() returns.
ChildExits(t) ==
    /\ task[t].pc = "running"
    /\ task' = [task EXCEPT ![t].pc = "exited"]
    /\ UNCHANGED <<chans, current, reader, produced, opsVars>>

\* Both pumps have ended, at the end of their pipe or by an error: only then the
\* result is recorded and reported.
Ended(t, s) == s \in task[t].broken \/ task[t].sent[s] = task[t].written[s]
Pumped_Out(t) == Ended(t, "stdout")
Pumped(t) == \A s \in Stream : Ended(t, s)
RecordResult(t) ==
    /\ task[t].pc = "exited"
    /\ Pumped(t)
    /\ task' = [task EXCEPT ![t].pc = "recorded"]
    /\ UNCHANGED <<chans, current, reader, produced, opsVars>>

-----------------------------------------------------------------------------
(* The operations feed *)

\* Discovery and the failure detector change the table (module Membership):
\* entries appear online and never leave; any status may follow any other.  The
\* watcher keeps the table's read guard for a whole poll.
TableMoves(p, status) ==
    /\ watcher.pc # "poll"
    /\ moves < MaxMoves
    /\ status # view[p] /\ status # "absent"
    /\ view[p] = "absent" => status = "online"
    /\ view' = [view EXCEPT ![p] = status]
    /\ moves' = moves + 1
    /\ UNCHANGED <<outVars, watcher, feed, ops, ahead, jobs>>

\* start_ops_watchers takes the table as it is when the task first runs, and
\* publishes nothing of it: a peer that is there already is never announced.
Baseline ==
    /\ watcher.pc = "start"
    /\ watcher' = [pc |-> "asleep", last_status |-> view, todo |-> {}]
    /\ ahead' = {p \in ahead : ops.told[p] # view[p]}
    /\ UNCHANGED <<outVars, view, feed, ops, moves, jobs>>

\* After two seconds: the peers whose status changed, and those that are new.
\* (node.removed is for entries that left the table; none ever does.)
Changes_KnownOnly == {p \in Peer : /\ watcher.last_status[p] # "absent"
                                   /\ view[p] # watcher.last_status[p]}
Changes == {p \in Peer : view[p] # watcher.last_status[p]}
Poll ==
    /\ watcher.pc = "asleep"
    /\ watcher' = [watcher EXCEPT !.pc = "poll", !.todo = Changes]
    /\ UNCHANGED <<outVars, view, feed, ops, ahead, moves, jobs>>

\* One publish_ops_event of the poll, in the order of a HashMap.
Announce(p) ==
    /\ watcher.pc = "poll"
    /\ p \in watcher.todo
    /\ watcher' = [watcher EXCEPT !.todo = @ \ {p}]
    /\ feed' = Append(feed, [node |-> p, status |-> view[p]])
    /\ ahead' = ahead \ {p}
    /\ UNCHANGED <<outVars, view, ops, moves, jobs>>

\* last_status = current.
PollEnds ==
    /\ watcher.pc = "poll" /\ watcher.todo = {}
    /\ watcher' = [watcher EXCEPT !.pc = "asleep", !.last_status = view]
    /\ UNCHANGED <<outVars, view, feed, ops, ahead, moves, jobs>>

\* The job handlers publish on the same channel.
JobEvent ==
    /\ jobs < MaxJobs
    /\ jobs' = jobs + 1
    /\ feed' = Append(feed, [job |-> "updated"])
    /\ UNCHANGED <<outVars, view, watcher, ops, ahead, moves>>

\* stream_ops_events: a client subscribes.  Nothing is replayed to it.
StreamOps ==
    /\ ~ops.there
    /\ ops' = [ops EXCEPT !.there = TRUE, !.pos = Len(feed)]
    /\ UNCHANGED <<outVars, view, watcher, feed, ahead, moves, jobs>>

\* What the watcher has of every peer: nothing before its baseline, what it
\* compares with next, and in a poll the table, but for what is still to publish.
Compared == [p \in Peer |-> IF watcher.pc = "poll" /\ p \notin watcher.todo
                              THEN view[p] ELSE watcher.last_status[p]]

\* get_nodes: the client, subscribed, lists the table, at any time and again.
GetNodes ==
    /\ ops.there
    /\ ops' = [ops EXCEPT !.told = view]
    /\ ahead' = {p \in Peer : view[p] # Compared[p]}
    /\ UNCHANGED <<outVars, view, watcher, feed, moves, jobs>>

OpsReceive_EndsAtJob ==
    /\ ops.there
    /\ Ready(feed, ops)
    /\ LET e == feed[ops.pos + 1]
       IN  /\ "node" \in DOMAIN e
           /\ ops' = [ops EXCEPT !.pos = @ + 1, !.told[e.node] = e.status]
    /\ UNCHANGED <<outVars, view, watcher, feed, ahead, moves, jobs>>
OpsReceive ==
    /\ ops.there
    /\ \/ /\ Behind(feed, ops)
          /\ ops' = [ops EXCEPT !.pos = Dropped(feed), !.lagged = TRUE]
       \/ /\ Ready(feed, ops)
          /\ LET e == feed[ops.pos + 1]
             IN  ops' = [ops EXCEPT !.pos = @ + 1,
                           !.told = IF "node" \in DOMAIN e
                                      THEN [@ EXCEPT ![e.node] = e.status] ELSE @]
    /\ UNCHANGED <<outVars, view, watcher, feed, ahead, moves, jobs>>

-----------------------------------------------------------------------------

Executor(t) == OpenChannel(t) \/ SpawnFails(t) \/ Spawn(t) \/ ChildExits(t)
                 \/ RecordResult(t)
                 \/ \E s \in Stream : ChildWrites(t, s) \/ Pump(t, s) \/ PumpFails(t, s)
Watcher     == Baseline \/ Poll \/ PollEnds \/ \E p \in Peer : Announce(p)

Next ==
    \/ \E t \in Launch : Executor(t)
    \/ \E l \in Listener : StreamOutput(l) \/ OutputReceive(l)
    \/ Watcher
    \/ \E p \in Peer, status \in Status : TableMoves(p, status)
    \/ JobEvent \/ StreamOps \/ GetNodes \/ OpsReceive

Spec == Init /\ [][Next]_vars

\* tokio runs the watcher, whose sleep ends, and the stream of a client that reads.
FairSpec == Spec /\ WF_vars(Watcher) /\ WF_vars(OpsReceive)

-----------------------------------------------------------------------------
(* Properties *)

\* Every variable has its type.
TypeOK ==
    /\ chans \in Seq(Seq(Line)) /\ current \in 0..Len(chans)
    /\ task \in [Launch -> [pc : {"queued", "opened", "running", "exited", "recorded"},
                            chan : 0..Len(chans),
                            written : [Stream -> Nat],
                            sent : [Stream -> Nat],
                            broken : SUBSET Stream]]
    /\ \A t \in Launch, s \in Stream : task[t].sent[s] <= task[t].written[s]
    /\ reader \in [Listener -> [chan : 0..Len(chans), pos : Nat, lagged : BOOLEAN,
                                heard : Seq(Line), joined : Nat]]
    /\ produced \in Seq(Line)
    /\ view \in [Peer -> Status] /\ ahead \in SUBSET Peer
    /\ watcher \in [pc : {"start", "asleep", "poll"}, last_status : [Peer -> Status \cup {"untold"}],
                    todo : SUBSET Peer]
    /\ feed \in Seq(OpsEvent)
    /\ ops \in [there : BOOLEAN, pos : Nat, lagged : BOOLEAN,
                told : [Peer -> Status \cup {"untold"}]]
    /\ moves \in 0..MaxMoves /\ jobs \in 0..MaxJobs

\* Whoever comes first, client or executor, makes the channel, and every launch
\* and every client of the job uses that one: a client that never fell behind
\* has heard, or has still to read, every line sent since it subscribed, in order.
NothingMissed ==
    \A l \in Listener : reader[l] # NotThere /\ ~reader[l].lagged =>
        reader[l].heard
            \o SubSeq(chans[reader[l].chan], reader[l].pos + 1, Len(chans[reader[l].chan]))
          = SubSeq(produced, reader[l].joined + 1, Len(produced))

\* The result of a job is recorded after the last line its pumps send: a client
\* that subscribed before the job started, kept up and has read all there is when
\* a launch is recorded as finished has heard, of each pipe, all the command wrote
\* to it, or all that was sent before a read of the pipe failed.
ResultAfterOutput ==
    \A l \in Listener, t \in Launch :
        LET r == reader[l]
        IN  /\ r # NotThere /\ ~r.lagged /\ r.joined = 0
            /\ r.pos = Len(chans[r.chan])
            /\ task[t].pc = "recorded"
            => \A s \in Stream :
                 LET all == IF s \in task[t].broken THEN task[t].sent ELSE task[t].written
                 IN  \A n \in 1..all[s] : \E i \in 1..Len(r.heard) :
                        r.heard[i] = [from |-> t, stream |-> s, nr |-> n]

\* Between polls a client that kept up, whenever it subscribed and listed the
\* nodes, has of every peer the status the watcher compares with next: so the next
\* change is an event to it.  It has none of a peer it was never told of, and one
\* the watcher never had of a peer whose status came and went between two polls.
FeedTracksWatcher ==
    /\ ops.there /\ ~ops.lagged /\ ops.pos = Len(feed)
    /\ watcher.pc = "asleep"
    => \A p \in Peer \ ahead : ops.told[p] \in {"untold", watcher.last_status[p]}

\* Once the table stops changing, a client that keeps up with the feed has the
\* statuses of the table, of the peers it was told of: but for a peer it listed
\* with a status that was gone before the watcher looked.
FeedCatchesUp ==
    \A p \in Peer : <>[](ops.there /\ ~ops.lagged /\ p \notin ahead
                           => ops.told[p] \in {"untold", view[p]})
=============================================================================
