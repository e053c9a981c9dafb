------------------------- MODULE LiveStreamsProofs -------------------------
(***************************************************************************)
(* Proofs about the live feeds (LiveStreams), for any number of launches,  *)
(* clients and peers and any channel capacity: the types, that a client of *)
(* the job output who kept up misses nothing and has all of it when the    *)
(* result is recorded, and that the operations feed keeps a client at one  *)
(* with the watcher, but for what only a list of the nodes showed it.      *)
(***************************************************************************)
EXTENDS LiveStreams, SequenceTheorems, TLAPS

\* The records of the executor tasks and of the output clients, for one channel.
Task   == [pc : {"queued", "opened", "running", "exited", "recorded"}, chan : 0..1,
           written : [Stream -> Nat], sent : [Stream -> Nat], broken : SUBSET Stream]
Client == [chan : 0..1, pos : Nat, lagged : BOOLEAN, heard : Seq(Line), joined : Nat]

-----------------------------------------------------------------------------
(* One channel *)

\* The job has one output channel from the first lookup on, which carries
\* every line, and whoever has looked it up holds that one.
OneChannel ==
    /\ \/ chans = <<>> /\ current = 0 /\ produced = <<>>
       \/ chans = <<produced>> /\ current = 1
    /\ task \in [Launch -> Task]
    /\ reader \in [Listener -> Client]
    /\ produced \in Seq(Line)
    /\ \A t \in Launch : task[t].pc # "queued" => task[t].chan = 1 /\ current = 1
    /\ \A l \in Listener : reader[l] # NotThere => reader[l].chan = 1 /\ current = 1

-----------------------------------------------------------------------------
\* or_insert_with: whoever comes first, the channel is the one with all lines.
LEMMA ChannelLookup ==
    ASSUME OneChannel
    PROVE  /\ ChannelOf.current = 1
           /\ ChannelOf.chans = <<produced>>
<1>1. CASE chans = <<>> /\ current = 0 /\ produced = <<>>
  <2>1. ChannelOf = [chans |-> Append(chans, <<>>), current |-> Len(chans) + 1]
    BY <1>1 DEF ChannelOf
  <2>2. Append(<<>>, <<>>) = <<(<<>>)>> /\ Len(<<>>) = 0
    OBVIOUS
  <2> QED
    BY <2>1, <2>2, <1>1
<1>2. CASE chans = <<produced>> /\ current = 1
  BY <1>2 DEF ChannelOf
<1> QED
  BY <1>1, <1>2 DEF OneChannel

\* A send of a task that has looked its channel up goes to that channel.
LEMMA SendIs ==
    ASSUME OneChannel, NEW t \in Launch, task[t].pc # "queued", NEW line, Send(t, line)
    PROVE  /\ current = 1 /\ chans = <<produced>>
           /\ chans' = <<produced'>>
           /\ produced' = Append(produced, line)
<1>1. task[t].chan = 1 /\ current = 1 /\ chans = <<produced>>
  BY DEF OneChannel
<1>2. chans' = [chans EXCEPT ![1] = Append(chans[1], line)] /\ produced' = Append(produced, line)
  BY <1>1 DEF Send
<1>3. [<<produced>> EXCEPT ![1] = Append(produced, line)] = <<Append(produced, line)>>
  OBVIOUS
<1> QED
  BY <1>1, <1>2, <1>3

\* The steps of the output side, by what they do to the lines sent.
Quiet == UNCHANGED <<chans, current, produced>>

\* What the client of a channel takes next is the next line sent.
LEMMA ReceiveIs ==
    ASSUME OneChannel, NEW l \in Listener, OutputReceive(l)
    PROVE  /\ reader[l] # NotThere /\ current = 1 /\ Quiet /\ task' = task
           /\ \/ /\ Behind(produced, reader[l])
                 /\ reader' = [reader EXCEPT ![l].pos = Dropped(produced), ![l].lagged = TRUE]
              \/ /\ Ready(produced, reader[l])
                 /\ reader' = [reader EXCEPT ![l].pos = @ + 1,
                                 ![l].heard = Append(@, produced[reader[l].pos + 1])]
<1>1. reader[l] # NotThere /\ Quiet /\ task' = task
  BY DEF OutputReceive, Quiet
<1>2. reader[l].chan = 1 /\ current = 1 /\ chans = <<produced>>
  BY <1>1 DEF OneChannel
<1>3. chans[reader[l].chan] = produced
  BY <1>2
<1> QED
  BY <1>1, <1>2, <1>3 DEF OutputReceive

\* Counting the messages that are gone.
LEMMA DroppedIs ==
    ASSUME NEW q \in Seq(Line)
    PROVE  Dropped(q) \in Nat /\ Dropped(q) <= Len(q)
<1>1. Len(q) \in Nat
  OBVIOUS
<1> QED
  BY <1>1, CapacityAssumption DEF Dropped

-----------------------------------------------------------------------------
\* No channel at first, and nobody who uses one.
LEMMA OneChannelInit == ASSUME Init PROVE OneChannel
<1>1. chans = <<>> /\ current = 0 /\ produced = <<>>
  BY DEF Init
<1>2. task \in [Launch -> Task] /\ \A t \in Launch : task[t].pc = "queued"
  BY DEF Init, Task, Stream
<1>3. NotThere \in Client
  BY DEF NotThere, Client
<1>4. reader \in [Listener -> Client] /\ \A l \in Listener : reader[l] = NotThere
  BY <1>3 DEF Init
<1>5. produced \in Seq(Line)
  BY <1>1
<1> QED
  BY <1>1, <1>2, <1>4, <1>5 DEF OneChannel

\* The records of the tasks, as the executor's steps change them.
LEMMA TaskRecords ==
    ASSUME NEW r \in Task
    PROVE  /\ \A p \in {"opened", "running", "exited", "recorded"} : [r EXCEPT !.pc = p] \in Task
           /\ [r EXCEPT !.pc = "opened", !.chan = 1] \in Task
           /\ \A s \in Stream : [r EXCEPT !.written[s] = @ + 1] \in Task
           /\ \A s \in Stream : [r EXCEPT !.sent[s] = @ + 1] \in Task
           /\ \A s \in Stream : [r EXCEPT !.broken = @ \cup {s}] \in Task
<1>1. ASSUME NEW s \in Stream
      PROVE  /\ [r.written EXCEPT ![s] = @ + 1] \in [Stream -> Nat]
             /\ [r.sent EXCEPT ![s] = @ + 1] \in [Stream -> Nat]
  BY DEF Task
<1>2. ASSUME NEW s \in Stream
      PROVE  /\ [r EXCEPT !.written[s] = @ + 1] = [r EXCEPT !.written = [r.written EXCEPT ![s] = @ + 1]]
             /\ [r EXCEPT !.sent[s] = @ + 1] = [r EXCEPT !.sent = [r.sent EXCEPT ![s] = @ + 1]]
  BY DEF Task
<1>3. ASSUME NEW w \in [Stream -> Nat]
      PROVE  [r EXCEPT !.written = w] \in Task /\ [r EXCEPT !.sent = w] \in Task
  BY DEF Task
<1>4. /\ \A p \in {"opened", "running", "exited", "recorded"} : [r EXCEPT !.pc = p] \in Task
      /\ [r EXCEPT !.pc = "opened", !.chan = 1] \in Task
  <2>1. ASSUME NEW p \in {"queued", "opened", "running", "exited", "recorded"}, NEW c \in 0..1
        PROVE  [r EXCEPT !.pc = p] \in Task /\ [r EXCEPT !.pc = p, !.chan = c] \in Task
    BY DEF Task
  <2> QED
    BY <2>1
<1>5. ASSUME NEW s \in Stream PROVE [r EXCEPT !.written[s] = @ + 1] \in Task
  <2> DEFINE w == [r.written EXCEPT ![s] = @ + 1]
  <2>1. w \in [Stream -> Nat] /\ [r EXCEPT !.written[s] = @ + 1] = [r EXCEPT !.written = w]
    BY <1>1, <1>2
  <2> HIDE DEF w
  <2> QED
    BY <2>1, <1>3
<1>6. ASSUME NEW s \in Stream PROVE [r EXCEPT !.sent[s] = @ + 1] \in Task
  <2> DEFINE w == [r.sent EXCEPT ![s] = @ + 1]
  <2>1. w \in [Stream -> Nat] /\ [r EXCEPT !.sent[s] = @ + 1] = [r EXCEPT !.sent = w]
    BY <1>1, <1>2
  <2> HIDE DEF w
  <2> QED
    BY <2>1, <1>3
<1>7. ASSUME NEW s \in Stream PROVE [r EXCEPT !.broken = @ \cup {s}] \in Task
  BY DEF Task
<1> QED
  BY <1>4, <1>5, <1>6, <1>7

\* No step makes a second channel or uses another one.
LEMMA OneChannelNext ==
    ASSUME OneChannel, [Next]_vars
    PROVE  OneChannel'
<1>q. ASSUME Quiet, task' \in [Launch -> Task], reader' \in [Listener -> Client],
             \A t \in Launch : task'[t].pc # "queued" => task'[t].chan = 1 /\ current = 1,
             \A l \in Listener : reader'[l] # NotThere => reader'[l].chan = 1 /\ current = 1
      PROVE  OneChannel'
  BY <1>q DEF OneChannel, Quiet
<1>s. ASSUME NEW t \in Launch, NEW line \in Line, task[t].pc # "queued", Send(t, line),
             current' = current, reader' = reader, task' \in [Launch -> Task],
             \A u \in Launch : task'[u].pc # "queued" => task'[u].chan = 1
      PROVE  OneChannel'
  <2>1. current = 1 /\ chans' = <<produced'>> /\ produced' = Append(produced, line)
    BY <1>s, SendIs
  <2>2. produced' \in Seq(Line)
    BY <2>1, <1>s DEF OneChannel
  <2> QED
    BY <1>s, <2>1, <2>2 DEF OneChannel
<1>t. task \in [Launch -> Task] /\ reader \in [Listener -> Client]
  BY DEF OneChannel
<1>1. ASSUME NEW t \in Launch, OpenChannel(t) PROVE OneChannel'
  <2>1. chans' = <<produced>> /\ current' = 1 /\ produced' = produced /\ reader' = reader
    BY <1>1, ChannelLookup DEF OpenChannel, ExecutorChannel
  <2>2. task' = [task EXCEPT ![t].pc = "opened", ![t].chan = 1]
    BY <1>1, <2>1 DEF OpenChannel
  <2>3. task' \in [Launch -> Task]
    <3> DEFINE r == [task[t] EXCEPT !.pc = "opened", !.chan = 1]
    <3>1. task' = [task EXCEPT ![t] = r]
      BY <2>2, <1>t
    <3>2. r \in Task
      BY <1>t, TaskRecords
    <3> HIDE DEF r
    <3> QED
      BY <3>1, <3>2, <1>t
  <2>4. \A u \in Launch : task'[u].pc # "queued" => task'[u].chan = 1
    BY <2>2, <1>t DEF OneChannel
  <2> QED
    BY <2>1, <2>3, <2>4 DEF OneChannel
<1>2. ASSUME NEW t \in Launch, SpawnFails(t) PROVE OneChannel'
  <2>1. [from |-> t, stream |-> "executor", nr |-> 1] \in Line
    BY DEF Line
  <2>2. task' \in [Launch -> Task] /\ \A u \in Launch : task'[u].pc # "queued" => task'[u].chan = 1
    BY <1>2, <1>t DEF SpawnFails, OneChannel, Task
  <2> QED
    BY <1>2, <1>s, <2>1, <2>2 DEF SpawnFails
<1>k. ASSUME NEW t \in Launch, NEW r \in Task, task' = [task EXCEPT ![t] = r],
             task[t].pc # "queued", r.chan = task[t].chan
      PROVE  /\ task' \in [Launch -> Task]
             /\ \A u \in Launch : task'[u].pc # "queued" => task'[u].chan = 1 /\ current = 1
  BY <1>k, <1>t DEF OneChannel
<1>3. ASSUME NEW t \in Launch, Spawn(t) \/ ChildExits(t) \/ RecordResult(t) PROVE OneChannel'
  <2>1. PICK p \in {"running", "exited", "recorded"} : task' = [task EXCEPT ![t].pc = p]
    BY <1>3 DEF Spawn, ChildExits, RecordResult
  <2>2. Quiet /\ reader' = reader /\ task[t].pc # "queued"
    BY <1>3 DEF Spawn, ChildExits, RecordResult, Quiet
  <2> DEFINE r == [task[t] EXCEPT !.pc = p]
  <2>3. r \in Task /\ r.chan = task[t].chan
    <3>1. r \in Task
      BY <1>t, TaskRecords
    <3>2. r.chan = task[t].chan
      BY <1>t DEF Task
    <3> QED
      BY <3>1, <3>2
  <2>4. task' = [task EXCEPT ![t] = r]
    BY <2>1, <1>t
  <2> HIDE DEF r
  <2> QED
    BY <1>k, <1>q, <1>t, <2>2, <2>3, <2>4 DEF OneChannel
<1>4. ASSUME NEW t \in Launch, NEW s \in Stream, ChildWrites(t, s) PROVE OneChannel'
  <2> DEFINE r == [task[t] EXCEPT !.written[s] = @ + 1]
  <2>1. task' = [task EXCEPT ![t] = r]
    BY <1>4, <1>t DEF ChildWrites
  <2>2. Quiet /\ reader' = reader /\ task[t].pc # "queued"
    BY <1>4 DEF ChildWrites, Quiet
  <2>3. r \in Task /\ r.chan = task[t].chan
    <3>1. r \in Task
      BY <1>t, TaskRecords
    <3>2. r.chan = task[t].chan
      BY <1>t DEF Task
    <3> QED
      BY <3>1, <3>2
  <2> HIDE DEF r
  <2> QED
    BY <1>k, <1>q, <1>t, <2>1, <2>2, <2>3 DEF OneChannel
<1>5. ASSUME NEW t \in Launch, NEW s \in Stream, Pump(t, s) PROVE OneChannel'
  <2>1. [from |-> t, stream |-> s, nr |-> task[t].sent[s] + 1] \in Line
    BY <1>t DEF Line, Task
  <2>2. task' \in [Launch -> Task] /\ \A u \in Launch : task'[u].pc # "queued" => task'[u].chan = 1
    <3> DEFINE r == [task[t] EXCEPT !.sent[s] = @ + 1]
    <3>1. task' = [task EXCEPT ![t] = r] /\ task[t].pc # "queued"
      BY <1>5, <1>t DEF Pump
    <3>2. r \in Task /\ r.chan = task[t].chan
      <4>1. r \in Task
        BY <1>t, TaskRecords
      <4>2. r.chan = task[t].chan
        BY <1>t DEF Task
      <4> QED
        BY <4>1, <4>2
    <3> HIDE DEF r
    <3> QED
      BY <1>k, <3>1, <3>2
  <2> QED
    BY <1>5, <1>s, <2>1, <2>2 DEF Pump
<1>9. ASSUME NEW t \in Launch, NEW s \in Stream, PumpFails(t, s) PROVE OneChannel'
  <2> DEFINE r == [task[t] EXCEPT !.broken = @ \cup {s}]
  <2>1. task' = [task EXCEPT ![t] = r]
    BY <1>9, <1>t DEF PumpFails
  <2>2. Quiet /\ reader' = reader /\ task[t].pc # "queued"
    BY <1>9 DEF PumpFails, Quiet
  <2>3. r \in Task /\ r.chan = task[t].chan
    <3>1. r \in Task
      BY <1>t, TaskRecords
    <3>2. r.chan = task[t].chan
      BY <1>t DEF Task
    <3> QED
      BY <3>1, <3>2
  <2> HIDE DEF r
  <2> QED
    BY <1>k, <1>q, <1>t, <2>1, <2>2, <2>3 DEF OneChannel
<1>6. ASSUME NEW l \in Listener, StreamOutput(l) PROVE OneChannel'
  <2>1. chans' = <<produced>> /\ current' = 1 /\ produced' = produced /\ task' = task
    BY <1>6, ChannelLookup DEF StreamOutput
  <2>2. reader' = [reader EXCEPT ![l] = [chan |-> 1, pos |-> Len(produced), lagged |-> FALSE,
                                         heard |-> <<>>, joined |-> Len(produced)]]
    <3>1. <<produced>>[1] = produced
      OBVIOUS
    <3> QED
      BY <1>6, <2>1, <3>1 DEF StreamOutput
  <2>3. Len(produced) \in Nat
    BY DEF OneChannel
  <2>4. reader' \in [Listener -> Client]
    BY <2>2, <2>3, <1>t DEF Client
  <2>5. \A m \in Listener : reader'[m] # NotThere => reader'[m].chan = 1
    BY <2>2, <1>t DEF OneChannel
  <2> QED
    BY <2>1, <2>4, <2>5 DEF OneChannel
<1>7. ASSUME NEW l \in Listener, OutputReceive(l) PROVE OneChannel'
  <2>1. PICK p, g, h : reader' = [reader EXCEPT ![l].pos = p, ![l].lagged = g, ![l].heard = h]
                       /\ p \in Nat /\ g \in BOOLEAN /\ h \in Seq(Line)
    <3>1. CASE /\ Behind(produced, reader[l])
               /\ reader' = [reader EXCEPT ![l].pos = Dropped(produced), ![l].lagged = TRUE]
      <4>1. reader' = [reader EXCEPT ![l].pos = Dropped(produced), ![l].lagged = TRUE,
                                     ![l].heard = reader[l].heard]
        BY <3>1, <1>t
      <4> QED
        BY <4>1, <1>t, DroppedIs DEF OneChannel, Client
    <3>2. CASE /\ Ready(produced, reader[l])
               /\ reader' = [reader EXCEPT ![l].pos = @ + 1,
                               ![l].heard = Append(@, produced[reader[l].pos + 1])]
      <4>1. reader' = [reader EXCEPT ![l].pos = reader[l].pos + 1, ![l].lagged = reader[l].lagged,
                               ![l].heard = Append(reader[l].heard, produced[reader[l].pos + 1])]
        BY <3>2, <1>t
      <4>2. reader[l].pos + 1 \in 1..Len(produced)
        BY <3>2, <1>t DEF Ready, OneChannel, Client
      <4>3. produced[reader[l].pos + 1] \in Line
        BY <4>2 DEF OneChannel
      <4>4. Append(reader[l].heard, produced[reader[l].pos + 1]) \in Seq(Line)
        BY <4>3, <1>t DEF Client
      <4>5. reader[l].pos + 1 \in Nat /\ reader[l].lagged \in BOOLEAN
        BY <1>t DEF Client
      <4> QED
        BY <4>1, <4>4, <4>5
    <3> QED
      BY <1>7, ReceiveIs, <3>1, <3>2
  <2>2. reader' \in [Listener -> Client] /\ \A m \in Listener : reader'[m].chan = reader[m].chan
    BY <2>1, <1>t DEF Client
  <2>3. Quiet /\ task' = task /\ reader[l] # NotThere /\ current = 1 /\ reader[l].chan = 1
    BY <1>7, ReceiveIs DEF OneChannel
  <2>4. \A m \in Listener : m # l => reader'[m] = reader[m]
    BY <2>1, <1>t
  <2> QED
    BY <1>q, <1>t, <2>2, <2>3, <2>4 DEF OneChannel
<1>8. ASSUME UNCHANGED outVars PROVE OneChannel'
  BY <1>8 DEF OneChannel, outVars
<1> QED
  BY <1>1, <1>2, <1>3, <1>4, <1>5, <1>6, <1>7, <1>8, <1>9
     DEF Next, Executor, Watcher, vars, outVars, Baseline, Poll, PollEnds, Announce,
         TableMoves, JobEvent, StreamOps, GetNodes, OpsReceive

-----------------------------------------------------------------------------
(* The output a client hears *)

\* A client has taken the lines from where it joined to where it is, unless it
\* skipped some.
HeardSoFar ==
    \A l \in Listener : reader[l] # NotThere =>
        /\ reader[l].joined <= reader[l].pos /\ reader[l].pos <= Len(produced)
        /\ ~reader[l].lagged =>
             /\ Len(reader[l].heard) = reader[l].pos - reader[l].joined
             /\ \A i \in 1..Len(reader[l].heard) :
                   reader[l].heard[i] = produced[reader[l].joined + i]

\* A task sends what its child wrote, and records the result when each pump has
\* sent it all or has failed.
SentSoFar ==
    \A t \in Launch :
        /\ \A s \in Stream : task[t].sent[s] <= task[t].written[s]
        /\ task[t].pc = "queued" => task[t].chan = 0
        /\ task[t].pc \in {"queued", "opened"} => \A s \in Stream : task[t].written[s] = 0
        /\ task[t].pc = "recorded" =>
             \A s \in Stream : s \in task[t].broken \/ task[t].sent[s] = task[t].written[s]
        /\ \A s \in Stream : \A n \in 1..task[t].sent[s] :
             \E i \in 1..Len(produced) : produced[i] = [from |-> t, stream |-> s, nr |-> n]

\* The invariant of the output side.
OutputInv == OneChannel /\ HeardSoFar /\ SentSoFar

\* Nothing sent and nothing heard at first.
LEMMA HeardInit == ASSUME Init PROVE HeardSoFar /\ SentSoFar
<1>1. HeardSoFar
  BY DEF Init, HeardSoFar
<1>2. \A t \in Launch : /\ task[t].pc = "queued" /\ task[t].chan = 0
                       /\ \A s \in Stream : task[t].written[s] = 0 /\ task[t].sent[s] = 0
  BY DEF Init
<1> QED
  BY <1>1, <1>2 DEF SentSoFar

\* The lines sent stay where they are, and new ones come after them.
Grows == /\ Len(produced) <= Len(produced')
         /\ \A i \in 1..Len(produced) : produced'[i] = produced[i]

\* Only spawn_job sends lines, one at a time, at the end.
LEMMA ProducedGrows == ASSUME OneChannel, [Next]_vars PROVE Grows
<1>0. produced \in Seq(Line) /\ Len(produced) \in Nat
  BY DEF OneChannel
<1>1. ASSUME produced' = produced PROVE Grows
  BY <1>0, <1>1 DEF Grows
<1>2. ASSUME NEW line \in Line, produced' = Append(produced, line) PROVE Grows
  <2>1. /\ Len(produced') = Len(produced) + 1
        /\ \A i \in 1..Len(produced) : produced'[i] = produced[i]
    BY <1>0, <1>2
  <2> QED
    BY <2>1, <1>0 DEF Grows
<1>3. ASSUME NEW t \in Launch, SpawnFails(t) PROVE Grows
  <2>1. [from |-> t, stream |-> "executor", nr |-> 1] \in Line
    BY DEF Line
  <2> QED
    BY <1>2, <1>3, <2>1 DEF SpawnFails, Send
<1>4. ASSUME NEW t \in Launch, NEW s \in Stream, Pump(t, s) PROVE Grows
  <2>1. [from |-> t, stream |-> s, nr |-> task[t].sent[s] + 1] \in Line
    BY DEF Line, OneChannel, Task
  <2> QED
    BY <1>2, <1>4, <2>1 DEF Pump, Send
<1> QED
  BY <1>1, <1>3, <1>4
     DEF Next, Executor, Watcher, vars, outVars, Baseline, Poll, PollEnds, Announce, OpenChannel,
         Spawn, ChildExits, RecordResult, ChildWrites, PumpFails, StreamOutput, OutputReceive,
         TableMoves, JobEvent, StreamOps, GetNodes, OpsReceive

\* Every step keeps what the clients heard in line with what was sent.
LEMMA HeardNext ==
    ASSUME OneChannel, HeardSoFar, [Next]_vars
    PROVE  HeardSoFar'
<1> DEFINE Ok(r, q) == /\ r.joined <= r.pos /\ r.pos <= Len(q)
                       /\ ~r.lagged =>
                            /\ Len(r.heard) = r.pos - r.joined
                            /\ \A i \in 1..Len(r.heard) : r.heard[i] = q[r.joined + i]
<1>t. reader \in [Listener -> Client] /\ produced \in Seq(Line) /\ Len(produced) \in Nat
  BY DEF OneChannel
<1>p. produced' \in Seq(Line) /\ Len(produced') \in Nat
  BY OneChannelNext DEF OneChannel
<1>g. ASSUME NEW r \in Client, Ok(r, produced) PROVE Ok(r, produced')
  <2>1. Grows
    BY ProducedGrows
  <2>2. r.joined \in Nat /\ r.pos \in Nat /\ r.heard \in Seq(Line) /\ Len(r.heard) \in Nat
    BY DEF Client
  <2>3. r.joined <= r.pos /\ r.pos <= Len(produced')
    BY <1>g, <1>t, <1>p, <2>1, <2>2 DEF Grows
  <2>4. ASSUME ~r.lagged, NEW i \in 1..Len(r.heard) PROVE r.heard[i] = produced'[r.joined + i]
    <3>1. Len(r.heard) = r.pos - r.joined /\ r.heard[i] = produced[r.joined + i]
      BY <1>g, <2>4
    <3>2. r.joined + i \in 1..Len(produced)
      BY <3>1, <1>g, <1>t, <2>2
    <3> QED
      BY <3>1, <3>2, <2>1 DEF Grows
  <2> QED
    BY <1>g, <2>3, <2>4
<1>o. \A l \in Listener : reader[l] # NotThere => Ok(reader[l], produced')
  BY <1>g, <1>t DEF HeardSoFar
<1>s. SUFFICES ASSUME NEW l \in Listener, reader'[l] # NotThere
               PROVE  Ok(reader'[l], produced')
  BY DEF HeardSoFar
<1> HIDE DEF Ok
<1>1. CASE reader'[l] = reader[l]
  BY <1>1, <1>o, <1>s
<1>2. CASE StreamOutput(l)
  <2>1. chans' = <<produced>> /\ current' = 1 /\ produced' = produced
    BY <1>2, ChannelLookup DEF StreamOutput
  <2>2. reader'[l] = [chan |-> 1, pos |-> Len(produced), lagged |-> FALSE,
                      heard |-> <<>>, joined |-> Len(produced)]
    <3>1. <<produced>>[1] = produced
      OBVIOUS
    <3> QED
      BY <1>2, <2>1, <3>1, <1>t DEF StreamOutput
  <2> QED
    BY <2>1, <2>2, <1>t DEF Ok
<1>3. CASE OutputReceive(l)
  <2>0. reader[l] # NotThere /\ produced' = produced /\ Ok(reader[l], produced)
    BY <1>3, ReceiveIs, <1>o DEF Quiet
  <2>1. CASE Behind(produced, reader[l]) /\ reader' = [reader EXCEPT ![l].pos = Dropped(produced), ![l].lagged = TRUE]
    <3>1. reader'[l].pos = Dropped(produced) /\ reader'[l].lagged = TRUE /\ reader'[l].joined = reader[l].joined
      BY <2>1, <1>t DEF Client
    <3>2. Dropped(produced) \in Nat /\ Dropped(produced) <= Len(produced)
      BY DroppedIs, <1>t
    <3>3. reader[l].joined \in Nat /\ reader[l].pos \in Nat
      BY <1>t DEF Client
    <3>4. reader[l].joined <= Dropped(produced)
      BY <2>0, <2>1, <3>2, <3>3 DEF Behind, Ok
    <3> QED
      BY <2>0, <3>1, <3>2, <3>4 DEF Ok
  <2>2. CASE /\ Ready(produced, reader[l])
             /\ reader' = [reader EXCEPT ![l].pos = @ + 1,
                             ![l].heard = Append(@, produced[reader[l].pos + 1])]
    <3> DEFINE r == reader[l]
    <3>1. /\ reader'[l].pos = r.pos + 1 /\ reader'[l].lagged = r.lagged
          /\ reader'[l].joined = r.joined /\ reader'[l].heard = Append(r.heard, produced[r.pos + 1])
      BY <2>2, <1>t DEF Client
    <3>2. r.joined \in Nat /\ r.pos \in Nat /\ r.heard \in Seq(Line) /\ Len(r.heard) \in Nat
      BY <1>t DEF Client
    <3>3. r.pos < Len(produced) /\ r.joined <= r.pos
      BY <2>0, <2>2, <3>2 DEF Ready, Ok
    <3>4. r.pos + 1 \in 1..Len(produced)
      BY <3>2, <3>3, <1>t
    <3>5. produced[r.pos + 1] \in Line
      BY <3>4, <1>t
    <3>6. ASSUME ~r.lagged
          PROVE  /\ Len(reader'[l].heard) = r.pos + 1 - r.joined
                 /\ \A i \in 1..Len(reader'[l].heard) : reader'[l].heard[i] = produced[r.joined + i]
      <4>1. Len(r.heard) = r.pos - r.joined /\ \A i \in 1..Len(r.heard) : r.heard[i] = produced[r.joined + i]
        BY <2>0, <3>6 DEF Ok
      <4>2. /\ Len(reader'[l].heard) = Len(r.heard) + 1
            /\ \A i \in 1..Len(r.heard) : reader'[l].heard[i] = r.heard[i]
            /\ reader'[l].heard[Len(r.heard) + 1] = produced[r.pos + 1]
        BY <3>1, <3>2, <3>5
      <4>3. r.joined + (Len(r.heard) + 1) = r.pos + 1
        BY <4>1, <3>2
      <4>4. Len(reader'[l].heard) = r.pos + 1 - r.joined
        BY <4>1, <4>2, <3>2
      <4>5. ASSUME NEW i \in 1..Len(reader'[l].heard)
            PROVE  reader'[l].heard[i] = produced[r.joined + i]
        <5>1. i \in 1..Len(r.heard) \/ i = Len(r.heard) + 1
          BY <4>2, <3>2
        <5> QED
          BY <5>1, <4>1, <4>2, <4>3
      <4> QED
        BY <4>4, <4>5
    <3>7. r.joined <= r.pos + 1 /\ r.pos + 1 <= Len(produced)
      BY <3>2, <3>3, <1>t
    <3>8. ~r.lagged => /\ Len(reader'[l].heard) = reader'[l].pos - reader'[l].joined
                       /\ \A i \in 1..Len(reader'[l].heard) :
                             reader'[l].heard[i] = produced'[reader'[l].joined + i]
      <4>1. reader'[l].joined = r.joined /\ reader'[l].pos = r.pos + 1 /\ produced' = produced
        BY <3>1, <2>0
      <4>2. ASSUME ~r.lagged PROVE Len(reader'[l].heard) = reader'[l].pos - reader'[l].joined
        BY <4>1, <4>2, <3>6, <3>2
      <4>3. ASSUME ~r.lagged, NEW i \in 1..Len(reader'[l].heard)
            PROVE  reader'[l].heard[i] = produced'[reader'[l].joined + i]
        BY <4>1, <4>3, <3>6
      <4> QED
        BY <4>2, <4>3
    <3>9. /\ reader'[l].joined <= reader'[l].pos /\ reader'[l].pos <= Len(produced')
          /\ reader'[l].lagged = r.lagged
      BY <3>1, <3>7, <2>0
    <3> HIDE DEF r
    <3> QED
      BY <3>8, <3>9 DEF Ok
  <2> QED
    BY <1>3, ReceiveIs, <2>1, <2>2
<1>4. CASE \E m \in Listener : m # l /\ (StreamOutput(m) \/ OutputReceive(m))
  <2>1. PICK m \in Listener : m # l /\ (StreamOutput(m) \/ OutputReceive(m))
    BY <1>4
  <2>2. reader'[l] = reader[l]
    BY <2>1, <1>t DEF StreamOutput, OutputReceive
  <2> QED
    BY <2>2, <1>1
<1> QED
  BY <1>1, <1>2, <1>3, <1>4
     DEF Next, Executor, Watcher, vars, outVars, Baseline, Poll, PollEnds, Announce, OpenChannel,
         SpawnFails, Spawn, ChildExits, RecordResult, ChildWrites, Pump, PumpFails,
         TableMoves, JobEvent, StreamOps, GetNodes, OpsReceive

\* Every step keeps what the tasks sent in line with what the children wrote.
LEMMA SentNext ==
    ASSUME OneChannel, SentSoFar, [Next]_vars
    PROVE  SentSoFar'
<1> DEFINE Sent(q, t, s, n) ==
             \E i \in 1..Len(q) : q[i] = [from |-> t, stream |-> s, nr |-> n]
<1> DEFINE Ok(q, t, r) ==
             /\ \A s \in Stream : r.sent[s] <= r.written[s]
             /\ r.pc = "queued" => r.chan = 0
             /\ r.pc \in {"queued", "opened"} => \A s \in Stream : r.written[s] = 0
             /\ r.pc = "recorded" => \A s \in Stream : s \in r.broken \/ r.sent[s] = r.written[s]
             /\ \A s \in Stream : \A n \in 1..r.sent[s] : Sent(q, t, s, n)
<1>t. task \in [Launch -> Task] /\ produced \in Seq(Line) /\ Len(produced) \in Nat
  BY DEF OneChannel
<1>p. produced' \in Seq(Line) /\ Len(produced') \in Nat
  BY OneChannelNext DEF OneChannel
<1>e. ASSUME NEW t, NEW s, NEW n, Sent(produced, t, s, n) PROVE Sent(produced', t, s, n)
  BY <1>e, <1>t, <1>p, ProducedGrows DEF Grows
<1>i. \A t \in Launch : Ok(produced, t, task[t])
  BY DEF SentSoFar
<1>j. SUFFICES \A t \in Launch : Ok(produced', t, task'[t])
  BY DEF SentSoFar
<1> HIDE DEF Sent
<1>g. ASSUME NEW t \in Launch, NEW r, Ok(produced, t, r) PROVE Ok(produced', t, r)
  BY <1>e, <1>g
<1>k. ASSUME NEW t \in Launch, NEW r, task' = [task EXCEPT ![t] = r], Ok(produced', t, r)
      PROVE  \A u \in Launch : Ok(produced', u, task'[u])
  <2> HIDE DEF Ok
  <2> TAKE u \in Launch
  <2>1. CASE u = t
    BY <2>1, <1>k, <1>t
  <2>2. CASE u # t
    <3>1. task'[u] = task[u]
      BY <2>2, <1>k, <1>t
    <3> QED
      BY <3>1, <1>g, <1>i
  <2> QED
    BY <2>1, <2>2
<1>1. ASSUME task' = task PROVE \A u \in Launch : Ok(produced', u, task'[u])
  <2> HIDE DEF Ok
  <2> QED
    BY <1>1, <1>g, <1>i
\* A step that leaves the counts alone.
<1>c. ASSUME NEW t \in Launch, NEW r \in Task, task' = [task EXCEPT ![t] = r],
             r.written = task[t].written, r.sent = task[t].sent,
             r.pc # "queued", r.pc = "opened" => task[t].pc = "queued",
             r.pc = "recorded" => \A s \in Stream : s \in r.broken \/ r.sent[s] = r.written[s]
      PROVE  \A u \in Launch : Ok(produced', u, task'[u])
  <2>1. Ok(produced', t, task[t])
    BY <1>g, <1>i
  <2>2. Ok(produced', t, r)
    BY <2>1, <1>c
  <2> HIDE DEF Ok
  <2> QED
    BY <2>2, <1>c, <1>k
<1>2. ASSUME NEW t \in Launch, OpenChannel(t) PROVE \A u \in Launch : Ok(produced', u, task'[u])
  <2>1. current' = 1
    BY <1>2, ChannelLookup DEF OpenChannel, ExecutorChannel
  <2> DEFINE r == [task[t] EXCEPT !.pc = "opened", !.chan = 1]
  <2>2. task' = [task EXCEPT ![t] = r] /\ task[t].pc = "queued"
    BY <1>2, <2>1, <1>t DEF OpenChannel
  <2>3. r \in Task
    BY <1>t, TaskRecords
  <2>4. r.written = task[t].written /\ r.sent = task[t].sent /\ r.pc = "opened"
    BY <1>t DEF Task
  <2> HIDE DEF r, Ok
  <2> QED
    BY <1>c, <2>2, <2>3, <2>4
<1>3. ASSUME NEW t \in Launch, SpawnFails(t) \/ Spawn(t) \/ ChildExits(t) \/ RecordResult(t)
      PROVE  \A u \in Launch : Ok(produced', u, task'[u])
  <2>1. PICK p \in {"running", "exited", "recorded"} :
          /\ task' = [task EXCEPT ![t].pc = p]
          /\ p = "recorded" => task[t].pc = "opened" \/ Pumped(t)
    BY <1>3 DEF SpawnFails, Spawn, ChildExits, RecordResult
  <2> DEFINE r == [task[t] EXCEPT !.pc = p]
  <2>2. task' = [task EXCEPT ![t] = r]
    BY <2>1, <1>t
  <2>3. r \in Task
    BY <1>t, TaskRecords
  <2>4. r.written = task[t].written /\ r.sent = task[t].sent /\ r.pc = p /\ r.broken = task[t].broken
    BY <1>t DEF Task
  <2>5. ASSUME r.pc = "recorded", NEW s \in Stream PROVE s \in r.broken \/ r.sent[s] = r.written[s]
    <3>1. CASE Pumped(t)
      BY <3>1, <2>4 DEF Pumped, Ended
    <3>2. CASE task[t].pc = "opened"
      <4>1. task[t].written[s] = 0 /\ task[t].sent[s] <= task[t].written[s]
        BY <3>2, <1>i
      <4>2. task[t].sent[s] \in Nat
        BY <1>t DEF Task
      <4> QED
        BY <4>1, <4>2, <2>4
    <3> QED
      BY <3>1, <3>2, <2>1, <2>4, <2>5
  <2> HIDE DEF r, Ok
  <2> QED
    BY <1>c, <2>2, <2>3, <2>4, <2>5
<1>4. ASSUME NEW t \in Launch, NEW s \in Stream, ChildWrites(t, s)
      PROVE  \A u \in Launch : Ok(produced', u, task'[u])
  <2> DEFINE r == [task[t] EXCEPT !.written[s] = @ + 1]
  <2>1. task' = [task EXCEPT ![t] = r] /\ task[t].pc \in {"running", "exited"}
    BY <1>4, <1>t DEF ChildWrites
  <2>2. /\ r.sent = task[t].sent /\ r.pc = task[t].pc
        /\ \A z \in Stream : task[t].written[z] \in Nat /\ task[t].sent[z] \in Nat
        /\ \A z \in Stream : r.written[z] = IF z = s THEN task[t].written[z] + 1 ELSE task[t].written[z]
    BY <1>t DEF Task
  <2>3. Ok(produced', t, task[t])
    BY <1>g, <1>i
  <2> HIDE DEF r
  <2>4. \A z \in Stream : r.sent[z] <= r.written[z]
    BY <2>2, <2>3
  <2>5. Ok(produced', t, r)
    BY <2>1, <2>2, <2>3, <2>4
  <2> HIDE DEF Ok
  <2> QED
    BY <2>1, <2>5, <1>k
<1>5. ASSUME NEW t \in Launch, NEW s \in Stream, Pump(t, s)
      PROVE  \A u \in Launch : Ok(produced', u, task'[u])
  <2> DEFINE r == [task[t] EXCEPT !.sent[s] = @ + 1]
  <2> DEFINE line == [from |-> t, stream |-> s, nr |-> task[t].sent[s] + 1]
  <2>1. /\ task' = [task EXCEPT ![t] = r] /\ task[t].pc \in {"running", "exited"}
        /\ task[t].sent[s] < task[t].written[s]
        /\ produced' = Append(produced, line)
    BY <1>5, <1>t DEF Pump, Send
  <2>2. /\ r.written = task[t].written /\ r.pc = task[t].pc
        /\ \A z \in Stream : task[t].written[z] \in Nat /\ task[t].sent[z] \in Nat
        /\ \A z \in Stream : r.sent[z] = IF z = s THEN task[t].sent[z] + 1 ELSE task[t].sent[z]
    BY <1>t DEF Task
  <2>3. Ok(produced', t, task[t])
    BY <1>g, <1>i
  <2>4. Sent(produced', t, s, task[t].sent[s] + 1)
    <3>1. line \in Line
      BY <2>2 DEF Line
    <3>2. Len(produced') = Len(produced) + 1 /\ produced'[Len(produced) + 1] = line
      BY <2>1, <3>1, <1>t
    <3>3. Len(produced) + 1 \in 1..Len(produced')
      BY <3>2, <1>t
    <3> QED
      BY <3>2, <3>3 DEF Sent
  <2> HIDE DEF r, line
  <2>5. \A z \in Stream : r.sent[z] <= r.written[z]
    BY <2>1, <2>2, <2>3
  <2>6. ASSUME NEW z \in Stream, NEW n \in 1..r.sent[z] PROVE Sent(produced', t, z, n)
    <3>1. n \in 1..task[t].sent[z] \/ (z = s /\ n = task[t].sent[s] + 1)
      BY <2>2
    <3> QED
      BY <3>1, <2>3, <2>4
  <2>7. Ok(produced', t, r)
    BY <2>1, <2>2, <2>5, <2>6
  <2> HIDE DEF Ok
  <2> QED
    BY <2>1, <2>7, <1>k
<1>6. ASSUME NEW t \in Launch, NEW s \in Stream, PumpFails(t, s)
      PROVE  \A u \in Launch : Ok(produced', u, task'[u])
  <2> DEFINE r == [task[t] EXCEPT !.broken = @ \cup {s}]
  <2>1. task' = [task EXCEPT ![t] = r] /\ task[t].pc \in {"running", "exited"}
    BY <1>6, <1>t DEF PumpFails
  <2>2. r \in Task
    BY <1>t, TaskRecords
  <2>3. r.written = task[t].written /\ r.sent = task[t].sent /\ r.pc = task[t].pc
    BY <1>t DEF Task
  <2> HIDE DEF r, Ok
  <2> QED
    BY <1>c, <2>1, <2>2, <2>3
<1> HIDE DEF Ok
<1> QED
  BY <1>1, <1>2, <1>3, <1>4, <1>5, <1>6
     DEF Next, Executor, Watcher, vars, outVars, Baseline, Poll, PollEnds, Announce,
         StreamOutput, OutputReceive, TableMoves, JobEvent, StreamOps, GetNodes, OpsReceive

\* The one channel carries every line, the clients follow it and the tasks fill it,
\* in every reachable state.
THEOREM OutputKept == Spec => []OutputInv
<1>1. Init => OutputInv
  BY OneChannelInit, HeardInit DEF OutputInv
<1>2. OutputInv /\ [Next]_vars => OutputInv'
  BY OneChannelNext, HeardNext, SentNext DEF OutputInv
<1> QED
  BY <1>1, <1>2, PTL DEF Spec

\* A client who kept up has heard, or has still to read, every line since it
\* subscribed, in order (spawn_job, stream_output), for every capacity.
THEOREM NothingIsMissed == Spec => []NothingMissed
<1>1. ASSUME OutputInv PROVE NothingMissed
  <2>1. SUFFICES ASSUME NEW l \in Listener, reader[l] # NotThere, ~reader[l].lagged
                 PROVE  reader[l].heard \o SubSeq(produced, reader[l].pos + 1, Len(produced))
                          = SubSeq(produced, reader[l].joined + 1, Len(produced))
    <3>1. \A l \in Listener : reader[l] # NotThere => chans[reader[l].chan] = produced
      BY <1>1 DEF OutputInv, OneChannel
    <3> QED
      BY <3>1 DEF NothingMissed
  <2> DEFINE h == reader[l].heard
             p == reader[l].pos
             j == reader[l].joined
             n == Len(produced)
             rest == SubSeq(produced, p + 1, n)
             all  == SubSeq(produced, j + 1, n)
  <2>2. /\ h \in Seq(Line) /\ p \in Nat /\ j \in Nat /\ n \in Nat /\ produced \in Seq(Line)
        /\ Len(h) \in Nat
    BY <1>1 DEF OutputInv, OneChannel, Client
  <2>3. /\ j <= p /\ p <= n /\ Len(h) = p - j
        /\ \A i \in 1..Len(h) : h[i] = produced[j + i]
    BY <1>1, <2>1 DEF OutputInv, HeardSoFar
  <2> HIDE DEF h, p, j, n
  <2>4. n = Len(produced)
    BY DEF n
  <2>5. /\ rest \in Seq(Line) /\ Len(rest) = n - p
        /\ \A i \in 1..(n - p) : rest[i] = produced[p + i]
    <3>1. \A i \in (p + 1)..n : i \in 1..Len(produced)
      BY <2>2, <2>3, <2>4
    <3>2. /\ rest \in Seq(Line)
          /\ Len(rest) = IF p + 1 <= n THEN n - (p + 1) + 1 ELSE 0
          /\ \A i \in 1..(n - (p + 1) + 1) : rest[i] = produced[(p + 1) + i - 1]
      BY <2>2, <2>3, <2>4, <3>1, SubSeqProperties
    <3> HIDE DEF rest
    <3> QED
      BY <3>2, <2>2, <2>3
  <2>6. /\ all \in Seq(Line) /\ Len(all) = n - j
        /\ \A i \in 1..(n - j) : all[i] = produced[j + i]
    <3>1. \A i \in (j + 1)..n : i \in 1..Len(produced)
      BY <2>2, <2>3, <2>4
    <3>2. /\ all \in Seq(Line)
          /\ Len(all) = IF j + 1 <= n THEN n - (j + 1) + 1 ELSE 0
          /\ \A i \in 1..(n - (j + 1) + 1) : all[i] = produced[(j + 1) + i - 1]
      BY <2>2, <2>3, <2>4, <3>1, SubSeqProperties
    <3> HIDE DEF all
    <3> QED
      BY <3>2, <2>2, <2>3
  <2> HIDE DEF rest, all
  <2> DEFINE both == h \o rest
  <2>7. both \in Seq(Line) /\ Len(both) = Len(h) + Len(rest)
    BY <2>2, <2>5, ConcatProperties
  <2>8. Len(both) = Len(all)
    BY <2>2, <2>3, <2>5, <2>6, <2>7
  <2>9. ASSUME NEW i \in 1..Len(all) PROVE both[i] = all[i]
    <3>1. all[i] = produced[j + i]
      BY <2>6, <2>9
    <3>2. CASE i <= Len(h)
      <4>1. both[i] = h[i] /\ i \in 1..Len(h)
        BY <3>2, <2>2, <2>5, <2>6
      <4> QED
        BY <4>1, <3>1, <2>3
    <3>3. CASE ~(i <= Len(h))
      <4>1. i \in Nat /\ i - Len(h) \in 1..(n - p) /\ p + (i - Len(h)) = j + i
        BY <3>3, <2>2, <2>3, <2>6
      <4>2. both[i] = rest[i - Len(h)]
        BY <4>1, <3>3, <2>2, <2>5, <2>6, <2>8
      <4> QED
        BY <4>1, <4>2, <3>1, <2>5
    <3> QED
      BY <3>2, <3>3
  <2>10. both = all
    BY <2>6, <2>7, <2>8, <2>9, SeqEqual
  <2> QED
    BY <2>10 DEF all, rest, h, p, j, n
<1> QED
  BY <1>1, OutputKept, PTL

\* The result of a launch is recorded after its last line (the joins of out_task
\* and err_task in spawn_job): a client there from the start who kept up and has
\* read all there is has heard, of each pipe of a finished launch, all that was
\* written to it, or all that was sent before a read of it failed.
THEOREM ResultsAfterOutput == Spec => []ResultAfterOutput
<1>1. ASSUME OutputInv PROVE ResultAfterOutput
  <2>1. SUFFICES ASSUME NEW l \in Listener, NEW t \in Launch,
                        reader[l] # NotThere, ~reader[l].lagged, reader[l].joined = 0,
                        reader[l].pos = Len(chans[reader[l].chan]),
                        task[t].pc = "recorded",
                        NEW s \in Stream,
                        NEW n \in 1..(IF s \in task[t].broken THEN task[t].sent
                                                            ELSE task[t].written)[s]
                 PROVE  \E i \in 1..Len(reader[l].heard) :
                           reader[l].heard[i] = [from |-> t, stream |-> s, nr |-> n]
    BY DEF ResultAfterOutput
  <2>2. chans[reader[l].chan] = produced
    BY <1>1, <2>1 DEF OutputInv, OneChannel
  <2>3. n \in 1..task[t].sent[s]
    BY <1>1, <2>1 DEF OutputInv, SentSoFar
  <2>4. PICK i \in 1..Len(produced) : produced[i] = [from |-> t, stream |-> s, nr |-> n]
    BY <1>1, <2>3 DEF OutputInv, SentSoFar
  <2>5. Len(produced) \in Nat /\ Len(reader[l].heard) = Len(produced)
        /\ \A k \in 1..Len(reader[l].heard) : reader[l].heard[k] = produced[0 + k]
    BY <1>1, <2>1, <2>2 DEF OutputInv, HeardSoFar, OneChannel
  <2>6. i \in 1..Len(reader[l].heard) /\ 0 + i = i
    BY <2>4, <2>5
  <2> QED
    BY <2>4, <2>5, <2>6
<1> QED
  BY <1>1, OutputKept, PTL

-----------------------------------------------------------------------------
(* The operations feed *)

\* The event e is about the status of peer p.
About(e, p) == "node" \in DOMAIN e /\ e.node = p

\* What the watcher, or a client, has of a peer.
Told == Status \cup {"untold"}
OpsClient == [there : BOOLEAN, pos : Nat, lagged : BOOLEAN, told : [Peer -> Told]]

\* The types of the operations side.
OpsTypes ==
    /\ view \in [Peer -> Status] /\ ahead \in SUBSET Peer
    /\ watcher \in [pc : {"start", "asleep", "poll"}, last_status : [Peer -> Told],
                    todo : SUBSET Peer]
    /\ feed \in Seq(OpsEvent)
    /\ ops \in OpsClient
    /\ ops.pos <= Len(feed)
    /\ ~ops.there => ops.told = Unknown
    /\ moves \in 0..MaxMoves /\ jobs \in 0..MaxJobs

\* Before its baseline the watcher has nothing and has published nothing.
NothingBefore ==
    watcher.pc = "start" =>
        /\ \A p \in Peer : watcher.last_status[p] = "untold"
        /\ \A i \in 1..Len(feed), p \in Peer : ~About(feed[i], p)

\* The last event about a peer carries the status the watcher has of it.
LastEventHolds ==
    \A p \in Peer, i \in 1..Len(feed) :
        /\ About(feed[i], p)
        /\ \A k \in (i + 1)..Len(feed) : ~About(feed[k], p)
        => feed[i].status = Compared[p]

\* A client who kept up has, of every peer no event is left to read about, what
\* the watcher has: unless it was told nothing, or listed more than that.
ToldWhatIsRead ==
    ops.there /\ ~ops.lagged =>
        \A p \in Peer \ ahead : (\A k \in (ops.pos + 1)..Len(feed) : ~About(feed[k], p)) =>
            ops.told[p] \in {"untold", Compared[p]}

\* The invariant of the operations side.
FeedInv == OpsTypes /\ NothingBefore /\ LastEventHolds /\ ToldWhatIsRead

\* The two kinds of events.
LEMMA EventKinds ==
    /\ \A p \in Peer, st \in Status :
         /\ [node |-> p, status |-> st] \in OpsEvent
         /\ \A q \in Peer : About([node |-> p, status |-> st], q) <=> p = q
    /\ [job |-> "updated"] \in OpsEvent
    /\ \A q \in Peer : ~About([job |-> "updated"], q)
    /\ \A e \in OpsEvent : "node" \in DOMAIN e => e.node \in Peer /\ e.status \in Status
<1>1. ASSUME NEW p \in Peer, NEW st \in Status
      PROVE  /\ [node |-> p, status |-> st] \in OpsEvent
             /\ \A q \in Peer : About([node |-> p, status |-> st], q) <=> p = q
  BY DEF OpsEvent, About
<1>2. [job |-> "updated"] \in OpsEvent /\ \A q \in Peer : ~About([job |-> "updated"], q)
  BY DEF OpsEvent, About
<1>3. ASSUME NEW e \in OpsEvent, "node" \in DOMAIN e PROVE e.node \in Peer /\ e.status \in Status
  BY <1>3 DEF OpsEvent
<1> QED
  BY <1>1, <1>2, <1>3

\* The feed is empty at first, and nothing was told.
LEMMA FeedInit == ASSUME Init PROVE FeedInv
<1>0. Unknown \in [Peer -> Told] /\ \A p \in Peer : Unknown[p] = "untold"
  BY DEF Unknown, Told
<1>1. OpsTypes
  BY <1>0, BoundsAssumption DEF Init, OpsTypes, OpsClient, Status
<1>2. Len(feed) = 0
  BY DEF Init
<1>3. NothingBefore /\ LastEventHolds /\ ToldWhatIsRead
  BY <1>0, <1>2 DEF Init, NothingBefore, LastEventHolds, ToldWhatIsRead
<1> QED
  BY <1>1, <1>3 DEF FeedInv

\* A message appended to the feed is after all the others.
LEMMA FeedAppend ==
    ASSUME OpsTypes, NEW e \in OpsEvent, feed' = Append(feed, e)
    PROVE  /\ feed' \in Seq(OpsEvent) /\ Len(feed') = Len(feed) + 1 /\ Len(feed) \in Nat
           /\ \A i \in 1..Len(feed) : feed'[i] = feed[i]
           /\ feed'[Len(feed) + 1] = e
  BY DEF OpsTypes

\* Every step keeps the feed, the watcher and the client in line.
LEMMA FeedNext ==
    ASSUME FeedInv, [Next]_vars
    PROVE  FeedInv'
<1>t. OpsTypes /\ Len(feed) \in Nat
  BY DEF FeedInv, OpsTypes
<1>i. NothingBefore /\ LastEventHolds /\ ToldWhatIsRead
  BY DEF FeedInv
\* A step that leaves the feed, the client and what the watcher has alone.
<1>u. ASSUME UNCHANGED <<feed, ops, ahead>>, \A p \in Peer : Compared'[p] = Compared[p]
      PROVE  LastEventHolds' /\ ToldWhatIsRead'
  BY <1>u, <1>i DEF LastEventHolds, ToldWhatIsRead
<1>1. ASSUME NEW p \in Peer, NEW st \in Status, TableMoves(p, st) PROVE FeedInv'
  <2>1. OpsTypes'
    BY <1>1, <1>t, BoundsAssumption DEF TableMoves, OpsTypes
  <2>2. NothingBefore'
    BY <1>1, <1>i DEF TableMoves, NothingBefore
  <2>3. \A q \in Peer : Compared'[q] = Compared[q]
    BY <1>1 DEF TableMoves, Compared
  <2>4. UNCHANGED <<feed, ops, ahead>>
    BY <1>1 DEF TableMoves
  <2> QED
    BY <2>1, <2>2, <2>3, <2>4, <1>u DEF FeedInv
<1>2. ASSUME Baseline PROVE FeedInv'
  <2>a. /\ watcher.pc = "start" /\ watcher' = [pc |-> "asleep", last_status |-> view, todo |-> {}]
        /\ ahead' = {p \in ahead : ops.told[p] # view[p]}
        /\ UNCHANGED <<view, feed, ops, moves, jobs>>
    BY <1>2 DEF Baseline
  <2>1. OpsTypes'
    <3>1. view \in [Peer -> Told] /\ ahead' \in SUBSET Peer
      BY <2>a, <1>t DEF OpsTypes, Told
    <3> QED
      BY <2>a, <3>1, <1>t DEF OpsTypes
  <2>2. NothingBefore'
    BY <2>a DEF NothingBefore
  <2>3. LastEventHolds'
    BY <2>a, <1>i DEF NothingBefore, LastEventHolds
  <2>4. ToldWhatIsRead'
    <3>1. SUFFICES ASSUME ops.there, ~ops.lagged, NEW p \in Peer, p \notin ahead'
                   PROVE  ops.told[p] \in {"untold", Compared'[p]}
      BY <2>a DEF ToldWhatIsRead
    <3>2. Compared'[p] = view[p]
      BY <2>a DEF Compared
    <3>3. CASE p \in ahead
      BY <3>1, <3>2, <3>3, <2>a
    <3>4. CASE p \notin ahead
      <4>1. \A k \in (ops.pos + 1)..Len(feed) : k \in 1..Len(feed)
        BY <1>t DEF OpsTypes, OpsClient
      <4>2. \A k \in (ops.pos + 1)..Len(feed) : ~About(feed[k], p)
        BY <4>1, <2>a, <1>i DEF NothingBefore
      <4>3. ops.told[p] \in {"untold", Compared[p]}
        BY <3>1, <3>4, <4>2, <1>i DEF ToldWhatIsRead
      <4>4. Compared[p] = "untold"
        BY <2>a, <1>i DEF Compared, NothingBefore
      <4> QED
        BY <4>3, <4>4
    <3> QED
      BY <3>3, <3>4
  <2> QED
    BY <2>1, <2>2, <2>3, <2>4 DEF FeedInv
<1>3. ASSUME Poll PROVE FeedInv'
  <2>a. /\ watcher.pc = "asleep" /\ watcher' = [watcher EXCEPT !.pc = "poll", !.todo = Changes]
        /\ UNCHANGED <<view, feed, ops, ahead, moves, jobs>>
    BY <1>3 DEF Poll
  <2>b. watcher'.pc = "poll" /\ watcher'.todo = Changes /\ watcher'.last_status = watcher.last_status
    BY <2>a, <1>t DEF OpsTypes
  <2>1. OpsTypes'
    BY <2>a, <1>t DEF Changes, OpsTypes
  <2>2. NothingBefore'
    BY <2>b DEF NothingBefore
  <2>3. \A q \in Peer : Compared'[q] = Compared[q]
    BY <2>a, <2>b DEF Compared, Changes
  <2> QED
    BY <2>1, <2>2, <2>3, <2>a, <1>u DEF FeedInv
<1>4. ASSUME PollEnds PROVE FeedInv'
  <2>a. /\ watcher.pc = "poll" /\ watcher.todo = {}
        /\ watcher' = [watcher EXCEPT !.pc = "asleep", !.last_status = view]
        /\ UNCHANGED <<view, feed, ops, ahead, moves, jobs>>
    BY <1>4 DEF PollEnds
  <2>b. watcher'.pc = "asleep" /\ watcher'.last_status = view
    BY <2>a, <1>t DEF OpsTypes
  <2>1. OpsTypes'
    <3>1. view \in [Peer -> Told]
      BY <1>t DEF OpsTypes, Told
    <3> QED
      BY <2>a, <3>1, <1>t DEF OpsTypes
  <2>2. NothingBefore'
    BY <2>b DEF NothingBefore
  <2>3. \A q \in Peer : Compared'[q] = Compared[q]
    BY <2>a, <2>b DEF Compared
  <2> QED
    BY <2>1, <2>2, <2>3, <2>a, <1>u DEF FeedInv
<1>5. ASSUME NEW p \in Peer, Announce(p) PROVE FeedInv'
  <2> DEFINE e == [node |-> p, status |-> view[p]]
  <2>0. /\ e \in OpsEvent /\ (\A q \in Peer : About(e, q) <=> p = q) /\ e.status = view[p]
        /\ feed' = Append(feed, e)
    BY <1>5, <1>t, EventKinds DEF Announce, OpsTypes
  <2>a. /\ view' = view /\ ops' = ops
        /\ watcher.pc = "poll" /\ watcher' = [watcher EXCEPT !.todo = watcher.todo \ {p}]
        /\ ahead' = ahead \ {p}
    BY <1>5 DEF Announce
  <2> HIDE DEF e
  <2>f. /\ feed' \in Seq(OpsEvent) /\ Len(feed') = Len(feed) + 1
        /\ \A i \in 1..Len(feed) : feed'[i] = feed[i]
        /\ feed'[Len(feed) + 1] = e
    BY <2>0, <1>t, FeedAppend
  <2>c. watcher'.pc = "poll" /\ watcher'.todo = watcher.todo \ {p} /\ watcher'.last_status = watcher.last_status
    BY <2>a, <1>t DEF OpsTypes
  <2>b. /\ Compared'[p] = view[p]
        /\ \A q \in Peer : q # p => Compared'[q] = Compared[q]
    BY <2>a, <2>c DEF Compared
  <2>1. OpsTypes'
    <3>1. ahead' \in SUBSET Peer /\ ops'.pos <= Len(feed')
      BY <2>a, <2>f, <1>t DEF OpsTypes, OpsClient
    <3>2. UNCHANGED <<moves, jobs>>
      BY <1>5 DEF Announce
    <3> QED
      BY <3>1, <3>2, <2>a, <2>f, <1>t DEF OpsTypes
  <2>2. NothingBefore'
    BY <2>c DEF NothingBefore
  <2>3. LastEventHolds'
    <3>1. SUFFICES ASSUME NEW q \in Peer, NEW i \in 1..Len(feed'), About(feed'[i], q),
                          \A k \in (i + 1)..Len(feed') : ~About(feed'[k], q)
                   PROVE  feed'[i].status = Compared'[q]
      BY DEF LastEventHolds
    <3>2. CASE i = Len(feed) + 1
      BY <3>1, <3>2, <2>0, <2>f, <2>b
    <3>3. CASE i # Len(feed) + 1
      <4>1. i \in 1..Len(feed) /\ Len(feed) + 1 \in (i + 1)..Len(feed')
        BY <3>3, <2>f, <1>t
      <4>2. q # p
        BY <4>1, <3>1, <2>0, <2>f
      <4>3. \A k \in (i + 1)..Len(feed) : k \in (i + 1)..Len(feed') /\ k \in 1..Len(feed)
        BY <4>1, <2>f, <1>t
      <4>4. \A k \in (i + 1)..Len(feed) : ~About(feed[k], q)
        BY <4>3, <3>1, <2>f
      <4>5. feed[i].status = Compared[q]
        BY <4>1, <4>4, <3>1, <2>f, <1>i DEF LastEventHolds
      <4> QED
        BY <4>1, <4>2, <4>5, <2>b, <2>f
    <3> QED
      BY <3>2, <3>3
  <2>4. ToldWhatIsRead'
    <3>1. SUFFICES ASSUME ops.there, ~ops.lagged, NEW q \in Peer, q \notin ahead \ {p},
                          \A k \in (ops.pos + 1)..Len(feed') : ~About(feed'[k], q)
                   PROVE  ops.told[q] \in {"untold", Compared'[q]}
      BY <2>a DEF ToldWhatIsRead
    <3>2. ops.pos \in Nat /\ ops.pos <= Len(feed)
      BY <1>t DEF OpsTypes, OpsClient
    <3>3. Len(feed) + 1 \in (ops.pos + 1)..Len(feed')
      BY <3>2, <2>f, <1>t
    <3>4. q # p
      BY <3>1, <3>3, <2>0, <2>f
    <3>5. \A k \in (ops.pos + 1)..Len(feed) : k \in (ops.pos + 1)..Len(feed') /\ k \in 1..Len(feed)
      BY <3>2, <2>f, <1>t
    <3>6. \A k \in (ops.pos + 1)..Len(feed) : ~About(feed[k], q)
      BY <3>5, <3>1, <2>f
    <3> QED
      BY <3>1, <3>4, <3>6, <2>b, <1>i DEF ToldWhatIsRead
  <2> QED
    BY <2>1, <2>2, <2>3, <2>4 DEF FeedInv
<1>6. ASSUME JobEvent PROVE FeedInv'
  <2> DEFINE e == [job |-> "updated"]
  <2>0. e \in OpsEvent /\ (\A q \in Peer : ~About(e, q)) /\ feed' = Append(feed, e)
    BY <1>6, EventKinds DEF JobEvent
  <2>a. UNCHANGED <<view, watcher, ops, ahead, moves>> /\ jobs < MaxJobs /\ jobs' = jobs + 1
    BY <1>6 DEF JobEvent
  <2> HIDE DEF e
  <2>f. /\ feed' \in Seq(OpsEvent) /\ Len(feed') = Len(feed) + 1
        /\ \A i \in 1..Len(feed) : feed'[i] = feed[i]
        /\ feed'[Len(feed) + 1] = e
    BY <2>0, <1>t, FeedAppend
  <2>g. \A i \in 1..Len(feed') : i \in 1..Len(feed) \/ i = Len(feed) + 1
    BY <2>f, <1>t
  <2>1. OpsTypes'
    <3>1. ops'.pos <= Len(feed') /\ jobs' \in 0..MaxJobs
      BY <2>a, <2>f, <1>t, BoundsAssumption DEF OpsTypes, OpsClient
    <3> QED
      BY <3>1, <2>a, <2>f, <1>t DEF OpsTypes
  <2>2. NothingBefore'
    BY <2>0, <2>a, <2>f, <2>g, <1>i DEF NothingBefore
  <2>c. Compared' = Compared
    BY <2>a DEF Compared
  <2>3. LastEventHolds'
    <3>1. SUFFICES ASSUME NEW q \in Peer, NEW i \in 1..Len(feed'), About(feed'[i], q),
                          \A k \in (i + 1)..Len(feed') : ~About(feed'[k], q)
                   PROVE  feed'[i].status = Compared'[q]
      BY DEF LastEventHolds
    <3>2. i \in 1..Len(feed) /\ About(feed[i], q)
      BY <3>1, <2>0, <2>f, <2>g
    <3>3. \A k \in (i + 1)..Len(feed) : k \in (i + 1)..Len(feed') /\ k \in 1..Len(feed)
      BY <3>2, <2>f, <1>t
    <3>4. \A k \in (i + 1)..Len(feed) : ~About(feed[k], q)
      BY <3>3, <3>1, <2>f
    <3> QED
      BY <3>2, <3>4, <2>c, <2>f, <1>i DEF LastEventHolds
  <2>4. ToldWhatIsRead'
    <3>1. SUFFICES ASSUME ops.there, ~ops.lagged, NEW q \in Peer, q \notin ahead,
                          \A k \in (ops.pos + 1)..Len(feed') : ~About(feed'[k], q)
                   PROVE  ops.told[q] \in {"untold", Compared[q]}
      BY <2>a, <2>c DEF ToldWhatIsRead
    <3>2. ops.pos \in Nat /\ ops.pos <= Len(feed)
      BY <1>t DEF OpsTypes, OpsClient
    <3>5. \A k \in (ops.pos + 1)..Len(feed) : k \in (ops.pos + 1)..Len(feed') /\ k \in 1..Len(feed)
      BY <3>2, <2>f, <1>t
    <3>6. \A k \in (ops.pos + 1)..Len(feed) : ~About(feed[k], q)
      BY <3>5, <3>1, <2>f
    <3> QED
      BY <3>1, <3>6, <1>i DEF ToldWhatIsRead
  <2> QED
    BY <2>1, <2>2, <2>3, <2>4 DEF FeedInv
<1>7. ASSUME StreamOps PROVE FeedInv'
  <2>a. /\ ~ops.there /\ ops' = [ops EXCEPT !.there = TRUE, !.pos = Len(feed)]
        /\ UNCHANGED <<view, watcher, feed, ahead, moves, jobs>>
    BY <1>7 DEF StreamOps
  <2>b. /\ ops' \in OpsClient /\ ops'.told = ops.told /\ ops'.there = TRUE
        /\ ops'.pos = Len(feed)
    BY <2>a, <1>t DEF OpsTypes, OpsClient
  <2>1. OpsTypes'
    BY <2>a, <2>b, <1>t DEF OpsTypes
  <2>2. (NothingBefore /\ LastEventHolds)'
    BY <2>a, <1>i DEF NothingBefore, LastEventHolds, Compared
  <2>3. ToldWhatIsRead'
    BY <2>a, <2>b, <1>t DEF ToldWhatIsRead, OpsTypes, Unknown
  <2> QED
    BY <2>1, <2>2, <2>3 DEF FeedInv
<1>g. ASSUME GetNodes PROVE FeedInv'
  <2>a. /\ ops.there /\ ops' = [ops EXCEPT !.told = view]
        /\ ahead' = {p \in Peer : view[p] # Compared[p]}
        /\ UNCHANGED <<view, watcher, feed, moves, jobs>>
    BY <1>g DEF GetNodes
  <2>b. ops' \in OpsClient /\ ops'.told = view /\ ops'.there = ops.there /\ ops'.pos = ops.pos
    <3>1. view \in [Peer -> Told]
      BY <1>t DEF OpsTypes, Told
    <3> QED
      BY <3>1, <2>a, <1>t DEF OpsTypes, OpsClient
  <2>1. OpsTypes'
    BY <2>a, <2>b, <1>t DEF OpsTypes
  <2>2. Compared' = Compared
    BY <2>a DEF Compared
  <2>3. (NothingBefore /\ LastEventHolds)'
    BY <2>a, <2>2, <1>i DEF NothingBefore, LastEventHolds
  <2>4. ToldWhatIsRead'
    BY <2>a, <2>b, <2>2 DEF ToldWhatIsRead
  <2> QED
    BY <2>1, <2>3, <2>4 DEF FeedInv
<1>8. ASSUME OpsReceive PROVE FeedInv'
  <2>0. UNCHANGED <<view, watcher, feed, ahead, moves, jobs>> /\ ops.there
    BY <1>8 DEF OpsReceive
  <2>c. Compared' = Compared
    BY <2>0 DEF Compared
  <2>n. NothingBefore' /\ LastEventHolds'
    BY <2>0, <2>c, <1>i DEF NothingBefore, LastEventHolds
  <2>1. CASE Behind(feed, ops) /\ ops' = [ops EXCEPT !.pos = Dropped(feed), !.lagged = TRUE]
    <3>1. Dropped(feed) \in Nat /\ Dropped(feed) <= Len(feed)
      BY <1>t, CapacityAssumption DEF Dropped
    <3>2. ops' \in OpsClient /\ ops'.there = ops.there /\ ops'.pos = Dropped(feed)
      BY <2>1, <3>1, <1>t DEF OpsTypes, OpsClient
    <3>3. OpsTypes'
      BY <2>0, <3>1, <3>2, <1>t DEF OpsTypes
    <3>4. ops'.lagged = TRUE
      BY <2>1, <1>t DEF OpsTypes, OpsClient
    <3> QED
      BY <2>n, <3>3, <3>4 DEF FeedInv, ToldWhatIsRead
  <2>2. CASE Ready(feed, ops) /\ ~Behind(feed, ops)
    <3> DEFINE e == feed[ops.pos + 1]
    <3>0. ops.pos \in Nat /\ ops.told \in [Peer -> Told] /\ ops.there \in BOOLEAN /\ ops.lagged \in BOOLEAN
      BY <1>t DEF OpsTypes, OpsClient
    <3>1. ops.pos + 1 \in 1..Len(feed)
      BY <2>2, <1>t, <3>0 DEF Ready
    <3>2. e \in OpsEvent
      BY <3>1, <1>t DEF OpsTypes
    <3> DEFINE told == IF "node" \in DOMAIN e THEN [ops.told EXCEPT ![e.node] = e.status] ELSE ops.told
    <3>3. ops' = [ops EXCEPT !.pos = ops.pos + 1, !.told = told]
      BY <1>8, <2>2 DEF OpsReceive
    <3>4. /\ told \in [Peer -> Told]
          /\ \A p \in Peer : told[p] = IF About(e, p) THEN e.status ELSE ops.told[p]
      <4>1. CASE "node" \in DOMAIN e
        BY <4>1, <3>0, <3>2, EventKinds DEF About, Told
      <4>2. CASE "node" \notin DOMAIN e
        BY <4>2, <3>0 DEF About
      <4> QED
        BY <4>1, <4>2
    <3> HIDE DEF e, told
    <3>5. /\ ops'.pos = ops.pos + 1 /\ ops'.told = told
          /\ ops'.there = ops.there /\ ops'.lagged = ops.lagged
      BY <3>3, <1>t DEF OpsTypes, OpsClient
    <3>6. OpsTypes'
      <4>1. ops' \in OpsClient
        <5>1. ASSUME NEW c \in OpsClient, NEW n \in Nat, NEW f \in [Peer -> Told]
              PROVE  [c EXCEPT !.pos = n, !.told = f] \in OpsClient
          BY DEF OpsClient
        <5>2. ops.pos + 1 \in Nat
          BY <3>0
        <5> QED
          BY <5>1, <5>2, <3>3, <3>4, <1>t DEF OpsTypes
      <4> QED
        BY <4>1, <3>1, <3>5, <2>0, <1>t DEF OpsTypes
    <3>7. ToldWhatIsRead'
      <4>1. SUFFICES ASSUME ~ops.lagged, NEW p \in Peer, p \notin ahead,
                            \A k \in ((ops.pos + 1) + 1)..Len(feed) : ~About(feed[k], p)
                     PROVE  told[p] \in {"untold", Compared[p]}
        BY <2>0, <2>c, <3>5 DEF ToldWhatIsRead
      <4>2. CASE About(e, p)
        <5>1. e.status = Compared[p]
          BY <4>1, <4>2, <3>1, <1>i DEF LastEventHolds, e
        <5> QED
          BY <5>1, <4>2, <3>4
      <4>3. CASE ~About(e, p)
        <5>1. \A k \in (ops.pos + 1)..Len(feed) : k = ops.pos + 1 \/ k \in ((ops.pos + 1) + 1)..Len(feed)
          BY <3>0, <1>t
        <5>2. \A k \in (ops.pos + 1)..Len(feed) : ~About(feed[k], p)
          BY <5>1, <4>1, <4>3 DEF e
        <5>3. ops.told[p] \in {"untold", Compared[p]}
          BY <5>2, <4>1, <2>0, <1>i DEF ToldWhatIsRead
        <5> QED
          BY <5>3, <4>3, <3>4
      <4> QED
        BY <4>2, <4>3
    <3> QED
      BY <2>n, <3>6, <3>7 DEF FeedInv
  <2>3. Ready(feed, ops) => ~Behind(feed, ops)
    <3>1. Dropped(feed) \in Nat /\ ops.pos \in Nat
      BY <1>t, CapacityAssumption DEF Dropped, OpsTypes, OpsClient
    <3> QED
      BY <3>1 DEF Ready, Behind
  <2> QED
    BY <1>8, <2>1, <2>2, <2>3 DEF OpsReceive
<1>9. ASSUME UNCHANGED opsVars PROVE FeedInv'
  BY <1>9 DEF opsVars, FeedInv, OpsTypes, NothingBefore, LastEventHolds, ToldWhatIsRead, Compared
<1> QED
  BY <1>1, <1>2, <1>3, <1>4, <1>5, <1>6, <1>7, <1>8, <1>9, <1>g
     DEF Next, Executor, Watcher, vars, opsVars, OpenChannel, SpawnFails, Spawn, ChildExits,
         RecordResult, ChildWrites, Pump, PumpFails, StreamOutput, OutputReceive

\* Between two polls a client that kept up with the operations feed has of every
\* peer what the watcher compares with next, whenever it subscribed and listed the
\* nodes (start_ops_watchers, stream_ops_events, get_nodes), but for peers it knows
\* nothing of and peers listed with a status the watcher never had; for every number
\* of peers and every capacity.
THEOREM FeedTracks == Spec => []FeedTracksWatcher
<1>1. Init => FeedInv
  BY FeedInit
<1>2. FeedInv /\ [Next]_vars => FeedInv'
  BY FeedNext
<1>3. ASSUME FeedInv PROVE FeedTracksWatcher
  <2>1. SUFFICES ASSUME ops.there, ~ops.lagged, ops.pos = Len(feed), watcher.pc = "asleep",
                        NEW p \in Peer, p \notin ahead
                 PROVE  ops.told[p] \in {"untold", watcher.last_status[p]}
    BY DEF FeedTracksWatcher
  <2>2. Len(feed) \in Nat
    BY <1>3 DEF FeedInv, OpsTypes
  <2>3. \A k \in (ops.pos + 1)..Len(feed) : ~About(feed[k], p)
    BY <2>1, <2>2
  <2>4. Compared[p] = watcher.last_status[p]
    BY <2>1 DEF Compared
  <2> QED
    BY <1>3, <2>1, <2>3, <2>4 DEF FeedInv, ToldWhatIsRead
<1> QED
  BY <1>1, <1>2, <1>3, PTL DEF Spec

\* Every variable keeps its type.
THEOREM TypeCorrect == Spec => []TypeOK
<1>1. ASSUME OutputInv, FeedInv PROVE TypeOK
  <2>1. /\ chans \in Seq(Seq(Line)) /\ Len(chans) \in 0..1
        /\ current = Len(chans)
    <3>1. CASE chans = <<>> /\ current = 0
      BY <3>1
    <3>2. CASE chans = <<produced>> /\ current = 1
      BY <3>2, <1>1 DEF OutputInv, OneChannel
    <3> QED
      BY <3>1, <3>2, <1>1 DEF OutputInv, OneChannel
  <2>2. task \in [Launch -> Task] /\ \A t \in Launch : task[t].chan \in 0..Len(chans)
    BY <1>1, <2>1 DEF OutputInv, OneChannel, SentSoFar
  <2>3. reader \in [Listener -> Client] /\ \A l \in Listener : reader[l].chan \in 0..Len(chans)
    BY <1>1, <2>1 DEF OutputInv, OneChannel, NotThere
  <2>4. task \in [Launch -> [pc : {"queued", "opened", "running", "exited", "recorded"},
                            chan : 0..Len(chans), written : [Stream -> Nat], sent : [Stream -> Nat],
                            broken : SUBSET Stream]]
    BY <2>2 DEF Task
  <2>5. reader \in [Listener -> [chan : 0..Len(chans), pos : Nat, lagged : BOOLEAN,
                                heard : Seq(Line), joined : Nat]]
    BY <2>3 DEF Client
  <2>6. /\ current \in 0..Len(chans) /\ produced \in Seq(Line)
        /\ \A t \in Launch, s \in Stream : task[t].sent[s] <= task[t].written[s]
    BY <1>1, <2>1 DEF OutputInv, OneChannel, SentSoFar
  <2> QED
    BY <1>1, <2>1, <2>4, <2>5, <2>6 DEF TypeOK, FeedInv, OpsTypes, OpsClient, Told
<1>2. Spec => []FeedInv
  BY FeedInit, FeedNext, PTL DEF Spec
<1> QED
  BY <1>1, <1>2, OutputKept, PTL
=============================================================================
