---------------------------- MODULE RaftCommands ----------------------------
(***************************************************************************)
(* The commands that the agents replicate through Raft and what the state  *)
(* machine does with them: RaftCommand (raft/commands.rs), RaftState and   *)
(* SledStateMachine::apply_command (raft/store.rs).                        *)
(*                                                                         *)
(* A log entry is its payload; a log id is its index, counted from 1: the  *)
(* ids the store keeps (last_applied, last_purged, committed) are those of *)
(* committed entries, of which there is one per index.  Timestamps,        *)
(* runtimes, endpoints and issuers are left out: no branch reads them.     *)
(***************************************************************************)
EXTENDS Naturals, Sequences

CONSTANTS
    Job,        \* job ids
    Node,       \* node ids a job can be registered for
    JobStatus,  \* the statuses UpdateJobStatus carries
    Token,      \* enrolment tokens
    NoNode      \* no record for this job

ASSUME NoNodeAssumption == NoNode \notin Node

Command ==
    [op : {"RegisterJob"}, job : Job, node : Node]
      \cup [op : {"UpdateJobStatus"}, job : Job, status : JobStatus]
      \cup [op : {"StoreEnrollToken", "ConsumeEnrollToken"}, token : Token]
      \cup [op : {"Member", "Blank", "Membership"}]

\* EntryPayload::Membership; "Member" stands for AddMember and RemoveMember,
\* "Blank" for EntryPayload::Blank.
Membership == [op |-> "Membership"]

\* RaftState.  A job without a record has node NoNode.
RaftState == [last_applied    : Nat,
              last_membership : Nat,
              job_registry    : [Job -> [node   : Node \cup {NoNode},
                                         status : JobStatus \cup {"none", "queued"}]],
              enroll_tokens   : [Token -> {"none", "unused", "used"}]]

DefaultState == [last_applied    |-> 0,
                 last_membership |-> 0,
                 job_registry    |-> [j \in Job |-> [node |-> NoNode, status |-> "none"]],
                 enroll_tokens   |-> [t \in Token |-> "none"]]

Registered(st, j) == st.job_registry[j].node # NoNode

\* RaftCommandResponse.success.
Succeeds(st, c) ==
    CASE c.op = "RegisterJob"        -> ~Registered(st, c.job)
      [] c.op = "UpdateJobStatus"    -> Registered(st, c.job)
      [] c.op = "ConsumeEnrollToken" -> st.enroll_tokens[c.token] = "unused"
      [] OTHER                       -> TRUE

\* apply_command: a command that fails changes nothing.
apply_command_Overwrite(st, c) ==
    CASE c.op = "RegisterJob" ->
           [st EXCEPT !.job_registry[c.job] = [node |-> c.node, status |-> "queued"]]
      [] c.op = "ConsumeEnrollToken" /\ Succeeds(st, c) ->
           [st EXCEPT !.enroll_tokens[c.token] = "used"]
      [] c.op = "StoreEnrollToken" ->
           [st EXCEPT !.enroll_tokens[c.token] = "unused"]
      [] OTHER -> st
apply_command(st, c) ==
    CASE c.op = "RegisterJob" /\ Succeeds(st, c) ->
           [st EXCEPT !.job_registry[c.job] = [node |-> c.node, status |-> "queued"]]
      [] c.op = "UpdateJobStatus" /\ Succeeds(st, c) ->
           [st EXCEPT !.job_registry[c.job].status = c.status]
      [] c.op = "ConsumeEnrollToken" /\ Succeeds(st, c) ->
           [st EXCEPT !.enroll_tokens[c.token] = "used"]
      [] c.op = "StoreEnrollToken" ->
           [st EXCEPT !.enroll_tokens[c.token] = "unused"]
      [] OTHER -> st

\* One turn of the loop of RaftStateMachine::apply, for the entry at index i.
ApplyEntry(st, i, c) ==
    LET applied == [apply_command(st, c) EXCEPT !.last_applied = i]
    IN  IF c = Membership THEN [applied EXCEPT !.last_membership = i] ELSE applied

\* The whole loop: the entries first .. last of log, one after the other.
ApplyRange(st, log, first, last) ==
    LET after[i \in Nat] == IF i < first THEN st ELSE ApplyEntry(after[i - 1], i, log[i])
    IN  after[last]

\* The state that the first n entries of history define.
StateAfter(history, n) == ApplyRange(DefaultState, history, 1, n)
=============================================================================
