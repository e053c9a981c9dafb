---------------------------- MODULE JobLifecycle ----------------------------
(***************************************************************************)
(* The life of a job in an all4one cluster: submission at an origin node,  *)
(* local or delegated dispatch over gRPC, the one-second retry loop, the   *)
(* executor task that runs the child process, the report of the result     *)
(* back to the origin, and cancellation.                                   *)
(*                                                                         *)
(* Sources: agent/src/api_rest/mod.rs, agent/src/executor/mod.rs,          *)
(* agent/src/grpc_server/mod.rs, agent/src/grpc_client/mod.rs.             *)
(*                                                                         *)
(* A step is what one task does between two awaits that matter.  Every     *)
(* critical section on a node's `jobs` table is one step, except the one   *)
(* in which the executor keeps its write guard while it awaits the gRPC    *)
(* report to the origin: there the lock is held across steps (`lock`).     *)
(***************************************************************************)
EXTENDS Naturals

CONSTANTS
    Node,        \* the agents
    Job,         \* job ids; JobId::new() never repeats one
    Origins,     \* nodes whose clients submit jobs
    Cancellable, \* jobs some client may cancel with DELETE /v1/jobs/:id
    Picks,       \* what scheduler::pick_node may answer: nodes, or NoNode
    NoNode,      \* pick_node found no candidate
    MaxRetries,  \* iterations of the retry loop (60 in the code)
    MaxFaults,   \* bound on RPCs that fail on the wire
    MaxCrashes   \* bound on agent crashes

ASSUME ConstantsAssumption ==
    /\ Origins \subseteq Node
    /\ Cancellable \subseteq Job
    /\ Picks \subseteq Node \cup {NoNode}
    /\ NoNode \notin Node
    /\ MaxRetries \in Nat
    /\ MaxFaults \in Nat
    /\ MaxCrashes \in Nat

VARIABLES
    jobs,     \* jobs[n][j]: the JobRecord of j in the table of node n
    disp,     \* disp[j]: the task that dispatches j at its origin
    exec,     \* exec[t]: the executor task t
    lock,     \* lock[n]: the executor task that keeps n's jobs table locked
    submits,  \* SubmitJob requests in flight
    acks,     \* SubmitJob responses in flight
    reports,  \* ReportJobStatus requests in flight
    replies,  \* ReportJobStatus responses in flight
    faults,   \* RPCs and connections that failed so far
    crashes   \* agent crashes so far

net  == <<submits, acks, reports, replies>>
vars == <<jobs, disp, exec, lock, net, faults, crashes>>

-----------------------------------------------------------------------------
(* Data *)

\* "none" stands for an id that is not a key of the jobs map.  JobStatus also
\* has Scheduled, which no line of the code assigns.
Status   == {"none", "queued", "running", "completed", "failed", "cancelled"}
Terminal == {"completed", "failed", "cancelled"}

\* Option<i32>: no exit code, zero, or any other code.
ExitCode == {"none", "zero", "nonzero"}

JobRecord == [status      : Status,
              assigned_to : Node \cup {NoNode},
              exit_code   : ExitCode,
              error       : BOOLEAN]

NoRecord == [status |-> "none", assigned_to |-> NoNode,
             exit_code |-> "none", error |-> FALSE]

\* Dispatches of a job are told apart by the iteration of the retry loop that
\* made them; the dispatch made by the POST handler itself is number 0.
Attempt == 0..MaxRetries

\* An executor task: the job, the node it runs on, the dispatch it comes from.
Task == [job : Job, node : Node, attempt : Attempt]

\* What became of the child process: it exited with code 0 or with another
\* code, or it could not be spawned or waited for.
Outcome == {"zero", "nonzero", "error"}

DispState == [pc     : {"new", "dispatch", "rpc", "sleep", "pick", "done", "dead"},
              origin : Node \cup {NoNode},
              mode   : {"once", "retry"},
              target : Node \cup {NoNode},
              tries  : Attempt,
              failed : SUBSET Attempt]   \* dispatches that returned false

ExecState == [pc      : {"idle", "spawned", "started", "reporting", "done", "dead"},
              outcome : Outcome \cup {"none"}]

Report == [task : Task, status : {"completed", "failed"},
           exit_code : {"zero", "nonzero"}, error : BOOLEAN]

Init ==
    /\ jobs = [n \in Node |-> [j \in Job |-> NoRecord]]
    /\ disp = [j \in Job |-> [pc |-> "new", origin |-> NoNode, mode |-> "once",
                              target |-> NoNode, tries |-> 0, failed |-> {}]]
    /\ exec = [t \in Task |-> [pc |-> "idle", outcome |-> "none"]]
    /\ lock = [n \in Node |-> {}]
    /\ submits = {} /\ acks = {} /\ reports = {} /\ replies = {}
    /\ faults = 0
    /\ crashes = 0

-----------------------------------------------------------------------------
(* What the handlers do to one record of the jobs table *)

\* The record enqueue_job and enqueue_remote_job insert.
QueuedRecord(n) == [status |-> "queued", assigned_to |-> n,
                    exit_code |-> "none", error |-> FALSE]

\* The write after submit_remote returned Ok: it must not undo a report that
\* overtook the acknowledgement.
AckedRecord_NoGuard(r, target) == [r EXCEPT !.status = "running", !.assigned_to = target]
AckedRecord(r, target) ==
    IF r.status = "queued"
      THEN [r EXCEPT !.status = "running", !.assigned_to = target]
      ELSE r

\* The executor marks the record running, whatever it was.
StartedRecord(r) == [r EXCEPT !.status = "running"]

StatusOf(outcome) == IF outcome = "zero" THEN "completed" ELSE "failed"
CodeOf(outcome)   == IF outcome = "error" THEN "none" ELSE outcome

\* The executor's write when the child exited: skipped if the record was
\* cancelled.  When spawn or wait failed, it is not, and exit_code stays.
FinishedRecord_KeepError(r, outcome) ==
    IF r.status = "cancelled" /\ outcome # "error"
      THEN r
      ELSE [r EXCEPT !.status = StatusOf(outcome)]
FinishedRecord(r, outcome) ==
    IF outcome # "error" /\ r.status = "cancelled"
      THEN r
      ELSE [r EXCEPT !.status    = StatusOf(outcome),
                     !.exit_code = IF outcome = "error" THEN @ ELSE CodeOf(outcome),
                     !.error     = IF outcome = "zero" THEN @ ELSE TRUE]

\* grpc_client::report_job_status: an i32 field cannot say "no exit code".
ReportOf(t, outcome) ==
    [task |-> t, status |-> StatusOf(outcome),
     exit_code |-> IF outcome = "nonzero" THEN "nonzero" ELSE "zero",
     error |-> outcome # "zero"]

\* The gRPC handler turns the zero of a failed job back into "no exit code".
DecodedCode_Plain(m) == m.exit_code
DecodedCode(m) ==
    IF m.status = "failed" /\ m.exit_code = "zero" THEN "none" ELSE m.exit_code

\* apply_terminal_job_update: a report overwrites whatever the record says.
ReportedRecord_OnlyQueued(r, m) ==
    IF r.status # "queued"
      THEN r
      ELSE [r EXCEPT !.status = m.status, !.exit_code = DecodedCode(m),
                     !.error = m.error]
ReportedRecord_Upsert(r, m) ==
    [r EXCEPT !.status = m.status, !.exit_code = DecodedCode(m), !.error = m.error]
ReportedRecord(r, m) ==
    IF r.status = "none"
      THEN r
      ELSE [r EXCEPT !.status = m.status, !.exit_code = DecodedCode(m),
                     !.error = m.error]

-----------------------------------------------------------------------------
(* Submission and dispatch, at the origin of the job *)

DispatchTask(j) == [job |-> j, node |-> disp[j].target, attempt |-> disp[j].tries]
Origin(t)       == disp[t.job].origin

\* post_job / enqueue_job up to the dispatch.
Submit(n, j) ==
    /\ disp[j].pc = "new"
    /\ lock[n] = {}
    /\ \E p \in Picks :
        /\ jobs' = [jobs EXCEPT ![n][j] = QueuedRecord(IF p = NoNode THEN n ELSE p)]
        /\ disp' = [disp EXCEPT ![j] =
                     [pc     |-> IF p = NoNode THEN "sleep" ELSE "dispatch",
                      origin |-> n,
                      mode   |-> IF p = NoNode THEN "retry" ELSE "once",
                      target |-> p, tries |-> 0, failed |-> {}]]
    /\ UNCHANGED <<exec, lock, net, faults, crashes>>

\* dispatch_to_assigned, local branch: the task has no completion callback.
DispatchLocal_LoopsOn(j) ==
    /\ disp[j].pc = "dispatch"
    /\ disp[j].target = disp[j].origin
    /\ exec' = [exec EXCEPT ![DispatchTask(j)].pc = "spawned"]
    /\ disp' = [disp EXCEPT ![j].pc = IF disp[j].mode = "retry" THEN "sleep"
                                                                        ELSE "done"]
    /\ UNCHANGED <<jobs, lock, net, faults, crashes>>
DispatchLocal(j) ==
    /\ disp[j].pc = "dispatch"
    /\ disp[j].target = disp[j].origin
    /\ exec' = [exec EXCEPT ![DispatchTask(j)].pc = "spawned"]
    /\ disp' = [disp EXCEPT ![j].pc = "done"]
    /\ UNCHANGED <<jobs, lock, net, faults, crashes>>

\* dispatch_to_assigned, remote branch: submit_remote sends the request ...
DispatchRemote(j) ==
    /\ disp[j].pc = "dispatch"
    /\ disp[j].target # disp[j].origin
    /\ submits' = submits \cup {DispatchTask(j)}
    /\ disp' = [disp EXCEPT ![j].pc = "rpc"]
    /\ UNCHANGED <<jobs, exec, lock, acks, reports, replies, faults, crashes>>

\* ... and the job is marked running when the target has accepted it ...
DispatchAck(j) ==
    LET o == disp[j].origin
    IN  /\ disp[j].pc = "rpc"
        /\ DispatchTask(j) \in acks
        /\ lock[o] = {}
        /\ acks' = acks \ {DispatchTask(j)}
        /\ jobs' = [jobs EXCEPT ![o][j] = AckedRecord(@, disp[j].target)]
        /\ disp' = [disp EXCEPT ![j].pc = "done"]
        /\ UNCHANGED <<exec, lock, submits, reports, replies, faults, crashes>>

\* ... or the call returns an error: false ends the POST handler for good and
\* sends the retry loop back to sleep.
AfterFailure(d) == [d EXCEPT !.pc     = IF d.mode = "retry" THEN "sleep" ELSE "done",
                             !.failed = @ \cup {d.tries}]

\* The connection breaks during the call: before the request left, while it is
\* on its way (it may still be served), or after it was served.
DispatchFault(j) ==
    LET t == DispatchTask(j)
    IN  /\ disp[j].pc = "rpc"
        /\ faults < MaxFaults
        /\ faults' = faults + 1
        /\ submits' \in {submits, submits \ {t}}
        /\ acks' = acks \ {t}
        /\ disp' = [disp EXCEPT ![j] = AfterFailure(@)]
        /\ UNCHANGED <<jobs, exec, lock, reports, replies, crashes>>

\* The target crashed with the request: the call returns an error.
DispatchRefused(j) ==
    /\ disp[j].pc = "rpc"
    /\ DispatchTask(j) \notin submits \cup acks
    /\ disp' = [disp EXCEPT ![j] = AfterFailure(@)]
    /\ UNCHANGED <<jobs, exec, lock, net, faults, crashes>>

\* The client of POST /v1/jobs hangs up: its handler is dropped where it awaits,
\* and a request it has sent is reset, before or after it is served.
HandlerDropped(j) ==
    /\ disp[j].mode = "once"
    /\ disp[j].pc \in {"dispatch", "rpc"}
    /\ faults < MaxFaults
    /\ faults' = faults + 1
    /\ submits' \in {submits, submits \ {DispatchTask(j)}}
    /\ disp' = [disp EXCEPT ![j].pc = "dead"]
    /\ UNCHANGED <<jobs, exec, lock, acks, reports, replies, crashes>>

\* spawn_retry_dispatch: an iteration stops the loop unless the job is queued.
RetryCheck_NoGuard(j) ==
    /\ disp[j].pc = "sleep"
    /\ disp[j].tries < MaxRetries
    /\ lock[disp[j].origin] = {}
    /\ disp' = [disp EXCEPT ![j].tries = @ + 1, ![j].pc = "pick"]
    /\ UNCHANGED <<jobs, exec, lock, net, faults, crashes>>
RetryCheck_OneMore(j) ==
    LET o == disp[j].origin
    IN  /\ disp[j].pc = "sleep"
        /\ disp[j].tries <= MaxRetries
        /\ lock[o] = {}
        /\ disp' = [disp EXCEPT ![j].tries = @ + 1,
                                ![j].pc = IF jobs[o][j].status = "queued"
                                            THEN "pick" ELSE "done"]
        /\ UNCHANGED <<jobs, exec, lock, net, faults, crashes>>
RetryCheck(j) ==
    LET o == disp[j].origin
    IN  /\ disp[j].pc = "sleep"
        /\ disp[j].tries < MaxRetries
        /\ lock[o] = {}
        /\ disp' = [disp EXCEPT ![j].tries = @ + 1,
                                ![j].pc = IF jobs[o][j].status = "queued"
                                            THEN "pick" ELSE "done"]
        /\ UNCHANGED <<jobs, exec, lock, net, faults, crashes>>

RetryPick(j) ==
    /\ disp[j].pc = "pick"
    /\ \E p \in Picks :
        disp' = [disp EXCEPT ![j].target = p,
                             ![j].pc = IF p = NoNode THEN "sleep" ELSE "dispatch"]
    /\ UNCHANGED <<jobs, exec, lock, net, faults, crashes>>

\* The loop has run its course: the job is left queued.
RetryExhausted(j) ==
    /\ disp[j].pc = "sleep"
    /\ disp[j].tries = MaxRetries
    /\ disp' = [disp EXCEPT ![j].pc = "done"]
    /\ UNCHANGED <<jobs, exec, lock, net, faults, crashes>>

-----------------------------------------------------------------------------
(* The delegate and its executor *)

\* AgentService.SubmitJob with a job id / enqueue_remote_job: a fresh record
\* replaces any the node had, and an executor task is spawned.
HandleSubmit(t) ==
    /\ t \in submits
    /\ lock[t.node] = {}
    /\ submits' = submits \ {t}
    /\ acks' = IF disp[t.job].pc = "rpc" /\ DispatchTask(t.job) = t
                 THEN acks \cup {t} ELSE acks     \* nobody awaits the answer
    /\ jobs' = [jobs EXCEPT ![t.node][t.job] = QueuedRecord(t.node)]
    /\ exec' = [exec EXCEPT ![t].pc = "spawned"]
    /\ UNCHANGED <<disp, lock, reports, replies, faults, crashes>>

\* spawn_job: the record of a live task exists, only a crash drops records.
ExecStart(t) ==
    /\ exec[t].pc = "spawned"
    /\ lock[t.node] = {}
    /\ jobs' = [jobs EXCEPT ![t.node][t.job] = StartedRecord(@)]
    /\ exec' = [exec EXCEPT ![t].pc = "started"]
    /\ UNCHANGED <<disp, lock, net, faults, crashes>>

\* The child is over.  A delegated task reports to the origin and keeps the
\* write guard of its node's jobs table until the call returns.
ExecFinish(t) ==
    /\ exec[t].pc = "started"
    /\ lock[t.node] = {}
    /\ \E o \in Outcome :
        /\ jobs' = [jobs EXCEPT ![t.node][t.job] = FinishedRecord(@, o)]
        /\ IF Origin(t) = t.node
             THEN /\ exec' = [exec EXCEPT ![t] = [pc |-> "done", outcome |-> o]]
                  /\ UNCHANGED <<lock, reports>>
             ELSE /\ exec' = [exec EXCEPT ![t] = [pc |-> "reporting", outcome |-> o]]
                  /\ lock' = [lock EXCEPT ![t.node] = {t}]
                  /\ reports' = reports \cup {ReportOf(t, o)}
    /\ UNCHANGED <<disp, submits, acks, replies, faults, crashes>>

\* AgentService.ReportJobStatus / apply_terminal_job_update, at the origin.
HandleReport(m) ==
    LET o == Origin(m.task)
    IN  /\ m \in reports
        /\ lock[o] = {}
        /\ reports' = reports \ {m}
        /\ replies' = IF exec[m.task].pc = "reporting" THEN replies \cup {m.task}
                                                       ELSE replies
        /\ jobs' = [jobs EXCEPT ![o][m.task.job] = ReportedRecord(@, m)]
        /\ UNCHANGED <<disp, exec, lock, submits, acks, faults, crashes>>

\* The report call returns, with whatever answer: the guard is dropped.
Released(t) ==
    /\ exec' = [exec EXCEPT ![t].pc = "done"]
    /\ lock' = [lock EXCEPT ![t.node] = {}]
    /\ UNCHANGED <<jobs, disp, submits, acks, crashes>>

ReportReturn(t) ==
    /\ exec[t].pc = "reporting"
    /\ t \in replies
    /\ replies' = replies \ {t}
    /\ Released(t)
    /\ UNCHANGED <<reports, faults>>

ReportFault(t) ==
    /\ exec[t].pc = "reporting"
    /\ faults < MaxFaults
    /\ faults' = faults + 1
    /\ reports' \in {reports, {m \in reports : m.task # t}}
    /\ replies' = replies \ {t}
    /\ Released(t)

\* The origin crashed with the report: the call returns an error.
ReportRefused(t) ==
    /\ exec[t].pc = "reporting"
    /\ t \notin replies
    /\ \A m \in reports : m.task # t
    /\ Released(t)
    /\ UNCHANGED <<reports, replies, faults>>

-----------------------------------------------------------------------------
(* The outside world *)

\* DELETE /v1/jobs/:id on node n: the record is marked, the child lives on.
Cancel(n, j) ==
    /\ lock[n] = {}
    /\ jobs[n][j].status \notin Terminal \cup {"none"}
    /\ jobs' = [jobs EXCEPT ![n][j].status = "cancelled"]
    /\ UNCHANGED <<disp, exec, lock, net, faults, crashes>>

\* The agent on n dies and comes back with an empty jobs table; what was on
\* its way to n is lost.  Child processes are not tracked across a restart.
Crash(n) ==
    /\ crashes < MaxCrashes
    /\ crashes' = crashes + 1
    /\ jobs' = [jobs EXCEPT ![n] = [j \in Job |-> NoRecord]]
    /\ disp' = [j \in Job |-> IF disp[j].origin = n /\ disp[j].pc # "done"
                                THEN [disp[j] EXCEPT !.pc = "dead"] ELSE disp[j]]
    /\ exec' = [t \in Task |-> IF t.node = n /\ exec[t].pc \notin {"idle", "done"}
                                 THEN [exec[t] EXCEPT !.pc = "dead"] ELSE exec[t]]
    /\ lock' = [lock EXCEPT ![n] = {}]
    /\ submits' = {t \in submits : t.node # n}
    /\ acks' = {t \in acks : Origin(t) # n}
    /\ reports' = {m \in reports : Origin(m.task) # n}
    /\ replies' = {t \in replies : t.node # n}
    /\ UNCHANGED faults

-----------------------------------------------------------------------------

\* Steps of the agents' own tasks: the runtime keeps taking them.
Progress ==
    \/ \E j \in Job :
        \/ DispatchLocal(j) \/ DispatchRemote(j) \/ DispatchAck(j) \/ DispatchRefused(j)
        \/ RetryCheck(j) \/ RetryPick(j) \/ RetryExhausted(j)
    \/ \E t \in Task :
        \/ HandleSubmit(t) \/ ExecStart(t) \/ ExecFinish(t)
        \/ ReportReturn(t) \/ ReportRefused(t)
    \/ \E m \in reports : HandleReport(m)

\* Clients and failures: they may act, and need not.
Environment ==
    \/ \E n \in Origins, j \in Job : Submit(n, j)
    \/ \E n \in Node, j \in Cancellable : Cancel(n, j)
    \/ \E j \in Job : DispatchFault(j) \/ HandlerDropped(j)
    \/ \E t \in Task : ReportFault(t)
    \/ \E n \in Node : Crash(n)

Next == Progress \/ Environment

Spec == Init /\ [][Next]_vars

\* Tokio runs every ready task, and its RwLock queues waiters in FIFO order, so
\* the agents never all stop while some task of theirs can go on.
FairSpec == Spec /\ WF_vars(Progress)

-----------------------------------------------------------------------------
(* Properties *)

\* The types of the job tables, of the dispatcher and executor tasks and of
\* the RPCs in flight.
TypeOK ==
    /\ jobs \in [Node -> [Job -> JobRecord]]
    /\ disp \in [Job -> DispState]
    /\ exec \in [Task -> ExecState]
    /\ lock \in [Node -> SUBSET Task]
    /\ submits \subseteq Task
    /\ acks \subseteq Task
    /\ reports \subseteq Report
    /\ replies \subseteq Task
    /\ faults \in Nat
    /\ crashes \in Nat

Launched(t) == exec[t].pc # "idle"

\* A verdict is never invented: a record that says completed or failed, on any
\* node and after any failures, cancellations and repeated dispatches, follows a
\* child of that job that really ended so; a completed one has exit code 0 and
\* a failed one an error text.
TerminalTruth ==
    \A n \in Node, j \in Job :
        LET r == jobs[n][j]
        IN  r.status \in {"completed", "failed"} =>
              /\ \E t \in Task : /\ t.job = j
                                 /\ exec[t].outcome # "none"
                                 /\ StatusOf(exec[t].outcome) = r.status
              /\ r.status = "completed" => r.exit_code = "zero"
              /\ r.status = "failed" => r.error

\* Through the two lossy conversions of the exit code (an i32 that cannot be
\* absent on the wire, and a handler that guesses), the record of a job that was
\* dispatched by its POST handler says exactly what its only child did.
VerdictExact ==
    \A n \in Node, j \in Job :
        LET r == jobs[n][j]
        IN  disp[j].mode = "once" /\ r.status \in {"completed", "failed"} =>
              \E t \in Task : /\ t.job = j
                              /\ exec[t].outcome # "none"
                              /\ r.status = StatusOf(exec[t].outcome)
                              /\ r.exit_code = CodeOf(exec[t].outcome)
                              /\ r.error = (exec[t].outcome # "zero")

\* The retry loop re-dispatches a job only after submit_remote has failed: when
\* a job is launched twice, the two launches come from different dispatches and
\* the earlier of them was one whose answer was lost.
DuplicateNeedsLostAck ==
    \A t1, t2 \in Task :
        t1.job = t2.job /\ t1 # t2 /\ Launched(t1) /\ Launched(t2) =>
            /\ t1.attempt # t2.attempt
            /\ t1.attempt < t2.attempt => t1.attempt \in disp[t1.job].failed

\* The report of a fast job may overtake the acknowledgement of its submission:
\* once the origin's record of a job dispatched by its POST handler says
\* completed or failed, no late acknowledgement or cancellation changes it.
OnceDispatchFinal ==
    [][ \A j \in Job :
          LET o == disp[j].origin
          IN  /\ disp[j].pc # "new"
              /\ disp[j].mode = "once"
              /\ jobs[o][j].status \in {"completed", "failed"}
              /\ crashes' = crashes
              => jobs'[o][j] = jobs[o][j] ]_vars

\* DELETE beats the retry loop while it sleeps: a job cancelled at its origin
\* before any dispatch of it was sent never runs anywhere.
CancelledAsleep(j) ==
    /\ disp[j].pc = "sleep"
    /\ disp[j].failed = {}
    /\ jobs[disp[j].origin][j].status = "cancelled"

CancelBeatsRetry ==
    \A j \in Job :
        [](CancelledAsleep(j) => [](\A t \in Task : t.job = j => ~Launched(t)))

\* What GET /v1/jobs/:id at the origin shows is what JobPromise allows, through lost
\* calls, retries, overtaking reports and crashes: a verdict was some child's and
\* stays unless there is a second child, a job cancelled before any child was
\* launched stays so until one is, a forgotten job does not come back.
Shown(j) ==
    LET st == jobs[disp[j].origin][j].status
    IN  IF disp[j].pc = "new" THEN "unknown" ELSE IF st = "none" THEN "lost" ELSE st
Children(j) == {t \in Task : t.job = j /\ Launched(t)}
Ended(j)    == {StatusOf(exec[t].outcome) : t \in {c \in Children(j) : exec[c].outcome # "none"}}

Promise == INSTANCE JobPromise WITH Child    <- Task,
                                    seen     <- [j \in Job |-> Shown(j)],
                                    launched <- [j \in Job |-> Children(j)],
                                    ended    <- [j \in Job |-> Ended(j)]
JobPromiseKept == Promise!Spec

\* Without failures, and with one submitting node, every job comes to rest: its
\* origin knows how it ended, or the retry loop gave up and left it queued.
AtRest(j) ==
    LET st == jobs[disp[j].origin][j].status
    IN  \/ st \in Terminal
        \/ st = "queued" /\ disp[j].pc = "done" /\ disp[j].tries = MaxRetries

EventuallySettled ==
    \A j \in Job : disp[j].pc # "new" ~> [](disp[j].pc # "new" /\ AtRest(j))

-----------------------------------------------------------------------------
(* The inductive invariant behind TerminalTruth and DuplicateNeedsLostAck *)

\* A dispatch of t was made: its request is on its way, or it was launched.
Issued(t) == t \in submits \/ Launched(t)

\* A dispatcher that is about to call, or calls, has a node to call.
TargetChosen ==
    \A j \in Job : disp[j].pc \in {"dispatch", "rpc"} => disp[j].target \in Node

\* Every dispatch made so far has failed, except perhaps the current one, and
\* that one only after the dispatcher has gone past "dispatch".
IssuedInOrder ==
    \A t \in Task :
        LET d == disp[t.job]
        IN  Issued(t) =>
              /\ t.attempt <= d.tries
              /\ \/ t.attempt \in d.failed
                 \/ /\ t.attempt = d.tries
                    /\ d.pc \in {"rpc", "done", "dead"}
                    /\ t.node = d.target

\* The current dispatch has not failed until the dispatcher has been told so.
FailedInOrder ==
    \A j \in Job : \A f \in disp[j].failed :
        /\ f <= disp[j].tries
        /\ f = disp[j].tries => disp[j].pc \in {"sleep", "done", "dead"}

\* One dispatch goes to one node, and its request is not duplicated.
OneTaskPerDispatch ==
    /\ \A t1, t2 \in Task :
        /\ Issued(t1) /\ Issued(t2)
        /\ t1.job = t2.job /\ t1.attempt = t2.attempt
        => t1 = t2
    /\ \A t \in submits : ~Launched(t)

\* A job that was not submitted was not dispatched.
NewIsUntouched ==
    \A t \in Task : Issued(t) => disp[t.job].pc # "new"

\* The outcome of a task is set once, when its child is over.
OutcomeSetOnce ==
    \A t \in Task :
        exec[t].pc \in {"idle", "spawned", "started"} => exec[t].outcome = "none"

\* A report on its way says what its task did.
ReportsTrue ==
    \A m \in reports :
        /\ exec[m.task].outcome # "none"
        /\ m.status = StatusOf(exec[m.task].outcome)
        /\ m.status = "completed" => m.exit_code = "zero"
        /\ m.status = "failed" => m.error

DispatchInv == /\ TypeOK /\ TargetChosen /\ IssuedInOrder /\ FailedInOrder
               /\ OneTaskPerDispatch /\ NewIsUntouched

VerdictInv == OutcomeSetOnce /\ ReportsTrue /\ TerminalTruth

-----------------------------------------------------------------------------
(* What the documentation says of the code, and the code does not keep *)

\* The result of a delegated job gets to its origin: the report call returns.
ResultPropagates ==
    \A t \in Task : exec[t].pc = "reporting" ~> exec[t].pc = "done"
=============================================================================
