-------------------------- MODULE JobOutcomeProofs --------------------------
(***************************************************************************)
(* Proofs about the outcome of a job in JobLifecycle: jobs that their POST *)
(* handler dispatched, which have one child at most; jobs cancelled before *)
(* they were dispatched; and what the origin shows of any job, which is    *)
(* what JobPromise allows.                                                 *)
(***************************************************************************)
EXTENDS JobLifecycleProofs

Final(r)    == r.status \in {"completed", "failed"}
Unmarked(r) == ~Final(r) /\ r.exit_code = "none" /\ r.error = FALSE

\* Record r says exactly what a child of j did.
Exact(j, r) ==
    \E t \in Task : /\ t.job = j
                    /\ exec[t].outcome # "none"
                    /\ r.status = StatusOf(exec[t].outcome)
                    /\ r.exit_code = CodeOf(exec[t].outcome)
                    /\ r.error = (exec[t].outcome # "zero")

\* The POST handler dispatches once, from a node.
OnceIsFirst ==
    \A j \in Job :
        /\ disp[j].pc = "new" => disp[j].mode = "once"
        /\ disp[j].mode = "once" => disp[j].tries = 0 /\ disp[j].pc \notin {"sleep", "pick"}
        /\ disp[j].pc # "new" => disp[j].origin \in Node

\* A request goes to another node than the one it comes from.
SubmitsLeave == \A t \in submits : t.node # Origin(t)

\* A report on its way is the encoding of what its task did ...
ReportsExact ==
    \A m \in reports : /\ exec[m.task].outcome # "none"
                       /\ m = ReportOf(m.task, exec[m.task].outcome)

\* ... and the origin has no verdict yet.
ReportsAwaited ==
    \A m \in reports : disp[m.task.job].mode = "once" =>
        ~Final(jobs[Origin(m.task)][m.task.job])

\* Until a record has a verdict, its exit code and its error are as they were made.
RecordsExact ==
    \A n \in Node, j \in Job : disp[j].mode = "once" =>
        Unmarked(jobs[n][j]) \/ Exact(j, jobs[n][j])

OnceInv == OnceIsFirst /\ SubmitsLeave /\ ReportsExact /\ ReportsAwaited /\ RecordsExact

\* What the handlers do to a record without a verdict.
LEMMA UnmarkedRecords ==
  ASSUME NEW r \in JobRecord, Unmarked(r)
  PROVE  /\ \A n \in Node : Unmarked(AckedRecord(r, n))
         /\ Unmarked(StartedRecord(r))
         /\ \A o \in Outcome :
              \/ Unmarked(FinishedRecord(r, o))
              \/ /\ FinishedRecord(r, o).status = StatusOf(o)
                 /\ FinishedRecord(r, o).exit_code = CodeOf(o)
                 /\ FinishedRecord(r, o).error = (o # "zero")
  BY DEF JobRecord, Unmarked, Final, AckedRecord, StartedRecord, FinishedRecord,
         StatusOf, CodeOf, Outcome

\* A verdict that was given is not undone by an acknowledgement.
LEMMA FinalRecords ==
  ASSUME NEW r, Final(r)
  PROVE  \A n \in Node : AckedRecord(r, n) = r
  BY DEF Final, AckedRecord

\* The wire has no way to say "no exit code", and the handler's guess is right.
LEMMA ReportedExactly ==
  ASSUME NEW r \in JobRecord, NEW t, NEW o \in Outcome
  PROVE  LET new == ReportedRecord(r, ReportOf(t, o))
         IN  \/ r.status = "none" /\ new = r
             \/ /\ new.status = StatusOf(o)
                /\ new.exit_code = CodeOf(o)
                /\ new.error = (o # "zero")
  BY DEF JobRecord, ReportedRecord, ReportOf, DecodedCode, StatusOf, CodeOf, Outcome

\* A job dispatched by its POST handler has one child at most.
LEMMA OnlyChild ==
  ASSUME DispatchInv, OnceInv, NEW t \in Task, NEW u \in Task,
         Issued(t), Issued(u), t.job = u.job, disp[t.job].mode = "once"
  PROVE  t = u
<1>1. t.attempt \in Nat /\ u.attempt \in Nat /\ t.job \in Job
  BY ConstantsAssumption DEF Task, Attempt, ConstantsAssumption
<1>2. t.attempt <= 0 /\ u.attempt <= 0
  BY <1>1 DEF DispatchInv, IssuedInOrder, OnceInv, OnceIsFirst
<1>3. t.attempt = u.attempt
  BY <1>1, <1>2
<1> QED BY <1>3 DEF DispatchInv, OneTaskPerDispatch

\* While that child runs, no record of the job has a verdict.
LEMMA NoEarlyVerdict ==
  ASSUME DispatchInv, VerdictInv, OnceInv, NEW t \in Task,
         exec[t].pc \in {"spawned", "started"}, disp[t.job].mode = "once",
         NEW n \in Node
  PROVE  ~Final(jobs[n][t.job])
<1> SUFFICES ASSUME Final(jobs[n][t.job])  PROVE FALSE
  OBVIOUS
<1>1. t.job \in Job
  BY DEF Task
<1>2. PICK u \in Task : u.job = t.job /\ exec[u].outcome # "none"
  BY <1>1 DEF VerdictInv, TerminalTruth, Final
<1>3. exec[t].outcome = "none" /\ Launched(t)
  BY DEF VerdictInv, OutcomeSetOnce, Launched
<1>4. Launched(u)
  BY <1>2 DEF VerdictInv, OutcomeSetOnce, Launched
<1>5. t = u
  BY <1>2, <1>3, <1>4, OnlyChild DEF Issued
<1> QED BY <1>2, <1>3, <1>5

\* A job that is about to be dispatched by its POST handler has no verdict.
LEMMA NoVerdictBefore ==
  ASSUME DispatchInv, VerdictInv, OnceInv, NEW j \in Job, NEW n \in Node,
         disp[j].pc \in {"new", "dispatch"}, disp[j].mode = "once"
  PROVE  ~Final(jobs[n][j])
<1> SUFFICES ASSUME Final(jobs[n][j])  PROVE FALSE
  OBVIOUS
<1>1. PICK u \in Task : u.job = j /\ exec[u].outcome # "none"
  BY DEF VerdictInv, TerminalTruth, Final
<1>2. Issued(u)
  BY <1>1 DEF VerdictInv, OutcomeSetOnce, Launched, Issued
<1>3. disp[j].pc = "dispatch" /\ u.attempt \in disp[j].failed
  BY <1>1, <1>2 DEF DispatchInv, IssuedInOrder, NewIsUntouched
<1>4. u.attempt \in Nat /\ u.attempt <= 0 /\ disp[j].tries = 0
  BY <1>1, <1>2, ConstantsAssumption
  DEF DispatchInv, IssuedInOrder, OnceInv, OnceIsFirst, Task, Attempt, ConstantsAssumption
<1>5. u.attempt = disp[j].tries
  BY <1>4
<1> QED BY <1>3, <1>5 DEF DispatchInv, FailedInOrder

\* A step keeps the records exact if it keeps the modes and the outcomes and
\* writes only records that are unmarked or exact.
LEMMA RecordsStep ==
  ASSUME TypeOK, RecordsExact,
         \A j \in Job : disp'[j].mode = "once" => disp[j].mode = "once",
         \A t \in Task : exec[t].outcome # "none" => exec'[t].outcome = exec[t].outcome,
         \A n \in Node, j \in Job : disp'[j].mode = "once" =>
            \/ jobs'[n][j] = jobs[n][j]
            \/ Unmarked(jobs'[n][j])
            \/ Exact(j, jobs[n][j])'
  PROVE  RecordsExact'
<1> SUFFICES ASSUME NEW n \in Node, NEW j \in Job, disp'[j].mode = "once",
                    ~Unmarked(jobs'[n][j]), jobs'[n][j] = jobs[n][j]
             PROVE  Exact(j, jobs[n][j])'
  BY DEF RecordsExact
<1>1. Exact(j, jobs[n][j])
  BY DEF RecordsExact
<1> QED BY <1>1 DEF Exact

\* A step that writes no record and no report.
LEMMA OnceQuiet ==
  ASSUME TypeOK, OnceInv, OnceIsFirst', SubmitsLeave', jobs' = jobs, reports' \subseteq reports,
         \A j \in Job : disp'[j].mode = disp[j].mode /\ disp'[j].origin = disp[j].origin,
         \A t \in Task : exec[t].outcome # "none" => exec'[t].outcome = exec[t].outcome
  PROVE  OnceInv'
<1>1. \A m \in reports : m.task \in Task /\ m.task.job \in Job
  BY DEF TypeOK, Report, Task
<1>2. ReportsExact' /\ ReportsAwaited'
  BY <1>1 DEF OnceInv, ReportsExact, ReportsAwaited, Origin
<1>3. RecordsExact'
  BY RecordsStep DEF OnceInv
<1> QED BY <1>2, <1>3 DEF OnceInv

\* What was sent or reported belongs to a job that was submitted.
LEMMA BegunJobs ==
  ASSUME DispatchInv, VerdictInv, OnceInv
  PROVE  /\ \A t \in submits : t \in Task /\ t.job \in Job /\ disp[t.job].pc # "new"
         /\ \A m \in reports : /\ m.task \in Task /\ m.task.job \in Job
                               /\ Launched(m.task) /\ disp[m.task.job].pc # "new"
                               /\ Origin(m.task) \in Node
<1>1. \A t \in submits : t \in Task /\ t.job \in Job /\ disp[t.job].pc # "new"
  BY DEF DispatchInv, TypeOK, Task, NewIsUntouched, Issued
<1>2. \A m \in reports : m.task \in Task /\ m.task.job \in Job
  BY DEF DispatchInv, TypeOK, Report, Task
<1>3. \A m \in reports : Launched(m.task)
  BY <1>2 DEF OnceInv, ReportsExact, VerdictInv, OutcomeSetOnce, Launched
<1>4. \A m \in reports : disp[m.task.job].pc # "new"
  BY <1>2, <1>3 DEF DispatchInv, NewIsUntouched, Issued
<1> QED BY <1>1, <1>2, <1>3, <1>4 DEF OnceInv, OnceIsFirst, Origin

\* The dispatchers.
LEMMA OnceDispatch ==
  ASSUME DispatchInv, VerdictInv, OnceInv, NEW j \in Job,
         \/ \E n \in Origins : Submit(n, j)
         \/ DispatchLocal(j) \/ DispatchRemote(j) \/ DispatchAck(j)
         \/ DispatchFault(j) \/ DispatchRefused(j) \/ HandlerDropped(j)
         \/ RetryCheck(j) \/ RetryPick(j) \/ RetryExhausted(j)
  PROVE  OnceInv'
<1>0. TypeOK
  BY DEF DispatchInv
<1>1. CASE \E n \in Origins : Submit(n, j)
  <2>1. PICK n \in Origins : Submit(n, j)
    BY <1>1
  <2>2. n \in Node
    BY ConstantsAssumption DEF ConstantsAssumption
  <2>3. PICK p \in Picks :
          /\ jobs' = [jobs EXCEPT ![n][j] = QueuedRecord(IF p = NoNode THEN n ELSE p)]
          /\ disp' = [disp EXCEPT ![j] =
                       [pc     |-> IF p = NoNode THEN "sleep" ELSE "dispatch",
                        origin |-> n,
                        mode   |-> IF p = NoNode THEN "retry" ELSE "once",
                        target |-> p, tries |-> 0, failed |-> {}]]
    BY <2>1 DEF Submit
  <2>4. exec' = exec /\ submits' = submits /\ reports' = reports /\ disp[j].pc = "new"
    BY <2>1 DEF Submit, net
  <2>5. OnceIsFirst'
    BY <1>0, <2>2, <2>3 DEF TypeOK, OnceInv, OnceIsFirst
  <2>6. \A i \in Job : i # j => disp'[i] = disp[i]
    BY <1>0, <2>3 DEF TypeOK
  <2>7. \A k \in Node, i \in Job :
          jobs'[k][i] = jobs[k][i] \/ (i = j /\ Unmarked(jobs'[k][i]))
    BY <1>0, <2>3 DEF TypeOK, QueuedRecord, Unmarked, Final
  <2>8. SubmitsLeave'
    BY <2>4, <2>6, BegunJobs DEF OnceInv, SubmitsLeave, Origin
  <2>9. ReportsExact'
    BY <2>4 DEF OnceInv, ReportsExact
  <2>10. ReportsAwaited'
    BY <2>4, <2>6, <2>7, BegunJobs DEF OnceInv, ReportsAwaited, Origin
  <2>11. RecordsExact'
    <3>1. disp[j].mode = "once"
      BY <2>4 DEF OnceInv, OnceIsFirst
    <3>2. \A i \in Job : disp'[i].mode = "once" => disp[i].mode = "once"
      BY <2>6, <3>1
    <3> QED BY <1>0, <2>4, <2>7, <3>2, RecordsStep DEF OnceInv
  <2> QED BY <2>5, <2>8, <2>9, <2>10, <2>11 DEF OnceInv
<1>2. CASE DispatchAck(j)
  <2> DEFINE o == disp[j].origin
             r == AckedRecord(jobs[o][j], disp[j].target)
  <2>1. /\ jobs' = [jobs EXCEPT ![o][j] = r]
        /\ disp' = [disp EXCEPT ![j].pc = "done"]
        /\ exec' = exec /\ submits' = submits /\ reports' = reports /\ disp[j].pc = "rpc"
    BY <1>2 DEF DispatchAck
  <2>2. o \in Node /\ disp[j].target \in Node
    BY <2>1 DEF OnceInv, OnceIsFirst, DispatchInv, TargetChosen
  <2>3. \A i \in Job : /\ disp'[i].mode = disp[i].mode /\ disp'[i].origin = disp[i].origin
                       /\ disp'[i].tries = disp[i].tries
                       /\ disp'[i].pc = IF i = j THEN "done" ELSE disp[i].pc
    BY <1>0, <2>1 DEF TypeOK, DispState
  <2>4. OnceIsFirst' /\ SubmitsLeave'
    BY <2>1, <2>3, BegunJobs DEF OnceInv, OnceIsFirst, SubmitsLeave, Origin
  <2>5. jobs[o][j] \in JobRecord
    BY <1>0, <2>2 DEF TypeOK
  <2>6. r = jobs[o][j] \/ (~Final(jobs[o][j]) /\ (Unmarked(jobs[o][j]) => Unmarked(r))
                           /\ ~Final(r))
    <3>1. CASE Final(jobs[o][j])
      BY <2>2, <3>1, FinalRecords
    <3>2. CASE ~Final(jobs[o][j])
      <4>1. Unmarked(jobs[o][j]) => Unmarked(r)
        BY <2>2, <2>5, UnmarkedRecords
      <4>2. r = jobs[o][j] \/ r.status = "running"
        BY <2>2, <2>5, RecordVerdicts
      <4> QED BY <3>2, <4>1, <4>2 DEF Final
    <3> QED BY <3>1, <3>2
  <2> HIDE DEF o, r
  <2>7. \A k \in Node, i \in Job :
          jobs'[k][i] = IF k = o /\ i = j THEN r ELSE jobs[k][i]
    BY <1>0, <2>1, <2>2 DEF TypeOK
  <2>8. ReportsExact'
    BY <2>1 DEF OnceInv, ReportsExact
  <2>9. ReportsAwaited'
    BY <2>1, <2>3, <2>6, <2>7, BegunJobs DEF OnceInv, ReportsAwaited, Origin
  <2>10. RecordsExact'
    <3>1. disp[j].mode = "once" /\ ~Final(jobs[o][j]) => Unmarked(jobs[o][j])
      <4> SUFFICES ASSUME disp[j].mode = "once", ~Final(jobs[o][j])  PROVE Unmarked(jobs[o][j])
        OBVIOUS
      <4>1. CASE Exact(j, jobs[o][j])
        BY <4>1 DEF Exact, Final, StatusOf
      <4> QED BY <2>2, <4>1 DEF OnceInv, RecordsExact
    <3> QED BY <1>0, <2>1, <2>3, <2>6, <2>7, <3>1, RecordsStep DEF OnceInv
  <2> QED BY <2>4, <2>8, <2>9, <2>10 DEF OnceInv
<1>3. CASE DispatchLocal(j)
  <2>1. /\ jobs' = jobs /\ reports' = reports /\ submits' = submits
        /\ disp' = [disp EXCEPT ![j].pc = "done"]
        /\ exec' = [exec EXCEPT ![DispatchTask(j)].pc = "spawned"]
        /\ disp[j].pc = "dispatch"
    BY <1>3 DEF DispatchLocal, net
  <2>2. \A i \in Job : /\ disp'[i].mode = disp[i].mode /\ disp'[i].origin = disp[i].origin
                       /\ disp'[i].tries = disp[i].tries
                       /\ disp'[i].pc = IF i = j THEN "done" ELSE disp[i].pc
    BY <1>0, <2>1 DEF TypeOK, DispState
  <2>3. OnceIsFirst' /\ SubmitsLeave'
    BY <2>1, <2>2, BegunJobs DEF OnceInv, OnceIsFirst, SubmitsLeave, Origin
  <2>4. \A t \in Task : exec'[t].outcome = exec[t].outcome
    BY <1>0, <2>1 DEF TypeOK, ExecState
  <2> QED BY <1>0, <2>1, <2>2, <2>3, <2>4, OnceQuiet
<1>4. CASE \/ DispatchRemote(j) \/ DispatchFault(j) \/ DispatchRefused(j)
           \/ HandlerDropped(j) \/ RetryCheck(j) \/ RetryPick(j) \/ RetryExhausted(j)
  <2>1. UNCHANGED <<jobs, exec, reports>>
    BY <1>4 DEF DispatchRemote, DispatchFault, DispatchRefused, HandlerDropped,
                RetryCheck, RetryPick, RetryExhausted, net
  <2>2. \A i \in Job : i # j => disp'[i] = disp[i]
    BY <1>0, <1>4 DEF TypeOK, DispatchRemote, DispatchFault, DispatchRefused, HandlerDropped,
                RetryCheck, RetryPick, RetryExhausted
  <2>3. /\ disp'[j].mode = disp[j].mode /\ disp'[j].origin = disp[j].origin
        /\ disp[j].pc # "new" /\ disp'[j].pc # "new"
        /\ disp[j].mode = "once" => /\ disp'[j].tries = disp[j].tries
                                    /\ disp'[j].pc \notin {"sleep", "pick"}
    <3>1. disp[j] \in DispState /\ OnceIsFirst
      BY <1>0 DEF TypeOK, OnceInv
    <3>2. CASE DispatchRemote(j) \/ HandlerDropped(j) \/ RetryExhausted(j)
      <4>1. PICK c \in {"rpc", "dead", "done"} : disp' = [disp EXCEPT ![j].pc = c]
        BY <3>2 DEF DispatchRemote, HandlerDropped, RetryExhausted
      <4>2. disp[j].pc # "new"
        BY <3>2 DEF DispatchRemote, HandlerDropped, RetryExhausted
      <4>3. disp'[j] = [disp[j] EXCEPT !.pc = c]
        BY <1>0, <4>1 DEF TypeOK
      <4> QED BY <3>1, <4>2, <4>3 DEF DispState
    <3>3. CASE DispatchFault(j) \/ DispatchRefused(j)
      <4>1. disp' = [disp EXCEPT ![j] = AfterFailure(disp[j])] /\ disp[j].pc = "rpc"
        BY <3>3 DEF DispatchFault, DispatchRefused
      <4>2. disp'[j] = AfterFailure(disp[j])
        BY <1>0, <4>1 DEF TypeOK
      <4> QED BY <3>1, <4>1, <4>2 DEF DispState, AfterFailure
    <3>4. CASE RetryCheck(j)
      <4>1. disp[j].pc = "sleep"
        BY <3>4 DEF RetryCheck
      <4>2. disp'[j].mode = disp[j].mode /\ disp'[j].origin = disp[j].origin
            /\ disp'[j].pc \in {"pick", "done"}
        BY <1>0, <3>1, <3>4 DEF TypeOK, DispState, RetryCheck
      <4> QED BY <3>1, <4>1, <4>2 DEF OnceIsFirst
    <3>5. CASE RetryPick(j)
      <4>1. disp[j].pc = "pick"
        BY <3>5 DEF RetryPick
      <4>2. disp'[j].mode = disp[j].mode /\ disp'[j].origin = disp[j].origin
            /\ disp'[j].pc \in {"sleep", "dispatch"}
        <5>1. PICK p \in Picks :
                disp' = [disp EXCEPT ![j].target = p,
                                     ![j].pc = IF p = NoNode THEN "sleep" ELSE "dispatch"]
          BY <3>5 DEF RetryPick
        <5>2. disp'[j] = [disp[j] EXCEPT !.target = p,
                                         !.pc = IF p = NoNode THEN "sleep" ELSE "dispatch"]
          BY <1>0, <5>1 DEF TypeOK
        <5> QED BY <3>1, <5>2 DEF DispState
      <4> QED BY <3>1, <4>1, <4>2 DEF OnceIsFirst
    <3> QED BY <1>4, <3>2, <3>3, <3>4, <3>5
  <2>4. OnceIsFirst'
    BY <2>2, <2>3 DEF OnceInv, OnceIsFirst
  <2>5. \A t \in submits' : t \in submits \/ (t.job = j /\ t.node # disp[j].origin)
    BY <1>4 DEF DispatchRemote, DispatchFault, DispatchRefused, HandlerDropped,
                RetryCheck, RetryPick, RetryExhausted, net, DispatchTask
  <2>6. SubmitsLeave'
    BY <2>2, <2>3, <2>5, BegunJobs DEF OnceInv, SubmitsLeave, Origin
  <2>7. \A i \in Job : disp'[i].mode = disp[i].mode /\ disp'[i].origin = disp[i].origin
    BY <2>2, <2>3
  <2> QED BY <1>0, <2>1, <2>4, <2>6, <2>7, OnceQuiet
<1> QED BY <1>1, <1>2, <1>3, <1>4

\* A step of a delegate or an executor keeps what the books of the once-dispatched
\* jobs say, if its reports and its records do.
LEMMA OnceStep ==
  ASSUME TypeOK, OnceInv, disp' = disp, submits' \subseteq submits,
         \A t \in Task : exec[t].outcome # "none" => exec'[t].outcome = exec[t].outcome,
         \A m \in reports' : \/ m \in reports
                             \/ /\ exec'[m.task].outcome # "none"
                                /\ m = ReportOf(m.task, exec'[m.task].outcome),
         ReportsAwaited',
         \A n \in Node, j \in Job : disp[j].mode = "once" =>
            \/ jobs'[n][j] = jobs[n][j]
            \/ Unmarked(jobs'[n][j])
            \/ Exact(j, jobs[n][j])'
  PROVE  OnceInv'
<1>1. OnceIsFirst' /\ SubmitsLeave'
  BY DEF OnceInv, OnceIsFirst, SubmitsLeave, Origin
<1>2. \A m \in reports : m.task \in Task
  BY DEF TypeOK, Report
<1>3. ReportsExact'
  BY <1>2 DEF OnceInv, ReportsExact
<1>4. RecordsExact'
  BY RecordsStep DEF OnceInv
<1> QED BY <1>1, <1>3, <1>4 DEF OnceInv

\* Two reports on their way about a once-dispatched job are the same report.
LEMMA OneReport ==
  ASSUME DispatchInv, VerdictInv, OnceInv, NEW m \in reports, NEW t \in Task,
         Launched(t), t.job = m.task.job, disp[t.job].mode = "once"
  PROVE  m.task = t /\ m = ReportOf(t, exec[t].outcome)
<1>1. m.task \in Task /\ Launched(m.task)
  BY BegunJobs
<1>2. m.task = t
  BY <1>1, OnlyChild DEF Issued
<1> QED BY <1>2 DEF OnceInv, ReportsExact

\* The delegates, the executors, the clients and the crashes.
LEMMA OnceTask ==
  ASSUME DispatchInv, VerdictInv, OnceInv,
         \/ \E t \in Task : \/ HandleSubmit(t) \/ ExecStart(t) \/ ExecFinish(t)
                            \/ ReportReturn(t) \/ ReportRefused(t) \/ ReportFault(t)
         \/ \E m \in reports : HandleReport(m)
         \/ \E n \in Node, j \in Job : Cancel(n, j)
         \/ \E n \in Node : Crash(n)
  PROVE  OnceInv'
<1>0. TypeOK
  BY DEF DispatchInv
<1>00. \A n \in Node, j \in Job : disp[j].mode = "once" /\ ~Final(jobs[n][j]) => Unmarked(jobs[n][j])
  <2> SUFFICES ASSUME NEW n \in Node, NEW j \in Job, disp[j].mode = "once", ~Final(jobs[n][j])
               PROVE  Unmarked(jobs[n][j])
    OBVIOUS
  <2>1. CASE Exact(j, jobs[n][j])
    BY <2>1 DEF Exact, Final, StatusOf
  <2> QED BY <2>1 DEF OnceInv, RecordsExact
<1>1. ASSUME NEW u \in Task, HandleSubmit(u)  PROVE OnceInv'
  <2>1. /\ jobs' = [jobs EXCEPT ![u.node][u.job] = QueuedRecord(u.node)]
        /\ disp' = disp /\ submits' \subseteq submits /\ reports' = reports
    BY <1>1 DEF HandleSubmit
  <2>2. \A t \in Task : exec'[t].outcome = exec[t].outcome
    BY <1>0, <1>1 DEF HandleSubmit, TypeOK, ExecState
  <2>3. \A n \in Node, j \in Job : jobs'[n][j] = jobs[n][j] \/ Unmarked(jobs'[n][j])
    BY <1>0, <2>1 DEF TypeOK, QueuedRecord, Unmarked, Final
  <2>4. ReportsAwaited'
    BY <2>1, <2>3, BegunJobs DEF OnceInv, ReportsAwaited, Origin, Unmarked
  <2> QED BY <1>0, <2>1, <2>2, <2>3, <2>4, OnceStep
<1>2. ASSUME NEW u \in Task, ExecStart(u)  PROVE OnceInv'
  <2> DEFINE r == StartedRecord(jobs[u.node][u.job])
  <2>1. /\ jobs' = [jobs EXCEPT ![u.node][u.job] = r]
        /\ disp' = disp /\ submits' = submits /\ reports' = reports
        /\ exec[u].pc = "spawned"
    BY <1>2 DEF ExecStart, net
  <2>2. \A t \in Task : exec'[t].outcome = exec[t].outcome
    BY <1>0, <1>2 DEF ExecStart, TypeOK, ExecState
  <2>3. u.node \in Node /\ u.job \in Job /\ jobs[u.node][u.job] \in JobRecord
    BY <1>0 DEF Task, TypeOK
  <2>4. disp[u.job].mode = "once" => Unmarked(r)
    BY <1>00, <2>1, <2>3, NoEarlyVerdict, UnmarkedRecords
  <2> HIDE DEF r
  <2>5. \A n \in Node, j \in Job :
          jobs'[n][j] = IF n = u.node /\ j = u.job THEN r ELSE jobs[n][j]
    BY <1>0, <2>1, <2>3 DEF TypeOK
  <2>6. \A n \in Node, j \in Job : disp[j].mode = "once" =>
          jobs'[n][j] = jobs[n][j] \/ Unmarked(jobs'[n][j])
    BY <2>4, <2>5
  <2>7. ReportsAwaited'
    BY <2>1, <2>6, BegunJobs DEF OnceInv, ReportsAwaited, Origin, Unmarked
  <2> QED BY <1>0, <2>1, <2>2, <2>6, <2>7, OnceStep
<1>3. ASSUME NEW u \in Task, ExecFinish(u)  PROVE OnceInv'
  <2>1. PICK o \in Outcome :
          /\ jobs' = [jobs EXCEPT ![u.node][u.job] = FinishedRecord(jobs[u.node][u.job], o)]
          /\ IF Origin(u) = u.node
               THEN /\ exec' = [exec EXCEPT ![u] = [pc |-> "done", outcome |-> o]]
                    /\ UNCHANGED <<lock, reports>>
               ELSE /\ exec' = [exec EXCEPT ![u] = [pc |-> "reporting", outcome |-> o]]
                    /\ lock' = [lock EXCEPT ![u.node] = {u}]
                    /\ reports' = reports \cup {ReportOf(u, o)}
    BY <1>3 DEF ExecFinish
  <2>2. disp' = disp /\ submits' = submits /\ exec[u].pc = "started"
    BY <1>3 DEF ExecFinish
  <2>3. exec[u].outcome = "none" /\ o # "none"
    BY <2>2 DEF VerdictInv, OutcomeSetOnce, Outcome
  <2>4. exec'[u].outcome = o /\ \A t \in Task : t # u => exec'[t] = exec[t]
    BY <1>0, <2>1 DEF TypeOK
  <2>5. u.node \in Node /\ u.job \in Job /\ jobs[u.node][u.job] \in JobRecord
    BY <1>0 DEF Task, TypeOK
  <2> DEFINE r == FinishedRecord(jobs[u.node][u.job], o)
  <2>6. disp[u.job].mode = "once" =>
          \/ Unmarked(r)
          \/ r.status = StatusOf(o) /\ r.exit_code = CodeOf(o) /\ r.error = (o # "zero")
    BY <1>00, <2>2, <2>5, NoEarlyVerdict, UnmarkedRecords
  <2> HIDE DEF r
  <2>7. \A n \in Node, j \in Job :
          jobs'[n][j] = IF n = u.node /\ j = u.job THEN r ELSE jobs[n][j]
    BY <1>0, <2>1, <2>5 DEF TypeOK, r
  <2>8. \A n \in Node, j \in Job : disp[j].mode = "once" =>
          \/ jobs'[n][j] = jobs[n][j]
          \/ Unmarked(jobs'[n][j])
          \/ Exact(j, jobs[n][j])'
    <3> SUFFICES ASSUME NEW n \in Node, NEW j \in Job, disp[j].mode = "once",
                        n = u.node, j = u.job, ~Unmarked(r)
                 PROVE  Exact(j, jobs[n][j])'
      BY <2>7
    <3> QED BY <2>3, <2>4, <2>6, <2>7 DEF Exact
  <2>9. \A m \in reports' : m \in reports \/ m = ReportOf(u, o)
    BY <2>1
  <2>10. ReportOf(u, o).task = u
    BY DEF ReportOf
  <2>11. ReportsAwaited'
    <3> SUFFICES ASSUME NEW m \in reports', disp[m.task.job].mode = "once"
                 PROVE  ~Final(jobs'[Origin(m.task)][m.task.job])
      BY <2>2 DEF ReportsAwaited, Origin
    <3>0. Launched(u) /\ Issued(u)
      BY <2>2 DEF Launched, Issued
    <3>1. CASE m.task.job = u.job
      <4>1. m \notin reports
        <5> SUFFICES ASSUME m \in reports  PROVE FALSE
          OBVIOUS
        <5>1. m.task = u
          BY <3>0, <3>1, OneReport
        <5> QED BY <2>3, <5>1 DEF OnceInv, ReportsExact
      <4>2. m = ReportOf(u, o) /\ Origin(u) # u.node /\ m.task = u
        BY <2>1, <2>10, <4>1
      <4>3. Origin(u) \in Node
        BY <2>5, <3>0 DEF DispatchInv, NewIsUntouched, OnceInv, OnceIsFirst, Origin
      <4>4. ~Final(jobs[Origin(u)][u.job])
        BY <2>2, <4>2, <4>3, NoEarlyVerdict
      <4> QED BY <2>5, <2>7, <4>2, <4>3, <4>4
    <3>2. CASE m.task.job # u.job
      <4>1. m \in reports
        BY <2>9, <2>10, <3>2
      <4> QED BY <2>7, <3>2, <4>1, BegunJobs DEF OnceInv, ReportsAwaited
    <3> QED BY <3>1, <3>2
  <2> QED BY <1>0, <2>2, <2>3, <2>4, <2>8, <2>9, <2>10, <2>11, OnceStep
<1>4. ASSUME NEW m \in reports, HandleReport(m)  PROVE OnceInv'
  <2> DEFINE o == Origin(m.task)
             j == m.task.job
             r == ReportedRecord(jobs[o][j], m)
  <2>1. /\ m.task \in Task /\ j \in Job /\ o \in Node /\ Launched(m.task)
        /\ jobs[o][j] \in JobRecord
    BY <1>0, BegunJobs DEF TypeOK
  <2>2. /\ jobs' = [jobs EXCEPT ![o][j] = r] /\ reports' = reports \ {m}
        /\ disp' = disp /\ exec' = exec /\ submits' = submits
    BY <1>4 DEF HandleReport
  <2>3. /\ exec[m.task].outcome \in Outcome
        /\ m = ReportOf(m.task, exec[m.task].outcome)
    BY <1>0, <2>1 DEF OnceInv, ReportsExact, TypeOK, ExecState
  <2>4. \/ r = jobs[o][j]
        \/ /\ r.status = StatusOf(exec[m.task].outcome)
           /\ r.exit_code = CodeOf(exec[m.task].outcome)
           /\ r.error = (exec[m.task].outcome # "zero")
    BY <2>1, <2>3, ReportedExactly
  <2> HIDE DEF o, r
  <2>5. \A n \in Node, i \in Job :
          jobs'[n][i] = IF n = o /\ i = j THEN r ELSE jobs[n][i]
    BY <1>0, <2>1, <2>2 DEF TypeOK
  <2>6. \A n \in Node, i \in Job : jobs'[n][i] = jobs[n][i] \/ Exact(i, jobs[n][i])'
    <3> SUFFICES ASSUME NEW n \in Node, NEW i \in Job, n = o, i = j, r # jobs[o][j]
                 PROVE  Exact(i, jobs[n][i])'
      BY <2>5
    <3>1. exec[m.task].outcome # "none"
      BY <2>3 DEF Outcome
    <3> QED BY <2>1, <2>2, <2>4, <2>5, <3>1 DEF Exact
  <2>7. ReportsAwaited'
    <3> SUFFICES ASSUME NEW k \in reports, k # m, disp[k.task.job].mode = "once"
                 PROVE  ~Final(jobs'[Origin(k.task)][k.task.job])
      BY <2>2 DEF ReportsAwaited, Origin
    <3>1. CASE k.task.job = j
      BY <2>1, <2>3, <3>1, OneReport
    <3>2. CASE k.task.job # j
      BY <2>5, <3>2, BegunJobs DEF OnceInv, ReportsAwaited
    <3> QED BY <3>1, <3>2
  <2> QED BY <1>0, <2>2, <2>6, <2>7, OnceStep
<1>5. ASSUME NEW u \in Task, ReportReturn(u) \/ ReportRefused(u) \/ ReportFault(u)
      PROVE  OnceInv'
  <2>1. Released(u) /\ reports' \subseteq reports
    BY <1>5 DEF ReportReturn, ReportRefused, ReportFault
  <2>2. disp' = disp /\ submits' = submits /\ jobs' = jobs
    BY <2>1 DEF Released
  <2>3. \A t \in Task : exec'[t].outcome = exec[t].outcome
    BY <1>0, <2>1 DEF Released, TypeOK, ExecState
  <2>4. OnceIsFirst' /\ SubmitsLeave'
    BY <2>2 DEF OnceInv, OnceIsFirst, SubmitsLeave, Origin
  <2> QED BY <1>0, <2>1, <2>2, <2>3, <2>4, OnceQuiet
<1>6. ASSUME NEW n \in Node, NEW j \in Job, Cancel(n, j)  PROVE OnceInv'
  <2>1. /\ jobs' = [jobs EXCEPT ![n][j].status = "cancelled"] /\ ~Final(jobs[n][j])
        /\ disp' = disp /\ submits' = submits /\ reports' = reports /\ exec' = exec
    BY <1>6 DEF Cancel, net, Final, Terminal
  <2>2. jobs[n][j] \in JobRecord
    BY <1>0 DEF TypeOK
  <2>3. \A k \in Node, i \in Job : jobs'[k][i] =
          IF k = n /\ i = j THEN [jobs[n][j] EXCEPT !.status = "cancelled"] ELSE jobs[k][i]
    BY <1>0, <2>1 DEF TypeOK
  <2>4. ~Final([jobs[n][j] EXCEPT !.status = "cancelled"])
    BY <2>2 DEF Final, JobRecord
  <2>5. disp[j].mode = "once" => Unmarked([jobs[n][j] EXCEPT !.status = "cancelled"])
    BY <1>00, <2>1, <2>2 DEF Unmarked, Final, JobRecord
  <2>6. \A k \in Node, i \in Job : disp[i].mode = "once" =>
          jobs'[k][i] = jobs[k][i] \/ Unmarked(jobs'[k][i])
    BY <2>3, <2>5
  <2>7. ReportsAwaited'
    BY <2>1, <2>3, <2>4, BegunJobs DEF OnceInv, ReportsAwaited, Origin
  <2> QED BY <1>0, <2>1, <2>6, <2>7, OnceStep
<1>7. ASSUME NEW n \in Node, Crash(n)  PROVE OnceInv'
  <2>1. \A i \in Job : /\ disp'[i].mode = disp[i].mode /\ disp'[i].origin = disp[i].origin
                       /\ disp'[i].tries = disp[i].tries
                       /\ \/ disp'[i].pc = disp[i].pc
                          \/ (disp'[i].pc = "dead" /\ disp[i].origin = n)
    BY <1>0, <1>7 DEF Crash, TypeOK, DispState
  <2>2. \A k \in Node, i \in Job : jobs'[k][i] = jobs[k][i] \/ Unmarked(jobs'[k][i])
    BY <1>0, <1>7 DEF Crash, TypeOK, NoRecord, Unmarked, Final
  <2>3. \A t \in Task : exec'[t].outcome = exec[t].outcome
    BY <1>0, <1>7 DEF Crash, TypeOK, ExecState
  <2>4. submits' \subseteq submits /\ reports' \subseteq reports
    BY <1>7 DEF Crash
  <2>5. OnceIsFirst' /\ SubmitsLeave'
    BY <2>1, <2>4, BegunJobs DEF OnceInv, OnceIsFirst, SubmitsLeave, Origin
  <2>6. ReportsExact'
    BY <2>3, <2>4, BegunJobs DEF OnceInv, ReportsExact
  <2>7. ReportsAwaited'
    BY <2>1, <2>2, <2>4, BegunJobs DEF OnceInv, ReportsAwaited, Origin, Unmarked
  <2>8. RecordsExact'
    BY <1>0, <2>1, <2>2, <2>3, RecordsStep DEF OnceInv
  <2> QED BY <2>5, <2>6, <2>7, <2>8 DEF OnceInv
<1> QED BY <1>1, <1>2, <1>3, <1>4, <1>5, <1>6, <1>7

\* Together with the invariants of the dispatchers and of the verdicts, OnceInv
\* is inductive.
LEMMA OnceInvNext == DispatchInv /\ VerdictInv /\ OnceInv /\ [Next]_vars => OnceInv'
<1> SUFFICES ASSUME DispatchInv, VerdictInv, OnceInv, [Next]_vars  PROVE OnceInv'
  OBVIOUS
<1>1. CASE UNCHANGED vars
  <2>1. UNCHANGED <<jobs, disp, exec, submits, reports>>
    BY <1>1 DEF vars, net
  <2> QED BY <2>1 DEF OnceInv, OnceIsFirst, SubmitsLeave, ReportsExact, ReportsAwaited,
                      RecordsExact, Exact, Origin
<1>2. CASE Progress
  BY <1>2, OnceDispatch, OnceTask DEF Progress
<1>3. CASE Environment
  BY <1>3, OnceDispatch, OnceTask, ConstantsAssumption DEF Environment, ConstantsAssumption
<1> QED BY <1>1, <1>2, <1>3 DEF Next

\* The three invariants hold in every reachable state.
LEMMA OutcomeInvariant == Spec => [](DispatchInv /\ VerdictInv /\ OnceInv)
<1>1. Init => DispatchInv /\ VerdictInv /\ OnceInv
  <2>1. Init => VerdictInv
    BY DEF Init, VerdictInv, OutcomeSetOnce, ReportsTrue, TerminalTruth, NoRecord
  <2>2. Init => OnceInv
    BY DEF Init, OnceInv, OnceIsFirst, SubmitsLeave, ReportsExact, ReportsAwaited,
           RecordsExact, Unmarked, Final, NoRecord
  <2> QED BY <2>1, <2>2, TypeInit, BookkeepingInit DEF DispatchInv, Bookkeeping
<1>2. DispatchInv /\ VerdictInv /\ OnceInv /\ [Next]_vars
        => (DispatchInv /\ VerdictInv /\ OnceInv)'
  BY DispatchInvNext, VerdictInvNext, OnceInvNext
<1> QED BY <1>1, <1>2, PTL DEF Spec

\* Through the i32 that cannot be absent and the handler that guesses, the record
\* of a job dispatched by its POST handler says exactly what its child did.
THEOREM VerdictsExact == Spec => []VerdictExact
<1>1. OnceInv => VerdictExact
  <2> SUFFICES ASSUME OnceInv, NEW n \in Node, NEW j \in Job, disp[j].mode = "once",
                      jobs[n][j].status \in {"completed", "failed"}
               PROVE  Exact(j, jobs[n][j])
    BY DEF VerdictExact, Exact
  <2> QED BY DEF OnceInv, RecordsExact, Unmarked, Final
<1> QED BY <1>1, OutcomeInvariant, PTL

-----------------------------------------------------------------------------
(* A verdict at the origin is final *)

\* No step but a crash changes the origin's record once it has a verdict.
LEMMA VerdictKept ==
  ASSUME DispatchInv, VerdictInv, OnceInv, [Next]_vars, NEW j \in Job,
         disp[j].pc # "new", disp[j].mode = "once",
         Final(jobs[disp[j].origin][j]), crashes' = crashes
  PROVE  jobs'[disp[j].origin][j] = jobs[disp[j].origin][j]
<1> DEFINE o == disp[j].origin
<1>0. TypeOK /\ o \in Node
  BY DEF DispatchInv, OnceInv, OnceIsFirst
<1> HIDE DEF o
<1>1. ASSUME NEW i \in Job, i # j \/ jobs' = jobs,
             \/ \E n \in Origins : Submit(n, i)
             \/ DispatchLocal(i) \/ DispatchRemote(i) \/ DispatchAck(i)
             \/ DispatchFault(i) \/ DispatchRefused(i) \/ HandlerDropped(i)
             \/ RetryCheck(i) \/ RetryPick(i) \/ RetryExhausted(i)
      PROVE  jobs'[o][j] = jobs[o][j]
  <2>1. CASE \E n \in Origins : Submit(n, i)
    BY <1>0, <1>1, <2>1 DEF Submit, TypeOK
  <2>2. CASE DispatchAck(i)
    BY <1>0, <1>1, <2>2 DEF DispatchAck, TypeOK
  <2> QED BY <1>1, <2>1, <2>2 DEF DispatchLocal, DispatchRemote, DispatchFault,
          DispatchRefused, HandlerDropped, RetryCheck, RetryPick, RetryExhausted
<1>2. ASSUME NEW i \in Job,
             \/ \E n \in Origins : Submit(n, i)
             \/ DispatchLocal(i) \/ DispatchRemote(i) \/ DispatchAck(i)
             \/ DispatchFault(i) \/ DispatchRefused(i) \/ HandlerDropped(i)
             \/ RetryCheck(i) \/ RetryPick(i) \/ RetryExhausted(i)
      PROVE  jobs'[o][j] = jobs[o][j]
  <2>1. CASE i = j /\ DispatchAck(j)
    <3>1. disp[j].target \in Node
      BY <2>1 DEF DispatchAck, DispatchInv, TargetChosen
    <3>2. jobs' = [jobs EXCEPT ![o][j] = AckedRecord(jobs[o][j], disp[j].target)]
      BY <2>1 DEF DispatchAck, o
    <3>3. AckedRecord(jobs[o][j], disp[j].target) = jobs[o][j]
      BY <3>1, FinalRecords DEF o
    <3> QED BY <1>0, <3>2, <3>3 DEF TypeOK
  <2>2. CASE i = j /\ ~DispatchAck(j)
    <3>1. jobs' = jobs
      BY <1>2, <2>2 DEF Submit, DispatchLocal, DispatchRemote, DispatchFault,
          DispatchRefused, HandlerDropped, RetryCheck, RetryPick, RetryExhausted
    <3> QED BY <3>1
  <2> QED BY <1>1, <1>2, <2>1, <2>2
<1>3. ASSUME NEW u \in Task, HandleSubmit(u)  PROVE jobs'[o][j] = jobs[o][j]
  <2>1. ~(u.node = o /\ u.job = j)
    BY <1>3 DEF HandleSubmit, OnceInv, SubmitsLeave, Origin, o
  <2> QED BY <1>0, <1>3, <2>1 DEF HandleSubmit, TypeOK
<1>4. ASSUME NEW u \in Task, ExecStart(u) \/ ExecFinish(u)  PROVE jobs'[o][j] = jobs[o][j]
  <2>1. exec[u].pc \in {"spawned", "started"}
    BY <1>4 DEF ExecStart, ExecFinish
  <2>2. u.job # j
    BY <1>0, <2>1, NoEarlyVerdict DEF o
  <2>3. PICK r : jobs' = [jobs EXCEPT ![u.node][u.job] = r]
    BY <1>4 DEF ExecStart, ExecFinish
  <2> QED BY <1>0, <2>2, <2>3 DEF TypeOK
<1>5. ASSUME NEW m \in reports, HandleReport(m)  PROVE jobs'[o][j] = jobs[o][j]
  <2>1. m.task.job # j
    BY DEF OnceInv, ReportsAwaited, Origin
  <2> QED BY <1>0, <1>5, <2>1 DEF HandleReport, TypeOK
<1>6. ASSUME NEW u \in Task, ReportReturn(u) \/ ReportRefused(u) \/ ReportFault(u)
      PROVE  jobs'[o][j] = jobs[o][j]
  BY <1>6 DEF ReportReturn, ReportRefused, ReportFault, Released
<1>7. ASSUME NEW n \in Node, NEW i \in Job, Cancel(n, i)  PROVE jobs'[o][j] = jobs[o][j]
  <2>1. ~(n = o /\ i = j)
    BY <1>7 DEF Cancel, Final, Terminal, o
  <2> QED BY <1>0, <1>7, <2>1 DEF Cancel, TypeOK
<1>8. ASSUME NEW n \in Node, Crash(n)  PROVE FALSE
  BY <1>0, <1>8 DEF Crash, TypeOK
<1>9. CASE UNCHANGED vars
  BY <1>9 DEF vars
<1>10. CASE Progress
  BY <1>2, <1>3, <1>4, <1>5, <1>6, <1>10 DEF Progress, o
<1>11. CASE Environment
  BY <1>2, <1>6, <1>7, <1>8, <1>11, ConstantsAssumption
  DEF Environment, ConstantsAssumption, o
<1> QED BY <1>9, <1>10, <1>11 DEF Next

\* A report that overtook the acknowledgement of its submission stays: once the
\* origin's record of a once-dispatched job has a verdict, only a crash changes it.
THEOREM OnceFinal == Spec => OnceDispatchFinal
<1>1. DispatchInv /\ VerdictInv /\ OnceInv /\ [Next]_vars =>
        [ \A j \in Job :
            LET o == disp[j].origin
            IN  /\ disp[j].pc # "new"
                /\ disp[j].mode = "once"
                /\ jobs[o][j].status \in {"completed", "failed"}
                /\ crashes' = crashes
                => jobs'[o][j] = jobs[o][j] ]_vars
  BY VerdictKept DEF Final
<1> QED BY <1>1, OutcomeInvariant, PTL DEF Spec, OnceDispatchFinal

-----------------------------------------------------------------------------
(* Cancellation before any dispatch *)

\* Nothing of job j was issued, and nothing ever will: its dispatcher has ended,
\* or it will find the record cancelled when it wakes up.
NeverRuns(j) ==
    /\ \A t \in Task : t.job = j => ~Issued(t)
    /\ \/ disp[j].pc \in {"done", "dead"}
       \/ /\ disp[j].pc = "sleep"
          /\ disp[j].origin \in Node
          /\ jobs[disp[j].origin][j].status = "cancelled"

\* A job cancelled while its retry loop sleeps, with no failed dispatch behind it,
\* is such a job.
LEMMA CancelledNeverRuns ==
  ASSUME DispatchInv, OnceInv, NEW j \in Job, CancelledAsleep(j)
  PROVE  NeverRuns(j)
<1>1. \A t \in Task : t.job = j => ~Issued(t)
  BY DEF DispatchInv, IssuedInOrder, CancelledAsleep
<1> QED BY <1>1 DEF CancelledAsleep, OnceInv, OnceIsFirst, NeverRuns

\* The dispatchers: only the one of j could issue something of j, and it ends.
LEMMA NeverRunsDispatch ==
  ASSUME TypeOK, TypeOK', NEW j \in Job, NeverRuns(j), NEW i \in Job,
         \/ \E n \in Origins : Submit(n, i)
         \/ DispatchLocal(i) \/ DispatchRemote(i) \/ DispatchAck(i)
         \/ DispatchFault(i) \/ DispatchRefused(i) \/ HandlerDropped(i)
         \/ RetryCheck(i) \/ RetryPick(i) \/ RetryExhausted(i)
  PROVE  NeverRuns(j)'
<1>1. CASE i = j
  <2>1. RetryCheck(j) \/ RetryExhausted(j)
    BY <1>1 DEF NeverRuns, Submit, DispatchLocal, DispatchRemote, DispatchAck,
                DispatchFault, DispatchRefused, HandlerDropped, RetryPick
  <2>2. UNCHANGED <<jobs, exec, submits>> /\ disp[j].pc = "sleep"
    BY <2>1 DEF RetryCheck, RetryExhausted, net
  <2>3. disp'[j].pc = "done"
    <3>1. CASE RetryCheck(j)
      <4>1. jobs[disp[j].origin][j].status = "cancelled"
        BY <2>2 DEF NeverRuns
      <4> QED BY <3>1, <4>1 DEF RetryCheck, TypeOK, DispState
    <3>2. CASE RetryExhausted(j)
      BY <3>2 DEF RetryExhausted, TypeOK, DispState
    <3> QED BY <2>1, <3>1, <3>2
  <2> QED BY <2>2, <2>3 DEF NeverRuns, Issued, Launched
<1>2. CASE i # j
  <2>1. disp'[j] = disp[j]
    BY <1>2 DEF TypeOK, Submit, DispatchLocal, DispatchRemote, DispatchAck, DispatchFault,
                DispatchRefused, HandlerDropped, RetryCheck, RetryPick, RetryExhausted
  <2>2. \A k \in Node : jobs'[k][j] = jobs[k][j]
    <3>1. CASE \E n \in Origins : Submit(n, i)
      BY <1>2, <3>1 DEF TypeOK, Submit
    <3>2. CASE DispatchAck(i)
      BY <1>2, <3>2 DEF TypeOK, DispatchAck
    <3> QED BY <3>1, <3>2 DEF DispatchLocal, DispatchRemote, DispatchFault,
            DispatchRefused, HandlerDropped, RetryCheck, RetryPick, RetryExhausted
  <2>3. DispatchTask(i).job = i
    BY DEF DispatchTask
  <2>4. \A t \in Task : t.job = j => exec'[t] = exec[t]
    <3>1. CASE DispatchLocal(i)
      <4>1. exec' = [exec EXCEPT ![DispatchTask(i)].pc = "spawned"]
        BY <3>1 DEF DispatchLocal
      <4> QED BY <1>2, <2>3, <4>1 DEF TypeOK
    <3> QED BY <3>1 DEF Submit, DispatchRemote, DispatchAck, DispatchFault,
                DispatchRefused, HandlerDropped, RetryCheck, RetryPick, RetryExhausted
  <2>5. \A t \in submits' : t \in submits \/ t.job = i
    BY <2>3 DEF Submit, DispatchLocal, DispatchRemote, DispatchAck, DispatchFault,
                DispatchRefused, HandlerDropped, RetryCheck, RetryPick, RetryExhausted, net
  <2>6. \A t \in Task : t.job = j => ~Issued(t)'
    BY <1>2, <2>4, <2>5 DEF NeverRuns, Issued, Launched
  <2> QED BY <2>1, <2>2, <2>6 DEF NeverRuns
<1> QED BY <1>1, <1>2

\* The others: a delegate, an executor or a report of j would need a dispatch of j.
LEMMA NeverRunsTask ==
  ASSUME DispatchInv, VerdictInv, OnceInv, NEW j \in Job, NeverRuns(j),
         \/ \E t \in Task : \/ HandleSubmit(t) \/ ExecStart(t) \/ ExecFinish(t)
                            \/ ReportReturn(t) \/ ReportRefused(t) \/ ReportFault(t)
         \/ \E m \in reports : HandleReport(m)
         \/ \E n \in Node, i \in Job : Cancel(n, i)
         \/ \E n \in Node : Crash(n)
  PROVE  NeverRuns(j)'
<1>0. TypeOK
  BY DEF DispatchInv
<1>1. ASSUME NEW u \in Task,
             \/ HandleSubmit(u) \/ ExecStart(u) \/ ExecFinish(u)
             \/ ReportReturn(u) \/ ReportRefused(u) \/ ReportFault(u)
      PROVE  NeverRuns(j)'
  <2>1. u.job # j
    <3>1. Issued(u)
      BY <1>1 DEF HandleSubmit, ExecStart, ExecFinish, ReportReturn, ReportRefused,
                  ReportFault, Issued, Launched
    <3> QED BY <3>1 DEF NeverRuns
  <2>2. disp' = disp /\ submits' \subseteq submits
    BY <1>1 DEF HandleSubmit, ExecStart, ExecFinish, ReportReturn, ReportRefused,
                ReportFault, Released, net
  <2>3. \A t \in Task : t # u => exec'[t] = exec[t]
    BY <1>0, <1>1 DEF TypeOK, HandleSubmit, ExecStart, ExecFinish, ReportReturn,
                ReportRefused, ReportFault, Released
  <2>4. (\E r : jobs' = [jobs EXCEPT ![u.node][u.job] = r]) \/ jobs' = jobs
    BY <1>1 DEF HandleSubmit, ExecStart, ExecFinish, ReportReturn, ReportRefused,
                ReportFault, Released
  <2>5. \A k \in Node : jobs'[k][j] = jobs[k][j]
    <3>1. CASE \E r : jobs' = [jobs EXCEPT ![u.node][u.job] = r]
      <4>1. PICK r : jobs' = [jobs EXCEPT ![u.node][u.job] = r]
        BY <3>1
      <4> QED BY <1>0, <2>1, <4>1 DEF TypeOK
    <3> QED BY <2>4, <3>1
  <2> QED BY <2>1, <2>2, <2>3, <2>5 DEF NeverRuns, Issued, Launched
<1>2. ASSUME NEW m \in reports, HandleReport(m)  PROVE NeverRuns(j)'
  <2>1. m.task.job # j
    BY BegunJobs DEF NeverRuns, Issued
  <2>2. UNCHANGED <<disp, exec, submits>>
    BY <1>2 DEF HandleReport
  <2>3. \A k \in Node : jobs'[k][j] = jobs[k][j]
    BY <1>0, <1>2, <2>1 DEF HandleReport, TypeOK
  <2> QED BY <2>2, <2>3 DEF NeverRuns, Issued, Launched
<1>3. ASSUME NEW n \in Node, NEW i \in Job, Cancel(n, i)  PROVE NeverRuns(j)'
  <2>1. UNCHANGED <<disp, exec, submits>>
    BY <1>3 DEF Cancel, net
  <2>2. \A k \in Node : jobs[k][j].status = "cancelled" => jobs'[k][j] = jobs[k][j]
    BY <1>0, <1>3 DEF Cancel, TypeOK, Terminal
  <2> QED BY <2>1, <2>2 DEF NeverRuns, Issued, Launched
<1>4. ASSUME NEW n \in Node, Crash(n)  PROVE NeverRuns(j)'
  <2>1. submits' \subseteq submits
    BY <1>4 DEF Crash
  <2>2. \A t \in Task : exec[t].pc = "idle" => exec'[t] = exec[t]
    BY <1>0, <1>4 DEF Crash, TypeOK
  <2>3. \A t \in Task : t.job = j => ~Issued(t)'
    BY <2>1, <2>2 DEF NeverRuns, Issued, Launched
  <2>4. CASE disp[j].origin = n /\ disp[j].pc # "done"
    BY <1>0, <1>4, <2>3, <2>4 DEF Crash, TypeOK, DispState, NeverRuns
  <2>5. CASE disp[j].pc = "done"
    BY <1>4, <2>3, <2>5 DEF Crash, NeverRuns
  <2>6. CASE disp[j].origin # n /\ disp[j].pc # "done"
    <3>1. disp'[j] = disp[j] /\ \A k \in Node : k # n => jobs'[k] = jobs[k]
      BY <1>0, <1>4, <2>6 DEF Crash, TypeOK
    <3> QED BY <2>3, <2>6, <3>1 DEF NeverRuns
  <2> QED BY <2>4, <2>5, <2>6
<1> QED BY <1>1, <1>2, <1>3, <1>4

\* DELETE beats the retry loop: a job cancelled at its origin before any dispatch
\* of it was sent never runs anywhere, whatever else happens.
THEOREM CancelWins == Spec => CancelBeatsRetry
<1> SUFFICES ASSUME NEW j \in Job
             PROVE  Spec => [](CancelledAsleep(j) =>
                                  [](\A t \in Task : t.job = j => ~Launched(t)))
  BY DEF CancelBeatsRetry
<1> DEFINE Inv == DispatchInv /\ VerdictInv /\ OnceInv
           Silent == \A t \in Task : t.job = j => ~Launched(t)
<1>1. Inv /\ CancelledAsleep(j) => NeverRuns(j)
  BY CancelledNeverRuns
<1>2. Inv /\ Inv' /\ NeverRuns(j) /\ [Next]_vars => NeverRuns(j)'
  <2> SUFFICES ASSUME Inv, Inv', NeverRuns(j), [Next]_vars  PROVE NeverRuns(j)'
    OBVIOUS
  <2>1. TypeOK /\ TypeOK'
    BY DEF DispatchInv
  <2>2. CASE UNCHANGED vars
    BY <2>2 DEF vars, net, NeverRuns, Issued, Launched
  <2>3. CASE Progress
    BY <2>1, <2>3, NeverRunsDispatch, NeverRunsTask DEF Progress
  <2>4. CASE Environment
    BY <2>1, <2>4, NeverRunsDispatch, NeverRunsTask, ConstantsAssumption
    DEF Environment, ConstantsAssumption
  <2> QED BY <2>2, <2>3, <2>4 DEF Next
<1>3. NeverRuns(j) => Silent
  BY DEF NeverRuns, Issued
<1>4. Spec => []Inv
  BY OutcomeInvariant
<1>5. Spec => [][Next]_vars
  BY PTL DEF Spec
<1>6. [][Next]_vars /\ []Inv => [](CancelledAsleep(j) => []Silent)
  BY <1>1, <1>2, <1>3, PTL
<1> QED BY <1>4, <1>5, <1>6, PTL

-----------------------------------------------------------------------------
(* What the origin shows: the refinement of JobPromise *)

\* A dispatcher that goes on has its record, and so has a task that will write it.
Live(j) == disp[j].pc \in {"dispatch", "rpc", "sleep", "pick"}
LiveHasRecord == \A j \in Job : Live(j) => jobs[disp[j].origin][j].status # "none"
TaskHasRecord ==
    \A t \in Task : exec[t].pc \in {"spawned", "started"} => jobs[t.node][t.job].status # "none"

\* An acknowledgement is of a task that was launched.
AcksLaunched == \A t \in acks : Launched(t)

\* The report of an only child leaves its node, and finds no verdict at the origin.
OnlyOne(t) == \A c \in Task : c.job = t.job /\ Launched(c) => c = t
Heard(m) == /\ m.task.node # Origin(m.task)
            /\ OnlyOne(m.task) => ~Final(jobs[Origin(m.task)][m.task.job])
ReportsHeard == \A m \in reports : Heard(m)

\* A job that was not submitted has no origin.
NewAtNoNode == \A j \in Job : disp[j].pc = "new" => disp[j].origin = NoNode

ShownInv == LiveHasRecord /\ TaskHasRecord /\ AcksLaunched /\ ReportsHeard /\ NewAtNoNode

\* Job k looks the same.
Same(k) == Shown(k)' = Shown(k) /\ Children(k)' = Children(k) /\ Ended(k)' = Ended(k)

\* The actions of JobPromise, for one job.
Opened(j) ==
    /\ Shown(j) \notin {"unknown", "lost"}
    /\ Children(j) # {}
    /\ Shown(j) \in {"completed", "failed"} => \E c, d \in Children(j) : c # d
Moved(j) ==
    \/ Same(j)
    \/ /\ Shown(j) = "unknown" /\ Shown(j)' = "queued"
       /\ Children(j)' = Children(j) /\ Ended(j)' = Ended(j)
    \/ /\ Shown(j) # "unknown" /\ Shown(j)' = Shown(j) /\ Ended(j)' = Ended(j)
       /\ \E c \in Task : Children(j)' = Children(j) \cup {c}
    \/ /\ Opened(j) /\ Shown(j)' \in {"running"} \cup Ended(j)
       /\ Children(j)' = Children(j) /\ Ended(j)' = Ended(j)
    \/ /\ Children(j) # {} /\ Children(j)' = Children(j)
       /\ \E v \in {"completed", "failed"} :
            /\ Ended(j)' = Ended(j) \cup {v}
            /\ (Opened(j) /\ Shown(j)' = v) \/ Shown(j)' = Shown(j)
    \/ /\ Shown(j) \in {"queued", "running"} /\ Shown(j)' = "cancelled"
       /\ Children(j)' = Children(j) /\ Ended(j)' = Ended(j)

\* A step that moves one job is a step of JobPromise.
LEMMA MovedIsStep ==
  ASSUME NEW j \in Job, Moved(j), \A k \in Job : k # j => Same(k)
  PROVE  [Promise!Next]_(<<[k \in Job |-> Shown(k)], [k \in Job |-> Children(k)],
                           [k \in Job |-> Ended(k)]>>)
<1> DEFINE S == [k \in Job |-> Shown(k)]
           C == [k \in Job |-> Children(k)]
           E == [k \in Job |-> Ended(k)]
<1>0. S[j] = Shown(j) /\ C[j] = Children(j) /\ E[j] = Ended(j)
  OBVIOUS
<1>1. Shown(j)' = Shown(j) => S' = S
  BY DEF Same
<1>2. Children(j)' = Children(j) => C' = C
  BY DEF Same
<1>3. Ended(j)' = Ended(j) => E' = E
  BY DEF Same
<1>4. S' = [S EXCEPT ![j] = Shown(j)']
  BY DEF Same
<1>5. C' = [C EXCEPT ![j] = Children(j)']
  BY DEF Same
<1>6. E' = [E EXCEPT ![j] = Ended(j)']
  BY DEF Same
<1>7. Opened(j) => Promise!Open(j)
  BY <1>0 DEF Opened, Promise!Open, Promise!Verdict
<1>8. CASE Same(j)
  BY <1>1, <1>2, <1>3, <1>8 DEF Same
<1>9. CASE /\ Shown(j) = "unknown" /\ Shown(j)' = "queued"
           /\ Children(j)' = Children(j) /\ Ended(j)' = Ended(j)
  <2>1. Promise!Submit(j)
    BY <1>0, <1>2, <1>3, <1>4, <1>9 DEF Promise!Submit
  <2> QED BY <2>1 DEF Promise!Next
<1>10. CASE /\ Shown(j) # "unknown" /\ Shown(j)' = Shown(j) /\ Ended(j)' = Ended(j)
            /\ \E c \in Task : Children(j)' = Children(j) \cup {c}
  <2>1. Promise!Launch(j)
    BY <1>0, <1>1, <1>3, <1>5, <1>10 DEF Promise!Launch
  <2> QED BY <2>1 DEF Promise!Next
<1>11. CASE /\ Opened(j) /\ Shown(j)' \in {"running"} \cup Ended(j)
            /\ Children(j)' = Children(j) /\ Ended(j)' = Ended(j)
  <2>1. CASE Shown(j)' = "running"
    <3>1. Promise!Run(j)
      BY <1>2, <1>3, <1>4, <1>7, <1>11, <2>1 DEF Promise!Run
    <3> QED BY <3>1 DEF Promise!Next
  <2>2. CASE Shown(j)' \in Ended(j)
    <3>1. Promise!Learn(j)
      BY <1>0, <1>2, <1>3, <1>4, <1>7, <1>11, <2>2 DEF Promise!Learn
    <3> QED BY <3>1 DEF Promise!Next
  <2> QED BY <1>11, <2>1, <2>2
<1>12. CASE /\ Children(j) # {} /\ Children(j)' = Children(j)
            /\ \E v \in {"completed", "failed"} :
                 /\ Ended(j)' = Ended(j) \cup {v}
                 /\ (Opened(j) /\ Shown(j)' = v) \/ Shown(j)' = Shown(j)
  <2>1. PICK v \in {"completed", "failed"} :
          /\ Ended(j)' = Ended(j) \cup {v}
          /\ (Opened(j) /\ Shown(j)' = v) \/ Shown(j)' = Shown(j)
    BY <1>12
  <2>2. Promise!End(j)
    BY <1>0, <1>1, <1>2, <1>4, <1>6, <1>7, <1>12, <2>1 DEF Promise!End, Promise!Verdict
  <2> QED BY <2>2 DEF Promise!Next
<1>13. CASE /\ Shown(j) \in {"queued", "running"} /\ Shown(j)' = "cancelled"
            /\ Children(j)' = Children(j) /\ Ended(j)' = Ended(j)
  <2>1. Promise!Cancel(j)
    BY <1>0, <1>2, <1>3, <1>4, <1>13 DEF Promise!Cancel
  <2> QED BY <2>1 DEF Promise!Next
<1> QED BY <1>8, <1>9, <1>10, <1>11, <1>12, <1>13 DEF Moved

\* What a job shows depends on the record at its origin ...
LEMMA SameShown ==
  ASSUME NEW k \in Job, disp'[k].pc = "new" <=> disp[k].pc = "new",
         disp[k].pc # "new" =>
            /\ disp'[k].origin = disp[k].origin
            /\ jobs'[disp[k].origin][k].status = jobs[disp[k].origin][k].status
  PROVE  Shown(k)' = Shown(k)
BY DEF Shown

\* ... and on its tasks.
LEMMA SameKids ==
  ASSUME NEW k \in Job,
         \A t \in Task : t.job = k => /\ Launched(t)' <=> Launched(t)
                                      /\ exec'[t].outcome = exec[t].outcome
  PROVE  Children(k)' = Children(k) /\ Ended(k)' = Ended(k)
<1>1. Children(k)' = Children(k)
  BY DEF Children
<1>2. \A t \in Children(k) : exec'[t].outcome = exec[t].outcome
  BY DEF Children
<1>3. Ended(k)' = Ended(k)
  BY <1>1, <1>2 DEF Ended
<1> QED BY <1>1, <1>3

\* While the only child runs, no record of its job has a verdict.
LEMMA NoSoleVerdict ==
  ASSUME DispatchInv, VerdictInv, NEW t \in Task, OnlyOne(t),
         exec[t].pc \in {"spawned", "started"}, NEW n \in Node
  PROVE  ~Final(jobs[n][t.job])
<1> SUFFICES ASSUME Final(jobs[n][t.job])  PROVE FALSE
  OBVIOUS
<1>1. t.job \in Job
  BY DEF Task
<1>2. PICK u \in Task : u.job = t.job /\ exec[u].outcome # "none"
  BY <1>1 DEF VerdictInv, TerminalTruth, Final
<1>3. Launched(u)
  BY <1>2 DEF VerdictInv, OutcomeSetOnce, Launched
<1>4. u = t
  BY <1>2, <1>3 DEF OnlyOne
<1> QED BY <1>2, <1>4 DEF VerdictInv, OutcomeSetOnce

\* A child may be heard of at an origin that has the record, unless the record has
\* its verdict.
LEMMA HeardOf ==
  ASSUME TypeOK, NEW t \in Task, Launched(t), disp[t.job].pc # "new", Origin(t) \in Node,
         jobs[Origin(t)][t.job].status # "none",
         Final(jobs[Origin(t)][t.job]) => ~OnlyOne(t)
  PROVE  Opened(t.job)
<1>1. t \in Children(t.job)
  BY DEF Children
<1>2. Shown(t.job) = jobs[Origin(t)][t.job].status
  BY DEF Shown, Origin
<1>3. ~OnlyOne(t) => \E c \in Children(t.job) : c # t
  BY DEF OnlyOne, Children
<1>4. Shown(t.job) # "unknown" /\ Shown(t.job) # "lost"
  <2>1. jobs[Origin(t)][t.job].status \in Status
    BY DEF TypeOK, JobRecord, Task
  <2> QED BY <1>2, <2>1 DEF Status
<1> QED BY <1>1, <1>2, <1>3, <1>4 DEF Opened, Final

\* What every step does to the variables of JobPromise.
PromiseStep == [Promise!Next]_(<<[k \in Job |-> Shown(k)], [k \in Job |-> Children(k)],
                                 [k \in Job |-> Ended(k)]>>)

\* A step other than a crash keeps ShownInv if the dispatchers, tasks, answers and
\* reports that it adds have what they need.
LEMMA ShownKept ==
  ASSUME ShownInv,
         \A n \in Node, j \in Job : jobs[n][j].status # "none" => jobs'[n][j].status # "none",
         \A j \in Job : Live(j)' =>
            \/ /\ Live(j) /\ disp'[j].origin = disp[j].origin /\ disp[j].origin \in Node
            \/ jobs'[disp'[j].origin][j].status # "none",
         \A j \in Job : disp'[j].pc = "new" =>
            disp[j].pc = "new" /\ disp'[j].origin = disp[j].origin,
         \A t \in Task : exec'[t].pc \in {"spawned", "started"} =>
            exec[t].pc \in {"spawned", "started"} \/ jobs'[t.node][t.job].status # "none",
         \A t \in Task : Launched(t) => Launched(t)',
         acks \subseteq Task,
         \A t \in acks' : t \in acks \/ Launched(t)',
         \A m \in reports' : Heard(m)'
  PROVE  ShownInv'
<1>1. LiveHasRecord'
  <2>1. SUFFICES ASSUME NEW j \in Job, Live(j)' PROVE jobs'[disp'[j].origin][j].status # "none"
    BY DEF LiveHasRecord
  <2> QED BY <2>1 DEF ShownInv, LiveHasRecord
<1>2. TaskHasRecord'
  <2>1. SUFFICES ASSUME NEW t \in Task, exec'[t].pc \in {"spawned", "started"}
                 PROVE  jobs'[t.node][t.job].status # "none"
    BY DEF TaskHasRecord
  <2>2. t.node \in Node /\ t.job \in Job
    BY DEF Task
  <2> QED BY <2>1, <2>2 DEF ShownInv, TaskHasRecord
<1>3. AcksLaunched'
  BY DEF ShownInv, AcksLaunched
<1>4. ReportsHeard'
  BY DEF ReportsHeard
<1>5. NewAtNoNode'
  BY DEF ShownInv, NewAtNoNode
<1> QED BY <1>1, <1>2, <1>3, <1>4, <1>5 DEF ShownInv

\* A report that stays on its way is still heard, if the verdict that the step
\* gives is not given to an only child's record.
LEMMA StillHeard ==
  ASSUME ShownInv, NEW m \in reports,
         disp'[m.task.job].origin = disp[m.task.job].origin,
         \A t \in Task : Launched(t) => Launched(t)',
         LET o == Origin(m.task)
             j == m.task.job
         IN  Final(jobs'[o][j]) => Final(jobs[o][j]) \/ ~OnlyOne(m.task)
  PROVE  Heard(m)'
<1>1. Heard(m)
  BY DEF ShownInv, ReportsHeard
<1>2. Origin(m.task)' = Origin(m.task)
  BY DEF Origin
<1>3. OnlyOne(m.task)' => OnlyOne(m.task)
  BY DEF OnlyOne
<1>4. m.task.node # Origin(m.task)'
  BY <1>1, <1>2 DEF Heard
<1>5. ASSUME OnlyOne(m.task)' PROVE ~Final(jobs'[Origin(m.task)][m.task.job])
  BY <1>1, <1>3, <1>5 DEF Heard
<1> QED BY <1>2, <1>4, <1>5 DEF Heard

\* Nothing to be seen.
LEMMA SameIsStep ==
  ASSUME \A k \in Job : Same(k)
  PROVE  PromiseStep
<1>1. [k \in Job |-> Shown(k)]' = [k \in Job |-> Shown(k)]
  BY DEF Same
<1>2. [k \in Job |-> Children(k)]' = [k \in Job |-> Children(k)]
  BY DEF Same
<1>3. [k \in Job |-> Ended(k)]' = [k \in Job |-> Ended(k)]
  BY DEF Same
<1> QED BY <1>1, <1>2, <1>3 DEF PromiseStep

\* A step that writes no record, starts no task and sends no report.
LEMMA ShownQuiet ==
  ASSUME DispatchInv, VerdictInv, OnceInv, ShownInv,
         jobs' = jobs, acks' \subseteq acks, reports' \subseteq reports,
         \A j \in Job : /\ disp'[j].origin = disp[j].origin
                        /\ disp'[j].pc = "new" <=> disp[j].pc = "new"
                        /\ Live(j)' => Live(j),
         \A t \in Task : /\ Launched(t)' <=> Launched(t)
                         /\ exec'[t].outcome = exec[t].outcome
                         /\ exec'[t].pc \in {"spawned", "started"} =>
                              exec[t].pc \in {"spawned", "started"}
  PROVE  ShownInv' /\ PromiseStep
<1>1. \A k \in Job : Same(k)
  BY SameShown, SameKids DEF Same
<1>2. \A j \in Job : Live(j) => disp[j].origin \in Node
  BY DEF Live, OnceInv, OnceIsFirst
<1>3. acks \subseteq Task
  BY DEF DispatchInv, TypeOK
<1>4. \A m \in reports' : Heard(m)'
  BY BegunJobs, StillHeard
<1>5. ShownInv'
  BY <1>2, <1>3, <1>4, ShownKept
<1> QED BY <1>1, <1>5, SameIsStep

\* Task t is spawned.
Launches(t) == ~Launched(t) /\ exec' = [exec EXCEPT ![t].pc = "spawned"]

\* What a launch shows: one more child, which has no verdict.
LEMMA LaunchShows ==
  ASSUME TypeOK, VerdictInv, NEW t \in Task, Launches(t)
  PROVE  /\ Launched(t)'
         /\ \A u \in Task : u # t => exec'[u] = exec[u]
         /\ \A u \in Task : Launched(u) => Launched(u)'
         /\ Children(t.job)' = Children(t.job) \cup {t}
         /\ \A k \in Job : k # t.job => Children(k)' = Children(k)
         /\ \A k \in Job : Ended(k)' = Ended(k)
<1>1. /\ exec'[t].pc = "spawned" /\ exec'[t].outcome = exec[t].outcome
      /\ \A u \in Task : u # t => exec'[u] = exec[u]
  BY DEF Launches, TypeOK, ExecState
<1>2. exec[t].outcome = "none"
  BY DEF VerdictInv, OutcomeSetOnce, Launched, Launches
<1>3. Launched(t)' /\ \A u \in Task : u # t => (Launched(u)' <=> Launched(u))
  BY <1>1 DEF Launched
<1>4. Children(t.job)' = Children(t.job) \cup {t}
  BY <1>3 DEF Children
<1>5. \A k \in Job : k # t.job => Children(k)' = Children(k)
  BY <1>3 DEF Children
<1>6. ASSUME NEW k \in Job PROVE Ended(k)' = Ended(k)
  <2>1. {c \in Children(k) : exec[c].outcome # "none"}'
          = {c \in Children(k) : exec[c].outcome # "none"}
    BY <1>1, <1>2, <1>4, <1>5 DEF Children
  <2>2. \A c \in Task : exec'[c].outcome = exec[c].outcome
    BY <1>1
  <2>3. \A c \in Children(k) : c \in Task
    BY DEF Children
  <2> QED BY <2>1, <2>2, <2>3 DEF Ended
<1> QED BY <1>1, <1>3, <1>4, <1>5, <1>6

\* A step that starts no task and sends no answer or report.
NothingNew ==
    /\ acks' \subseteq acks /\ reports' \subseteq reports
    /\ \A k \in Job : /\ disp'[k].origin = disp[k].origin
                      /\ disp'[k].pc = "new" <=> disp[k].pc = "new"
                      /\ Live(k)' => Live(k)
    /\ \A t \in Task : /\ Launched(t)' <=> Launched(t)
                       /\ exec'[t].outcome = exec[t].outcome
                       /\ exec'[t].pc \in {"spawned", "started"} =>
                            exec[t].pc \in {"spawned", "started"}

\* Such a step that writes one record, at its origin as JobPromise allows.
Writes(n, j, r) ==
    /\ jobs' = [jobs EXCEPT ![n][j] = r]
    /\ jobs[n][j].status # "none" => r.status # "none"
    /\ disp[j].pc # "new" /\ n = disp[j].origin =>
        \/ r.status = jobs[n][j].status
        \/ Opened(j) /\ r.status \in {"running"} \cup Ended(j)
        \/ Shown(j) \in {"queued", "running"} /\ r.status = "cancelled"
    /\ \A m \in reports' : m.task.job = j /\ n = Origin(m.task) /\ Final(r) =>
        Final(jobs[n][j]) \/ ~OnlyOne(m.task)
    /\ NothingNew
LEMMA ShownWrite ==
  ASSUME DispatchInv, VerdictInv, OnceInv, ShownInv, NEW n \in Node, NEW j \in Job, NEW r,
         Writes(n, j, r)
  PROVE  ShownInv' /\ PromiseStep
<1>1. \A k \in Node, i \in Job : jobs'[k][i] = IF k = n /\ i = j THEN r ELSE jobs[k][i]
  BY DEF Writes, DispatchInv, TypeOK
<1>2. \A i \in Job : disp[i].pc # "new" => disp[i].origin \in Node
  BY DEF OnceInv, OnceIsFirst
<1>3. \A k \in Job : Children(k)' = Children(k) /\ Ended(k)' = Ended(k)
  BY SameKids DEF Writes, NothingNew
<1>4. ASSUME NEW k \in Job, k # j PROVE Same(k)
  <2>1. Shown(k)' = Shown(k)
    BY <1>1, <1>2, <1>4, SameShown DEF Writes, NothingNew
  <2> QED BY <1>3, <2>1 DEF Same
<1>5. Moved(j)
  <2>1. CASE disp[j].pc # "new" /\ n = disp[j].origin /\ r.status # jobs[n][j].status
    <3>1. r.status # "none"
      <4>1. Shown(j) \in {"queued", "running"} \/ Opened(j) => jobs[n][j].status # "none"
        BY <2>1 DEF Shown, Opened
      <4> QED BY <2>1, <4>1 DEF Writes
    <3>2. Shown(j)' = r.status
      BY <1>1, <2>1, <3>1 DEF Shown, Writes, NothingNew
    <3> QED BY <1>3, <2>1, <3>2 DEF Moved, Writes
  <2>2. CASE ~(disp[j].pc # "new" /\ n = disp[j].origin /\ r.status # jobs[n][j].status)
    <3>1. Shown(j)' = Shown(j)
      BY <1>1, <1>2, <2>2, SameShown DEF Writes, NothingNew
    <3> QED BY <1>3, <3>1 DEF Moved, Same
  <2> QED BY <2>1, <2>2
<1>6. PromiseStep
  BY <1>4, <1>5, MovedIsStep DEF PromiseStep
<1>7. \A m \in reports' : Heard(m)'
  <2> SUFFICES ASSUME NEW m \in reports' PROVE Heard(m)'
    OBVIOUS
  <2>1. m \in reports /\ m.task.job \in Job /\ Origin(m.task) \in Node
    BY BegunJobs DEF Writes, NothingNew
  <2>2. Final(jobs'[Origin(m.task)][m.task.job]) =>
          Final(jobs[Origin(m.task)][m.task.job]) \/ ~OnlyOne(m.task)
    BY <1>1, <2>1 DEF Writes
  <2> QED BY <2>1, <2>2, StillHeard DEF Writes, NothingNew
<1>8. \A k \in Node, i \in Job : jobs[k][i].status # "none" => jobs'[k][i].status # "none"
  BY <1>1 DEF Writes
<1>9. \A i \in Job : Live(i) => disp[i].origin \in Node
  BY <1>2 DEF Live
<1>10. acks \subseteq Task
  BY DEF DispatchInv, TypeOK
<1>11. ShownInv'
  BY <1>7, <1>8, <1>9, <1>10, ShownKept DEF Writes, NothingNew
<1> QED BY <1>6, <1>11

\* The dispatchers.
LEMMA ShownDispatch ==
  ASSUME DispatchInv, VerdictInv, OnceInv, ShownInv, NEW j \in Job,
         \/ \E n \in Origins : Submit(n, j)
         \/ DispatchLocal(j) \/ DispatchRemote(j) \/ DispatchAck(j)
         \/ DispatchFault(j) \/ DispatchRefused(j) \/ HandlerDropped(j)
         \/ RetryCheck(j) \/ RetryPick(j) \/ RetryExhausted(j)
  PROVE  ShownInv' /\ PromiseStep
<1>0. TypeOK /\ acks \subseteq Task
  BY DEF DispatchInv, TypeOK
<1>00. \A i \in Job : /\ disp[i].pc # "new" => disp[i].origin \in Node
                      /\ Live(i) => disp[i].origin \in Node
  BY DEF OnceInv, OnceIsFirst, Live
<1>1. CASE \E n \in Origins : Submit(n, j)
  <2>1. PICK n \in Origins : Submit(n, j)
    BY <1>1
  <2>2. n \in Node
    BY ConstantsAssumption DEF ConstantsAssumption
  <2>3. PICK p \in Picks :
          /\ jobs' = [jobs EXCEPT ![n][j] = QueuedRecord(IF p = NoNode THEN n ELSE p)]
          /\ disp' = [disp EXCEPT ![j] =
                       [pc     |-> IF p = NoNode THEN "sleep" ELSE "dispatch",
                        origin |-> n,
                        mode   |-> IF p = NoNode THEN "retry" ELSE "once",
                        target |-> p, tries |-> 0, failed |-> {}]]
    BY <2>1 DEF Submit
  <2>4. exec' = exec /\ acks' = acks /\ reports' = reports /\ disp[j].pc = "new"
    BY <2>1 DEF Submit, net
  <2>5. disp'[j].origin = n /\ disp'[j].pc # "new" /\ \A i \in Job : i # j => disp'[i] = disp[i]
    BY <1>0, <2>3 DEF TypeOK
  <2>6. jobs'[n][j].status = "queued"
        /\ \A k \in Node, i \in Job : k # n \/ i # j => jobs'[k][i] = jobs[k][i]
    BY <1>0, <2>2, <2>3 DEF TypeOK, QueuedRecord
  <2>7. \A k \in Job : Children(k)' = Children(k) /\ Ended(k)' = Ended(k)
    BY <2>4, SameKids DEF Launched
  <2>8. ASSUME NEW k \in Job, k # j PROVE Same(k)
    <3>1. Shown(k)' = Shown(k)
      BY <1>00, <2>5, <2>6, <2>8, SameShown
    <3> QED BY <2>7, <3>1 DEF Same
  <2>9. Shown(j) = "unknown" /\ Shown(j)' = "queued"
    BY <2>4, <2>5, <2>6 DEF Shown
  <2>10. PromiseStep
    BY <2>7, <2>8, <2>9, MovedIsStep DEF Moved, PromiseStep
  <2>11. \A m \in reports' : Heard(m)'
    <3> SUFFICES ASSUME NEW m \in reports PROVE Heard(m)'
      BY <2>4
    <3>1. m.task.job \in Job /\ m.task.job # j /\ Origin(m.task) \in Node
      BY <2>4, BegunJobs
    <3>2. jobs'[Origin(m.task)][m.task.job] = jobs[Origin(m.task)][m.task.job]
      BY <2>6, <3>1
    <3> QED BY <2>4, <2>5, <3>1, <3>2, StillHeard DEF Launched
  <2>12. ASSUME NEW i \in Job, Live(i)'
         PROVE  \/ /\ Live(i) /\ disp'[i].origin = disp[i].origin /\ disp[i].origin \in Node
                \/ jobs'[disp'[i].origin][i].status # "none"
    <3>1. CASE i = j
      BY <2>5, <2>6, <3>1
    <3>2. CASE i # j
      BY <1>00, <2>5, <2>12, <3>2 DEF Live
    <3> QED BY <3>1, <3>2
  <2>13. \A k \in Node, i \in Job : jobs[k][i].status # "none" => jobs'[k][i].status # "none"
    BY <2>6
  <2>14. ShownInv'
    BY <1>0, <2>4, <2>5, <2>11, <2>12, <2>13, ShownKept DEF Launched
  <2> QED BY <2>10, <2>14
<1>2. CASE DispatchAck(j)
  <2> DEFINE o == disp[j].origin
             t == DispatchTask(j)
             r == AckedRecord(jobs[o][j], disp[j].target)
  <2>1. /\ jobs' = [jobs EXCEPT ![o][j] = r]
        /\ disp' = [disp EXCEPT ![j].pc = "done"]
        /\ exec' = exec /\ acks' \subseteq acks /\ reports' = reports /\ disp[j].pc = "rpc"
        /\ t \in acks
    BY <1>2 DEF DispatchAck
  <2>2. o \in Node /\ t \in Task /\ Launched(t) /\ t.job = j /\ Origin(t) = o
    BY <1>0, <1>00, <2>1 DEF ShownInv, AcksLaunched, DispatchTask, Origin
  <2>3. \A i \in Job : /\ disp'[i].origin = disp[i].origin
                       /\ disp'[i].pc = "new" <=> disp[i].pc = "new"
                       /\ Live(i)' => Live(i)
    BY <1>0, <2>1 DEF TypeOK, DispState, Live
  <2>4. r = jobs[o][j] \/ (r.status = "running" /\ jobs[o][j].status = "queued")
    <3>1. jobs[o][j] \in JobRecord
      BY <1>0, <2>2 DEF TypeOK
    <3> QED BY <3>1 DEF AckedRecord, JobRecord
  <2>5. jobs[o][j].status = "queued" => Opened(j)
    BY <1>0, <2>1, <2>2, HeardOf DEF Final
  <2> HIDE DEF o, t, r
  <2>6. Final(r) => Final(jobs[o][j])
    BY <2>4 DEF Final
  <2>7. jobs[o][j].status # "none" => r.status # "none"
    BY <2>4
  <2>8. r.status = jobs[o][j].status \/ (Opened(j) /\ r.status \in {"running"} \cup Ended(j))
    BY <2>4, <2>5
  <2>9. \A u \in Task : /\ Launched(u)' <=> Launched(u)
                        /\ exec'[u].outcome = exec[u].outcome
                        /\ exec'[u].pc \in {"spawned", "started"} =>
                             exec[u].pc \in {"spawned", "started"}
    BY <2>1 DEF Launched
  <2>10. \A m \in reports' : m.task.job = j /\ o = Origin(m.task) /\ Final(r) =>
            Final(jobs[o][j]) \/ ~OnlyOne(m.task)
    BY <2>6
  <2>11. NothingNew
    BY <2>1, <2>3, <2>9 DEF NothingNew
  <2>12. Writes(o, j, r)
    BY <2>1, <2>7, <2>8, <2>10, <2>11 DEF Writes
  <2> QED BY <2>2, <2>12, ShownWrite
<1>3. CASE DispatchLocal(j)
  <2>0. disp[j].pc = "dispatch" /\ disp[j].target = disp[j].origin /\ disp[j].origin \in Node
    BY <1>00, <1>3 DEF DispatchLocal
  <2>00. DispatchTask(j) \in Task
    BY <1>0, <2>0 DEF DispatchTask, Task, TypeOK, DispState
  <2>3. PICK t \in Task : t = DispatchTask(j)
    BY <2>00
  <2>1. /\ jobs' = jobs /\ reports' = reports /\ acks' = acks
        /\ disp' = [disp EXCEPT ![j].pc = "done"]
        /\ exec' = [exec EXCEPT ![t].pc = "spawned"]
    BY <1>3, <2>3 DEF DispatchLocal, net
  <2>2. t.job = j /\ t.node = disp[j].origin /\ t.attempt = disp[j].tries
    BY <2>0, <2>3 DEF DispatchTask
  <2>4. ~Launched(t)
    BY <1>0, <2>0, <2>2, FreshDispatch DEF DispatchInv, Bookkeeping, Issued
  <2>5. /\ Launched(t)'
        /\ \A u \in Task : u # t => exec'[u] = exec[u]
        /\ \A u \in Task : Launched(u) => Launched(u)'
        /\ Children(j)' = Children(j) \cup {t}
        /\ \A k \in Job : k # j => Children(k)' = Children(k)
        /\ \A k \in Job : Ended(k)' = Ended(k)
    <3>1. Launches(t)
      BY <2>1, <2>4 DEF Launches
    <3>2. /\ Launched(t)'
          /\ \A u \in Task : u # t => exec'[u] = exec[u]
          /\ \A u \in Task : Launched(u) => Launched(u)'
          /\ Children(t.job)' = Children(t.job) \cup {t}
          /\ \A k \in Job : k # t.job => Children(k)' = Children(k)
          /\ \A k \in Job : Ended(k)' = Ended(k)
      BY <1>0, <3>1, LaunchShows
    <3> QED BY <2>2, <3>2 DEF Children
  <2>6. \A i \in Job : /\ disp'[i].origin = disp[i].origin
                       /\ disp'[i].pc = "new" <=> disp[i].pc = "new"
                       /\ Live(i)' => Live(i)
    BY <1>0, <2>0, <2>1 DEF TypeOK, DispState, Live
  <2>7. \A k \in Job : Shown(k)' = Shown(k)
    BY <2>1, <2>6, SameShown
  <2>8. Shown(j) # "unknown"
    <3>1. jobs[disp[j].origin][j].status \in Status
      BY <1>0, <2>0 DEF TypeOK, JobRecord
    <3> QED BY <2>0, <3>1 DEF Shown, Status
  <2>9. PromiseStep
    BY <2>5, <2>7, <2>8, MovedIsStep DEF Moved, Same, PromiseStep
  <2>10. \A m \in reports' : Heard(m)'
    BY <2>1, <2>5, <2>6, BegunJobs, StillHeard
  <2>11. jobs[t.node][t.job].status # "none"
    BY <2>0, <2>2 DEF ShownInv, LiveHasRecord, Live
  <2>12. ShownInv'
    BY <1>0, <1>00, <2>1, <2>5, <2>6, <2>10, <2>11, ShownKept
  <2> QED BY <2>9, <2>12
<1>4. CASE \/ DispatchRemote(j) \/ DispatchFault(j) \/ DispatchRefused(j)
           \/ HandlerDropped(j) \/ RetryCheck(j) \/ RetryPick(j) \/ RetryExhausted(j)
  <2>1. UNCHANGED <<jobs, exec, reports>> /\ acks' \subseteq acks
    BY <1>4 DEF DispatchRemote, DispatchFault, DispatchRefused, HandlerDropped,
                RetryCheck, RetryPick, RetryExhausted, net
  <2>2. \A i \in Job : i # j => disp'[i] = disp[i]
    BY <1>0, <1>4 DEF TypeOK, DispatchRemote, DispatchFault, DispatchRefused, HandlerDropped,
                RetryCheck, RetryPick, RetryExhausted
  <2>3. Live(j) /\ disp[j].pc # "new"
    BY <1>4 DEF DispatchRemote, DispatchFault, DispatchRefused, HandlerDropped,
                RetryCheck, RetryPick, RetryExhausted, Live
  <2>4. disp'[j].origin = disp[j].origin /\ disp'[j].pc # "new"
    <3>1. disp[j] \in DispState
      BY <1>0 DEF TypeOK
    <3>2. CASE DispatchRemote(j) \/ HandlerDropped(j) \/ RetryExhausted(j)
      <4>1. PICK c \in {"rpc", "dead", "done"} : disp' = [disp EXCEPT ![j].pc = c]
        BY <3>2 DEF DispatchRemote, HandlerDropped, RetryExhausted
      <4>2. disp'[j] = [disp[j] EXCEPT !.pc = c]
        BY <1>0, <4>1 DEF TypeOK
      <4> QED BY <3>1, <4>1, <4>2 DEF DispState
    <3>3. CASE DispatchFault(j) \/ DispatchRefused(j)
      <4>1. disp' = [disp EXCEPT ![j] = AfterFailure(disp[j])]
        BY <3>3 DEF DispatchFault, DispatchRefused
      <4>2. disp'[j] = AfterFailure(disp[j])
        BY <1>0, <4>1 DEF TypeOK
      <4> QED BY <3>1, <4>2 DEF DispState, AfterFailure
    <3>4. CASE RetryCheck(j)
      BY <1>0, <3>1, <3>4 DEF TypeOK, DispState, RetryCheck
    <3>5. CASE RetryPick(j)
      <4>1. PICK p \in Picks :
              disp' = [disp EXCEPT ![j].target = p,
                                   ![j].pc = IF p = NoNode THEN "sleep" ELSE "dispatch"]
        BY <3>5 DEF RetryPick
      <4>2. disp'[j] = [disp[j] EXCEPT !.target = p,
                                       !.pc = IF p = NoNode THEN "sleep" ELSE "dispatch"]
        BY <1>0, <4>1 DEF TypeOK
      <4> QED BY <3>1, <4>2 DEF DispState
    <3> QED BY <1>4, <3>2, <3>3, <3>4, <3>5
  <2>5. \A i \in Job : /\ disp'[i].origin = disp[i].origin
                       /\ disp'[i].pc = "new" <=> disp[i].pc = "new"
                       /\ Live(i)' => Live(i)
    BY <2>2, <2>3, <2>4 DEF Live
  <2> QED BY <2>1, <2>5, ShownQuiet DEF Launched
<1> QED BY <1>1, <1>2, <1>3, <1>4

\* The delegates, the executors, the clients and the crashes.
LEMMA ShownTask ==
  ASSUME DispatchInv, VerdictInv, OnceInv, ShownInv,
         \/ \E t \in Task : \/ HandleSubmit(t) \/ ExecStart(t) \/ ExecFinish(t)
                            \/ ReportReturn(t) \/ ReportRefused(t) \/ ReportFault(t)
         \/ \E m \in reports : HandleReport(m)
         \/ \E n \in Node, j \in Job : Cancel(n, j)
         \/ \E n \in Node : Crash(n)
  PROVE  ShownInv' /\ PromiseStep
<1>0. TypeOK /\ acks \subseteq Task
  BY DEF DispatchInv, TypeOK
<1>00. \A i \in Job : /\ disp[i].pc # "new" => disp[i].origin \in Node
                      /\ Live(i) => disp[i].origin \in Node
  BY DEF OnceInv, OnceIsFirst, Live
<1>000. \A t \in Task : /\ t.job \in Job /\ t.node \in Node
                        /\ jobs[t.node][t.job] \in JobRecord
                        /\ Issued(t) => disp[t.job].pc # "new" /\ Origin(t) \in Node
  BY <1>0, <1>00 DEF Task, TypeOK, DispatchInv, NewIsUntouched, Origin
<1>1. ASSUME NEW u \in Task, HandleSubmit(u)  PROVE ShownInv' /\ PromiseStep
  <2>1. /\ u \in submits /\ disp' = disp /\ reports' = reports
        /\ jobs' = [jobs EXCEPT ![u.node][u.job] = QueuedRecord(u.node)]
        /\ acks' \subseteq acks \cup {u}
        /\ exec' = [exec EXCEPT ![u].pc = "spawned"]
    BY <1>1 DEF HandleSubmit
  <2>2. ~Launched(u) /\ u.node # Origin(u) /\ disp[u.job].pc # "new" /\ Origin(u) \in Node
    BY <1>000, <2>1 DEF DispatchInv, OneTaskPerDispatch, OnceInv, SubmitsLeave, Issued
  <2>3. jobs'[u.node][u.job].status = "queued"
        /\ \A k \in Node, i \in Job : k # u.node \/ i # u.job => jobs'[k][i] = jobs[k][i]
    BY <1>0, <1>000, <2>1 DEF TypeOK, QueuedRecord
  <2>4. Launches(u)
    BY <2>1, <2>2 DEF Launches
  <2>5. /\ Launched(u)'
        /\ \A t \in Task : t # u => exec'[t] = exec[t]
        /\ \A t \in Task : Launched(t) => Launched(t)'
        /\ Children(u.job)' = Children(u.job) \cup {u}
        /\ \A k \in Job : k # u.job => Children(k)' = Children(k)
        /\ \A k \in Job : Ended(k)' = Ended(k)
    BY <1>0, <2>4, LaunchShows
  <2>6. \A k \in Job : disp[k].pc # "new" =>
          jobs'[disp[k].origin][k] = jobs[disp[k].origin][k]
    BY <1>00, <2>2, <2>3 DEF Origin
  <2>7. \A k \in Job : Shown(k)' = Shown(k)
    BY <2>1, <2>6, SameShown
  <2>8. Shown(u.job) # "unknown"
    <3>1. jobs[disp[u.job].origin][u.job].status \in Status
      BY <1>0, <1>000, <2>2 DEF TypeOK, JobRecord, Origin
    <3> QED BY <2>2, <3>1 DEF Shown, Status
  <2>9. PromiseStep
    BY <1>000, <2>5, <2>7, <2>8, MovedIsStep DEF Moved, Same, PromiseStep
  <2>10. \A m \in reports' : Heard(m)'
    BY <2>1, <2>5, <2>6, BegunJobs, StillHeard DEF Origin
  <2>11. \A k \in Node, i \in Job : jobs[k][i].status # "none" => jobs'[k][i].status # "none"
    BY <2>3
  <2>12. \A i \in Job : Live(i)' => Live(i)
    BY <2>1 DEF Live
  <2>13. ShownInv'
    BY <1>0, <1>00, <2>1, <2>3, <2>5, <2>10, <2>11, <2>12, ShownKept
  <2> QED BY <2>9, <2>13
<1>2. ASSUME NEW u \in Task, ExecStart(u)  PROVE ShownInv' /\ PromiseStep
  <2> DEFINE r == StartedRecord(jobs[u.node][u.job])
  <2>1. /\ jobs' = [jobs EXCEPT ![u.node][u.job] = r]
        /\ exec' = [exec EXCEPT ![u].pc = "started"] /\ exec[u].pc = "spawned"
        /\ disp' = disp /\ acks' = acks /\ reports' = reports
    BY <1>2 DEF ExecStart, net
  <2>2. r.status = "running"
    BY <1>000, RecordVerdicts
  <2> HIDE DEF r
  <2>3. Launched(u) /\ disp[u.job].pc # "new" /\ Origin(u) \in Node
    BY <1>000, <2>1 DEF Issued, Launched
  <2>4. u.node = Origin(u) => Opened(u.job)
    <3> SUFFICES ASSUME u.node = Origin(u) PROVE Opened(u.job)
      OBVIOUS
    <3>1. jobs[Origin(u)][u.job].status # "none"
      BY <2>1 DEF ShownInv, TaskHasRecord
    <3>2. Final(jobs[Origin(u)][u.job]) => ~OnlyOne(u)
      BY <2>1, <2>3, NoSoleVerdict
    <3> QED BY <1>0, <2>3, <3>1, <3>2, HeardOf
  <2>5. NothingNew
    BY <1>0, <2>1 DEF NothingNew, TypeOK, ExecState, Live, Launched
  <2>6. Writes(u.node, u.job, r)
    BY <2>1, <2>2, <2>4, <2>5 DEF Writes, Final, Origin
  <2> QED BY <1>000, <2>6, ShownWrite
<1>3. ASSUME NEW u \in Task, ExecFinish(u)  PROVE ShownInv' /\ PromiseStep
  <2>1. PICK o \in Outcome :
          /\ jobs' = [jobs EXCEPT ![u.node][u.job] = FinishedRecord(jobs[u.node][u.job], o)]
          /\ IF Origin(u) = u.node
               THEN /\ exec' = [exec EXCEPT ![u] = [pc |-> "done", outcome |-> o]]
                    /\ UNCHANGED <<lock, reports>>
               ELSE /\ exec' = [exec EXCEPT ![u] = [pc |-> "reporting", outcome |-> o]]
                    /\ lock' = [lock EXCEPT ![u.node] = {u}]
                    /\ reports' = reports \cup {ReportOf(u, o)}
    BY <1>3 DEF ExecFinish
  <2>2. disp' = disp /\ acks' = acks /\ exec[u].pc = "started"
    BY <1>3 DEF ExecFinish
  <2>3. Launched(u) /\ disp[u.job].pc # "new" /\ Origin(u) \in Node
    BY <1>000, <2>2 DEF Issued, Launched
  <2>4. /\ exec'[u].outcome = o /\ exec'[u].pc \in {"done", "reporting"}
        /\ \A t \in Task : t # u => exec'[t] = exec[t]
    BY <1>0, <2>1 DEF TypeOK
  <2>5. \A t \in Task : Launched(t)' <=> Launched(t)
    BY <2>3, <2>4 DEF Launched
  <2>6. exec[u].outcome = "none" /\ o # "none"
    BY <2>2 DEF VerdictInv, OutcomeSetOnce, Outcome
  <2> DEFINE r == FinishedRecord(jobs[u.node][u.job], o)
  <2>7. r = jobs[u.node][u.job] \/ r.status = StatusOf(o)
    BY <1>000, RecordVerdicts
  <2> HIDE DEF r
  <2>8. \A n \in Node, j \in Job :
          jobs'[n][j] = IF n = u.node /\ j = u.job THEN r ELSE jobs[n][j]
    BY <1>0, <1>000, <2>1 DEF TypeOK, r
  <2>9. \A k \in Job : Children(k)' = Children(k)
    BY <2>5 DEF Children
  <2>10. \A k \in Job : k # u.job => Ended(k)' = Ended(k)
    BY <2>4, <2>5, SameKids
  <2>11. Ended(u.job)' = Ended(u.job) \cup {StatusOf(o)}
    <3> DEFINE Over == {c \in Children(u.job) : exec[c].outcome # "none"}
    <3>1. u \in Children(u.job) /\ u \notin Over
      BY <2>3, <2>6 DEF Children
    <3>2. Over' = Over \cup {u}
      BY <1>000, <2>4, <2>6, <2>9, <3>1 DEF Children
    <3>3. \A c \in Over : exec'[c].outcome = exec[c].outcome
      BY <2>4, <3>1 DEF Children
    <3>4. Ended(u.job) = {StatusOf(exec[c].outcome) : c \in Over}
      BY DEF Ended
    <3>5. Ended(u.job)' = {StatusOf(exec'[c].outcome) : c \in Over \cup {u}}
      BY <3>2 DEF Ended
    <3> HIDE DEF Over
    <3> QED BY <2>4, <3>3, <3>4, <3>5
  <2>12. u.node = Origin(u) => Opened(u.job)
    <3> SUFFICES ASSUME u.node = Origin(u) PROVE Opened(u.job)
      OBVIOUS
    <3>1. jobs[Origin(u)][u.job].status # "none"
      BY <2>2 DEF ShownInv, TaskHasRecord
    <3>2. Final(jobs[Origin(u)][u.job]) => ~OnlyOne(u)
      BY <2>2, <2>3, NoSoleVerdict
    <3> QED BY <1>0, <2>3, <3>1, <3>2, HeardOf
  <2>13. StatusOf(o) \in {"completed", "failed"}
    BY DEF StatusOf
  <2>14. \A k \in Job : disp[k].pc # "new" /\ (k # u.job \/ u.node # Origin(u)) =>
           jobs'[disp[k].origin][k] = jobs[disp[k].origin][k]
    BY <1>00, <2>8 DEF Origin
  <2>15. Shown(u.job)' = Shown(u.job) \/ (Opened(u.job) /\ Shown(u.job)' = StatusOf(o))
    <3>1. CASE u.node = Origin(u) /\ r # jobs[u.node][u.job]
      <4>1. jobs'[disp[u.job].origin][u.job] = r
        BY <1>000, <2>8, <3>1 DEF Origin
      <4>2. Shown(u.job)' = StatusOf(o)
        BY <2>2, <2>3, <2>7, <2>13, <3>1, <4>1 DEF Shown
      <4> QED BY <2>12, <3>1, <4>2
    <3>2. CASE u.node # Origin(u)
      BY <1>000, <2>2, <2>14, <3>2, SameShown
    <3>3. CASE r = jobs[u.node][u.job]
      BY <1>00, <1>000, <2>2, <2>8, <3>3, SameShown
    <3> QED BY <3>1, <3>2, <3>3
  <2>16. Children(u.job) # {}
    BY <2>3 DEF Children
  <2>17. Moved(u.job)
    BY <1>000, <2>9, <2>11, <2>13, <2>15, <2>16 DEF Moved
  <2>18. \A k \in Job : k # u.job => Same(k)
    BY <2>2, <2>9, <2>10, <2>14, SameShown DEF Same
  <2>19. PromiseStep
    BY <1>000, <2>17, <2>18, MovedIsStep DEF PromiseStep
  <2>20. \A m \in reports : Heard(m)'
    <3> SUFFICES ASSUME NEW m \in reports PROVE Heard(m)'
      OBVIOUS
    <3>1. m.task \in Task /\ m.task.job \in Job /\ Launched(m.task) /\ m.task # u
          /\ disp[m.task.job].pc # "new"
      BY <2>6, BegunJobs DEF OnceInv, ReportsExact
    <3>2. m.task.job = u.job => ~OnlyOne(m.task)
      BY <2>3, <3>1 DEF OnlyOne
    <3>3. m.task.job # u.job =>
            jobs'[Origin(m.task)][m.task.job] = jobs[Origin(m.task)][m.task.job]
      BY <2>14, <3>1 DEF Origin
    <3> QED BY <2>2, <2>5, <3>2, <3>3, StillHeard
  <2>21. ASSUME Origin(u) # u.node, NEW m, m = ReportOf(u, o) PROVE Heard(m)'
    <3>1. m.task = u
      BY <2>21 DEF ReportOf
    <3>2. OnlyOne(u)' => OnlyOne(u)
      BY <2>5 DEF OnlyOne
    <3>3. OnlyOne(u) => ~Final(jobs[Origin(u)][u.job])
      BY <2>2, <2>3, NoSoleVerdict
    <3>4. jobs'[Origin(u)][u.job] = jobs[Origin(u)][u.job] /\ Origin(u)' = Origin(u)
      BY <1>000, <2>2, <2>3, <2>14, <2>21 DEF Origin
    <3>5. OnlyOne(u)' => ~Final(jobs'[Origin(u)'][u.job])
      BY <3>2, <3>3, <3>4
    <3>6. u.node # Origin(u)'
      BY <2>21, <3>4
    <3> QED BY <3>1, <3>5, <3>6 DEF Heard
  <2>22. \A m \in reports' : Heard(m)'
    BY <2>1, <2>20, <2>21
  <2>23. r.status = "none" => jobs[u.node][u.job].status = "none"
    BY <2>7, <2>13
  <2>24. \A k \in Node, i \in Job : jobs[k][i].status # "none" => jobs'[k][i].status # "none"
    BY <2>8, <2>23
  <2>25. \A i \in Job : Live(i)' => Live(i)
    BY <2>2 DEF Live
  <2>26. ShownInv'
    BY <1>0, <1>00, <2>2, <2>4, <2>5, <2>22, <2>24, <2>25, ShownKept
  <2> QED BY <2>19, <2>26
<1>4. ASSUME NEW m \in reports, HandleReport(m)  PROVE ShownInv' /\ PromiseStep
  <2> DEFINE o == Origin(m.task)
             j == m.task.job
             r == ReportedRecord(jobs[o][j], m)
  <2>1. /\ m.task \in Task /\ j \in Job /\ o \in Node /\ Launched(m.task)
        /\ disp[j].pc # "new" /\ jobs[o][j] \in JobRecord
    BY <1>0, BegunJobs DEF TypeOK
  <2>2. /\ jobs' = [jobs EXCEPT ![o][j] = r] /\ reports' = reports \ {m}
        /\ disp' = disp /\ exec' = exec /\ acks' = acks
    BY <1>4 DEF HandleReport
  <2>3. /\ exec[m.task].outcome # "none"
        /\ m = ReportOf(m.task, exec[m.task].outcome)
        /\ m.status = StatusOf(exec[m.task].outcome)
    BY DEF OnceInv, ReportsExact, VerdictInv, ReportsTrue
  <2>4. r = jobs[o][j] \/ (r.status = m.status /\ jobs[o][j].status # "none")
    BY <2>1 DEF ReportedRecord, JobRecord
  <2>5. m.status \in Ended(j) /\ m.status # "none"
    BY <2>1, <2>3 DEF Ended, Children, StatusOf
  <2>6. jobs[o][j].status # "none" => Opened(j)
    <3>1. Final(jobs[o][j]) => ~OnlyOne(m.task)
      BY DEF ShownInv, ReportsHeard, Heard
    <3> QED BY <1>0, <2>1, <3>1, HeardOf
  <2>7. \A k \in reports' : k.task.job = j => ~OnlyOne(k.task)
    <3> SUFFICES ASSUME NEW k \in reports, k # m, k.task.job = j PROVE ~OnlyOne(k.task)
      BY <2>2
    <3>1. k = ReportOf(k.task, exec[k.task].outcome)
      BY DEF OnceInv, ReportsExact
    <3>2. k.task # m.task
      BY <2>3, <3>1
    <3> QED BY <2>1, <3>2 DEF OnlyOne
  <2>8. NothingNew
    BY <2>2 DEF NothingNew, Live, Launched
  <2> HIDE DEF o, r
  <2>9. Writes(o, j, r)
    BY <2>2, <2>4, <2>5, <2>6, <2>7, <2>8 DEF Writes
  <2> QED BY <2>1, <2>9, ShownWrite
<1>5. ASSUME NEW u \in Task, ReportReturn(u) \/ ReportRefused(u) \/ ReportFault(u)
      PROVE  ShownInv' /\ PromiseStep
  <2>1. Released(u) /\ reports' \subseteq reports /\ exec[u].pc = "reporting"
    BY <1>5 DEF ReportReturn, ReportRefused, ReportFault
  <2>2. disp' = disp /\ jobs' = jobs /\ acks' = acks
    BY <2>1 DEF Released
  <2>3. \A t \in Task : /\ Launched(t)' <=> Launched(t)
                        /\ exec'[t].outcome = exec[t].outcome
                        /\ exec'[t].pc \in {"spawned", "started"} =>
                             exec[t].pc \in {"spawned", "started"}
    BY <1>0, <2>1 DEF Released, TypeOK, ExecState, Launched
  <2>4. \A j \in Job : Live(j)' => Live(j)
    BY <2>2 DEF Live
  <2> QED BY <2>1, <2>2, <2>3, <2>4, ShownQuiet
<1>6. ASSUME NEW n \in Node, NEW j \in Job, Cancel(n, j)  PROVE ShownInv' /\ PromiseStep
  <2> DEFINE r == [jobs[n][j] EXCEPT !.status = "cancelled"]
  <2>1. /\ jobs' = [jobs EXCEPT ![n][j] = r] /\ disp' = disp /\ reports' = reports
        /\ exec' = exec /\ acks' = acks
        /\ jobs[n][j].status \notin Terminal \cup {"none"}
    BY <1>6 DEF Cancel, net
  <2>2. jobs[n][j] \in JobRecord
    BY <1>0 DEF TypeOK
  <2>3. r.status = "cancelled" /\ jobs[n][j].status \in {"queued", "running"}
    BY <2>1, <2>2 DEF JobRecord, Status, Terminal
  <2> HIDE DEF r
  <2>4. disp[j].pc # "new" /\ n = disp[j].origin => Shown(j) \in {"queued", "running"}
    BY <2>3 DEF Shown
  <2>5. NothingNew
    BY <2>1 DEF NothingNew, Live, Launched
  <2>6. Writes(n, j, r)
    BY <2>1, <2>3, <2>4, <2>5 DEF Writes, Final
  <2> QED BY <2>6, ShownWrite
<1>7. ASSUME NEW n \in Node, Crash(n)  PROVE ShownInv' /\ PromiseStep
  <2>1. \A i \in Job : /\ disp'[i].origin = disp[i].origin
                       /\ IF disp[i].origin = n /\ disp[i].pc # "done"
                            THEN disp'[i].pc = "dead" ELSE disp'[i] = disp[i]
    BY <1>0, <1>7 DEF Crash, TypeOK, DispState
  <2>2. \A k \in Node, i \in Job : IF k = n THEN jobs'[k][i].status = "none"
                                           ELSE jobs'[k][i] = jobs[k][i]
    BY <1>0, <1>7 DEF Crash, TypeOK, NoRecord
  <2>3. \A t \in Task : /\ exec'[t].outcome = exec[t].outcome
                        /\ Launched(t)' <=> Launched(t)
                        /\ exec'[t].pc \in {"spawned", "started"} =>
                             t.node # n /\ exec'[t] = exec[t]
    BY <1>0, <1>7 DEF Crash, TypeOK, ExecState, Launched
  <2>4. /\ acks' \subseteq acks
        /\ \A m \in reports' : m \in reports /\ Origin(m.task) # n
    BY <1>7 DEF Crash
  <2>5. \A i \in Job : disp[i].pc = "new" => disp[i].origin # n
    BY ConstantsAssumption DEF ConstantsAssumption, ShownInv, NewAtNoNode
  <2>6. \A i \in Job : disp'[i].pc = "new" <=> disp[i].pc = "new"
    BY <2>1, <2>5
  <2>7. LiveHasRecord'
    <3> SUFFICES ASSUME NEW j \in Job, Live(j)'
                 PROVE  jobs'[disp'[j].origin][j].status # "none"
      BY DEF LiveHasRecord
    <3>1. disp'[j] = disp[j] /\ disp[j].origin # n /\ Live(j)
      BY <2>1 DEF Live
    <3> QED BY <1>00, <2>2, <3>1 DEF ShownInv, LiveHasRecord
  <2>8. TaskHasRecord'
    <3> SUFFICES ASSUME NEW t \in Task, exec'[t].pc \in {"spawned", "started"}
                 PROVE  jobs'[t.node][t.job].status # "none"
      BY DEF TaskHasRecord
    <3> QED BY <1>000, <2>2, <2>3 DEF ShownInv, TaskHasRecord
  <2>9. AcksLaunched'
    BY <1>0, <2>3, <2>4 DEF ShownInv, AcksLaunched
  <2>10. ReportsHeard'
    <3> SUFFICES ASSUME NEW m \in reports, Origin(m.task) # n PROVE Heard(m)'
      BY <2>4 DEF ReportsHeard
    <3>1. m.task.job \in Job /\ Origin(m.task) \in Node
      BY BegunJobs
    <3>2. jobs'[Origin(m.task)][m.task.job] = jobs[Origin(m.task)][m.task.job]
      BY <2>2, <3>1
    <3> QED BY <2>1, <2>3, <3>1, <3>2, StillHeard
  <2>11. NewAtNoNode'
    BY <2>1, <2>6 DEF ShownInv, NewAtNoNode
  <2> DEFINE S == [k \in Job |-> Shown(k)]
             C == [k \in Job |-> Children(k)]
             E == [k \in Job |-> Ended(k)]
             L == {k \in Job : disp[k].pc # "new" /\ disp[k].origin = n}
  <2>12. C' = C /\ E' = E
    BY <2>3, SameKids
  <2>13. ASSUME NEW k \in Job PROVE Shown(k)' = IF k \in L THEN "lost" ELSE Shown(k)
    <3>1. CASE k \in L
      <4>1. disp'[k].pc # "new" /\ disp'[k].origin = n
        BY <2>1, <2>6, <3>1
      <4> QED BY <2>2, <3>1, <4>1 DEF Shown
    <3>2. CASE k \notin L
      <4>1. Shown(k)' = Shown(k)
        BY <1>00, <2>1, <2>2, <2>6, <3>2, SameShown
      <4> QED BY <3>2, <4>1
    <3> QED BY <3>1, <3>2
  <2>14. L \in SUBSET {k \in Job : S[k] # "unknown"}
    <3>1. ASSUME NEW k \in L PROVE Shown(k) # "unknown"
      <4>1. jobs[disp[k].origin][k].status \in Status
        BY <1>0 DEF TypeOK, JobRecord
      <4> QED BY <4>1 DEF Shown, Status
    <3> QED BY <3>1
  <2>15. S' = [k \in Job |-> IF k \in L THEN "lost" ELSE S[k]]
    BY <2>13
  <2>16. Promise!Lose
    <3> HIDE DEF S, C, E, L
    <3> QED BY <2>12, <2>14, <2>15 DEF Promise!Lose, S, C, E
  <2>17. PromiseStep
    BY <2>16 DEF PromiseStep, Promise!Next
  <2> QED BY <2>7, <2>8, <2>9, <2>10, <2>11, <2>17 DEF ShownInv
<1> QED BY <1>1, <1>2, <1>3, <1>4, <1>5, <1>6, <1>7

\* Together with the invariants before it, ShownInv is inductive, and the step is one
\* of JobPromise.
LEMMA ShownNext ==
  DispatchInv /\ VerdictInv /\ OnceInv /\ ShownInv /\ [Next]_vars => ShownInv' /\ PromiseStep
<1> SUFFICES ASSUME DispatchInv, VerdictInv, OnceInv, ShownInv, [Next]_vars
             PROVE  ShownInv' /\ PromiseStep
  OBVIOUS
<1>1. CASE UNCHANGED vars
  <2>1. UNCHANGED <<jobs, disp, exec, acks, reports>>
    BY <1>1 DEF vars, net
  <2>2. \A i \in Job : Live(i)' => Live(i)
    BY <2>1 DEF Live
  <2> QED BY <2>1, <2>2, ShownQuiet DEF Launched
<1>2. CASE Progress
  BY <1>2, ShownDispatch, ShownTask DEF Progress
<1>3. CASE Environment
  BY <1>3, ShownDispatch, ShownTask, ConstantsAssumption DEF Environment, ConstantsAssumption
<1> QED BY <1>1, <1>2, <1>3 DEF Next

\* What the origin shows of its jobs is what JobPromise allows, through lost calls,
\* retries, overtaking reports, cancellations and crashes.
THEOREM JobPromiseImplemented == Spec => JobPromiseKept
<1>1. Init => Promise!Init
  <2> SUFFICES ASSUME Init PROVE Promise!Init
    OBVIOUS
  <2>1. \A k \in Job : Shown(k) = "unknown"
    BY DEF Init, Shown
  <2>2. \A k \in Job : Children(k) = {}
    BY DEF Init, Children, Launched
  <2>3. \A k \in Job : Ended(k) = {}
    BY <2>2 DEF Ended
  <2> QED BY <2>1, <2>2, <2>3 DEF Promise!Init
<1>2. Init => ShownInv
  BY DEF Init, ShownInv, LiveHasRecord, Live, TaskHasRecord, AcksLaunched, ReportsHeard,
         NewAtNoNode
<1>3. DispatchInv /\ VerdictInv /\ OnceInv /\ ShownInv /\ [Next]_vars => ShownInv' /\ PromiseStep
  BY ShownNext
<1>4. Spec => []ShownInv /\ [][Next]_vars
  BY <1>2, <1>3, OutcomeInvariant, PTL DEF Spec
<1>5. DispatchInv /\ VerdictInv /\ OnceInv /\ ShownInv /\ [Next]_vars =>
        [Promise!Next]_(<<[j \in Job |-> Shown(j)], [j \in Job |-> Children(j)],
                          [j \in Job |-> Ended(j)]>>)
  BY <1>3 DEF PromiseStep
<1> QED BY <1>1, <1>4, <1>5, OutcomeInvariant, PTL DEF Spec, JobPromiseKept, Promise!Spec
=============================================================================
