------------------------- MODULE JobLifecycleProofs -------------------------
(***************************************************************************)
(* Proofs about JobLifecycle, for every set of nodes, jobs and origins,    *)
(* every choice of pick_node and every bound on retries, faults and        *)
(* crashes.                                                                *)
(***************************************************************************)
EXTENDS JobLifecycle, TLAPS

(* Types *)

\* What the handlers write to a record is a record.
LEMMA RecordTypes ==
    ASSUME NEW r \in JobRecord
    PROVE  /\ \A n \in Node : QueuedRecord(n) \in JobRecord
           /\ \A n \in Node : AckedRecord(r, n) \in JobRecord
           /\ StartedRecord(r) \in JobRecord
           /\ \A o \in Outcome : FinishedRecord(r, o) \in JobRecord
           /\ \A m \in Report : ReportedRecord(r, m) \in JobRecord
  BY DEF JobRecord, QueuedRecord, AckedRecord, StartedRecord, FinishedRecord,
         ReportedRecord, DecodedCode, StatusOf, CodeOf, Status, ExitCode,
         Outcome, Report

\* The report of an outcome is a report.
LEMMA ReportType ==
    ASSUME NEW t \in Task, NEW o \in Outcome
    PROVE  ReportOf(t, o) \in Report
  BY DEF ReportOf, Report, StatusOf, Outcome

\* The dispatch that a dispatcher with a target makes is a task.
LEMMA DispatchTaskType ==
    ASSUME TypeOK, NEW j \in Job, disp[j].target \in Node
    PROVE  DispatchTask(j) \in Task
  BY DEF TypeOK, DispatchTask, Task, DispState

\* What a step does to a dispatcher leaves a dispatcher.
LEMMA DispTypes ==
    ASSUME NEW d \in DispState
    PROVE  /\ [d EXCEPT !.pc = "done"] \in DispState
           /\ [d EXCEPT !.pc = "dead"] \in DispState
           /\ [d EXCEPT !.pc = "rpc"] \in DispState
           /\ AfterFailure(d) \in DispState
           /\ \A p \in Node \cup {NoNode}, c \in {"sleep", "dispatch"} :
                [d EXCEPT !.target = p, !.pc = c] \in DispState
           /\ \A a \in Attempt, c \in {"pick", "done"} :
                [d EXCEPT !.tries = a, !.pc = c] \in DispState
  <1>1. d.tries \in Attempt /\ d.failed \in SUBSET Attempt
    BY DEF DispState
  <1>2. d.failed \cup {d.tries} \in SUBSET Attempt
    BY <1>1
  <1>3. AfterFailure(d) \in DispState
    BY <1>2 DEF AfterFailure, DispState
  <1> QED BY <1>3 DEF DispState

\* TypeOK and TargetChosen hold initially: tables, tasks and RPCs are empty.
LEMMA TypeInit == Init => TypeOK /\ TargetChosen
  BY ConstantsAssumption
  DEF Init, TypeOK, TargetChosen, NoRecord, JobRecord, Status, ExitCode,
      DispState, ExecState, Attempt, Outcome, ConstantsAssumption

\* Every step of a dispatcher preserves TypeOK and TargetChosen.
LEMMA TypeDispatch ==
    ASSUME TypeOK, TargetChosen, NEW j \in Job,
           \/ \E n \in Origins : Submit(n, j)
           \/ DispatchLocal(j) \/ DispatchRemote(j) \/ DispatchAck(j)
           \/ DispatchFault(j) \/ DispatchRefused(j) \/ HandlerDropped(j)
           \/ RetryCheck(j) \/ RetryPick(j) \/ RetryExhausted(j)
    PROVE  TypeOK' /\ TargetChosen'
  <1> USE ConstantsAssumption DEF ConstantsAssumption
  <1>1. CASE \E n \in Origins : Submit(n, j)
    <2> PICK n \in Origins : Submit(n, j) BY <1>1
    <2> PICK p \in Picks :
          /\ jobs' = [jobs EXCEPT ![n][j] = QueuedRecord(IF p = NoNode THEN n ELSE p)]
          /\ disp' = [disp EXCEPT ![j] =
                       [pc     |-> IF p = NoNode THEN "sleep" ELSE "dispatch",
                        origin |-> n,
                        mode   |-> IF p = NoNode THEN "retry" ELSE "once",
                        target |-> p, tries |-> 0, failed |-> {}]]
      BY DEF Submit
    <2>1. jobs' \in [Node -> [Job -> JobRecord]]
      BY DEF TypeOK, QueuedRecord, JobRecord, Status, ExitCode
    <2>2. disp' \in [Job -> DispState]
      BY DEF TypeOK, DispState, Attempt
    <2>3. TargetChosen'
      BY DEF TargetChosen, TypeOK
    <2> QED BY <2>1, <2>2, <2>3 DEF Submit, TypeOK, net
  <1>2. CASE DispatchLocal(j)
    <2>1. disp' \in [Job -> DispState]
      BY <1>2, DispTypes DEF DispatchLocal, TypeOK
    <2>2. exec' \in [Task -> ExecState]
      BY <1>2 DEF DispatchLocal, TypeOK, ExecState
    <2>3. TargetChosen'
      BY <1>2 DEF DispatchLocal, TargetChosen, TypeOK
    <2> QED BY <1>2, <2>1, <2>2, <2>3 DEF DispatchLocal, TypeOK, net
  <1>3. CASE DispatchRemote(j)
    <2>1. DispatchTask(j) \in Task
      BY <1>3, DispatchTaskType DEF DispatchRemote, TargetChosen
    <2>2. disp' \in [Job -> DispState] /\ TargetChosen'
      <3>1. disp' \in [Job -> DispState]
        BY <1>3, DispTypes DEF DispatchRemote, TypeOK
      <3>2. TargetChosen'
        BY <1>3 DEF DispatchRemote, TypeOK, DispState, TargetChosen
      <3> QED BY <3>1, <3>2
    <2> QED BY <1>3, <2>1, <2>2 DEF DispatchRemote, TypeOK
  <1>4. CASE DispatchAck(j)
    <2>1. disp' \in [Job -> DispState] /\ TargetChosen'
      <3>1. disp' \in [Job -> DispState]
        BY <1>4, DispTypes DEF DispatchAck, TypeOK
      <3>2. TargetChosen'
        BY <1>4 DEF DispatchAck, TypeOK, DispState, TargetChosen
      <3> QED BY <3>1, <3>2
    <2>2. jobs' \in [Node -> [Job -> JobRecord]]
      <3>1. disp[j].target \in Node BY <1>4 DEF DispatchAck, TargetChosen
      <3>2. jobs' = [jobs EXCEPT ![disp[j].origin][j] =
                       AckedRecord(jobs[disp[j].origin][j], disp[j].target)]
        BY <1>4 DEF DispatchAck
      <3>3. CASE disp[j].origin \in Node
        <4>1. AckedRecord(jobs[disp[j].origin][j], disp[j].target) \in JobRecord
          BY <3>1, <3>3, RecordTypes DEF TypeOK
        <4> QED BY <3>2, <3>3, <4>1 DEF TypeOK
      <3>4. CASE disp[j].origin \notin Node
        BY <3>2, <3>4 DEF TypeOK
      <3> QED BY <3>3, <3>4
    <2> QED BY <1>4, <2>1, <2>2 DEF DispatchAck, TypeOK
  <1>5. CASE DispatchFault(j) \/ DispatchRefused(j)
    <2>1. disp' = [disp EXCEPT ![j] = AfterFailure(disp[j])]
      BY <1>5 DEF DispatchFault, DispatchRefused
    <2>2. AfterFailure(disp[j]) \in DispState
      BY DispTypes DEF TypeOK
    <2>3. disp' \in [Job -> DispState] /\ TargetChosen'
      BY <2>1, <2>2 DEF TypeOK, TargetChosen, AfterFailure, DispState
    <2> QED BY <1>5, <2>3 DEF DispatchFault, DispatchRefused, TypeOK, net
  <1>6. CASE HandlerDropped(j) \/ RetryExhausted(j)
    <2>1. PICK c \in {"done", "dead"} : disp' = [disp EXCEPT ![j].pc = c]
      BY <1>6 DEF HandlerDropped, RetryExhausted
    <2>2. disp' \in [Job -> DispState]
      BY <2>1, DispTypes DEF TypeOK
    <2>3. TargetChosen'
      BY <2>1 DEF TypeOK, DispState, TargetChosen
    <2> QED BY <1>6, <2>2, <2>3 DEF HandlerDropped, RetryExhausted, TypeOK, net
  <1>7. CASE RetryCheck(j)
    <2>1. disp[j].tries + 1 \in Attempt
      BY <1>7 DEF RetryCheck, TypeOK, DispState, Attempt
    <2>2. disp' \in [Job -> DispState] /\ TargetChosen'
      BY <1>7, <2>1 DEF RetryCheck, TypeOK, DispState, TargetChosen
    <2> QED BY <1>7, <2>2 DEF RetryCheck, TypeOK, net
  <1>8. CASE RetryPick(j)
    <2> PICK p \in Picks :
          disp' = [disp EXCEPT ![j].target = p,
                               ![j].pc = IF p = NoNode THEN "sleep" ELSE "dispatch"]
      BY <1>8 DEF RetryPick
    <2> DEFINE d == [disp[j] EXCEPT !.target = p,
                                    !.pc = IF p = NoNode THEN "sleep" ELSE "dispatch"]
    <2>a. disp' = [disp EXCEPT ![j] = d]
      BY DEF TypeOK
    <2>b. d \in DispState
      BY DispTypes DEF TypeOK
    <2>c. d.pc \in {"dispatch", "rpc"} => d.target \in Node
      BY DEF TypeOK, DispState
    <2> HIDE DEF d
    <2>1. disp' \in [Job -> DispState] /\ TargetChosen'
      BY <2>a, <2>b, <2>c DEF TypeOK, TargetChosen
    <2> QED BY <1>8, <2>1 DEF RetryPick, TypeOK, net
  <1> QED BY <1>1, <1>2, <1>3, <1>4, <1>5, <1>6, <1>7, <1>8

\* Every step of a delegate, of an executor or of the outside world preserves
\* TypeOK and TargetChosen.
LEMMA TypeTask ==
    ASSUME TypeOK, TargetChosen,
           \/ \E t \in Task : \/ HandleSubmit(t) \/ ExecStart(t) \/ ExecFinish(t)
                              \/ ReportReturn(t) \/ ReportRefused(t) \/ ReportFault(t)
           \/ \E m \in reports : HandleReport(m)
           \/ \E n \in Node, j \in Job : Cancel(n, j)
           \/ \E n \in Node : Crash(n)
    PROVE  TypeOK' /\ TargetChosen'
  <1>1. ASSUME NEW t \in Task, HandleSubmit(t) PROVE TypeOK' /\ TargetChosen'
    <2>1. QueuedRecord(t.node) \in JobRecord
      BY DEF Task, QueuedRecord, JobRecord, Status, ExitCode
    <2>2. jobs' \in [Node -> [Job -> JobRecord]]
      BY <1>1, <2>1 DEF HandleSubmit, TypeOK
    <2>3. exec' \in [Task -> ExecState]
      BY <1>1 DEF HandleSubmit, TypeOK, ExecState
    <2>4. acks' \subseteq Task
      BY <1>1 DEF HandleSubmit, TypeOK
    <2> QED BY <1>1, <2>2, <2>3, <2>4 DEF HandleSubmit, TypeOK, TargetChosen
  <1>2. ASSUME NEW t \in Task, ExecStart(t) PROVE TypeOK' /\ TargetChosen'
    <2>1. StartedRecord(jobs[t.node][t.job]) \in JobRecord
      BY RecordTypes DEF Task, TypeOK
    <2>2. jobs' \in [Node -> [Job -> JobRecord]]
      BY <1>2, <2>1 DEF ExecStart, TypeOK
    <2>3. exec' \in [Task -> ExecState]
      BY <1>2 DEF ExecStart, TypeOK, ExecState
    <2> QED BY <1>2, <2>2, <2>3 DEF ExecStart, TypeOK, TargetChosen, net
  <1>3. ASSUME NEW t \in Task, ExecFinish(t) PROVE TypeOK' /\ TargetChosen'
    <2> PICK o \in Outcome :
          /\ jobs' = [jobs EXCEPT ![t.node][t.job] = FinishedRecord(jobs[t.node][t.job], o)]
          /\ IF Origin(t) = t.node
               THEN /\ exec' = [exec EXCEPT ![t] = [pc |-> "done", outcome |-> o]]
                    /\ UNCHANGED <<lock, reports>>
               ELSE /\ exec' = [exec EXCEPT ![t] = [pc |-> "reporting", outcome |-> o]]
                    /\ lock' = [lock EXCEPT ![t.node] = {t}]
                    /\ reports' = reports \cup {ReportOf(t, o)}
      BY <1>3 DEF ExecFinish
    <2>0. jobs[t.node][t.job] \in JobRecord
      BY DEF Task, TypeOK
    <2>1. FinishedRecord(jobs[t.node][t.job], o) \in JobRecord
      BY <2>0, RecordTypes
    <2>2. jobs' \in [Node -> [Job -> JobRecord]]
      BY <2>1 DEF TypeOK
    <2>3. exec' \in [Task -> ExecState]
      BY DEF TypeOK, ExecState
    <2>4. lock' \in [Node -> SUBSET Task]
      BY DEF TypeOK
    <2>5. reports' \subseteq Report
      BY ReportType DEF TypeOK
    <2> QED BY <1>3, <2>2, <2>3, <2>4, <2>5 DEF ExecFinish, TypeOK, TargetChosen
  <1>4. ASSUME NEW m \in reports, HandleReport(m) PROVE TypeOK' /\ TargetChosen'
    <2> DEFINE o == Origin(m.task)
    <2>1. m \in Report /\ m.task \in Task /\ m.task.job \in Job
      BY <1>4 DEF TypeOK, Report, Task
    <2>2. jobs' = [jobs EXCEPT ![o][m.task.job] =
                     ReportedRecord(jobs[o][m.task.job], m)]
      BY <1>4 DEF HandleReport
    <2>3. jobs' \in [Node -> [Job -> JobRecord]]
      <3>1. CASE o \in Node
        <4>1. ReportedRecord(jobs[o][m.task.job], m) \in JobRecord
          BY <2>1, <3>1, RecordTypes DEF TypeOK
        <4> QED BY <2>2, <3>1, <4>1 DEF TypeOK
      <3>2. CASE o \notin Node
        BY <2>2, <3>2 DEF TypeOK
      <3> QED BY <3>1, <3>2
    <2>4. replies' \subseteq Task
      BY <1>4, <2>1 DEF HandleReport, TypeOK
    <2> QED BY <1>4, <2>3, <2>4 DEF HandleReport, TypeOK, TargetChosen
  <1>5. ASSUME NEW t \in Task, ReportReturn(t) \/ ReportRefused(t) \/ ReportFault(t)
        PROVE  TypeOK' /\ TargetChosen'
    <2>0. Released(t)
      BY <1>5 DEF ReportReturn, ReportRefused, ReportFault
    <2>1. exec' \in [Task -> ExecState] /\ lock' \in [Node -> SUBSET Task]
      BY <2>0 DEF Released, TypeOK, ExecState
    <2>2. reports' \subseteq Report /\ replies' \subseteq Task /\ faults' \in Nat
      BY <1>5 DEF ReportReturn, ReportRefused, ReportFault, TypeOK
    <2> QED BY <1>5, <2>1, <2>2
            DEF ReportReturn, ReportRefused, ReportFault, Released, TypeOK, TargetChosen
  <1>6. ASSUME NEW n \in Node, NEW j \in Job, Cancel(n, j) PROVE TypeOK' /\ TargetChosen'
    <2>0. [jobs[n][j] EXCEPT !.status = "cancelled"] \in JobRecord
      <3>1. jobs[n][j] \in JobRecord BY DEF TypeOK
      <3> QED BY <3>1 DEF JobRecord, Status
    <2>1. jobs' \in [Node -> [Job -> JobRecord]]
      BY <1>6, <2>0 DEF Cancel, TypeOK
    <2> QED BY <1>6, <2>1 DEF Cancel, TypeOK, TargetChosen, net
  <1>7. ASSUME NEW n \in Node, Crash(n) PROVE TypeOK' /\ TargetChosen'
    <2>1. NoRecord \in JobRecord
      BY DEF NoRecord, JobRecord, Status, ExitCode
    <2>2. jobs' \in [Node -> [Job -> JobRecord]]
      BY <1>7, <2>1 DEF Crash, TypeOK
    <2>3. disp' \in [Job -> DispState] /\ TargetChosen'
      <3>1. disp' \in [Job -> DispState]
        BY <1>7, DispTypes DEF Crash, TypeOK
      <3>2. TargetChosen'
        BY <1>7 DEF Crash, TypeOK, DispState, TargetChosen
      <3> QED BY <3>1, <3>2
    <2>4. exec' \in [Task -> ExecState]
      BY <1>7 DEF Crash, TypeOK, ExecState
    <2> QED BY <1>7, <2>2, <2>3, <2>4 DEF Crash, TypeOK
  <1> QED BY <1>1, <1>2, <1>3, <1>4, <1>5, <1>6, <1>7

\* Every step, and stuttering, preserves TypeOK and TargetChosen.
LEMMA TypeNext == TypeOK /\ TargetChosen /\ [Next]_vars => TypeOK' /\ TargetChosen'
  <1> SUFFICES ASSUME TypeOK, TargetChosen, [Next]_vars
               PROVE  TypeOK' /\ TargetChosen'
    OBVIOUS
  <1>1. CASE UNCHANGED vars
    BY <1>1 DEF vars, net, TypeOK, TargetChosen
  <1>2. CASE Progress
    BY <1>2, TypeDispatch, TypeTask DEF Progress
  <1>3. CASE Environment
    BY <1>3, TypeDispatch, TypeTask, ConstantsAssumption
    DEF Environment, ConstantsAssumption
  <1> QED BY <1>1, <1>2, <1>3 DEF Next

\* Type correctness: whatever is lost, late, repeated, cancelled or crashed, the
\* jobs tables, tasks and RPCs keep their shape.
THEOREM TypeCorrect == Spec => []TypeOK
  <1>1. Init => TypeOK /\ TargetChosen
    BY TypeInit
  <1>2. TypeOK /\ TargetChosen /\ [Next]_vars => (TypeOK /\ TargetChosen)'
    BY TypeNext
  <1> QED BY <1>1, <1>2, PTL DEF Spec

-----------------------------------------------------------------------------
(* Dispatches: the dispatcher's bookkeeping against what is on the way and  *)
(* what runs                                                                *)

\* DispatchInv without the types, which TypeNext takes care of.
Bookkeeping == IssuedInOrder /\ FailedInOrder /\ OneTaskPerDispatch /\ NewIsUntouched

\* A step that issues nothing and leaves the dispatchers alone keeps the books.
LEMMA BookkeepingFrame ==
    ASSUME Bookkeeping, UNCHANGED disp, submits' \subseteq submits,
           \A t \in Task : Issued(t)' => Issued(t),
           \A t \in submits' : Launched(t)' => Launched(t)
    PROVE  Bookkeeping'
  BY DEF Bookkeeping, IssuedInOrder, FailedInOrder, OneTaskPerDispatch, NewIsUntouched

\* The next dispatch of a job that is about to be dispatched is a new one.
LEMMA FreshDispatch ==
    ASSUME TypeOK, Bookkeeping, NEW j \in Job, disp[j].pc = "dispatch",
           NEW t \in Task, Issued(t), t.job = j
    PROVE  t.attempt \in disp[j].failed /\ t.attempt # disp[j].tries
  BY DEF TypeOK, Bookkeeping, IssuedInOrder, FailedInOrder

\* Initially nothing was issued, so the books are in order.
LEMMA BookkeepingInit == Init => Bookkeeping
  BY DEF Init, Bookkeeping, IssuedInOrder, FailedInOrder, OneTaskPerDispatch,
         NewIsUntouched, Issued, Launched

\* A dispatcher's step that issues nothing: only its own record matters.
LEMMA BookkeepingQuiet ==
    ASSUME TypeOK, Bookkeeping, NEW j \in Job, NEW d,
           disp' = [disp EXCEPT ![j] = d],
           UNCHANGED exec, submits' \subseteq submits,
           d.pc # "new",
           \A t \in Task : Issued(t) /\ t.job = j =>
              /\ t.attempt <= d.tries
              /\ \/ t.attempt \in d.failed
                 \/ /\ t.attempt = d.tries
                    /\ d.pc \in {"rpc", "done", "dead"}
                    /\ t.node = d.target,
           \A f \in d.failed :
              f <= d.tries /\ (f = d.tries => d.pc \in {"sleep", "done", "dead"})
    PROVE  Bookkeeping'
  <1>1. \A k \in Job : disp'[k] = IF k = j THEN d ELSE disp[k]
    BY DEF TypeOK
  <1>2. \A t \in Task : t.job \in Job /\ (Issued(t)' => Issued(t))
    BY DEF Issued, Launched, Task
  <1>3. IssuedInOrder'
    BY <1>1, <1>2 DEF Bookkeeping, IssuedInOrder
  <1>4. FailedInOrder'
    BY <1>1 DEF Bookkeeping, FailedInOrder
  <1>5. OneTaskPerDispatch'
    BY <1>2 DEF Bookkeeping, OneTaskPerDispatch, Launched
  <1>6. NewIsUntouched'
    BY <1>1, <1>2 DEF Bookkeeping, NewIsUntouched
  <1> QED BY <1>3, <1>4, <1>5, <1>6 DEF Bookkeeping

\* A dispatcher's step that issues its current dispatch, to a remote node or to
\* its own executor.
LEMMA BookkeepingIssue ==
    ASSUME TypeOK, TargetChosen, Bookkeeping, NEW j \in Job,
           DispatchLocal(j) \/ DispatchRemote(j)
    PROVE  Bookkeeping'
  <1> DEFINE u == DispatchTask(j)
             c == disp'[j].pc
  <1>1. disp[j].pc = "dispatch" /\ disp[j].target \in Node
    BY DEF DispatchLocal, DispatchRemote, TargetChosen
  <1>2. u \in Task /\ u.job = j /\ u.attempt = disp[j].tries /\ u.node = disp[j].target
    BY <1>1, DispatchTaskType DEF DispatchTask
  <1>3. \A t \in Task : Issued(t) /\ t.job = j => t.attempt # u.attempt
    BY <1>1, <1>2, FreshDispatch
  <1>4. ~Issued(u)
    BY <1>2, <1>3
  <1>5. \A t \in Task : t.job \in Job /\ (Issued(t)' => Issued(t) \/ t = u)
    BY <1>2 DEF DispatchLocal, DispatchRemote, Issued, Launched, TypeOK, Task, net
  <1>6. /\ c \in {"rpc", "done"}
        /\ disp'[j].tries = disp[j].tries /\ disp'[j].target = disp[j].target
        /\ disp'[j].failed = disp[j].failed
        /\ \A k \in Job : k # j => disp'[k] = disp[k]
    BY DEF DispatchLocal, DispatchRemote, TypeOK, DispState
  <1>7. \A t \in Task : Issued(t) /\ t.job = j =>
          t.attempt \in disp[j].failed /\ t.attempt <= disp[j].tries
    BY <1>1, FreshDispatch DEF Bookkeeping, IssuedInOrder
  <1>8. disp[j].tries \notin disp[j].failed
    BY <1>1 DEF Bookkeeping, FailedInOrder
  <1>9. disp[j].tries \in Nat
    BY ConstantsAssumption DEF TypeOK, DispState, Attempt
  <1> HIDE DEF u, c
  <1>10. IssuedInOrder'
    <2> SUFFICES ASSUME NEW t \in Task, Issued(t)'
                 PROVE  /\ t.attempt <= disp'[t.job].tries
                        /\ \/ t.attempt \in disp'[t.job].failed
                           \/ /\ t.attempt = disp'[t.job].tries
                              /\ disp'[t.job].pc \in {"rpc", "done", "dead"}
                              /\ t.node = disp'[t.job].target
      BY DEF IssuedInOrder
    <2>1. CASE t = u
      BY <1>2, <1>6, <1>9, <2>1 DEF c
    <2>2. CASE t # u /\ t.job = j
      BY <1>5, <1>6, <1>7, <2>2
    <2>3. CASE t # u /\ t.job # j
      BY <1>5, <1>6, <2>3 DEF Bookkeeping, IssuedInOrder
    <2> QED BY <2>1, <2>2, <2>3
  <1>11. FailedInOrder'
    BY <1>6, <1>8 DEF Bookkeeping, FailedInOrder
  <1>12. OneTaskPerDispatch'
    <2>1. ASSUME NEW t1 \in Task, NEW t2 \in Task, Issued(t1)', Issued(t2)',
                 t1.job = t2.job, t1.attempt = t2.attempt
          PROVE  t1 = t2
      BY <1>2, <1>3, <1>5, <2>1 DEF Bookkeeping, OneTaskPerDispatch
    <2>2. ASSUME NEW t \in submits'
          PROVE  ~Launched(t)'
      <3>1. CASE DispatchRemote(j)
        BY <3>1, <1>2, <1>4, <2>2
        DEF DispatchRemote, Bookkeeping, OneTaskPerDispatch, Launched, Issued, u
      <3>2. CASE DispatchLocal(j)
        <4>1. t \in submits /\ t \in Task /\ t # u /\ ~Launched(t)
          BY <3>2, <1>4, <2>2
          DEF DispatchLocal, net, Issued, Bookkeeping, OneTaskPerDispatch, TypeOK
        <4> QED BY <3>2, <4>1 DEF DispatchLocal, Launched, TypeOK, u
      <3> QED BY <3>1, <3>2
    <2> QED BY <2>1, <2>2 DEF OneTaskPerDispatch
  <1>13. NewIsUntouched'
    BY <1>2, <1>5, <1>6 DEF Bookkeeping, NewIsUntouched, c
  <1> QED BY <1>10, <1>11, <1>12, <1>13 DEF Bookkeeping

\* Every step of a dispatcher keeps the books.
LEMMA BookkeepingDispatch ==
    ASSUME TypeOK, TargetChosen, Bookkeeping, NEW j \in Job,
           \/ \E n \in Origins : Submit(n, j)
           \/ DispatchLocal(j) \/ DispatchRemote(j) \/ DispatchAck(j)
           \/ DispatchFault(j) \/ DispatchRefused(j) \/ HandlerDropped(j)
           \/ RetryCheck(j) \/ RetryPick(j) \/ RetryExhausted(j)
    PROVE  Bookkeeping'
  <1> USE ConstantsAssumption DEF ConstantsAssumption
  <1>0. /\ disp[j] \in DispState /\ disp[j].tries \in Nat
        /\ \A t \in Task : t.attempt \in Nat
    BY DEF TypeOK, DispState, Attempt, Task
  <1>1. \A t \in Task : Issued(t) /\ t.job = j =>
          /\ disp[j].pc # "new"
          /\ t.attempt <= disp[j].tries
          /\ \/ t.attempt \in disp[j].failed
             \/ /\ t.attempt = disp[j].tries
                /\ disp[j].pc \in {"rpc", "done", "dead"}
                /\ t.node = disp[j].target
    BY DEF Bookkeeping, IssuedInOrder, NewIsUntouched
  <1>2. \A f \in disp[j].failed :
          /\ f <= disp[j].tries /\ f \in Nat
          /\ f = disp[j].tries => disp[j].pc \in {"sleep", "done", "dead"}
    BY <1>0 DEF Bookkeeping, FailedInOrder, DispState, Attempt
  <1>3. CASE \E n \in Origins : Submit(n, j)
    <2> PICK n \in Origins, p \in Picks :
          /\ disp[j].pc = "new"
          /\ disp' = [disp EXCEPT ![j] =
                       [pc     |-> IF p = NoNode THEN "sleep" ELSE "dispatch",
                        origin |-> n,
                        mode   |-> IF p = NoNode THEN "retry" ELSE "once",
                        target |-> p, tries |-> 0, failed |-> {}]]
          /\ UNCHANGED <<exec, submits>>
      BY <1>3 DEF Submit, net
    <2> DEFINE d == [pc     |-> IF p = NoNode THEN "sleep" ELSE "dispatch",
                     origin |-> n,
                     mode   |-> IF p = NoNode THEN "retry" ELSE "once",
                     target |-> p, tries |-> 0, failed |-> {}]
    <2>1. d.pc # "new" /\ d.failed = {} /\ disp' = [disp EXCEPT ![j] = d]
      OBVIOUS
    <2> HIDE DEF d
    <2> QED BY <1>1, <2>1, BookkeepingQuiet
  <1>4. CASE DispatchLocal(j) \/ DispatchRemote(j)
    BY <1>4, BookkeepingIssue
  <1>5. CASE DispatchAck(j)
    <2> DEFINE d == [disp[j] EXCEPT !.pc = "done"]
    <2>1. disp' = [disp EXCEPT ![j] = d]
          /\ disp[j].pc = "rpc" /\ UNCHANGED <<exec, submits>>
      BY <1>5 DEF DispatchAck, TypeOK
    <2>2. /\ d.tries = disp[j].tries /\ d.failed = disp[j].failed
          /\ d.pc = "done" /\ d.target = disp[j].target
      BY <1>0 DEF DispState
    <2> HIDE DEF d
    <2>3. \A t \in Task : Issued(t) /\ t.job = j =>
            /\ t.attempt <= d.tries
            /\ \/ t.attempt \in d.failed
               \/ /\ t.attempt = d.tries
                  /\ d.pc \in {"rpc", "done", "dead"}
                  /\ t.node = d.target
      BY <1>1, <2>1, <2>2
    <2>4. \A f \in d.failed :
            f <= d.tries /\ (f = d.tries => d.pc \in {"sleep", "done", "dead"})
      BY <1>2, <2>2
    <2> QED BY <2>1, <2>2, <2>3, <2>4, BookkeepingQuiet
  <1>6. CASE DispatchFault(j) \/ DispatchRefused(j)
    <2>1. disp' = [disp EXCEPT ![j] = AfterFailure(disp[j])]
          /\ disp[j].pc = "rpc" /\ UNCHANGED exec /\ submits' \subseteq submits
      BY <1>6 DEF DispatchFault, DispatchRefused, net
    <2>2. /\ AfterFailure(disp[j]).pc \in {"sleep", "done"}
          /\ AfterFailure(disp[j]).tries = disp[j].tries
          /\ AfterFailure(disp[j]).failed = disp[j].failed \cup {disp[j].tries}
      BY <1>0 DEF AfterFailure, DispState
    <2> DEFINE d == AfterFailure(disp[j])
    <2> HIDE DEF d
    <2>3. \A t \in Task : Issued(t) /\ t.job = j =>
            t.attempt <= d.tries /\ t.attempt \in d.failed
      BY <1>1, <2>1, <2>2 DEF d
    <2>4. \A f \in d.failed :
            f <= d.tries /\ (f = d.tries => d.pc \in {"sleep", "done", "dead"})
      BY <1>0, <1>2, <2>2 DEF d
    <2>5. d.pc # "new" /\ disp' = [disp EXCEPT ![j] = d]
      BY <2>1, <2>2 DEF d
    <2> QED BY <2>1, <2>3, <2>4, <2>5, BookkeepingQuiet
  <1>7. CASE HandlerDropped(j)
    <2> DEFINE d == [disp[j] EXCEPT !.pc = "dead"]
    <2>1. disp' = [disp EXCEPT ![j] = d]
          /\ disp[j].pc \in {"dispatch", "rpc"}
          /\ UNCHANGED exec /\ submits' \subseteq submits
      BY <1>7 DEF HandlerDropped, TypeOK, net
    <2>2. /\ d.tries = disp[j].tries /\ d.failed = disp[j].failed
          /\ d.pc = "dead" /\ d.target = disp[j].target
      BY <1>0 DEF DispState
    <2> HIDE DEF d
    <2>3. \A t \in Task : Issued(t) /\ t.job = j =>
            /\ t.attempt <= d.tries
            /\ \/ t.attempt \in d.failed
               \/ /\ t.attempt = d.tries
                  /\ d.pc \in {"rpc", "done", "dead"}
                  /\ t.node = d.target
      BY <1>1, <2>1, <2>2
    <2>4. \A f \in d.failed :
            f <= d.tries /\ (f = d.tries => d.pc \in {"sleep", "done", "dead"})
      BY <1>2, <2>2
    <2> QED BY <2>1, <2>2, <2>3, <2>4, BookkeepingQuiet
  <1>8. CASE RetryCheck(j)
    <2> DEFINE c == IF jobs[disp[j].origin][j].status = "queued" THEN "pick" ELSE "done"
               d == [disp[j] EXCEPT !.tries = @ + 1, !.pc = c]
    <2>1. disp' = [disp EXCEPT ![j] = d]
          /\ disp[j].pc = "sleep" /\ UNCHANGED <<exec, submits>>
      BY <1>8 DEF RetryCheck, TypeOK, net
    <2>2. d.tries = disp[j].tries + 1 /\ d.failed = disp[j].failed /\ d.pc # "new"
      BY <1>0 DEF DispState
    <2> HIDE DEF d
    <2>3. \A f \in d.failed :
            f <= d.tries /\ (f = d.tries => d.pc \in {"sleep", "done", "dead"})
      BY <1>0, <1>2, <2>2
    <2>4. \A t \in Task : Issued(t) /\ t.job = j =>
            t.attempt <= d.tries /\ t.attempt \in d.failed
      BY <1>0, <1>1, <2>1, <2>2
    <2> QED BY <2>1, <2>2, <2>3, <2>4, BookkeepingQuiet
  <1>9. CASE RetryPick(j)
    <2> PICK p \in Picks :
          disp' = [disp EXCEPT ![j].target = p,
                               ![j].pc = IF p = NoNode THEN "sleep" ELSE "dispatch"]
      BY <1>9 DEF RetryPick
    <2> DEFINE d == [disp[j] EXCEPT !.target = p,
                                    !.pc = IF p = NoNode THEN "sleep" ELSE "dispatch"]
    <2>1. disp' = [disp EXCEPT ![j] = d]
          /\ disp[j].pc = "pick" /\ UNCHANGED <<exec, submits>>
      BY <1>9 DEF RetryPick, TypeOK, net
    <2>2. /\ d.tries = disp[j].tries /\ d.failed = disp[j].failed
          /\ d.pc \in {"sleep", "dispatch"}
      BY <1>0 DEF DispState
    <2> HIDE DEF d
    <2>3. \A t \in Task : Issued(t) /\ t.job = j =>
            t.attempt <= d.tries /\ t.attempt \in d.failed
      BY <1>1, <2>1, <2>2
    <2>4. \A f \in d.failed :
            f <= d.tries /\ (f = d.tries => d.pc \in {"sleep", "done", "dead"})
      BY <1>2, <2>1, <2>2
    <2> QED BY <2>1, <2>2, <2>3, <2>4, BookkeepingQuiet
  <1>10. CASE RetryExhausted(j)
    <2> DEFINE d == [disp[j] EXCEPT !.pc = "done"]
    <2>1. disp' = [disp EXCEPT ![j] = d]
          /\ disp[j].pc = "sleep" /\ UNCHANGED <<exec, submits>>
      BY <1>10 DEF RetryExhausted, TypeOK, net
    <2>2. /\ d.tries = disp[j].tries /\ d.failed = disp[j].failed
          /\ d.pc = "done" /\ d.target = disp[j].target
      BY <1>0 DEF DispState
    <2> HIDE DEF d
    <2>3. \A t \in Task : Issued(t) /\ t.job = j =>
            /\ t.attempt <= d.tries
            /\ \/ t.attempt \in d.failed
               \/ /\ t.attempt = d.tries
                  /\ d.pc \in {"rpc", "done", "dead"}
                  /\ t.node = d.target
      BY <1>1, <2>1, <2>2
    <2>4. \A f \in d.failed :
            f <= d.tries /\ (f = d.tries => d.pc \in {"sleep", "done", "dead"})
      BY <1>2, <2>2
    <2> QED BY <2>1, <2>2, <2>3, <2>4, BookkeepingQuiet
  <1> QED BY <1>3, <1>4, <1>5, <1>6, <1>7, <1>8, <1>9, <1>10

\* Every step of a delegate, of an executor or of the outside world keeps the
\* books: a request that is served becomes a launch, and nothing is issued.
LEMMA BookkeepingTask ==
    ASSUME TypeOK, Bookkeeping,
           \/ \E t \in Task : \/ HandleSubmit(t) \/ ExecStart(t) \/ ExecFinish(t)
                              \/ ReportReturn(t) \/ ReportRefused(t) \/ ReportFault(t)
           \/ \E m \in reports : HandleReport(m)
           \/ \E n \in Node, j \in Job : Cancel(n, j)
           \/ \E n \in Node : Crash(n)
    PROVE  Bookkeeping'
  <1>1. ASSUME NEW u \in Task, HandleSubmit(u) PROVE Bookkeeping'
    <2>1. \A t \in Task : Launched(t)' <=> Launched(t) \/ t = u
      BY <1>1 DEF HandleSubmit, Launched, TypeOK
    <2>2. u \in submits /\ submits' = submits \ {u} /\ UNCHANGED disp
      BY <1>1 DEF HandleSubmit
    <2>3. \A t \in Task : Issued(t)' => Issued(t)
      BY <2>1, <2>2 DEF Issued
    <2>4. \A t \in submits' : Launched(t)' => Launched(t)
      BY <2>1, <2>2 DEF TypeOK
    <2> QED BY <2>2, <2>3, <2>4, BookkeepingFrame
  <1>2. ASSUME NEW u \in Task,
               \/ ExecStart(u) \/ ExecFinish(u)
               \/ ReportReturn(u) \/ ReportRefused(u) \/ ReportFault(u)
        PROVE  Bookkeeping'
    <2>1. /\ Launched(u) /\ \A t \in Task : t # u => exec'[t] = exec[t]
          /\ UNCHANGED <<disp, submits>>
      BY <1>2 DEF ExecStart, ExecFinish, ReportReturn, ReportRefused, ReportFault,
                  Released, Launched, TypeOK, net
    <2>2. \A t \in Task : Launched(t)' => Launched(t)
      BY <2>1 DEF Launched
    <2> QED BY <2>1, <2>2, BookkeepingFrame DEF Issued, TypeOK
  <1>3. CASE \/ \E m \in reports : HandleReport(m)
             \/ \E n \in Node, j \in Job : Cancel(n, j)
    <2>1. UNCHANGED <<disp, exec, submits>>
      BY <1>3 DEF HandleReport, Cancel, net
    <2> QED BY <2>1, BookkeepingFrame DEF Issued, Launched
  <1>4. ASSUME NEW n \in Node, Crash(n) PROVE Bookkeeping'
    <2>1. \A t \in Task : Launched(t)' <=> Launched(t)
      BY <1>4 DEF Crash, Launched, TypeOK, ExecState
    <2>2. submits' \subseteq submits
      BY <1>4 DEF Crash
    <2>3. \A t \in Task : t.job \in Job /\ (Issued(t)' => Issued(t))
      BY <2>1, <2>2 DEF Issued, Task
    <2>4. \A j \in Job : /\ disp'[j].pc = disp[j].pc \/ disp'[j].pc = "dead"
                         /\ disp'[j].tries = disp[j].tries
                         /\ disp'[j].failed = disp[j].failed
                         /\ disp'[j].target = disp[j].target
      BY <1>4 DEF Crash, TypeOK, DispState
    <2>5. IssuedInOrder'
      BY <2>3, <2>4 DEF Bookkeeping, IssuedInOrder
    <2>6. FailedInOrder'
      BY <2>4 DEF Bookkeeping, FailedInOrder
    <2>7. OneTaskPerDispatch'
      BY <2>1, <2>2, <2>3 DEF Bookkeeping, OneTaskPerDispatch, TypeOK
    <2>8. NewIsUntouched'
      BY <2>3, <2>4 DEF Bookkeeping, NewIsUntouched
    <2> QED BY <2>5, <2>6, <2>7, <2>8 DEF Bookkeeping
  <1> QED BY <1>1, <1>2, <1>3, <1>4

\* The invariant of the dispatchers is inductive.
LEMMA DispatchInvNext == DispatchInv /\ [Next]_vars => DispatchInv'
  <1> SUFFICES ASSUME TypeOK, TargetChosen, Bookkeeping, [Next]_vars
               PROVE  TypeOK' /\ TargetChosen' /\ Bookkeeping'
    BY DEF DispatchInv, Bookkeeping
  <1>1. CASE UNCHANGED vars
    <2>1. UNCHANGED <<disp, exec, submits>> BY <1>1 DEF vars, net
    <2> QED BY <2>1, TypeNext, BookkeepingFrame DEF Issued, Launched
  <1>2. CASE Progress
    BY <1>2, TypeNext, BookkeepingDispatch, BookkeepingTask DEF Progress
  <1>3. CASE Environment
    BY <1>3, TypeNext, BookkeepingDispatch, BookkeepingTask, ConstantsAssumption
    DEF Environment, ConstantsAssumption
  <1> QED BY <1>1, <1>2, <1>3 DEF Next

\* Dispatches are issued in order, one task each, and all but the last of a job
\* have failed: enqueue_job, the retry loop and enqueue_remote_job together.
THEOREM DispatchInvariant == Spec => []DispatchInv
  <1>1. Init => DispatchInv
    BY TypeInit, BookkeepingInit DEF DispatchInv, Bookkeeping
  <1>2. DispatchInv /\ [Next]_vars => DispatchInv'
    BY DispatchInvNext
  <1> QED BY <1>1, <1>2, PTL DEF Spec

\* The retry loop runs a job twice only when the answer to an earlier dispatch
\* was an error: with any number of nodes, retries, faults and crashes.
THEOREM DuplicatesExplained == Spec => []DuplicateNeedsLostAck
  <1>1. DispatchInv => DuplicateNeedsLostAck
    <2> SUFFICES ASSUME DispatchInv, NEW t1 \in Task, NEW t2 \in Task,
                        t1.job = t2.job, t1 # t2, Launched(t1), Launched(t2)
                 PROVE  /\ t1.attempt # t2.attempt
                        /\ t1.attempt < t2.attempt => t1.attempt \in disp[t1.job].failed
      BY DEF DuplicateNeedsLostAck
    <2>1. t1.attempt # t2.attempt
      BY DEF DispatchInv, OneTaskPerDispatch, Issued
    <2>2. t1.attempt \in Nat /\ t2.attempt \in Nat /\ disp[t1.job].tries \in Nat
      BY ConstantsAssumption
      DEF DispatchInv, TypeOK, Task, Attempt, DispState, ConstantsAssumption
    <2>3. t1.attempt \in disp[t1.job].failed \/ t1.attempt = disp[t1.job].tries
      BY DEF DispatchInv, IssuedInOrder, Issued
    <2>4. t2.attempt <= disp[t1.job].tries
      BY DEF DispatchInv, IssuedInOrder, Issued
    <2> QED BY <2>1, <2>2, <2>3, <2>4
  <1> QED BY <1>1, DispatchInvariant, PTL

-----------------------------------------------------------------------------
(* Verdicts: what the records say against what the children did *)

\* Some child of j ended with the status that record r of j shows.
Witnessed(j, r) ==
    /\ \E t \in Task : /\ t.job = j
                       /\ exec[t].outcome # "none"
                       /\ StatusOf(exec[t].outcome) = r.status
    /\ r.status = "completed" => r.exit_code = "zero"
    /\ r.status = "failed" => r.error

\* Report m says what its task did.
TrueReport(m) ==
    /\ exec[m.task].outcome # "none"
    /\ m.status = StatusOf(exec[m.task].outcome)
    /\ m.status = "completed" => m.exit_code = "zero"
    /\ m.status = "failed" => m.error

\* A step keeps the verdicts true if it changes no outcome, sets one only at the
\* end of a child, and writes only verdicts and reports that are true.
LEMMA VerdictStep ==
    ASSUME TypeOK, TypeOK', VerdictInv, OutcomeSetOnce',
           \A t \in Task : exec[t].outcome # "none" =>
                              exec'[t].outcome = exec[t].outcome,
           \A m \in reports' : m \in reports \/ TrueReport(m)',
           \A n \in Node, j \in Job :
              \/ jobs'[n][j] = jobs[n][j]
              \/ jobs'[n][j].status \notin {"completed", "failed"}
              \/ Witnessed(j, jobs[n][j])'
    PROVE  VerdictInv'
  <1>1. ReportsTrue'
    <2> SUFFICES ASSUME NEW m \in reports' PROVE TrueReport(m)'
      BY DEF ReportsTrue, TrueReport
    <2>1. CASE m \in reports
      <3>1. m.task \in Task BY <2>1 DEF TypeOK, Report
      <3> QED BY <2>1, <3>1 DEF VerdictInv, ReportsTrue, TrueReport
    <2> QED BY <2>1
  <1>2. TerminalTruth'
    <2> SUFFICES ASSUME NEW n \in Node, NEW j \in Job,
                        jobs'[n][j].status \in {"completed", "failed"}
                 PROVE  Witnessed(j, jobs[n][j])'
      BY DEF TerminalTruth, Witnessed
    <2>1. CASE jobs'[n][j] = jobs[n][j]
      <3>1. Witnessed(j, jobs[n][j])
        BY <2>1 DEF VerdictInv, TerminalTruth, Witnessed
      <3> QED BY <2>1, <3>1 DEF Witnessed
    <2> QED BY <2>1
  <1> QED BY <1>1, <1>2 DEF VerdictInv

\* What the handlers do to the verdict of a record.
LEMMA RecordVerdicts ==
    ASSUME NEW r \in JobRecord
    PROVE  /\ \A n \in Node : AckedRecord(r, n) = r \/ AckedRecord(r, n).status = "running"
           /\ StartedRecord(r).status = "running"
           /\ \A o \in Outcome :
                \/ FinishedRecord(r, o) = r
                \/ /\ FinishedRecord(r, o).status = StatusOf(o)
                   /\ StatusOf(o) = "completed" => FinishedRecord(r, o).exit_code = "zero"
                   /\ StatusOf(o) = "failed" => FinishedRecord(r, o).error
           /\ \A m \in Report :
                \/ ReportedRecord(r, m) = r
                \/ /\ ReportedRecord(r, m).status = m.status
                   /\ ReportedRecord(r, m).exit_code = DecodedCode(m)
                   /\ ReportedRecord(r, m).error = m.error
  BY DEF JobRecord, AckedRecord, StartedRecord, FinishedRecord, ReportedRecord,
         StatusOf, CodeOf, Outcome

\* Every step of a dispatcher keeps the verdicts true: the task that a local
\* dispatch starts is a fresh one, and an acknowledgement gives no verdict.
LEMMA VerdictDispatch ==
    ASSUME TypeOK, TypeOK', TargetChosen, Bookkeeping, VerdictInv, NEW j \in Job,
           \/ \E n \in Origins : Submit(n, j)
           \/ DispatchLocal(j) \/ DispatchRemote(j) \/ DispatchAck(j)
           \/ DispatchFault(j) \/ DispatchRefused(j) \/ HandlerDropped(j)
           \/ RetryCheck(j) \/ RetryPick(j) \/ RetryExhausted(j)
    PROVE  VerdictInv'
  <1>1. CASE \E n \in Origins : Submit(n, j)
    <2> PICK n \in Origins, p \in Picks :
          /\ jobs' = [jobs EXCEPT ![n][j] = QueuedRecord(IF p = NoNode THEN n ELSE p)]
          /\ UNCHANGED <<exec, reports>>
      BY <1>1 DEF Submit, net
    <2>1. \A k \in Node, i \in Job :
            jobs'[k][i] = jobs[k][i] \/ jobs'[k][i].status = "queued"
      BY DEF TypeOK, QueuedRecord
    <2>2. OutcomeSetOnce'
      BY DEF VerdictInv, OutcomeSetOnce
    <2> QED BY <2>1, <2>2, VerdictStep
  <1>2. CASE DispatchLocal(j)
    <2> DEFINE u == DispatchTask(j)
    <2>1. disp[j].pc = "dispatch" /\ exec' = [exec EXCEPT ![u].pc = "spawned"]
          /\ UNCHANGED <<jobs, reports>>
      BY <1>2 DEF DispatchLocal, net
    <2>2. u \in Task /\ u.job = j /\ u.attempt = disp[j].tries
      BY <2>1, DispatchTaskType DEF TargetChosen, DispatchTask
    <2> HIDE DEF u
    <2>3. exec[u].outcome = "none"
      BY <2>1, <2>2, FreshDispatch DEF Issued, Launched, VerdictInv, OutcomeSetOnce
    <2>4. \A t \in Task : /\ exec'[t].outcome = exec[t].outcome
                          /\ t # u => exec'[t] = exec[t]
      BY <2>1, <2>2 DEF TypeOK, ExecState
    <2>5. OutcomeSetOnce'
      BY <2>3, <2>4 DEF VerdictInv, OutcomeSetOnce
    <2> QED BY <2>1, <2>4, <2>5, VerdictStep
  <1>3. CASE DispatchAck(j)
    <2> DEFINE o == disp[j].origin
               r == AckedRecord(jobs[o][j], disp[j].target)
    <2>1. jobs' = [jobs EXCEPT ![o][j] = r] /\ UNCHANGED <<exec, reports>>
          /\ disp[j].target \in Node
      BY <1>3 DEF DispatchAck, TargetChosen
    <2>2. o \in Node => r = jobs[o][j] \/ r.status = "running"
      BY <2>1, RecordVerdicts DEF TypeOK
    <2> HIDE DEF o, r
    <2>3. \A k \in Node, i \in Job :
            jobs'[k][i] = jobs[k][i] \/ jobs'[k][i].status = "running"
      BY <2>1, <2>2 DEF TypeOK
    <2>4. OutcomeSetOnce'
      BY <2>1 DEF VerdictInv, OutcomeSetOnce
    <2> QED BY <2>1, <2>3, <2>4, VerdictStep
  <1>4. CASE \/ DispatchRemote(j) \/ DispatchFault(j) \/ DispatchRefused(j)
             \/ HandlerDropped(j) \/ RetryCheck(j) \/ RetryPick(j) \/ RetryExhausted(j)
    <2>1. UNCHANGED <<jobs, exec, reports>>
      BY <1>4 DEF DispatchRemote, DispatchFault, DispatchRefused, HandlerDropped,
                  RetryCheck, RetryPick, RetryExhausted, net
    <2>2. OutcomeSetOnce'
      BY <2>1 DEF VerdictInv, OutcomeSetOnce
    <2> QED BY <2>1, <2>2, VerdictStep
  <1> QED BY <1>1, <1>2, <1>3, <1>4

\* Every step of a delegate, of an executor or of the outside world keeps the
\* verdicts true: the executor gives the verdict of its own child, and a report
\* carries it to the origin, whose handler undoes the encoding of the exit code.
LEMMA VerdictTask ==
    ASSUME TypeOK, TypeOK', Bookkeeping, VerdictInv,
           \/ \E t \in Task : \/ HandleSubmit(t) \/ ExecStart(t) \/ ExecFinish(t)
                              \/ ReportReturn(t) \/ ReportRefused(t) \/ ReportFault(t)
           \/ \E m \in reports : HandleReport(m)
           \/ \E n \in Node, j \in Job : Cancel(n, j)
           \/ \E n \in Node : Crash(n)
    PROVE  VerdictInv'
  <1>1. ASSUME NEW u \in Task, HandleSubmit(u) PROVE VerdictInv'
    <2>1. exec[u].outcome = "none"
      BY <1>1 DEF HandleSubmit, Bookkeeping, OneTaskPerDispatch, Launched,
                  VerdictInv, OutcomeSetOnce
    <2>2. \A t \in Task : /\ exec'[t].outcome = exec[t].outcome
                          /\ t # u => exec'[t] = exec[t]
      BY <1>1 DEF HandleSubmit, TypeOK, ExecState
    <2>3. OutcomeSetOnce'
      BY <2>1, <2>2 DEF VerdictInv, OutcomeSetOnce
    <2>4. \A k \in Node, i \in Job :
            jobs'[k][i] = jobs[k][i] \/ jobs'[k][i].status = "queued"
      BY <1>1 DEF HandleSubmit, TypeOK, QueuedRecord
    <2>5. UNCHANGED reports
      BY <1>1 DEF HandleSubmit
    <2> QED BY <2>2, <2>3, <2>4, <2>5, VerdictStep
  <1>2. ASSUME NEW u \in Task, ExecStart(u) PROVE VerdictInv'
    <2>1. StartedRecord(jobs[u.node][u.job]).status = "running"
      BY RecordVerdicts DEF Task, TypeOK
    <2>2. \A k \in Node, i \in Job :
            jobs'[k][i] = jobs[k][i] \/ jobs'[k][i].status = "running"
      BY <1>2, <2>1 DEF ExecStart, TypeOK
    <2>3. \A t \in Task : /\ exec'[t].outcome = exec[t].outcome
                          /\ exec'[t].pc = IF t = u THEN "started" ELSE exec[t].pc
      BY <1>2 DEF ExecStart, TypeOK, ExecState
    <2>4. OutcomeSetOnce'
      BY <1>2, <2>3 DEF ExecStart, VerdictInv, OutcomeSetOnce
    <2>5. UNCHANGED reports
      BY <1>2 DEF ExecStart, net
    <2> QED BY <2>2, <2>3, <2>4, <2>5, VerdictStep
  <1>3. ASSUME NEW u \in Task, ExecFinish(u) PROVE VerdictInv'
    <2> PICK o \in Outcome, c \in {"done", "reporting"} :
          /\ jobs' = [jobs EXCEPT ![u.node][u.job] = FinishedRecord(jobs[u.node][u.job], o)]
          /\ exec' = [exec EXCEPT ![u] = [pc |-> c, outcome |-> o]]
          /\ reports' = reports \/ reports' = reports \cup {ReportOf(u, o)}
      BY <1>3 DEF ExecFinish
    <2>1. exec[u].outcome = "none" /\ o # "none"
      BY <1>3 DEF ExecFinish, VerdictInv, OutcomeSetOnce, Outcome
    <2>2. /\ exec'[u].outcome = o /\ exec'[u].pc = c
          /\ \A t \in Task : t # u => exec'[t] = exec[t]
      BY DEF TypeOK
    <2>3. OutcomeSetOnce'
      BY <2>2 DEF VerdictInv, OutcomeSetOnce
    <2>4. \A m \in reports' : m \in reports \/ TrueReport(m)'
      <3>1. TrueReport(ReportOf(u, o))'
        BY <2>1, <2>2 DEF TrueReport, ReportOf, StatusOf, Outcome
      <3> QED BY <3>1
    <2>5. \A k \in Node, i \in Job :
            jobs'[k][i] = jobs[k][i] \/ Witnessed(i, jobs[k][i])'
      <3> DEFINE r == FinishedRecord(jobs[u.node][u.job], o)
      <3>1. u.node \in Node /\ u.job \in Job /\ jobs[u.node][u.job] \in JobRecord
        BY DEF Task, TypeOK
      <3>2. \/ r = jobs[u.node][u.job]
            \/ /\ r.status = StatusOf(o)
               /\ StatusOf(o) = "completed" => r.exit_code = "zero"
               /\ StatusOf(o) = "failed" => r.error
        BY <3>1, RecordVerdicts
      <3>3. jobs' = [jobs EXCEPT ![u.node][u.job] = r]
        OBVIOUS
      <3> HIDE DEF r
      <3>4. \A k \in Node, i \in Job :
              jobs'[k][i] = IF k = u.node /\ i = u.job THEN r ELSE jobs[k][i]
        BY <3>1, <3>3 DEF TypeOK
      <3>5. r = jobs[u.node][u.job] \/ Witnessed(u.job, jobs[u.node][u.job])'
        BY <2>1, <2>2, <3>1, <3>2, <3>4 DEF Witnessed
      <3> QED BY <3>4, <3>5
    <2> QED BY <2>1, <2>2, <2>3, <2>4, <2>5, VerdictStep
  <1>4. ASSUME NEW m \in reports, HandleReport(m) PROVE VerdictInv'
    <2> DEFINE o == Origin(m.task)
               j == m.task.job
               r == ReportedRecord(jobs[o][j], m)
    <2>1. m \in Report /\ m.task \in Task /\ j \in Job
      BY <1>4 DEF TypeOK, Report, Task
    <2>2. /\ jobs' = [jobs EXCEPT ![o][j] = r]
          /\ UNCHANGED exec /\ reports' \subseteq reports
      BY <1>4 DEF HandleReport
    <2>3. OutcomeSetOnce'
      BY <2>2 DEF VerdictInv, OutcomeSetOnce
    <2>4. TrueReport(m)
      BY <1>4 DEF VerdictInv, ReportsTrue, TrueReport
    <2>5. o \in Node =>
            \/ r = jobs[o][j]
            \/ r.status = m.status /\ r.exit_code = DecodedCode(m) /\ r.error = m.error
      BY <2>1, RecordVerdicts DEF TypeOK
    <2>6. m.status = "completed" => DecodedCode(m) = "zero"
      BY <2>4 DEF TrueReport, DecodedCode
    <2> HIDE DEF o, r
    <2>7. \A k \in Node, i \in Job :
            jobs'[k][i] = IF k = o /\ i = j THEN r ELSE jobs[k][i]
      BY <2>1, <2>2 DEF TypeOK
    <2>8. \A k \in Node : k = o => r = jobs[k][j] \/ Witnessed(j, jobs[k][j])'
      <3>1. exec'[m.task] = exec[m.task] BY <2>2
      <3> QED BY <2>1, <2>4, <2>5, <2>6, <2>7, <3>1 DEF Witnessed, TrueReport
    <2>9. \A k \in Node, i \in Job :
            jobs'[k][i] = jobs[k][i] \/ Witnessed(i, jobs[k][i])'
      BY <2>7, <2>8
    <2> QED BY <2>2, <2>3, <2>9, VerdictStep
  <1>5. ASSUME NEW u \in Task, ReportReturn(u) \/ ReportRefused(u) \/ ReportFault(u)
        PROVE  VerdictInv'
    <2>1. /\ Released(u) /\ reports' \subseteq reports
      BY <1>5 DEF ReportReturn, ReportRefused, ReportFault
    <2>2. \A t \in Task : /\ exec'[t].outcome = exec[t].outcome
                          /\ exec'[t].pc = IF t = u THEN "done" ELSE exec[t].pc
      BY <2>1 DEF Released, TypeOK, ExecState
    <2>3. OutcomeSetOnce'
      BY <2>2 DEF VerdictInv, OutcomeSetOnce
    <2>4. UNCHANGED jobs
      BY <2>1 DEF Released
    <2> QED BY <2>1, <2>2, <2>3, <2>4, VerdictStep
  <1>6. ASSUME NEW n \in Node, NEW j \in Job, Cancel(n, j) PROVE VerdictInv'
    <2>1. \A k \in Node, i \in Job :
            jobs'[k][i] = jobs[k][i] \/ jobs'[k][i].status = "cancelled"
      BY <1>6 DEF Cancel, TypeOK, JobRecord
    <2>2. UNCHANGED <<exec, reports>>
      BY <1>6 DEF Cancel, net
    <2>3. OutcomeSetOnce'
      BY <2>2 DEF VerdictInv, OutcomeSetOnce
    <2> QED BY <2>1, <2>2, <2>3, VerdictStep
  <1>7. ASSUME NEW n \in Node, Crash(n) PROVE VerdictInv'
    <2>1. \A k \in Node, i \in Job :
            jobs'[k][i] = jobs[k][i] \/ jobs'[k][i].status = "none"
      BY <1>7 DEF Crash, TypeOK, NoRecord
    <2>2. \A t \in Task : /\ exec'[t].outcome = exec[t].outcome
                          /\ exec'[t].pc = exec[t].pc \/ exec'[t].pc = "dead"
      BY <1>7 DEF Crash, TypeOK, ExecState
    <2>3. OutcomeSetOnce'
      BY <2>2 DEF VerdictInv, OutcomeSetOnce
    <2>4. reports' \subseteq reports
      BY <1>7 DEF Crash
    <2> QED BY <2>1, <2>2, <2>3, <2>4, VerdictStep
  <1> QED BY <1>1, <1>2, <1>3, <1>4, <1>5, <1>6, <1>7

\* Together with the invariant of the dispatchers, VerdictInv is inductive.
LEMMA VerdictInvNext == DispatchInv /\ VerdictInv /\ [Next]_vars => VerdictInv'
  <1> SUFFICES ASSUME DispatchInv, VerdictInv, [Next]_vars PROVE VerdictInv'
    OBVIOUS
  <1>1. TypeOK /\ TargetChosen /\ Bookkeeping /\ TypeOK'
    BY DispatchInvNext DEF DispatchInv, Bookkeeping
  <1>2. CASE UNCHANGED vars
    <2>1. UNCHANGED <<jobs, exec, reports>> BY <1>2 DEF vars, net
    <2>2. OutcomeSetOnce' BY <2>1 DEF VerdictInv, OutcomeSetOnce
    <2> QED BY <1>1, <2>1, <2>2, VerdictStep
  <1>3. CASE Progress
    BY <1>1, <1>3, VerdictDispatch, VerdictTask DEF Progress
  <1>4. CASE Environment
    BY <1>1, <1>4, VerdictDispatch, VerdictTask, ConstantsAssumption
    DEF Environment, ConstantsAssumption
  <1> QED BY <1>2, <1>3, <1>4 DEF Next

\* No verdict is invented: on every node, whatever is lost, late, repeated,
\* cancelled or crashed, a record that says completed or failed follows a child
\* of that job that ended so.
THEOREM VerdictsTrue == Spec => []TerminalTruth
  <1>1. Init => DispatchInv /\ VerdictInv
    <2>1. Init => VerdictInv
      BY DEF Init, VerdictInv, OutcomeSetOnce, ReportsTrue, TerminalTruth, NoRecord
    <2> QED BY <2>1, TypeInit, BookkeepingInit DEF DispatchInv, Bookkeeping
  <1>2. DispatchInv /\ VerdictInv /\ [Next]_vars => (DispatchInv /\ VerdictInv)'
    BY DispatchInvNext, VerdictInvNext
  <1>3. VerdictInv => TerminalTruth
    BY DEF VerdictInv
  <1> QED BY <1>1, <1>2, <1>3, PTL DEF Spec
=============================================================================
