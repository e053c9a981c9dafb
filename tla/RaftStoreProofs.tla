-------------------------- MODULE RaftStoreProofs --------------------------
(***************************************************************************)
(* Proofs about RaftStore, for every set of commands and candidates, every *)
(* length of the log and every number of crashes.                          *)
(*                                                                         *)
(* Votes.  VotesGoUp does not follow from the last answer alone: that says *)
(* nothing about the vote a crash leaves.  VoteInv adds where votes are.   *)
(*                                                                         *)
(* The loop of apply.  ApplyRange is a recursive function over the log;    *)
(* what it computes is proved by least counterexample: it exists, unrolls, *)
(* reads only its range and can be cut in two.                             *)
(*                                                                         *)
(* Log, state machine and disk.  StoreInv relates the two databases, in    *)
(* memory and on disk; the remaining properties follow from it.            *)
(***************************************************************************)
EXTENDS RaftStore, WellFoundedInduction, TLAPS

-----------------------------------------------------------------------------
(* Votes *)

\* Votes of any term and node.
AnyVote == [term : Nat, node : Nat, committed : BOOLEAN]

\* The order of votes: v is w or smaller.
AtMost(v, w) == v = w \/ Less(v, w)

\* The two states of the log store are records that have a vote.
VoteTypes ==
    /\ DOMAIN mem = {"entries", "purged", "vote", "committed"}
    /\ DOMAIN disk = {"entries", "purged", "vote", "committed"}
    /\ mem.vote \in AnyVote /\ disk.vote \in AnyVote /\ granted \in AnyVote
    /\ DOMAIN op = {"kind", "left", "upto"}

\* Only while a vote is being saved may the disk have another one, and a smaller.
VoteSaved ==
    \/ mem.vote = disk.vote
    \/ op.kind = "save_vote" /\ Less(disk.vote, mem.vote)

\* The vote on disk is not smaller than the one answered last.
AnswerSaved == AtMost(granted, disk.vote)

VoteInv == VoteTypes /\ VoteSaved /\ AnswerSaved

\* Votes are totally ordered.
LEMMA VoteOrder ==
  ASSUME NEW u \in AnyVote, NEW v \in AnyVote, NEW w \in AnyVote
  PROVE  /\ AtMost(u, v) /\ AtMost(v, w) => AtMost(u, w)
         /\ AtMost(u, v) => ~Less(v, u)
<1>1. Less(u, v) /\ Less(v, w) => Less(u, w)
  BY DEF AnyVote, Less
<1>2. Less(u, v) => ~Less(v, u)
  BY DEF AnyVote, Less
<1>3. ~Less(u, u)
  BY DEF AnyVote, Less
<1> QED BY <1>1, <1>2, <1>3 DEF AtMost

\* A fresh store has voted for nobody.
LEMMA VoteInit == Init => VoteInv
  BY DEF Init, VoteInv, VoteTypes, VoteSaved, AnswerSaved, AtMost, NoVote, AnyVote, Idle

\* What was answered is not greater than the vote in memory either.
LEMMA AnswerInMemory ==
  ASSUME VoteInv
  PROVE  AtMost(granted, mem.vote)
<1>1. AtMost(disk.vote, mem.vote)
  BY DEF VoteInv, VoteSaved, AtMost
<1> QED BY <1>1, VoteOrder DEF VoteInv, VoteTypes, AnswerSaved

\* Steps that may change the vote, or where it is: saving it, answering, the
\* background flush, a crash.
LEMMA VoteSteps ==
  ASSUME VoteInv,
         \/ \E v \in Ballot : SaveVote(v)
         \/ SaveVoteDone \/ AnswerAgain \/ Persist \/ Restart
  PROVE  VoteInv'
<1> USE DEF VoteInv, VoteTypes, VoteSaved, AnswerSaved
<1>1. ASSUME NEW v \in Ballot, SaveVote(v)
      PROVE  VoteInv'
  <2>1. /\ mem' = [mem EXCEPT !.vote = v]
        /\ disk' = disk /\ granted' = granted
        /\ op.kind = "idle"
        /\ op' = [kind |-> "save_vote", left |-> {}, upto |-> 0]
        /\ Less(mem.vote, v)
    BY <1>1 DEF SaveVote, Begin, Idle
  <2>2. v \in AnyVote
    <3>1. 1..MaxTerm \subseteq Nat /\ Candidate \subseteq Nat
      BY CandidateAssumption, BoundsAssumption
    <3> QED BY <3>1 DEF Ballot, AnyVote
  <2>3. mem.vote = disk.vote /\ mem'.vote = v
    BY <2>1
  <2> QED BY <2>1, <2>2, <2>3
<1>2. CASE SaveVoteDone
  <2>1. mem' = mem /\ disk' = mem /\ granted' = mem.vote /\ op' = Idle
    BY <1>2 DEF SaveVoteDone
  <2> QED BY <2>1 DEF Idle, AtMost
<1>3. CASE AnswerAgain
  <2>1. /\ mem' = mem /\ disk' = disk /\ op' = op
        /\ granted' = mem.vote
        /\ mem.vote = disk.vote
    BY <1>3 DEF AnswerAgain, Idle
  <2> QED BY <2>1 DEF AtMost
<1>4. CASE Persist
  <2>1. /\ mem' = mem /\ disk' \in {mem, disk} /\ op' = op /\ granted' = granted
    BY <1>4 DEF Persist, logVars, smVars
  <2> QED BY <2>1, AnswerInMemory
<1>5. CASE Restart
  <2>1. mem' = disk /\ disk' = disk /\ granted' = granted
    BY <1>5 DEF Restart
  <2>2. DOMAIN op' = {"kind", "left", "upto"}
    BY <1>5 DEF Restart, Idle
  <2> QED BY <2>1, <2>2
<1> QED BY <1>1, <1>2, <1>3, <1>4, <1>5

\* Steps of the log and of the state machine leave the vote alone: they begin
\* with no vote under way and at most copy it from memory to disk.
LEMMA OtherSteps ==
  ASSUME VoteInv,
         \/ \E batch \in Batch : AppendEntries(batch)
         \/ AppendEntriesDone
         \/ \E n \in Index : SaveCommitted(n) \/ Truncate(n) \/ Purge(n) \/ Apply(n)
         \/ SaveCommittedDone \/ RemoveNext \/ TruncateDone \/ PurgeDone
         \/ \E cmds \in Batch \cup {<<>>} : InstallSnapshot(cmds)
         \/ StateDone \/ BuildSnapshot
         \/ UNCHANGED vars
  PROVE  VoteInv'
<1> USE DEF VoteInv, VoteTypes, VoteSaved, AnswerSaved
\* What all of them have in common.
<1> DEFINE Keeps == /\ DOMAIN mem' = DOMAIN mem /\ mem'.vote = mem.vote
                    /\ disk' = disk \/ disk' = mem \/ disk' = mem'
                    /\ granted' = granted
                    /\ DOMAIN op' = {"kind", "left", "upto"}
                    /\ op.kind = "save_vote" => op'.kind = "save_vote"
<1>1. SUFFICES Keeps
  BY AnswerInMemory
<1>2. ASSUME NEW batch \in Batch, AppendEntries(batch)  PROVE Keeps
  BY <1>2 DEF AppendEntries, Begin, Idle
<1>3. CASE AppendEntriesDone
  BY <1>3 DEF AppendEntriesDone, Idle
<1>4. ASSUME NEW n \in Index, SaveCommitted(n)  PROVE Keeps
  BY <1>4 DEF SaveCommitted, Begin, Idle
<1>5. ASSUME NEW n \in Index, Truncate(n)  PROVE Keeps
  BY <1>5 DEF Truncate, Begin, Idle
<1>6. ASSUME NEW n \in Index, Purge(n)  PROVE Keeps
  BY <1>6 DEF Purge, Begin, Idle
<1>7. ASSUME NEW n \in Index, Apply(n)  PROVE Keeps
  BY <1>7 DEF Apply, logVars
<1>8. CASE SaveCommittedDone
  BY <1>8 DEF SaveCommittedDone, Idle
<1>9. CASE RemoveNext
  BY <1>9 DEF RemoveNext
<1>10. CASE TruncateDone
  BY <1>10 DEF TruncateDone, Idle
<1>11. CASE PurgeDone
  BY <1>11 DEF PurgeDone, Idle
<1>12. ASSUME NEW cmds \in Batch \cup {<<>>}, InstallSnapshot(cmds)  PROVE Keeps
  BY <1>12 DEF InstallSnapshot, logVars
<1>13. CASE StateDone
  BY <1>13 DEF StateDone, logVars
<1>14. CASE BuildSnapshot
  BY <1>14 DEF BuildSnapshot, logVars
<1>15. CASE UNCHANGED vars
  BY <1>15 DEF vars
<1> QED BY <1>2, <1>3, <1>4, <1>5, <1>6, <1>7, <1>8, <1>9, <1>10, <1>11, <1>12,
           <1>13, <1>14, <1>15

\* save_vote: wherever crashes, flushes and other operations fall, the vote that a
\* restart finds is not smaller than any this node ever answered.
THEOREM VotesSaved == Spec => []VoteInv
<1>1. VoteInv /\ [Next]_vars => VoteInv'
  BY VoteSteps, OtherSteps DEF Next
<1> QED BY VoteInit, <1>1, PTL DEF Spec

\* save_vote and read_vote: a node that answered a vote never answers a smaller one,
\* of the same term or not, whatever the number of terms, nodes, entries and crashes.
THEOREM VotesNeverBack == Spec => VotesGoUp
<1>1. ASSUME VoteInv, [Next]_vars PROVE ~Less(granted', granted)
  <2>1. granted \in AnyVote /\ mem.vote \in AnyVote
    BY <1>1 DEF VoteInv, VoteTypes
  <2>2. granted' \in {granted, mem.vote}
    BY <1>1 DEF Next, vars, smVars, logVars, SaveVote, SaveVoteDone, AnswerAgain, AppendEntries,
       AppendEntriesDone, SaveCommitted, SaveCommittedDone, Truncate, Purge, RemoveNext,
       TruncateDone, PurgeDone, Apply, InstallSnapshot, StateDone, BuildSnapshot, Persist, Restart
  <2>3. AtMost(granted, granted')
    BY <1>1, <2>2, AnswerInMemory DEF AtMost
  <2> QED BY <2>1, <2>2, <2>3, VoteOrder
<1>2. VoteInv /\ [Next]_vars => [~Less(granted', granted)]_vars
  BY <1>1
<1> QED BY VotesSaved, <1>2, PTL DEF Spec, VotesGoUp

-----------------------------------------------------------------------------
(* The loop of apply *)

\* Every set of numbers that has an element has a least one.
LEMMA LeastNumber ==
  ASSUME NEW T \in SUBSET Nat, T # {}
  PROVE  \E x \in T : \A y \in T : x <= y
<1> DEFINE R == {ss \in Nat \X Nat : ss[1] < ss[2]}
<1>1. IsWellFoundedOn(R, Nat)
  BY NatLessThanWellFounded DEF OpToRel
<1> HIDE DEF R
<1>2. PICK x \in T : \A y \in T : ~ (<<y, x>> \in R)
  BY <1>1, WFMin
<1>3. \A y \in T : ~(y < x)
  BY <1>2 DEF R
<1> QED BY <1>3

\* g holds the states that the loop of apply goes through up to index n.
IsLoop(g, st, log, first, n) ==
    \A i \in 0..n : g[i] = IF i < first THEN st ELSE ApplyEntry(g[i - 1], i, log[i])

\* Two such functions agree as far as both go.
LEMMA LoopUnique ==
  ASSUME NEW st, NEW log, NEW first \in Nat \ {0}, NEW m \in Nat, NEW n \in Nat,
         NEW g, NEW h, IsLoop(g, st, log, first, m), IsLoop(h, st, log, first, n)
  PROVE  \A i \in Nat : i <= m /\ i <= n => g[i] = h[i]
<1> DEFINE T == {i \in Nat : i <= m /\ i <= n /\ g[i] # h[i]}
<1>1. SUFFICES ASSUME T # {} PROVE FALSE
  OBVIOUS
<1>2. PICK x \in T : \A y \in T : x <= y
  BY <1>1, LeastNumber
<1>3. x \in Nat /\ x \in 0..m /\ x \in 0..n /\ g[x] # h[x]
  OBVIOUS
<1>4. x >= first => x - 1 \in Nat /\ g[x - 1] = h[x - 1]
  BY <1>2, <1>3
<1> HIDE DEF T
<1>5. g[x] = IF x < first THEN st ELSE ApplyEntry(g[x - 1], x, log[x])
  BY <1>3 DEF IsLoop
<1>6. h[x] = IF x < first THEN st ELSE ApplyEntry(h[x - 1], x, log[x])
  BY <1>3 DEF IsLoop
<1>7. CASE x < first
  BY <1>3, <1>5, <1>6, <1>7
<1>8. CASE x >= first
  BY <1>3, <1>4, <1>5, <1>6, <1>8
<1> QED BY <1>3, <1>7, <1>8

\* The loop can be taken to any length.
LEMMA LoopExists ==
  ASSUME NEW st, NEW log, NEW first \in Nat \ {0}
  PROVE  \A n \in Nat : \E g : IsLoop(g, st, log, first, n)
<1> DEFINE T == {n \in Nat : ~ \E g : IsLoop(g, st, log, first, n)}
<1>1. SUFFICES ASSUME T # {} PROVE FALSE
  OBVIOUS
<1>2. PICK x \in T : \A y \in T : x <= y
  BY <1>1, LeastNumber
<1>3. x \in Nat /\ ~ \E g : IsLoop(g, st, log, first, x)
  OBVIOUS
<1>4. x # 0
  <2>1. SUFFICES ASSUME x = 0 PROVE FALSE
    OBVIOUS
  <2> DEFINE z == [i \in {0} |-> st]
  <2>2. IsLoop(z, st, log, first, x)
    BY <2>1 DEF IsLoop
  <2> QED BY <2>2, <1>3
<1>5. x - 1 \in Nat /\ x - 1 \notin T
  BY <1>2, <1>3, <1>4
<1>6. PICK g : IsLoop(g, st, log, first, x - 1)
  BY <1>5
<1> HIDE DEF T
<1> DEFINE last == IF x < first THEN st ELSE ApplyEntry(g[x - 1], x, log[x])
           h == [i \in 0..x |-> IF i < x THEN g[i] ELSE last]
<1>7. \A i \in 0..x : i < x => h[i] = g[i]
  OBVIOUS
<1>8. h[x] = last
  BY <1>3
<1> HIDE DEF h
<1>9. ASSUME NEW i \in 0..x
      PROVE  h[i] = IF i < first THEN st ELSE ApplyEntry(h[i - 1], i, log[i])
  <2>1. CASE i = x
    <3>1. h[x - 1] = g[x - 1]
      BY <1>3, <1>4, <1>5, <1>7
    <3> QED BY <2>1, <3>1, <1>8
  <2>2. CASE i # x
    <3>1. i \in 0..(x - 1) /\ i < x
      BY <2>2, <1>3
    <3>2. h[i] = g[i]
      BY <3>1, <1>7
    <3>3. g[i] = IF i < first THEN st ELSE ApplyEntry(g[i - 1], i, log[i])
      BY <3>1, <1>6 DEF IsLoop
    <3>4. i >= first => h[i - 1] = g[i - 1]
      BY <1>7, <3>1, <1>3
    <3>5. i \in Nat
      BY <1>3
    <3> QED BY <3>2, <3>3, <3>4, <3>5
  <2> QED BY <2>1, <2>2
<1>10. IsLoop(h, st, log, first, x)
  BY <1>9 DEF IsLoop
<1> QED BY <1>10, <1>3

\* The recursive function of ApplyRange does exist.
LEMMA LoopFunction ==
  ASSUME NEW st, NEW log, NEW first \in Nat \ {0}
  PROVE  \E g : g = [i \in Nat |-> IF i < first THEN st ELSE ApplyEntry(g[i - 1], i, log[i])]
<1> DEFINE G(n) == CHOOSE g : IsLoop(g, st, log, first, n)
<1>1. \A n \in Nat : IsLoop(G(n), st, log, first, n)
  BY LoopExists
<1> HIDE DEF G
<1> DEFINE h == [n \in Nat |-> G(n)[n]]
<1>2. \A n \in Nat : h[n] = G(n)[n]
  OBVIOUS
<1> HIDE DEF h
<1>3. ASSUME NEW i \in Nat
      PROVE  h[i] = IF i < first THEN st ELSE ApplyEntry(h[i - 1], i, log[i])
  <2>1. G(i)[i] = IF i < first THEN st ELSE ApplyEntry(G(i)[i - 1], i, log[i])
    BY <1>1 DEF IsLoop
  <2>2. ASSUME i >= first PROVE G(i)[i - 1] = h[i - 1]
    <3>1. i - 1 \in Nat /\ i - 1 <= i
      BY <2>2
    <3>2. IsLoop(G(i), st, log, first, i) /\ IsLoop(G(i - 1), st, log, first, i - 1)
      BY <1>1, <3>1
    <3>3. G(i)[i - 1] = G(i - 1)[i - 1]
      BY <3>1, <3>2, LoopUnique
    <3> QED BY <3>1, <3>3, <1>2
  <2> QED BY <2>1, <2>2, <1>2
<1>4. h = [i \in Nat |-> IF i < first THEN st ELSE ApplyEntry(h[i - 1], i, log[i])]
  BY <1>3 DEF h
<1> QED BY <1>4

\* The loop of apply, unrolled: nothing to do, or one more entry.
LEMMA RangeUnrolled ==
  ASSUME NEW st, NEW log, NEW first \in Nat \ {0}, NEW last \in Nat
  PROVE  /\ last < first => ApplyRange(st, log, first, last) = st
         /\ last >= first => ApplyRange(st, log, first, last)
                               = ApplyEntry(ApplyRange(st, log, first, last - 1), last, log[last])
<1> DEFINE after == CHOOSE g : g = [i \in Nat |-> IF i < first THEN st
                                                   ELSE ApplyEntry(g[i - 1], i, log[i])]
<1>1. after = [i \in Nat |-> IF i < first THEN st ELSE ApplyEntry(after[i - 1], i, log[i])]
  BY LoopFunction
<1>2. \A n : ApplyRange(st, log, first, n) = after[n]
  BY DEF ApplyRange
<1> HIDE DEF after
<1>3. after[last] = IF last < first THEN st ELSE ApplyEntry(after[last - 1], last, log[last])
  BY <1>1
<1> QED BY <1>2, <1>3

\* Nothing to do: the state stays.
LEMMA RangeEmpty ==
  ASSUME NEW st, NEW log, NEW first \in Nat \ {0}, NEW last \in Nat, last < first
  PROVE  ApplyRange(st, log, first, last) = st
BY RangeUnrolled

\* The loop reads only the entries of its range.
LEMMA RangeReads ==
  ASSUME NEW st, NEW log, NEW other, NEW first \in Nat \ {0}, NEW last \in Nat,
         \A i \in first..last : log[i] = other[i]
  PROVE  ApplyRange(st, log, first, last) = ApplyRange(st, other, first, last)
<1> DEFINE T == {n \in Nat : n <= last /\ ApplyRange(st, log, first, n)
                                            # ApplyRange(st, other, first, n)}
<1>1. SUFFICES ASSUME T # {} PROVE FALSE
  OBVIOUS
<1>2. PICK x \in T : \A y \in T : x <= y
  BY <1>1, LeastNumber
<1>3. x \in Nat /\ x <= last
      /\ ApplyRange(st, log, first, x) # ApplyRange(st, other, first, x)
  OBVIOUS
<1>4. x >= first
  <2>1. SUFFICES ASSUME x < first PROVE FALSE
    BY <1>3
  <2>2. ApplyRange(st, log, first, x) = st
    BY <1>3, <2>1, RangeEmpty
  <2>3. ApplyRange(st, other, first, x) = st
    BY <1>3, <2>1, RangeEmpty
  <2> QED BY <1>3, <2>2, <2>3
<1>5. x - 1 \in Nat /\ x - 1 \notin T /\ x - 1 <= last
  BY <1>2, <1>3, <1>4
<1>6. ApplyRange(st, log, first, x - 1) = ApplyRange(st, other, first, x - 1)
  BY <1>5
<1> HIDE DEF T
<1>7. log[x] = other[x]
  BY <1>3, <1>4
<1>8. ApplyRange(st, log, first, x) = ApplyEntry(ApplyRange(st, log, first, x - 1), x, log[x])
  BY <1>3, <1>4, RangeUnrolled
<1>9. ApplyRange(st, other, first, x) = ApplyEntry(ApplyRange(st, other, first, x - 1), x, other[x])
  BY <1>3, <1>4, RangeUnrolled
<1> QED BY <1>3, <1>6, <1>7, <1>8, <1>9

\* The loop in two parts is the whole loop: what a restart replays goes on from
\* where the state on disk ends.
LEMMA RangeSplit ==
  ASSUME NEW st, NEW log, NEW first \in Nat \ {0}, NEW mid \in Nat, NEW last \in Nat,
         first <= mid + 1, mid <= last
  PROVE  ApplyRange(ApplyRange(st, log, first, mid), log, mid + 1, last)
           = ApplyRange(st, log, first, last)
<1> DEFINE half == ApplyRange(st, log, first, mid)
           T == {n \in Nat : mid <= n /\ ApplyRange(half, log, mid + 1, n)
                                           # ApplyRange(st, log, first, n)}
<1>1. SUFFICES ASSUME T # {} PROVE FALSE
  OBVIOUS
<1>2. PICK x \in T : \A y \in T : x <= y
  BY <1>1, LeastNumber
<1>3. x \in Nat /\ x >= mid
      /\ ApplyRange(half, log, mid + 1, x) # ApplyRange(st, log, first, x)
  OBVIOUS
<1>4. mid + 1 \in Nat \ {0}
  OBVIOUS
<1>5. x # mid
  <2>1. mid < mid + 1
    OBVIOUS
  <2>2. ApplyRange(half, log, mid + 1, mid) = half
    BY <1>4, <2>1, RangeEmpty
  <2> QED BY <1>3, <2>2
<1>6. x >= mid + 1 /\ x >= first
  BY <1>3, <1>5
<1>7. x - 1 \in Nat /\ x - 1 >= mid /\ x - 1 \notin T
  BY <1>2, <1>3, <1>6
<1>8. ApplyRange(half, log, mid + 1, x - 1) = ApplyRange(st, log, first, x - 1)
  BY <1>7
<1> HIDE DEF T, half
<1>9. ApplyRange(half, log, mid + 1, x)
        = ApplyEntry(ApplyRange(half, log, mid + 1, x - 1), x, log[x])
  BY <1>3, <1>4, <1>6, RangeUnrolled
<1>10. ApplyRange(st, log, first, x) = ApplyEntry(ApplyRange(st, log, first, x - 1), x, log[x])
  BY <1>3, <1>6, RangeUnrolled
<1> QED BY <1>3, <1>8, <1>9, <1>10

\* apply_command keeps the state well formed, and a job that has a record keeps
\* its node: RegisterJob never overwrites one.
LEMMA CommandTyped ==
  ASSUME NEW st \in RaftState, NEW c \in Command
  PROVE  /\ apply_command(st, c) \in RaftState
         /\ apply_command(st, c).last_applied = st.last_applied
         /\ \A j \in Job : Registered(st, j) =>
              apply_command(st, c).job_registry[j].node = st.job_registry[j].node
<1> DEFINE Kept(after) == /\ after \in RaftState
                          /\ after.last_applied = st.last_applied
                          /\ \A j \in Job : Registered(st, j) =>
                               after.job_registry[j].node = st.job_registry[j].node
<1>1. SUFFICES Kept(apply_command(st, c))
  OBVIOUS
<1>2. Kept(st)
  OBVIOUS
<1>3. ASSUME c.op = "RegisterJob", Succeeds(st, c)
      PROVE  Kept([st EXCEPT !.job_registry[c.job] = [node |-> c.node, status |-> "queued"]])
  <2>1. c.job \in Job /\ c.node \in Node
    BY <1>3 DEF Command
  <2>2. st.job_registry[c.job].node = NoNode
    BY <1>3 DEF Succeeds, Registered
  <2> QED BY <2>1, <2>2 DEF RaftState, Registered
<1>4. ASSUME c.op = "UpdateJobStatus", Succeeds(st, c)
      PROVE  Kept([st EXCEPT !.job_registry[c.job].status = c.status])
  <2>1. c.job \in Job /\ c.status \in JobStatus
    BY <1>4 DEF Command
  <2> QED BY <2>1 DEF RaftState, Registered
<1>5. ASSUME c.op = "ConsumeEnrollToken"
      PROVE  Kept([st EXCEPT !.enroll_tokens[c.token] = "used"])
  <2>1. c.token \in Token
    BY <1>5 DEF Command
  <2> QED BY <2>1 DEF RaftState, Registered
<1>6. ASSUME c.op = "StoreEnrollToken"
      PROVE  Kept([st EXCEPT !.enroll_tokens[c.token] = "unused"])
  <2>1. c.token \in Token
    BY <1>6 DEF Command
  <2> QED BY <2>1 DEF RaftState, Registered
<1> HIDE DEF Kept
<1> QED BY <1>2, <1>3, <1>4, <1>5, <1>6 DEF apply_command

\* One turn of the loop of apply: the same, and last_applied is its index.
LEMMA EntryTyped ==
  ASSUME NEW st \in RaftState, NEW i \in Nat, NEW c \in Command
  PROVE  /\ ApplyEntry(st, i, c) \in RaftState
         /\ ApplyEntry(st, i, c).last_applied = i
         /\ \A j \in Job : Registered(st, j) =>
              ApplyEntry(st, i, c).job_registry[j].node = st.job_registry[j].node
<1> DEFINE cmd == apply_command(st, c)
           applied == [cmd EXCEPT !.last_applied = i]
           member == [applied EXCEPT !.last_membership = i]
<1>1. cmd \in RaftState /\ \A j \in Job : Registered(st, j) =>
        cmd.job_registry[j].node = st.job_registry[j].node
  BY CommandTyped
<1>2. ApplyEntry(st, i, c) = IF c = Membership THEN member ELSE applied
  BY DEF ApplyEntry
<1> HIDE DEF cmd
<1>3. applied \in RaftState /\ applied.last_applied = i /\ applied.job_registry = cmd.job_registry
  BY <1>1 DEF RaftState
<1> HIDE DEF applied
<1>4. member \in RaftState /\ member.last_applied = i /\ member.job_registry = applied.job_registry
  BY <1>3 DEF RaftState
<1> QED BY <1>1, <1>2, <1>3, <1>4

\* The whole loop: the state is well formed, stands at the last index, and kept
\* the node of every job.
LEMMA RangeTyped ==
  ASSUME NEW st \in RaftState, NEW log, NEW first \in Nat \ {0}, NEW last \in Nat,
         st.last_applied = first - 1, first <= last + 1,
         \A i \in first..last : log[i] \in Command
  PROVE  /\ ApplyRange(st, log, first, last) \in RaftState
         /\ ApplyRange(st, log, first, last).last_applied = last
         /\ \A j \in Job : Registered(st, j) =>
              ApplyRange(st, log, first, last).job_registry[j].node = st.job_registry[j].node
<1> DEFINE Fine(n) == /\ ApplyRange(st, log, first, n) \in RaftState
                      /\ ApplyRange(st, log, first, n).last_applied = n
                      /\ \A j \in Job : Registered(st, j) =>
                           ApplyRange(st, log, first, n).job_registry[j].node
                             = st.job_registry[j].node
           T == {n \in Nat : first - 1 <= n /\ n <= last /\ ~Fine(n)}
<1>1. SUFFICES ASSUME T # {} PROVE FALSE
  OBVIOUS
<1>2. PICK x \in T : \A y \in T : x <= y
  BY <1>1, LeastNumber
<1>3. x \in Nat /\ first - 1 <= x /\ x <= last /\ ~Fine(x)
  OBVIOUS
<1>4. x # first - 1
  <2>1. SUFFICES ASSUME x = first - 1 PROVE FALSE
    OBVIOUS
  <2>2. ApplyRange(st, log, first, x) = st
    BY <1>3, <2>1, RangeEmpty
  <2> QED BY <1>3, <2>1, <2>2
<1>5. x >= first
  BY <1>3, <1>4
<1>6. x - 1 \in Nat /\ first - 1 <= x - 1 /\ x - 1 <= last /\ x - 1 \notin T
  BY <1>2, <1>3, <1>5
<1>7. Fine(x - 1)
  BY <1>6
<1> HIDE DEF T
<1> DEFINE before == ApplyRange(st, log, first, x - 1)
<1>8. /\ before \in RaftState
      /\ \A j \in Job : Registered(st, j) =>
           before.job_registry[j].node = st.job_registry[j].node
  BY <1>7
<1>9. ApplyRange(st, log, first, x) = ApplyEntry(before, x, log[x])
  BY <1>3, <1>5, RangeUnrolled
<1>10. log[x] \in Command
  BY <1>3, <1>5
<1> HIDE DEF before
<1>11. \A j \in Job : Registered(st, j) => Registered(before, j)
  BY <1>8 DEF Registered
<1>12. /\ ApplyEntry(before, x, log[x]) \in RaftState
       /\ ApplyEntry(before, x, log[x]).last_applied = x
       /\ \A j \in Job : Registered(before, j) =>
            ApplyEntry(before, x, log[x]).job_registry[j].node = before.job_registry[j].node
  BY <1>3, <1>8, <1>10, EntryTyped
<1> QED BY <1>3, <1>8, <1>9, <1>11, <1>12

\* The state after the first n entries of a history: well formed, at index n.
LEMMA AfterTyped ==
  ASSUME NEW h \in Seq(Command), NEW n \in Nat, n <= Len(h)
  PROVE  StateAfter(h, n) \in RaftState /\ StateAfter(h, n).last_applied = n
<1>1. DefaultState \in RaftState /\ DefaultState.last_applied = 0
  BY DEF DefaultState, RaftState
<1>2. \A i \in 1..n : h[i] \in Command
  OBVIOUS
<1> QED BY <1>1, <1>2, RangeTyped DEF StateAfter

\* It depends on these entries only.
LEMMA AfterReads ==
  ASSUME NEW h, NEW g, NEW n \in Nat, \A i \in 1..n : h[i] = g[i]
  PROVE  StateAfter(h, n) = StateAfter(g, n)
BY RangeReads DEF StateAfter

\* It is what apply makes of an earlier such state.
LEMMA AfterApply ==
  ASSUME NEW h, NEW log, NEW m \in Nat, NEW n \in Nat, m <= n,
         \A i \in m + 1 .. n : log[i] = h[i]
  PROVE  ApplyRange(StateAfter(h, m), log, m + 1, n) = StateAfter(h, n)
<1>1. m + 1 \in Nat \ {0}
  OBVIOUS
<1>2. ApplyRange(StateAfter(h, m), log, m + 1, n) = ApplyRange(StateAfter(h, m), h, m + 1, n)
  BY <1>1, RangeReads
<1>3. ApplyRange(StateAfter(h, m), h, m + 1, n) = StateAfter(h, n)
  BY RangeSplit DEF StateAfter
<1> QED BY <1>2, <1>3

\* A job keeps its node from any prefix of a history to a longer one.
LEMMA AfterOwner ==
  ASSUME NEW h \in Seq(Command), NEW m \in Nat, NEW n \in Nat, m <= n, n <= Len(h),
         NEW j \in Job, Registered(StateAfter(h, m), j)
  PROVE  StateAfter(h, n).job_registry[j].node = StateAfter(h, m).job_registry[j].node
<1>1. StateAfter(h, m) \in RaftState /\ StateAfter(h, m).last_applied = m
  BY AfterTyped
<1>2. ApplyRange(StateAfter(h, m), h, m + 1, n) = StateAfter(h, n)
  BY AfterApply
<1>3. m + 1 \in Nat \ {0} /\ m + 1 <= n + 1 /\ m = (m + 1) - 1
  OBVIOUS
<1>4. \A i \in m + 1 .. n : h[i] \in Command
  OBVIOUS
<1> HIDE DEF StateAfter
<1> QED BY <1>1, <1>2, <1>3, <1>4, RangeTyped

\* Before the first entry it is the default state.
LEMMA AfterZero == StateAfter(<<>>, 0) = DefaultState
BY RangeEmpty DEF StateAfter

-----------------------------------------------------------------------------
(* What the log, the state machine and the disk have to do with each other *)

\* LargestOf finds what it looks for in a set of indexes ...
LEMMA LargestIn ==
  ASSUME NEW n \in Nat, NEW S \in SUBSET (0..n), S # {}
  PROVE  LargestOf(S) \in S /\ \A y \in S : y <= LargestOf(S)
<1> DEFINE T == {d \in Nat : n - d \in S}
<1>1. \A y \in S : n - y \in T /\ y \in Nat
  OBVIOUS
<1>2. T # {}
  BY <1>1
<1>3. PICK d \in T : \A e \in T : d <= e
  BY <1>2, LeastNumber
<1>4. n - d \in S /\ d \in Nat
  OBVIOUS
<1> HIDE DEF T
<1>5. \A y \in S : y <= n - d
  BY <1>1, <1>3, <1>4
<1> QED BY <1>4, <1>5 DEF LargestOf

\* ... and SmallestOf does.
LEMMA SmallestIn ==
  ASSUME NEW S \in SUBSET Nat, S # {}
  PROVE  SmallestOf(S) \in S
BY LeastNumber DEF SmallestOf

\* With no operation under way memory and disk are the same, of each database.
Quiet ==
    /\ op.kind = "idle" => op = Idle /\ disk = mem
    /\ smOp = "idle" => smDisk = sm

\* How far each part has come.  The disk of the state machine is never behind a
\* purge or a snapshot, and never ahead of what is committed.
Order ==
    /\ smDisk.last_applied <= sm.last_applied
    /\ sm.last_applied <= known
    /\ known <= Len(chosen)
    /\ Len(chosen) <= MaxIndex
    /\ snap <= smDisk.last_applied
    /\ mem.purged <= smDisk.last_applied
    /\ disk.purged <= smDisk.last_applied
    /\ mem.committed <= Len(chosen)
    /\ mem.committed <= acked
    /\ disk.committed <= mem.committed
    /\ mem.committed <= known \/ op.kind = "save_committed"

\* What the operation under way may still do.
OpShape ==
    /\ op.kind = "truncate" =>
         /\ op.upto > Len(chosen) /\ acked < op.upto
         /\ \A k \in op.left : k >= op.upto
         /\ \A k \in Present(mem) : k >= op.upto => k \in op.left
    /\ op.kind = "purge" =>
         /\ op.upto <= smDisk.last_applied /\ mem.purged <= op.upto
         /\ \A k \in op.left : k <= op.upto
    /\ op.kind = "append" => op.upto \in Present(mem) /\ known <= op.upto
    /\ op.kind = "save_committed" => op.upto = mem.committed /\ known <= op.upto
    /\ op.kind \notin {"truncate", "purge"} => op.left = {}

\* Log l has no other entry than the committed one where the commit is known.
Agree(l) ==
    \A i \in Present(l) : i <= known \/ i <= mem.committed => l.entries[i] = chosen[i]

\* What was acknowledged is in l or in the state machine.
AckedIn(l) ==
    "truncate" \notin cut =>
        \A i \in 1..acked : i <= smDisk.last_applied \/ i \in Present(l)

\* Entry i of l may be missing before entry k while a removal goes on.
Removing(i, k) ==
    \/ op.kind = "truncate" /\ k >= op.upto
    \/ op.kind = "purge" /\ i <= op.upto

\* After the state machine's last entry l has no hole ...
NoHole(l) ==
    "truncate" \notin cut =>
        \A i \in Index, k \in Present(l) :
            smDisk.last_applied < i /\ i < k /\ ~Removing(i, k) => i \in Present(l)

\* ... and after its purge none either, when no crash cut a removal short.
NoGap(l) ==
    cut = {} =>
        \A i \in Index, k \in Present(l) :
            l.purged < i /\ i < k /\ ~Removing(i, k) => i \in Present(l)

\* The registry is what the committed commands define, in memory and on disk.
States ==
    /\ sm = StateAfter(chosen, sm.last_applied)
    /\ smDisk = StateAfter(chosen, smDisk.last_applied)

StoreInv ==
    /\ TypeOK /\ Quiet /\ Order /\ OpShape
    /\ Agree(mem) /\ Agree(disk)
    /\ AckedIn(mem) /\ AckedIn(disk)
    /\ NoHole(mem) /\ NoHole(disk)
    /\ NoGap(mem) /\ NoGap(disk)
    /\ States

\* The part of it that is about one log.
LogOk(l) == Agree(l) /\ AckedIn(l) /\ NoHole(l) /\ NoGap(l)

\* A fresh store has nothing to relate.
LEMMA StoreInit == Init => StoreInv
<1>1. SUFFICES ASSUME Init PROVE StoreInv
  OBVIOUS
<1>2. Present(mem) = {} /\ disk = mem
  BY <1>1 DEF Init, Present
<1>3. TypeOK
  BY <1>1, BoundsAssumption, NoNodeAssumption
  DEF Init, TypeOK, LogStore, Vote, NoVote, Operation, Idle, RaftState, DefaultState, Index
<1>4. Quiet /\ OpShape
  BY <1>1, <1>2 DEF Init, Quiet, OpShape, Idle
<1>5. Order
  BY <1>1, BoundsAssumption DEF Init, Order, DefaultState
<1>6. AckedIn(mem)
  BY <1>1 DEF Init, AckedIn
<1>7. Agree(mem) /\ NoHole(mem) /\ NoGap(mem)
  BY <1>2 DEF Agree, NoHole, NoGap
<1>8. States
  BY <1>1, AfterZero DEF Init, States, DefaultState
<1> QED BY <1>2, <1>3, <1>4, <1>5, <1>6, <1>7, <1>8 DEF StoreInv

\* Votes are saved and answered beside all that.
LEMMA StoreVotes ==
  ASSUME StoreInv,
         \/ \E v \in Ballot : SaveVote(v)
         \/ SaveVoteDone \/ AnswerAgain
  PROVE  StoreInv'
<1> DEFINE Same == /\ mem' \in LogStore /\ mem'.entries = mem.entries
                   /\ mem'.purged = mem.purged /\ mem'.committed = mem.committed
                   /\ \/ disk' = disk
                      \/ disk' = mem /\ mem' = mem
                   /\ op.kind \in {"idle", "save_vote"} /\ op'.kind \in {"idle", "save_vote"}
                   /\ op' \in Operation /\ op'.left = {}
                   /\ op'.kind = "idle" => op' = Idle /\ disk' = mem'
                   /\ sm' = sm /\ smDisk' = smDisk /\ smOp' = smOp
                   /\ known' = known /\ snap' = snap /\ acked' = acked
                   /\ chosen' = chosen /\ cut' = cut /\ crashes' = crashes
                   /\ granted' \in Vote
<1>1. ASSUME NEW v \in Ballot, SaveVote(v)
      PROVE  Same
  <2>1. v \in Vote
    BY BoundsAssumption DEF Vote, Ballot
  <2>2. mem \in LogStore
    BY DEF StoreInv, TypeOK
  <2>3. mem' = [mem EXCEPT !.vote = v]
    BY <1>1 DEF SaveVote
  <2>4. mem' \in LogStore /\ mem'.entries = mem.entries
        /\ mem'.purged = mem.purged /\ mem'.committed = mem.committed
    BY <2>1, <2>2, <2>3 DEF LogStore
  <2>5. op = Idle /\ op' = [kind |-> "save_vote", left |-> {}, upto |-> 0]
    BY <1>1 DEF SaveVote, Begin
  <2>6. op' \in Operation
    BY <2>5, BoundsAssumption DEF Operation
  <2>7. granted \in Vote
    BY DEF StoreInv, TypeOK
  <2> QED BY <1>1, <2>4, <2>5, <2>6, <2>7 DEF SaveVote, Idle, smVars
<1>2. ASSUME SaveVoteDone PROVE Same
  <2>1. Idle \in Operation
    BY BoundsAssumption DEF Operation, Idle
  <2>2. mem \in LogStore /\ mem.vote \in Vote /\ granted \in Vote
    BY DEF StoreInv, TypeOK, LogStore
  <2>3. granted' \in Vote
    BY <1>2, <2>2 DEF SaveVoteDone
  <2>4. Idle.kind = "idle" /\ Idle.left = {}
    BY DEF Idle
  <2>5. /\ op.kind = "save_vote" /\ op' = Idle /\ disk' = mem /\ mem' = mem
        /\ sm' = sm /\ smDisk' = smDisk /\ smOp' = smOp /\ known' = known /\ snap' = snap
        /\ acked' = acked /\ chosen' = chosen /\ cut' = cut /\ crashes' = crashes
    BY <1>2 DEF SaveVoteDone, smVars
  <2> QED BY <2>1, <2>2, <2>3, <2>4, <2>5
<1>3. ASSUME AnswerAgain PROVE Same
  <2>1. Idle \in Operation
    BY BoundsAssumption DEF Operation, Idle
  <2>2. mem \in LogStore /\ mem.vote \in Vote /\ granted \in Vote
    BY DEF StoreInv, TypeOK, LogStore
  <2>3. disk = mem
    BY <1>3 DEF AnswerAgain, Idle, StoreInv, Quiet
  <2>4. granted' \in Vote
    BY <1>3, <2>2 DEF AnswerAgain
  <2>5. Idle.kind = "idle" /\ Idle.left = {}
    BY DEF Idle
  <2>6. /\ op = Idle /\ op' = Idle /\ disk' = disk /\ mem' = mem
        /\ sm' = sm /\ smDisk' = smDisk /\ smOp' = smOp /\ known' = known /\ snap' = snap
        /\ acked' = acked /\ chosen' = chosen /\ cut' = cut /\ crashes' = crashes
    BY <1>3 DEF AnswerAgain, smVars
  <2> QED BY <2>1, <2>2, <2>3, <2>4, <2>5, <2>6
<1> HIDE DEF Same
<1>4. Same
  BY <1>1, <1>2, <1>3
<1>5. TypeOK'
  BY <1>4 DEF Same, StoreInv, TypeOK
<1>6. Quiet'
  BY <1>4 DEF Same, StoreInv, Quiet
<1>7. Order'
  <2>1. mem.committed \in Nat
    BY BoundsAssumption DEF StoreInv, TypeOK, LogStore
  <2> QED BY <1>4, <2>1 DEF Same, StoreInv, Order
<1>8. OpShape'
  BY <1>4 DEF Same, StoreInv, OpShape
<1>9. Present(mem)' = Present(mem) /\ (Present(disk)' = Present(disk) \/ disk' = mem)
  BY <1>4 DEF Same, Present
<1>10. Agree(mem)' /\ Agree(disk)'
  BY <1>4, <1>9 DEF Same, StoreInv, Agree, Present
<1>11. AckedIn(mem)' /\ AckedIn(disk)'
  BY <1>4, <1>9 DEF Same, StoreInv, AckedIn, Present
<1>12. NoHole(mem)' /\ NoHole(disk)'
  BY <1>4, <1>9 DEF Same, StoreInv, NoHole, Removing, Present
<1>13. NoGap(mem)' /\ NoGap(disk)'
  BY <1>4, <1>9 DEF Same, StoreInv, NoGap, Removing, Present
<1>14. States'
  BY <1>4 DEF Same, StoreInv, States
<1> QED BY <1>5, <1>6, <1>7, <1>8, <1>10, <1>11, <1>12, <1>13, <1>14 DEF StoreInv

\* The entries of an append are commands.
LEMMA BatchTyped ==
  ASSUME NEW batch \in Batch
  PROVE  batch \in Seq(Command) /\ Len(batch) >= 1
<1>1. CASE batch = <<Membership>>
  <2>1. Membership \in Command
    BY DEF Membership, Command
  <2> QED BY <1>1, <2>1
<1>2. CASE batch # <<Membership>>
  <2>1. batch \in UNION {[1..n -> Sent] : n \in 1..MaxBatch}
    BY <1>2 DEF Batch
  <2>2. PICK n \in 1..MaxBatch : batch \in [1..n -> Sent]
    BY <2>1, Zenon
  <2>3. n \in Nat /\ n >= 1
    BY BoundsAssumption
  <2>4. batch \in [1..n -> Command]
    BY <2>2, SentAssumption
  <2> QED BY <2>3, <2>4
<1> QED BY <1>1, <1>2

\* append writes after the end of the log, which is at or after what is known to
\* be committed.
LEMMA StoreAppend ==
  ASSUME StoreInv, NEW batch \in Batch, AppendEntries(batch)
  PROVE  StoreInv'
<1> DEFINE from == LastIndex
           upto == from + Len(batch)
<1>1. batch \in Seq(Command) /\ Len(batch) \in Nat /\ Len(batch) >= 1
  BY BatchTyped
<1>2. /\ from \in Present(mem) \cup {mem.purged}
      /\ \A y \in Present(mem) \cup {mem.purged} : y <= from
      /\ from \in 0..MaxIndex
  <2>1. MaxIndex \in Nat /\ Present(mem) \cup {mem.purged} \in SUBSET (0..MaxIndex)
    BY BoundsAssumption DEF StoreInv, TypeOK, LogStore, Present, Index
  <2> QED BY <2>1, LargestIn DEF LastIndex
<1>3. /\ op = Idle /\ op' = [kind |-> "append", left |-> {}, upto |-> upto]
      /\ known <= from /\ upto <= MaxIndex
      /\ mem' = [mem EXCEPT !.entries =
                  [i \in Index |-> IF i > from /\ i <= upto THEN batch[i - from]
                                                            ELSE mem.entries[i]]]
      /\ disk' = disk /\ sm' = sm /\ smDisk' = smDisk /\ smOp' = smOp /\ known' = known
      /\ snap' = snap /\ acked' = acked /\ granted' = granted /\ chosen' = chosen
      /\ cut' = cut /\ crashes' = crashes
  BY DEF AppendEntries, Begin, smVars
<1> HIDE DEF from
<1>4. mem \in LogStore /\ MaxIndex \in Nat /\ from \in Nat /\ upto \in Nat /\ upto \in 0..MaxIndex
  BY <1>1, <1>2, <1>3, BoundsAssumption DEF StoreInv, TypeOK
<1> HIDE DEF upto
<1>5. /\ mem'.purged = mem.purged /\ mem'.committed = mem.committed /\ mem'.vote = mem.vote
      /\ DOMAIN mem' = DOMAIN mem
      /\ mem'.entries = [i \in Index |-> IF i > from /\ i <= upto THEN batch[i - from]
                                                                ELSE mem.entries[i]]
  BY <1>3, <1>4 DEF LogStore
<1>6. ASSUME NEW i \in Index, i > from, i <= upto
      PROVE  mem'.entries[i] \in Command
  <2>1. i - from \in 1..Len(batch)
    BY <1>1, <1>4, <1>6 DEF Index, upto
  <2>2. mem'.entries[i] = batch[i - from]
    BY <1>5, <1>6
  <2> QED BY <2>1, <2>2, <1>1
<1>7. ASSUME NEW i \in Index, ~(i > from /\ i <= upto)
      PROVE  mem'.entries[i] = mem.entries[i]
  BY <1>5, <1>7
<1>8. mem' \in LogStore
  <2>1. mem'.entries \in [Index -> Command \cup {NoEntry}]
    <3>1. \A i \in Index : mem.entries[i] \in Command \cup {NoEntry}
      BY <1>4 DEF LogStore
    <3>2. \A i \in Index : mem'.entries[i] \in Command \cup {NoEntry}
      BY <1>6, <1>7, <3>1
    <3> QED BY <1>5, <3>2
  <2>2. mem' = [mem EXCEPT !.entries = mem'.entries]
    BY <1>3, <1>5
  <2> QED BY <1>4, <2>1, <2>2 DEF LogStore
<1>9. \A i \in Index : i \in Present(mem)' <=> i \in Present(mem) \/ (i > from /\ i <= upto)
  BY <1>6, <1>7, NoEntryAssumption DEF Present
<1>10. Present(mem) \subseteq Index /\ Present(mem)' \subseteq Index
  BY DEF Present
<1>11. op.kind = "idle" /\ disk = mem
  BY <1>3 DEF Idle, StoreInv, Quiet
<1>12. op'.kind = "append" /\ op'.left = {} /\ op'.upto = upto
  BY <1>3
<1>13. TypeOK'
  <2>1. op' \in Operation
    BY <1>3, <1>4 DEF Operation
  <2> QED BY <1>3, <1>8, <2>1 DEF StoreInv, TypeOK
<1>14. Quiet'
  BY <1>3, <1>12 DEF StoreInv, Quiet
<1>15. Order'
  BY <1>3, <1>5, <1>11 DEF StoreInv, Order
<1>16. upto > from /\ upto \in Index
  BY <1>1, <1>4 DEF upto, Index
<1>17. OpShape'
  <2>1. upto \in Present(mem)'
    BY <1>4, <1>9, <1>16
  <2>2. known \in Nat
    BY BoundsAssumption DEF StoreInv, TypeOK
  <2> QED BY <1>3, <1>4, <1>12, <1>16, <2>1, <2>2 DEF StoreInv, OpShape
<1>18. ASSUME NEW i \in Present(mem)', i \notin Present(mem)
       PROVE  i > known /\ i > mem.committed
  <2>1. known \in Nat /\ mem.committed \in Nat /\ mem.committed <= known
    BY <1>11, BoundsAssumption DEF StoreInv, TypeOK, LogStore, Order
  <2>2. i \in Nat /\ i > from
    BY <1>9, <1>10, <1>18 DEF Index
  <2> QED BY <1>3, <1>4, <2>1, <2>2
<1>19. Agree(mem)' /\ Agree(disk)'
  <2>1. \A i \in Present(mem) : mem'.entries[i] = mem.entries[i]
    BY <1>2, <1>4, <1>7, <1>10 DEF Index
  <2>2. Present(disk)' = Present(disk)
    BY <1>3 DEF Present
  <2>3. Agree(disk)'
    BY <1>3, <1>5, <2>2 DEF StoreInv, Agree
  <2>4. known \in Nat /\ mem.committed \in Nat
    BY BoundsAssumption DEF StoreInv, TypeOK, LogStore
  <2>5. ASSUME NEW i \in Present(mem)', i <= known \/ i <= mem.committed
        PROVE  mem'.entries[i] = chosen[i]
    <3>1. i \in Nat
      BY <1>10 DEF Index
    <3>2. i \in Present(mem)
      BY <1>18, <2>4, <2>5, <3>1
    <3> QED BY <2>1, <2>5, <3>2 DEF StoreInv, Agree
  <2> QED BY <1>3, <1>5, <2>3, <2>5 DEF Agree
<1>20. AckedIn(mem)' /\ AckedIn(disk)'
  <2>1. Present(mem) \subseteq Present(mem)'
    BY <1>9, <1>10
  <2>2. Present(disk)' = Present(disk)
    BY <1>3 DEF Present
  <2> QED BY <1>3, <2>1, <2>2 DEF StoreInv, AckedIn
\* Between the old end of the log and an entry of the batch everything is new.
<1>21. ASSUME NEW i \in Index, NEW k \in Present(mem)', mem.purged < i, i < k,
              i \notin Present(mem)'
       PROVE  from \in Present(mem) /\ i < from /\ i \notin Present(mem)
  <2>1. k <= upto
    BY <1>2, <1>4, <1>9, <1>10, <1>16 DEF Index
  <2>2. i <= from
    BY <1>4, <1>9, <1>10, <1>21, <2>1 DEF Index
  <2>3. mem.purged \in Nat
    BY <1>4 DEF LogStore
  <2> QED BY <1>2, <1>4, <1>9, <1>21, <2>2, <2>3 DEF Index
<1>22. Present(disk)' = Present(disk) /\ Present(disk) = Present(mem)
  BY <1>3, <1>11 DEF Present
<1>23. NoHole(mem)' /\ NoHole(disk)'
  <2>1. \A i, k : ~Removing(i, k) /\ ~Removing(i, k)'
    BY <1>11, <1>12 DEF Removing
  <2>2. NoHole(disk)'
    BY <1>3, <1>22, <2>1 DEF StoreInv, NoHole
  <2>3. mem.purged \in Nat /\ smDisk.last_applied \in Nat /\ mem.purged <= smDisk.last_applied
    BY <1>4 DEF StoreInv, TypeOK, RaftState, LogStore, Order
  <2>4. ASSUME "truncate" \notin cut, NEW i \in Index, NEW k \in Present(mem)',
               smDisk.last_applied < i, i < k
        PROVE  i \in Present(mem)'
    <3>1. SUFFICES ASSUME i \notin Present(mem)' PROVE FALSE
      OBVIOUS
    <3>2. mem.purged < i
      BY <2>3, <2>4, <1>4 DEF Index
    <3>3. from \in Present(mem) /\ i < from /\ i \notin Present(mem)
      BY <1>21, <2>4, <3>1, <3>2
    <3> QED BY <2>1, <2>4, <3>3 DEF StoreInv, NoHole
  <2> QED BY <1>3, <2>2, <2>4 DEF NoHole
<1>24. NoGap(mem)' /\ NoGap(disk)'
  <2>1. \A i, k : ~Removing(i, k) /\ ~Removing(i, k)'
    BY <1>11, <1>12 DEF Removing
  <2>2. NoGap(disk)'
    BY <1>3, <1>22, <2>1 DEF StoreInv, NoGap
  <2>3. ASSUME cut = {}, NEW i \in Index, NEW k \in Present(mem)', mem.purged < i, i < k
        PROVE  i \in Present(mem)'
    <3>1. SUFFICES ASSUME i \notin Present(mem)' PROVE FALSE
      OBVIOUS
    <3>2. from \in Present(mem) /\ i < from /\ i \notin Present(mem)
      BY <1>21, <2>3, <3>1
    <3> QED BY <2>1, <2>3, <3>2 DEF StoreInv, NoGap
  <2> QED BY <1>3, <1>5, <2>2, <2>3 DEF NoGap
<1>25. States'
  BY <1>3 DEF StoreInv, States
<1> QED BY <1>13, <1>14, <1>15, <1>17, <1>19, <1>20, <1>23, <1>24, <1>25 DEF StoreInv

\* The flush that ends an operation of the log store: disk and memory are one log.
LEMMA StoreFlushed ==
  ASSUME StoreInv, op' = Idle, disk' = mem', mem' \in LogStore,
         known' \in 0..MaxIndex, acked' \in 0..MaxIndex,
         UNCHANGED <<sm, smDisk, smOp, snap, granted, chosen, cut, crashes>>,
         Order', LogOk(mem)'
  PROVE  StoreInv'
<1>1. Idle \in Operation /\ Idle.kind = "idle" /\ Idle.left = {}
  BY BoundsAssumption DEF Idle, Operation
<1>2. TypeOK'
  BY <1>1 DEF StoreInv, TypeOK
<1>3. Quiet'
  BY DEF StoreInv, Quiet
<1>4. OpShape'
  BY <1>1 DEF OpShape
<1>5. Present(disk)' = Present(mem)'
  BY DEF Present
<1>6. LogOk(disk)'
  BY <1>5 DEF LogOk, Agree, AckedIn, NoHole, NoGap
<1>7. States'
  BY DEF StoreInv, States
<1> QED BY <1>2, <1>3, <1>4, <1>6, <1>7 DEF StoreInv, LogOk

\* append is complete: up to its last entry nothing is missing after the state machine.
LEMMA StoreAppendDone ==
  ASSUME StoreInv, AppendEntriesDone
  PROVE  StoreInv'
<1>1. /\ op.kind = "append" /\ op' = Idle /\ disk' = mem /\ mem' = mem /\ acked' = op.upto
      /\ known' = known
      /\ UNCHANGED <<sm, smDisk, smOp, snap, granted, chosen, cut, crashes>>
  BY DEF AppendEntriesDone, smVars
<1>2. /\ mem \in LogStore /\ op.upto \in 0..MaxIndex /\ known \in 0..MaxIndex
      /\ MaxIndex \in Nat /\ smDisk.last_applied \in Nat /\ mem.committed \in Nat
  BY BoundsAssumption DEF StoreInv, TypeOK, LogStore, Operation, RaftState
<1>3. op.upto \in Present(mem) /\ known <= op.upto
  BY <1>1 DEF StoreInv, OpShape
<1>4. Order'
  <2>1. mem.committed <= known
    BY <1>1 DEF StoreInv, Order
  <2> QED BY <1>1, <1>2, <1>3, <2>1 DEF StoreInv, Order
<1>5. Present(mem)' = Present(mem) /\ Present(mem) \subseteq Index
  BY <1>1 DEF Present
<1>6. \A i, k : ~Removing(i, k) /\ ~Removing(i, k)'
  BY <1>1 DEF Removing, Idle
<1>7. Agree(mem)'
  BY <1>1, <1>5 DEF StoreInv, Agree
<1>8. AckedIn(mem)'
  <2>1. ASSUME "truncate" \notin cut, NEW i \in 1..op.upto, ~(i <= smDisk.last_applied)
        PROVE  i \in Present(mem)
    <3>1. i \in Index /\ i \in Nat /\ i <= op.upto
      BY <1>2 DEF Index
    <3>2. CASE i = op.upto
      BY <1>3, <3>2
    <3>3. CASE i # op.upto
      <4>1. smDisk.last_applied < i /\ i < op.upto
        BY <1>2, <2>1, <3>1, <3>3
      <4> QED BY <1>3, <1>6, <2>1, <3>1, <4>1 DEF StoreInv, NoHole
    <3> QED BY <3>2, <3>3
  <2> QED BY <1>1, <1>5, <2>1 DEF AckedIn
<1>9. NoHole(mem)'
  BY <1>1, <1>5, <1>6 DEF StoreInv, NoHole
<1>10. NoGap(mem)'
  BY <1>1, <1>5, <1>6 DEF StoreInv, NoGap
<1> QED BY <1>1, <1>2, <1>4, <1>7, <1>8, <1>9, <1>10, StoreFlushed DEF LogOk

\* The committed index is saved, and known from then on.
LEMMA StoreCommittedDone ==
  ASSUME StoreInv, SaveCommittedDone
  PROVE  StoreInv'
<1>1. /\ op.kind = "save_committed" /\ op' = Idle /\ disk' = mem /\ mem' = mem
      /\ known' = op.upto /\ acked' = acked
      /\ UNCHANGED <<sm, smDisk, smOp, snap, granted, chosen, cut, crashes>>
  BY DEF SaveCommittedDone, smVars
<1>2. /\ mem \in LogStore /\ op.upto \in 0..MaxIndex /\ known \in 0..MaxIndex
      /\ acked \in 0..MaxIndex /\ MaxIndex \in Nat /\ mem.committed \in Nat
      /\ sm.last_applied \in Nat
  BY BoundsAssumption DEF StoreInv, TypeOK, LogStore, Operation, RaftState
<1>3. op.upto = mem.committed /\ known <= op.upto
  BY <1>1 DEF StoreInv, OpShape
<1>4. Order'
  BY <1>1, <1>2, <1>3 DEF StoreInv, Order
<1>5. Present(mem)' = Present(mem) /\ Present(mem) \subseteq Index
  BY <1>1 DEF Present
<1>6. \A i, k : ~Removing(i, k) /\ ~Removing(i, k)'
  BY <1>1 DEF Removing, Idle
<1>7. Agree(mem)'
  BY <1>1, <1>3, <1>5 DEF StoreInv, Agree
<1>8. AckedIn(mem)'
  BY <1>1, <1>5 DEF StoreInv, AckedIn
<1>9. NoHole(mem)'
  BY <1>1, <1>5, <1>6 DEF StoreInv, NoHole
<1>10. NoGap(mem)'
  BY <1>1, <1>5, <1>6 DEF StoreInv, NoGap
<1> QED BY <1>1, <1>2, <1>4, <1>7, <1>8, <1>9, <1>10, StoreFlushed DEF LogOk

\* A truncation that comes to its end has removed all it collected: what is left
\* of the log has no hole.
LEMMA StoreTruncateDone ==
  ASSUME StoreInv, TruncateDone
  PROVE  StoreInv'
<1>1. /\ op.kind = "truncate" /\ op.left = {} /\ op' = Idle /\ disk' = mem /\ mem' = mem
      /\ known' = known /\ acked' = acked
      /\ UNCHANGED <<sm, smDisk, smOp, snap, granted, chosen, cut, crashes>>
  BY DEF TruncateDone, smVars
<1>2. /\ mem \in LogStore /\ known \in 0..MaxIndex /\ acked \in 0..MaxIndex
      /\ mem.committed \in Nat /\ op.upto \in Nat
  BY BoundsAssumption DEF StoreInv, TypeOK, LogStore, Operation
<1>3. Order'
  BY <1>1, <1>2 DEF StoreInv, Order
<1>4. Present(mem)' = Present(mem) /\ Present(mem) \subseteq Index
  BY <1>1 DEF Present
<1>5. \A i \in Index, k \in Present(mem) : ~Removing(i, k)
  <2>1. \A k \in Present(mem) : ~(k >= op.upto)
    BY <1>1 DEF StoreInv, OpShape
  <2> QED BY <1>1, <2>1 DEF Removing
<1>6. Agree(mem)'
  BY <1>1, <1>4 DEF StoreInv, Agree
<1>7. AckedIn(mem)'
  BY <1>1, <1>4 DEF StoreInv, AckedIn
<1>8. NoHole(mem)'
  BY <1>1, <1>4, <1>5 DEF StoreInv, NoHole
<1>9. NoGap(mem)'
  BY <1>1, <1>4, <1>5 DEF StoreInv, NoGap
<1> QED BY <1>1, <1>2, <1>3, <1>6, <1>7, <1>8, <1>9, StoreFlushed DEF LogOk

\* A purge that comes to its end records how far it went: nothing is missing after it.
LEMMA StorePurgeDone ==
  ASSUME StoreInv, PurgeDone
  PROVE  StoreInv'
<1>1. /\ op.kind = "purge" /\ op' = Idle /\ disk' = mem'
      /\ mem' = [mem EXCEPT !.purged = op.upto]
      /\ known' = known /\ acked' = acked
      /\ UNCHANGED <<sm, smDisk, smOp, snap, granted, chosen, cut, crashes>>
  BY DEF PurgeDone, smVars
<1>2. /\ mem \in LogStore /\ known \in 0..MaxIndex /\ acked \in 0..MaxIndex
      /\ op.upto \in 0..MaxIndex /\ MaxIndex \in Nat /\ mem.purged \in Nat
      /\ mem.committed \in Nat /\ smDisk.last_applied \in Nat
  BY BoundsAssumption DEF StoreInv, TypeOK, LogStore, Operation, RaftState
<1>3. /\ mem' \in LogStore /\ mem'.entries = mem.entries /\ mem'.purged = op.upto
      /\ mem'.committed = mem.committed
  BY <1>1, <1>2 DEF LogStore
<1>4. op.upto <= smDisk.last_applied /\ mem.purged <= op.upto
  BY <1>1 DEF StoreInv, OpShape
<1>5. Order'
  BY <1>1, <1>2, <1>3, <1>4 DEF StoreInv, Order
<1>6. Present(mem)' = Present(mem) /\ Present(mem) \subseteq Index
  BY <1>3 DEF Present
<1>7. \A i \in Index, k \in Present(mem) : op.upto < i => ~Removing(i, k)
  BY <1>1, <1>2 DEF Removing, Index
<1>8. Agree(mem)'
  BY <1>1, <1>3, <1>6 DEF StoreInv, Agree
<1>9. AckedIn(mem)'
  BY <1>1, <1>6 DEF StoreInv, AckedIn
<1>10. NoHole(mem)'
  <2>1. \A i \in Index : smDisk.last_applied < i => op.upto < i
    BY <1>2, <1>4 DEF Index
  <2> QED BY <1>1, <1>6, <1>7, <2>1 DEF StoreInv, NoHole
<1>11. NoGap(mem)'
  <2>1. \A i \in Index : op.upto < i => mem.purged < i
    BY <1>2, <1>4 DEF Index
  <2> QED BY <1>1, <1>3, <1>6, <1>7, <2>1 DEF StoreInv, NoGap
<1> QED BY <1>1, <1>2, <1>3, <1>5, <1>8, <1>9, <1>10, <1>11, StoreFlushed DEF LogOk

\* One key removed: of a truncation, after everything acknowledged; of a purge,
\* something the state machine has on disk.
LEMMA StoreRemove ==
  ASSUME StoreInv, RemoveNext
  PROVE  StoreInv'
<1> DEFINE key == SmallestOf(op.left)
<1>1. op.left \in SUBSET Nat /\ op.left \subseteq Index /\ op.left # {}
  BY DEF RemoveNext, StoreInv, TypeOK, Operation, Index
<1>2. key \in op.left
  BY <1>1, SmallestIn
<1>3. /\ mem' = [mem EXCEPT !.entries[key] = NoEntry]
      /\ op' = [op EXCEPT !.left = @ \ {key}]
      /\ UNCHANGED <<disk, sm, smDisk, smOp, snap, known, acked, granted, chosen, cut, crashes>>
  BY DEF RemoveNext, smVars
<1> HIDE DEF key
<1>4. mem \in LogStore /\ op \in Operation /\ key \in Index
  BY <1>1, <1>2 DEF StoreInv, TypeOK
<1>5. /\ mem' \in LogStore /\ mem'.purged = mem.purged /\ mem'.committed = mem.committed
      /\ mem'.entries = [mem.entries EXCEPT ![key] = NoEntry]
  BY <1>3, <1>4 DEF LogStore
<1>6. op' \in Operation /\ op'.kind = op.kind /\ op'.upto = op.upto /\ op'.left = op.left \ {key}
  BY <1>3, <1>4 DEF Operation
<1>7. op.kind = "truncate" \/ op.kind = "purge"
  BY <1>1 DEF StoreInv, OpShape
<1>8. /\ Present(mem)' = Present(mem) \ {key}
      /\ \A i \in Present(mem)' : mem'.entries[i] = mem.entries[i]
      /\ Present(disk)' = Present(disk)
  <2>1. DOMAIN mem.entries = Index
    BY <1>4 DEF LogStore
  <2> QED BY <1>3, <1>4, <1>5, <2>1 DEF Present
<1>9. TypeOK'
  BY <1>3, <1>5, <1>6 DEF StoreInv, TypeOK
<1>10. Quiet'
  BY <1>3, <1>6, <1>7 DEF StoreInv, Quiet
<1>11. Order'
  BY <1>3, <1>5, <1>6 DEF StoreInv, Order
<1>12. OpShape'
  BY <1>3, <1>5, <1>6, <1>7, <1>8 DEF StoreInv, OpShape
<1>13. Agree(mem)' /\ Agree(disk)'
  BY <1>3, <1>5, <1>8 DEF StoreInv, Agree
<1>14. /\ op.kind = "truncate" => key >= op.upto /\ acked < op.upto
       /\ op.kind = "purge" => key <= op.upto /\ op.upto <= smDisk.last_applied
  BY <1>2 DEF StoreInv, OpShape
<1>15. /\ key \in Nat /\ op.upto \in Nat /\ acked \in Nat /\ smDisk.last_applied \in Nat
       /\ Index \subseteq Nat
  BY <1>4, BoundsAssumption DEF StoreInv, TypeOK, Operation, RaftState, Index
<1>16. AckedIn(mem)' /\ AckedIn(disk)'
  <2>1. key > acked \/ key <= smDisk.last_applied
    BY <1>7, <1>14, <1>15
  <2> QED BY <1>3, <1>8, <1>15, <2>1 DEF StoreInv, AckedIn
<1>17. \A i, k : Removing(i, k)' <=> Removing(i, k)
  BY <1>6 DEF Removing
<1>18. \A k \in Present(mem) : key < k => Removing(key, k)
  <2>1. Present(mem) \subseteq Nat
    BY <1>15 DEF Present
  <2> QED BY <1>7, <1>14, <1>15, <2>1 DEF Removing
<1>19. NoHole(mem)' /\ NoHole(disk)'
  BY <1>3, <1>8, <1>17, <1>18 DEF StoreInv, NoHole
<1>20. NoGap(mem)' /\ NoGap(disk)'
  BY <1>3, <1>5, <1>8, <1>17, <1>18 DEF StoreInv, NoGap
<1>21. States'
  BY <1>3 DEF StoreInv, States
<1> QED BY <1>9, <1>10, <1>11, <1>12, <1>13, <1>16, <1>19, <1>20, <1>21 DEF StoreInv

\* The numbers that the invariant compares.
LEMMA Numbers ==
  ASSUME TypeOK
  PROVE  /\ MaxIndex \in Nat /\ Index \subseteq Nat /\ Index \subseteq 0..MaxIndex
         /\ known \in Nat /\ snap \in Nat /\ acked \in Nat /\ Len(chosen) \in Nat
         /\ mem.purged \in Nat /\ mem.committed \in Nat
         /\ disk.purged \in Nat /\ disk.committed \in Nat
         /\ sm.last_applied \in Nat /\ smDisk.last_applied \in Nat /\ op.upto \in Nat
<1>1. MaxIndex \in Nat /\ Index \subseteq Nat /\ Index \subseteq 0..MaxIndex
  BY BoundsAssumption DEF Index
<1>2. known \in Nat /\ snap \in Nat /\ acked \in Nat /\ Len(chosen) \in Nat
  BY <1>1 DEF TypeOK
<1>3. /\ mem.purged \in Nat /\ mem.committed \in Nat
      /\ disk.purged \in Nat /\ disk.committed \in Nat
  BY <1>1 DEF TypeOK, LogStore
<1>4. sm.last_applied \in Nat /\ smDisk.last_applied \in Nat
  BY DEF TypeOK, RaftState
<1>5. op.upto \in Nat
  BY <1>1 DEF TypeOK, Operation
<1> QED BY <1>1, <1>2, <1>3, <1>4, <1>5

\* A removal begins: nothing of the log changes yet, and what a truncation is
\* about to remove is no longer acknowledged.
LEMMA StoreBeginRemoval ==
  ASSUME StoreInv, NEW n \in Index, Truncate(n) \/ Purge(n)
  PROVE  StoreInv'
<1>1. /\ op = Idle /\ mem' = mem /\ disk' = disk /\ known' = known
      /\ UNCHANGED <<sm, smDisk, smOp, snap, granted, chosen, cut, crashes>>
  BY DEF Truncate, Purge, Begin, smVars
<1>2. op.kind = "idle" /\ disk = mem
  BY <1>1 DEF Idle, StoreInv, Quiet
<1>3. /\ MaxIndex \in Nat /\ n \in Nat /\ n \in 0..MaxIndex /\ acked \in 0..MaxIndex
      /\ Len(chosen) \in Nat /\ mem.committed \in Nat /\ smDisk.last_applied \in Nat
      /\ mem.purged \in Nat /\ snap \in Nat /\ Index \subseteq Nat
  BY Numbers DEF StoreInv, TypeOK
<1>4. /\ acked' \in 0..MaxIndex /\ acked' <= acked /\ mem.committed <= acked'
      /\ op'.kind \in {"truncate", "purge"} /\ op' \in Operation
      /\ OpShape'
  <2>1. Present(mem)' = Present(mem) /\ Present(mem) \subseteq Index
    BY <1>1 DEF Present
  <2>2. CASE Truncate(n)
    <3>1. /\ op' = [kind |-> "truncate", left |-> {k \in Present(mem) : k >= n}, upto |-> n]
          /\ n > Len(chosen) /\ acked' = IF acked < n THEN acked ELSE n - 1
      BY <2>2 DEF Truncate, Begin
    <3>2. op' \in Operation
      BY <1>3, <2>1, <3>1 DEF Operation
    <3>3. acked' \in 0..MaxIndex /\ acked' <= acked /\ acked' < n
      BY <1>3, <3>1
    <3>4. mem.committed <= acked'
      BY <1>3, <3>1 DEF StoreInv, Order
    <3>5. OpShape'
      BY <1>1, <1>3, <2>1, <3>1, <3>3 DEF OpShape
    <3> QED BY <3>1, <3>2, <3>3, <3>4, <3>5
  <2>3. CASE Purge(n)
    <3>1. /\ op' = [kind |-> "purge", left |-> {k \in Present(mem) : k <= n}, upto |-> n]
          /\ mem.purged < n /\ n <= snap /\ acked' = acked
      BY <2>3 DEF Purge, Begin
    <3>2. op' \in Operation
      BY <1>3, <2>1, <3>1 DEF Operation
    <3>3. acked' \in 0..MaxIndex /\ acked' <= acked
      BY <1>3, <3>1
    <3>4. mem.committed <= acked' /\ n <= smDisk.last_applied
      BY <1>3, <3>1 DEF StoreInv, Order
    <3>5. OpShape'
      BY <1>1, <1>3, <2>1, <3>1, <3>4 DEF OpShape
    <3> QED BY <3>1, <3>2, <3>3, <3>4, <3>5
  <2> QED BY <2>2, <2>3
<1>5. Present(mem)' = Present(mem) /\ Present(disk)' = Present(disk)
  BY <1>1 DEF Present
<1>6. TypeOK'
  BY <1>1, <1>4 DEF StoreInv, TypeOK
<1>7. Quiet'
  BY <1>1, <1>4 DEF StoreInv, Quiet
<1>8. Order'
  BY <1>1, <1>2, <1>4 DEF StoreInv, Order
<1>9. Agree(mem)' /\ Agree(disk)'
  BY <1>1, <1>5 DEF StoreInv, Agree
<1>10. AckedIn(mem)' /\ AckedIn(disk)'
  <2>1. \A i \in 1..acked' : i \in 1..acked
    BY <1>3, <1>4
  <2> QED BY <1>1, <1>5, <2>1 DEF StoreInv, AckedIn
<1>11. \A i, k : ~Removing(i, k)
  BY <1>2 DEF Removing
<1>12. NoHole(mem)' /\ NoHole(disk)'
  BY <1>1, <1>5, <1>11 DEF StoreInv, NoHole
<1>13. NoGap(mem)' /\ NoGap(disk)'
  BY <1>1, <1>5, <1>11 DEF StoreInv, NoGap
<1>14. States'
  BY <1>1 DEF StoreInv, States
<1> QED BY <1>4, <1>6, <1>7, <1>8, <1>9, <1>10, <1>12, <1>13, <1>14 DEF StoreInv

\* The history grows to n, by the entries of the log.
LEMMA CommitGrows ==
  ASSUME StoreInv, NEW n \in Index, SaveCommitted(n)
  PROVE  /\ chosen' \in Seq(Command) /\ Len(chosen') >= Len(chosen) /\ Len(chosen') >= n
         /\ Len(chosen') <= MaxIndex
         /\ \A i \in 1..Len(chosen) : chosen'[i] = chosen[i]
         /\ \A i \in known + 1 .. n : chosen'[i] = mem.entries[i]
<1>1. /\ known < n /\ n <= acked /\ Readable(known + 1, n) /\ op = Idle
      /\ \A i \in known + 1 .. n : i <= Len(chosen) => mem.entries[i] = chosen[i]
      /\ chosen' = IF n > Len(chosen) THEN chosen \o EntriesOf(Len(chosen) + 1, n) ELSE chosen
  BY DEF SaveCommitted, Begin
<1>2. /\ mem \in LogStore /\ MaxIndex \in Nat /\ n \in Nat /\ n \in 0..MaxIndex
      /\ known \in Nat /\ chosen \in Seq(Command) /\ Len(chosen) \in Nat
  BY Numbers DEF StoreInv, TypeOK
<1>3. known <= Len(chosen) /\ Len(chosen) <= MaxIndex
  BY DEF StoreInv, Order
<1>4. \A i \in known + 1 .. n : mem.entries[i] \in Command
  <2>1. \A i \in known + 1 .. n : i \in Present(mem)
    BY <1>1 DEF Readable
  <2>2. \A i \in Present(mem) : mem.entries[i] \in Command
    BY <1>2 DEF LogStore, Present
  <2> QED BY <2>1, <2>2
<1>5. CASE n <= Len(chosen)
  BY <1>1, <1>2, <1>3, <1>5
<1>6. CASE n > Len(chosen)
  <2> DEFINE m == Len(chosen)
             more == EntriesOf(m + 1, n)
  <2>1. more = [i \in 1..(n - m) |-> mem.entries[m + i]]
    BY <1>2 DEF EntriesOf
  <2>2. n - m \in Nat
    BY <1>2, <1>6
  <2>3. \A i \in 1..(n - m) : m + i \in known + 1 .. n
    BY <1>2, <1>3, <2>2
  <2>4. \A i \in 1..(n - m) : mem.entries[m + i] \in Command
    BY <2>3, <1>4
  <2>5. more \in Seq(Command) /\ Len(more) = n - m
    BY <2>1, <2>2, <2>4
  <2>6. \A i \in 1..(n - m) : more[i] = mem.entries[m + i]
    BY <2>1
  <2> HIDE DEF more
  <2>7. chosen' = chosen \o more
    BY <1>1, <1>6 DEF more
  <2>8. chosen' \in Seq(Command) /\ Len(chosen') = n
    BY <1>2, <2>2, <2>5, <2>7
  <2>9. \A i \in 1..m : chosen'[i] = chosen[i]
    BY <1>2, <2>5, <2>7
  <2>10. ASSUME NEW i \in known + 1 .. n PROVE chosen'[i] = mem.entries[i]
    <3>1. CASE i <= m
      BY <1>1, <1>2, <2>9, <2>10, <3>1
    <3>2. CASE i > m
      <4>1. i - m \in 1..(n - m) /\ m + (i - m) = i
        BY <1>2, <3>2
      <4>2. chosen'[i] = more[i - m]
        BY <1>2, <2>5, <2>7, <4>1, <3>2
      <4> QED BY <2>6, <4>1, <4>2
    <3> QED BY <1>2, <3>1, <3>2
  <2> QED BY <1>2, <1>6, <2>8, <2>9, <2>10
<1> QED BY <1>2, <1>5, <1>6

\* What is committed now was acknowledged, and is the longer history.
LEMMA StoreCommit ==
  ASSUME StoreInv, NEW n \in Index, SaveCommitted(n)
  PROVE  StoreInv'
<1>1. /\ known < n /\ n <= acked /\ Readable(known + 1, n)
      /\ \A i \in known + 1 .. n : i <= Len(chosen) => mem.entries[i] = chosen[i]
      /\ op = Idle /\ op' = [kind |-> "save_committed", left |-> {}, upto |-> n]
      /\ mem' = [mem EXCEPT !.committed = n]
      /\ chosen' = IF n > Len(chosen) THEN chosen \o EntriesOf(Len(chosen) + 1, n) ELSE chosen
      /\ UNCHANGED <<disk, sm, smDisk, smOp, snap, known, acked, granted, cut, crashes>>
  BY DEF SaveCommitted, Begin, smVars
<1>2. op.kind = "idle" /\ disk = mem
  BY <1>1 DEF Idle, StoreInv, Quiet
<1>3. /\ mem \in LogStore /\ MaxIndex \in Nat /\ n \in Nat /\ n \in 0..MaxIndex
      /\ known \in Nat /\ acked \in Nat /\ chosen \in Seq(Command) /\ Len(chosen) \in Nat
      /\ mem.committed \in Nat /\ smDisk.last_applied \in Nat /\ sm.last_applied \in Nat
      /\ Index \subseteq Nat
  BY Numbers DEF StoreInv, TypeOK
<1>4. /\ mem' \in LogStore /\ mem'.entries = mem.entries /\ mem'.purged = mem.purged
      /\ mem'.committed = n
  BY <1>1, <1>3 DEF LogStore
<1>5. /\ Present(mem)' = Present(mem) /\ Present(disk)' = Present(disk)
      /\ Present(mem) \subseteq Index
  BY <1>1, <1>4 DEF Present
<1>6. /\ known <= Len(chosen) /\ Len(chosen) <= MaxIndex /\ mem.committed <= known
      /\ smDisk.last_applied <= sm.last_applied /\ sm.last_applied <= known
  BY <1>2 DEF StoreInv, Order
<1>7. /\ chosen' \in Seq(Command) /\ Len(chosen') >= Len(chosen) /\ Len(chosen') >= n
      /\ Len(chosen') <= MaxIndex
      /\ \A i \in 1..Len(chosen) : chosen'[i] = chosen[i]
      /\ \A i \in known + 1 .. n : chosen'[i] = mem.entries[i]
  BY CommitGrows
<1>8. TypeOK'
  <2>1. op' \in Operation
    BY <1>1, <1>3 DEF Operation
  <2> QED BY <1>1, <1>4, <1>7, <2>1 DEF StoreInv, TypeOK
<1>9. Quiet'
  BY <1>1 DEF StoreInv, Quiet
<1>10. Len(chosen') \in Nat
  BY <1>7
<1>11. Order'
  BY <1>1, <1>2, <1>3, <1>4, <1>6, <1>7, <1>10 DEF StoreInv, Order
<1>12. OpShape'
  BY <1>1, <1>3, <1>4 DEF OpShape
<1>13. Agree(mem)' /\ Agree(disk)'
  <2>1. ASSUME NEW i \in Present(mem), i <= known \/ i <= n PROVE mem.entries[i] = chosen'[i]
    <3>1. i \in Nat /\ i >= 1
      BY <1>5 DEF Index
    <3>2. CASE i <= known
      <4>1. mem.entries[i] = chosen[i]
        BY <3>2 DEF StoreInv, Agree
      <4> QED BY <1>3, <1>6, <1>7, <3>1, <3>2, <4>1
    <3>3. CASE i > known
      BY <1>1, <1>3, <1>7, <2>1, <3>1, <3>3
    <3> QED BY <1>3, <3>1, <3>2, <3>3
  <2> QED BY <1>1, <1>2, <1>4, <1>5, <2>1 DEF Agree
<1>14. AckedIn(mem)' /\ AckedIn(disk)'
  BY <1>1, <1>5 DEF StoreInv, AckedIn
<1>15. \A i, k : ~Removing(i, k) /\ ~Removing(i, k)'
  BY <1>1, <1>2 DEF Removing
<1>16. NoHole(mem)' /\ NoHole(disk)'
  BY <1>1, <1>5, <1>15 DEF StoreInv, NoHole
<1>17. NoGap(mem)' /\ NoGap(disk)'
  BY <1>1, <1>4, <1>5, <1>15 DEF StoreInv, NoGap
<1>18. States'
  <2>1. \A k \in Nat : k <= known => StateAfter(chosen', k) = StateAfter(chosen, k)
    <3>1. SUFFICES ASSUME NEW k \in Nat, k <= known
                   PROVE  StateAfter(chosen', k) = StateAfter(chosen, k)
      OBVIOUS
    <3>2. \A i \in 1..k : chosen'[i] = chosen[i]
      BY <1>3, <1>6, <1>7, <3>1
    <3> QED BY <3>2, AfterReads
  <2>2. smDisk.last_applied <= known
    BY <1>3, <1>6
  <2> QED BY <1>1, <1>3, <1>6, <2>1, <2>2 DEF StoreInv, States
<1> QED BY <1>8, <1>9, <1>11, <1>12, <1>13, <1>14, <1>16, <1>17, <1>18 DEF StoreInv

\* apply reads committed entries: the state goes on to a longer prefix.
LEMMA StoreApply ==
  ASSUME StoreInv, NEW n \in Index, Apply(n)
  PROVE  StoreInv'
<1>1. /\ smOp = "idle" /\ smOp' = "apply" /\ sm.last_applied < n /\ n <= known
      /\ Readable(sm.last_applied + 1, n)
      /\ sm' = ApplyRange(sm, mem.entries, sm.last_applied + 1, n)
      /\ UNCHANGED <<mem, disk, op, smDisk, snap, known, acked, granted, chosen, cut, crashes>>
  BY DEF Apply, logVars
<1>2. /\ n \in Nat /\ sm.last_applied \in Nat /\ known \in Nat /\ chosen \in Seq(Command)
      /\ Len(chosen) \in Nat /\ smDisk.last_applied \in Nat
  BY Numbers DEF StoreInv, TypeOK
<1>3. known <= Len(chosen) /\ smDisk.last_applied <= sm.last_applied
  BY DEF StoreInv, Order
<1>4. \A i \in sm.last_applied + 1 .. n : mem.entries[i] = chosen[i]
  <2>1. ASSUME NEW i \in sm.last_applied + 1 .. n PROVE mem.entries[i] = chosen[i]
    <3>1. i \in Present(mem) /\ i <= known
      BY <1>1, <1>2 DEF Readable
    <3> QED BY <3>1 DEF StoreInv, Agree
  <2> QED BY <2>1
<1>5. sm' = StateAfter(chosen, n)
  <2>1. sm = StateAfter(chosen, sm.last_applied)
    BY DEF StoreInv, States
  <2> DEFINE m == sm.last_applied
             log == mem.entries
  <2>2. m \in Nat /\ m <= n /\ \A i \in m + 1 .. n : log[i] = chosen[i]
    BY <1>1, <1>2, <1>4
  <2> HIDE DEF m, log
  <2>3. ApplyRange(StateAfter(chosen, m), log, m + 1, n) = StateAfter(chosen, n)
    BY <1>2, <2>2, AfterApply
  <2> QED BY <1>1, <2>1, <2>3 DEF m, log
<1>6. sm' \in RaftState /\ sm'.last_applied = n
  BY <1>1, <1>2, <1>3, <1>5, AfterTyped
<1>7. Present(mem)' = Present(mem) /\ Present(disk)' = Present(disk)
  BY <1>1 DEF Present
<1>8. TypeOK'
  BY <1>1, <1>6 DEF StoreInv, TypeOK
<1>9. Quiet'
  BY <1>1 DEF StoreInv, Quiet
<1>10. Order'
  BY <1>1, <1>2, <1>3, <1>6 DEF StoreInv, Order
<1>11. OpShape'
  BY <1>1, <1>7 DEF StoreInv, OpShape
<1>12. \A i, k : Removing(i, k)' <=> Removing(i, k)
  BY <1>1 DEF Removing
<1>13. Agree(mem)' /\ Agree(disk)' /\ AckedIn(mem)' /\ AckedIn(disk)'
  BY <1>1, <1>7 DEF StoreInv, Agree, AckedIn
<1>14. NoHole(mem)' /\ NoHole(disk)'
  BY <1>1, <1>7, <1>12 DEF StoreInv, NoHole
<1>15. NoGap(mem)' /\ NoGap(disk)'
  BY <1>1, <1>7, <1>12 DEF StoreInv, NoGap
<1>16. States'
  BY <1>1, <1>5, <1>6 DEF StoreInv, States
<1> QED BY <1>8, <1>9, <1>10, <1>11, <1>13, <1>14, <1>15, <1>16 DEF StoreInv

\* A snapshot's history is the same one, or a longer one.
LEMMA InstallGrows ==
  ASSUME StoreInv, NEW cmds \in Batch \cup {<<>>}
  PROVE  /\ chosen \o cmds \in Seq(Command) /\ Len(chosen \o cmds) >= Len(chosen)
         /\ \A i \in 1..Len(chosen) : (chosen \o cmds)[i] = chosen[i]
<1>1. cmds \in Seq(Command)
  <2>1. CASE cmds = <<>>
    BY <2>1
  <2>2. CASE cmds \in Batch
    BY <2>2, BatchTyped
  <2> QED BY <2>1, <2>2
<1>2. chosen \in Seq(Command)
  BY DEF StoreInv, TypeOK
<1> QED BY <1>1, <1>2

\* A snapshot is the state after a history that this node's log does not contradict.
LEMMA StoreInstall ==
  ASSUME StoreInv, NEW cmds \in Batch \cup {<<>>}, InstallSnapshot(cmds)
  PROVE  StoreInv'
<1> DEFINE history == chosen \o cmds
<1>1. /\ smOp = "idle" /\ smOp' = "install" /\ op = Idle
      /\ Len(history) <= MaxIndex /\ Len(history) > known
      /\ \A i \in Present(mem) : i <= Len(history) => mem.entries[i] = history[i]
      /\ chosen' = history /\ sm' = StateAfter(history, Len(history)) /\ known' = Len(history)
      /\ UNCHANGED <<mem, disk, op, smDisk, snap, acked, granted, cut, crashes>>
  BY DEF InstallSnapshot, logVars
<1>2. op.kind = "idle" /\ disk = mem /\ smDisk = sm
  BY <1>1 DEF Idle, StoreInv, Quiet
<1>3. /\ MaxIndex \in Nat /\ chosen \in Seq(Command) /\ Len(chosen) \in Nat /\ known \in Nat
      /\ mem.committed \in Nat /\ smDisk.last_applied \in Nat /\ sm.last_applied \in Nat
      /\ Index \subseteq Nat
  BY Numbers DEF StoreInv, TypeOK
<1>4. /\ history \in Seq(Command) /\ Len(history) \in Nat /\ Len(history) >= Len(chosen)
      /\ \A i \in 1..Len(chosen) : history[i] = chosen[i]
  BY InstallGrows
<1> HIDE DEF history
<1>5. /\ smDisk.last_applied <= sm.last_applied /\ sm.last_applied <= known
      /\ known <= Len(chosen) /\ mem.committed <= known
  BY <1>2 DEF StoreInv, Order
<1>6. sm' \in RaftState /\ sm'.last_applied = Len(history)
  BY <1>1, <1>4, AfterTyped
<1>7. Present(mem)' = Present(mem) /\ Present(disk)' = Present(disk)
  BY <1>1 DEF Present
<1>8. TypeOK'
  <2>1. known' \in 0..MaxIndex
    BY <1>1, <1>3, <1>4
  <2> QED BY <1>1, <1>4, <1>6, <2>1 DEF StoreInv, TypeOK
<1>9. Quiet'
  BY <1>1 DEF StoreInv, Quiet
<1>10. Order'
  BY <1>1, <1>3, <1>4, <1>5, <1>6 DEF StoreInv, Order
<1>11. OpShape'
  BY <1>1, <1>2, <1>7 DEF StoreInv, OpShape
<1>12. Agree(mem)' /\ Agree(disk)'
  <2>1. \A i \in Present(mem) : i <= mem.committed => i <= Len(history)
    <3>1. Present(mem) \subseteq Nat
      BY <1>3 DEF Present
    <3> QED BY <1>1, <1>3, <1>4, <1>5, <3>1
  <2> QED BY <1>1, <1>2, <1>7, <2>1 DEF Agree
<1>13. AckedIn(mem)' /\ AckedIn(disk)'
  BY <1>1, <1>7 DEF StoreInv, AckedIn
<1>14. \A i, k : Removing(i, k)' <=> Removing(i, k)
  BY <1>1 DEF Removing
<1>15. NoHole(mem)' /\ NoHole(disk)'
  BY <1>1, <1>7, <1>14 DEF StoreInv, NoHole
<1>16. NoGap(mem)' /\ NoGap(disk)'
  BY <1>1, <1>7, <1>14 DEF StoreInv, NoGap
<1>17. States'
  <2> DEFINE m == smDisk.last_applied
  <2>1. m \in Nat /\ \A i \in 1..m : history[i] = chosen[i]
    BY <1>3, <1>4, <1>5
  <2> HIDE DEF m
  <2>2. StateAfter(history, m) = StateAfter(chosen, m)
    BY <2>1, AfterReads
  <2>3. smDisk = StateAfter(chosen, m)
    BY DEF StoreInv, States, m
  <2> QED BY <1>1, <1>6, <2>2, <2>3 DEF States, m
<1> QED BY <1>8, <1>9, <1>10, <1>11, <1>12, <1>13, <1>15, <1>16, <1>17 DEF StoreInv

\* The state machine's disk catches up with its memory, by the flush that ends an
\* operation or by itself.
LEMMA StoreStateSaved ==
  ASSUME StoreInv, smDisk' = sm, sm' = sm, smOp' \in {smOp, "idle"},
         snap' \in {snap, sm.last_applied},
         acked' \in {acked, LargestOf({acked, sm.last_applied})},
         UNCHANGED <<mem, disk, op, known, granted, chosen, cut, crashes>>
  PROVE  StoreInv'
<1>1. /\ MaxIndex \in Nat /\ Index \subseteq Nat /\ known \in Nat /\ acked \in Nat
      /\ Len(chosen) \in Nat /\ mem.purged \in Nat /\ disk.purged \in Nat /\ snap \in Nat
      /\ mem.committed \in Nat /\ smDisk.last_applied \in Nat /\ sm.last_applied \in Nat
      /\ op.upto \in Nat
  BY Numbers DEF StoreInv
<1>2. /\ smDisk.last_applied <= sm.last_applied /\ sm.last_applied <= known
      /\ known <= Len(chosen) /\ Len(chosen) <= MaxIndex
  BY DEF StoreInv, Order
<1>3. acked' \in 0..MaxIndex /\ acked' >= acked /\ (acked' = acked \/ acked' = sm.last_applied)
  <2>1. acked \in 0..MaxIndex
    BY DEF StoreInv, TypeOK
  <2>2. {acked, sm.last_applied} \in SUBSET (0..MaxIndex)
    BY <1>1, <1>2, <2>1
  <2>3. LET a == LargestOf({acked, sm.last_applied})
        IN  a \in {acked, sm.last_applied} /\ acked <= a
    BY <1>1, <2>2, LargestIn
  <2> QED BY <1>1, <2>1, <2>2, <2>3
<1>4. Present(mem)' = Present(mem) /\ Present(disk)' = Present(disk)
  BY DEF Present
<1>5. TypeOK'
  <2>1. snap' \in 0..MaxIndex
    BY <1>1, <1>2 DEF StoreInv, TypeOK
  <2> QED BY <1>3, <2>1 DEF StoreInv, TypeOK
<1>6. Quiet'
  BY DEF StoreInv, Quiet
<1>7. Order'
  BY <1>1, <1>2, <1>3 DEF StoreInv, Order
<1>8. OpShape'
  BY <1>1, <1>2, <1>3, <1>4 DEF StoreInv, OpShape
<1>9. Agree(mem)' /\ Agree(disk)'
  BY <1>4 DEF StoreInv, Agree
<1>10. AckedIn(mem)' /\ AckedIn(disk)'
  <2>1. \A i \in 1..acked' : i \in 1..acked \/ i <= sm.last_applied
    BY <1>1, <1>3
  <2>2. \A i \in 1..acked : i <= smDisk.last_applied => i <= sm.last_applied
    BY <1>1, <1>2
  <2> QED BY <1>4, <2>1, <2>2 DEF StoreInv, AckedIn
<1>11. \A i, k : Removing(i, k)' <=> Removing(i, k)
  BY DEF Removing
<1>12. NoHole(mem)' /\ NoHole(disk)'
  <2>1. \A i \in Index : sm.last_applied < i => smDisk.last_applied < i
    BY <1>1, <1>2
  <2> QED BY <1>4, <1>11, <2>1 DEF StoreInv, NoHole
<1>13. NoGap(mem)' /\ NoGap(disk)'
  BY <1>4, <1>11 DEF StoreInv, NoGap
<1>14. States'
  BY DEF StoreInv, States
<1> QED BY <1>5, <1>6, <1>7, <1>8, <1>9, <1>10, <1>12, <1>13, <1>14 DEF StoreInv

\* The log's disk catches up with its memory by itself.
LEMMA StoreLogSaved ==
  ASSUME StoreInv, disk' = mem,
         UNCHANGED <<mem, op, sm, smDisk, smOp, known, snap, acked, granted, chosen, cut, crashes>>
  PROVE  StoreInv'
<1>1. mem.committed \in Nat
  BY Numbers DEF StoreInv
<1>2. TypeOK'
  BY DEF StoreInv, TypeOK
<1>3. Quiet'
  BY DEF StoreInv, Quiet
<1>4. Order'
  BY <1>1 DEF StoreInv, Order
<1>5. Present(mem)' = Present(mem) /\ Present(disk)' = Present(mem)
  BY DEF Present
<1>6. OpShape'
  BY <1>5 DEF StoreInv, OpShape
<1>7. \A i, k : Removing(i, k)' <=> Removing(i, k)
  BY DEF Removing
<1>8. Agree(mem)' /\ Agree(disk)' /\ AckedIn(mem)' /\ AckedIn(disk)'
  BY <1>5 DEF StoreInv, Agree, AckedIn
<1>9. NoHole(mem)' /\ NoHole(disk)'
  BY <1>5, <1>7 DEF StoreInv, NoHole
<1>10. NoGap(mem)' /\ NoGap(disk)'
  BY <1>5, <1>7 DEF StoreInv, NoGap
<1>11. States'
  BY DEF StoreInv, States
<1> QED BY <1>2, <1>3, <1>4, <1>6, <1>8, <1>9, <1>10, <1>11 DEF StoreInv

\* A crash: both databases are what their disks held, at different moments.
LEMMA StoreRestart ==
  ASSUME StoreInv, Restart
  PROVE  StoreInv'
<1> DEFINE la == smDisk.last_applied
           top == LargestOf({disk.committed, la})
<1>1. /\ mem' = disk /\ disk' = disk /\ sm' = smDisk /\ smDisk' = smDisk /\ smOp' = "idle"
      /\ snap' = la /\ known' = top /\ acked' = acked /\ granted' = granted
      /\ chosen' = chosen /\ cut' = cut \cup ({op.kind} \cap {"truncate", "purge"})
      /\ crashes' = crashes + 1 /\ crashes < MaxCrashes
  BY DEF Restart
<1>2. \/ op' = Idle
      \/ op' = [kind |-> "purge", left |-> {k \in Present(disk) : k <= la}, upto |-> la]
  BY DEF Restart
<1>3. /\ MaxIndex \in Nat /\ Index \subseteq Nat /\ known \in Nat /\ acked \in Nat
      /\ Len(chosen) \in Nat /\ mem.committed \in Nat /\ disk.committed \in Nat
      /\ disk.purged \in Nat /\ la \in Nat /\ sm.last_applied \in Nat /\ op.upto \in Nat
  BY Numbers DEF StoreInv
<1>4. /\ la <= sm.last_applied /\ sm.last_applied <= known /\ known <= Len(chosen)
      /\ Len(chosen) <= MaxIndex /\ disk.purged <= la /\ mem.committed <= Len(chosen)
      /\ mem.committed <= acked /\ disk.committed <= mem.committed
  BY DEF StoreInv, Order
<1>5. top \in {disk.committed, la} /\ disk.committed <= top /\ la <= top
  <2>1. {disk.committed, la} \in SUBSET (0..MaxIndex)
    BY <1>3, <1>4
  <2> HIDE DEF la
  <2> QED BY <1>3, <2>1, LargestIn
<1> HIDE DEF top, la
<1>6. top \in Nat /\ top <= Len(chosen) /\ top <= MaxIndex
  BY <1>3, <1>4, <1>5
<1>7. Present(mem)' = Present(disk) /\ Present(disk)' = Present(disk)
      /\ Present(disk) \subseteq Index
  BY <1>1 DEF Present
<1>8. op' \in Operation
  <2>1. Idle \in Operation
    BY BoundsAssumption DEF Idle, Operation
  <2>2. la \in 0..MaxIndex
    BY <1>3, <1>4
  <2>3. [kind |-> "purge", left |-> {k \in Present(disk) : k <= la}, upto |-> la] \in Operation
    BY <1>7, <2>2 DEF Operation
  <2> QED BY <1>2, <2>1, <2>3
<1>9. \/ op'.kind = "idle" /\ op' = Idle /\ op'.left = {}
      \/ op'.kind = "purge" /\ op'.upto = la /\ \A k \in op'.left : k <= la
  BY <1>2 DEF Idle
<1>10. TypeOK'
  <2>1. crashes' \in 0..MaxCrashes
    BY <1>1, BoundsAssumption DEF StoreInv, TypeOK
  <2>2. cut' \subseteq {"truncate", "purge"}
    BY <1>1 DEF StoreInv, TypeOK
  <2>3. known' \in 0..MaxIndex /\ snap' \in 0..MaxIndex
    BY <1>1, <1>3, <1>4, <1>6
  <2> QED BY <1>1, <1>8, <2>1, <2>2, <2>3 DEF StoreInv, TypeOK
<1>11. Quiet'
  BY <1>1, <1>9 DEF Quiet
<1>12. smDisk'.last_applied = la /\ sm'.last_applied = la
  BY <1>1 DEF la
<1>13. Order'
  BY <1>1, <1>3, <1>4, <1>5, <1>6, <1>12 DEF Order
<1>14. OpShape'
  BY <1>1, <1>3, <1>4, <1>9, <1>12 DEF OpShape
<1>15. Agree(mem)' /\ Agree(disk)'
  <2>1. ASSUME NEW i \in Present(disk), i <= top \/ i <= disk.committed
        PROVE  disk.entries[i] = chosen[i]
    <3>1. i \in Nat
      BY <1>3, <1>7
    <3>2. i <= known \/ i <= mem.committed
      BY <1>3, <1>4, <1>5, <2>1, <3>1
    <3> QED BY <3>2 DEF StoreInv, Agree
  <2> QED BY <1>1, <1>7, <2>1 DEF Agree
<1>16. AckedIn(mem)' /\ AckedIn(disk)'
  BY <1>1, <1>7 DEF StoreInv, AckedIn
\* A cut truncation is remembered; a cut purge removed only what is on disk.
<1>17. "truncate" \notin cut' => /\ "truncate" \notin cut
                                 /\ \A i \in Index, k \in Index : la < i => ~Removing(i, k)
  <2>1. op.kind = "purge" => op.upto <= la
    BY DEF StoreInv, OpShape, la
  <2>2. "truncate" \notin cut' => "truncate" \notin cut /\ op.kind # "truncate"
    BY <1>1
  <2> QED BY <1>3, <2>1, <2>2 DEF Removing
<1>18. NoHole(mem)' /\ NoHole(disk)'
  <2>1. smDisk.last_applied = la
    BY DEF la
  <2> QED BY <1>1, <1>7, <1>12, <1>17, <2>1 DEF StoreInv, NoHole
<1>19. cut' = {} => cut = {} /\ \A i, k : ~Removing(i, k)
  BY <1>1 DEF Removing
<1>20. NoGap(mem)' /\ NoGap(disk)'
  BY <1>1, <1>7, <1>19 DEF StoreInv, NoGap
<1>21. States'
  BY <1>1 DEF StoreInv, States
<1> QED BY <1>10, <1>11, <1>13, <1>14, <1>15, <1>16, <1>18, <1>20, <1>21 DEF StoreInv

\* Every step keeps the log, the state machine and the disk in that relation.
LEMMA StoreStep ==
  ASSUME StoreInv, [Next]_vars
  PROVE  StoreInv'
<1>1. CASE StateDone
  <2>1. /\ smDisk' = sm /\ sm' = sm /\ smOp' = "idle" /\ snap' \in {snap, sm.last_applied}
        /\ acked' \in {acked, LargestOf({acked, sm.last_applied})}
        /\ UNCHANGED <<mem, disk, op, known, granted, chosen, cut, crashes>>
    BY <1>1 DEF StateDone, logVars
  <2> QED BY <2>1, StoreStateSaved
<1>2. CASE BuildSnapshot
  <2>1. /\ smOp = "idle" /\ smDisk' = smDisk /\ sm' = sm /\ smOp' = smOp
        /\ snap' = sm.last_applied /\ acked' = acked
        /\ UNCHANGED <<mem, disk, op, known, granted, chosen, cut, crashes>>
    BY <1>2 DEF BuildSnapshot, logVars
  <2>2. smDisk = sm
    BY <2>1 DEF StoreInv, Quiet
  <2> QED BY <2>1, <2>2, StoreStateSaved
<1>3. CASE Persist
  <2>1. CASE disk # mem /\ disk' = mem
             /\ UNCHANGED <<mem, op, smVars, known, acked, granted, chosen, cut, crashes>>
    BY <2>1, StoreLogSaved DEF smVars
  <2>2. CASE smDisk # sm /\ smDisk' = sm
             /\ UNCHANGED <<logVars, sm, smOp, snap, known, acked, granted, chosen, cut, crashes>>
    <3>1. /\ smDisk' = sm /\ sm' = sm /\ smOp' = smOp /\ snap' = snap /\ acked' = acked
          /\ UNCHANGED <<mem, disk, op, known, granted, chosen, cut, crashes>>
      BY <2>2 DEF logVars
    <3> QED BY <3>1, StoreStateSaved
  <2> QED BY <1>3, <2>1, <2>2 DEF Persist
<1>4. CASE UNCHANGED vars
  BY <1>4 DEF vars, StoreInv, TypeOK, Quiet, Order, OpShape, Agree, AckedIn, NoHole, NoGap,
              Removing, States, Present
<1> QED BY <1>1, <1>2, <1>3, <1>4, StoreVotes, StoreAppend, StoreAppendDone, StoreCommit,
           StoreCommittedDone, StoreBeginRemoval, StoreRemove, StoreTruncateDone,
           StorePurgeDone, StoreApply, StoreInstall, StoreRestart DEF Next

\* SledLogStore and SledStateMachine: the relation of the two databases that
\* recovery rests on holds for every log, every batch and every number of crashes.
THEOREM StoreKept == Spec => []StoreInv
BY StoreInit, StoreStep, PTL DEF Spec

\* Every variable keeps its type; last_applied, committed and purged stay in the log.
THEOREM TypeCorrect == Spec => []TypeOK
<1>1. StoreInv => TypeOK
  BY DEF StoreInv
<1> QED BY <1>1, StoreKept, PTL

\* append: what was reported complete is on disk whenever a crash comes.
THEOREM AcksSurvive == Spec => []AckedSurvives
<1>1. StoreInv => AckedSurvives
  BY DEF StoreInv, AckedIn, AckedSurvives
<1> QED BY <1>1, StoreKept, PTL

\* save_committed and apply: a restart finds every entry that it has to replay.
THEOREM ReplayPossible == Spec => []RestartCanReplay
<1>1. ASSUME StoreInv PROVE RestartCanReplay
  <2>1. SUFFICES ASSUME "truncate" \notin cut, NEW i \in Index,
                        smDisk.last_applied < i, i <= disk.committed
                 PROVE  i <= Len(chosen) /\ disk.entries[i] = chosen[i]
    BY DEF RestartCanReplay
  <2>2. /\ Index \subseteq Nat /\ smDisk.last_applied \in Nat /\ acked \in Nat
        /\ disk.committed \in Nat /\ mem.committed \in Nat /\ Len(chosen) \in Nat
    BY <1>1, Numbers DEF StoreInv
  <2>3. /\ disk.committed <= mem.committed /\ mem.committed <= Len(chosen)
        /\ mem.committed <= acked
    BY <1>1 DEF StoreInv, Order
  <2>4. i \in 1..acked /\ i <= mem.committed /\ i <= Len(chosen)
    BY <2>1, <2>2, <2>3 DEF Index
  <2>5. i \in Present(disk)
    BY <1>1, <2>1, <2>2, <2>4 DEF StoreInv, AckedIn
  <2> QED BY <1>1, <2>4, <2>5 DEF StoreInv, Agree
<1> QED BY <1>1, StoreKept, PTL

\* purge and truncate: a hole in the log on disk is always a removal loop's, and
\* one that a purge left is covered by the state machine's disk.
THEOREM HolesExplained == Spec => []HoleNeedsCut
<1>1. ASSUME StoreInv PROVE HoleNeedsCut
  <2> DEFINE last == LargestOf(Present(disk) \cup {0})
  <2>1. SUFFICES ASSUME NEW i \in Index, disk.purged < i, i < last, i \notin Present(disk),
                        "truncate" \notin cut \cup {op.kind}
                 PROVE  "purge" \in cut \cup {op.kind} /\ i <= smDisk.last_applied
    BY DEF HoleNeedsCut
  <2>2. Index \subseteq Nat /\ MaxIndex \in Nat /\ smDisk.last_applied \in Nat /\ op.upto \in Nat
    BY <1>1, Numbers DEF StoreInv
  <2>3. last \in Present(disk)
    <3>1. Present(disk) \cup {0} \in SUBSET (0..MaxIndex)
      BY <2>2 DEF Present, Index
    <3>2. last \in Present(disk) \cup {0}
      BY <2>2, <3>1, LargestIn
    <3> HIDE DEF last
    <3> QED BY <2>1, <2>2, <3>2
  <2> HIDE DEF last
  <2>4. i <= smDisk.last_applied
    <3>1. SUFFICES ASSUME smDisk.last_applied < i PROVE FALSE
      BY <2>2
    <3>2. Removing(i, last)
      BY <1>1, <2>1, <2>3, <3>1 DEF StoreInv, NoHole
    <3>3. op.kind = "purge" /\ i <= op.upto
      BY <2>1, <3>2 DEF Removing
    <3>4. op.upto <= smDisk.last_applied
      BY <1>1, <3>3 DEF StoreInv, OpShape
    <3> QED BY <2>2, <3>1, <3>3, <3>4
  <2>5. "purge" \in cut \cup {op.kind}
    <3>1. SUFFICES ASSUME "purge" \notin cut \cup {op.kind} PROVE FALSE
      OBVIOUS
    <3>2. cut = {}
      BY <1>1, <2>1, <3>1 DEF StoreInv, TypeOK
    <3>3. ~Removing(i, last)
      BY <2>1, <3>1 DEF Removing
    <3> QED BY <1>1, <2>1, <2>3, <3>2, <3>3 DEF StoreInv, NoGap
  <2> QED BY <2>4, <2>5
<1> QED BY <1>1, StoreKept, PTL

\* The history only grows, and what a crash leaves of the state machine is what it
\* was or what the state machine is; not both in one step.
LEMMA DiskMoves ==
  ASSUME StoreInv, [Next]_vars
  PROVE  \/ chosen' = chosen /\ smDisk' \in {smDisk, sm}
         \/ /\ smDisk' = smDisk
            /\ chosen' \in Seq(Command) /\ Len(chosen') >= Len(chosen)
            /\ \A i \in 1..Len(chosen) : chosen'[i] = chosen[i]
<1>1. ASSUME NEW n \in Index, SaveCommitted(n) PROVE smDisk' = smDisk
  BY <1>1 DEF SaveCommitted, smVars
<1>2. ASSUME NEW cmds \in Batch \cup {<<>>}, InstallSnapshot(cmds)
      PROVE  smDisk' = smDisk /\ chosen' = chosen \o cmds
  BY <1>2 DEF InstallSnapshot
<1>3. CASE ~(\E n \in Index : SaveCommitted(n))
           /\ ~(\E cmds \in Batch \cup {<<>>} : InstallSnapshot(cmds))
  BY <1>3 DEF Next, vars, smVars, logVars, SaveVote, SaveVoteDone, AnswerAgain, AppendEntries,
     AppendEntriesDone, SaveCommittedDone, Truncate, Purge, RemoveNext, TruncateDone,
     PurgeDone, Apply, StateDone, BuildSnapshot, Persist, Restart
<1>4. CASE \E n \in Index : SaveCommitted(n)
  BY <1>1, <1>4, CommitGrows
<1>5. CASE \E cmds \in Batch \cup {<<>>} : InstallSnapshot(cmds)
  BY <1>2, <1>5, InstallGrows
<1> QED BY <1>3, <1>4, <1>5

\* apply_command's RegisterJob: the first writer keeps the job, in every registry
\* that a restart may find.
THEOREM OwnersKept == Spec => JobOwnerKept
<1>1. ASSUME StoreInv, [Next]_vars, NEW j \in Job, Registered(smDisk, j)
      PROVE  smDisk'.job_registry[j].node = smDisk.job_registry[j].node
  <2>1. smDisk' = smDisk \/ smDisk' = sm
    BY <1>1, DiskMoves
  <2> DEFINE m == smDisk.last_applied
             n == sm.last_applied
  <2>2. /\ sm = StateAfter(chosen, n) /\ smDisk = StateAfter(chosen, m)
        /\ m \in Nat /\ n \in Nat /\ m <= n /\ n <= Len(chosen) /\ chosen \in Seq(Command)
    <3>1. m \in Nat /\ n \in Nat /\ known \in Nat /\ Len(chosen) \in Nat
      BY <1>1, Numbers DEF StoreInv
    <3>2. m <= n /\ n <= known /\ known <= Len(chosen)
      BY <1>1 DEF StoreInv, Order
    <3> QED BY <1>1, <3>1, <3>2 DEF StoreInv, States, TypeOK
  <2> HIDE DEF m, n
  <2>3. Registered(StateAfter(chosen, m), j)
    BY <1>1, <2>2
  <2>4. StateAfter(chosen, n).job_registry[j].node = StateAfter(chosen, m).job_registry[j].node
    BY <2>2, <2>3, AfterOwner
  <2> QED BY <2>1, <2>2, <2>4
<1>2. StoreInv /\ [Next]_vars =>
        [\A j \in Job : Registered(smDisk, j) =>
           smDisk'.job_registry[j].node = smDisk.job_registry[j].node]_vars
  BY <1>1
<1> QED BY <1>2, StoreKept, PTL DEF Spec, JobOwnerKept

\* The abstract registry computes its states as the store does.
LEMMA SameStates ==
  ASSUME NEW h, NEW n
  PROVE  Promise!StateAfter(h, n) = StateAfter(h, n)
<1>1. ASSUME NEW st, NEW c PROVE Promise!apply_command(st, c) = apply_command(st, c)
  BY DEF Promise!apply_command, apply_command, Promise!Succeeds, Succeeds,
         Promise!Registered, Registered
<1>2. ASSUME NEW st, NEW i, NEW c PROVE Promise!ApplyEntry(st, i, c) = ApplyEntry(st, i, c)
  BY <1>1 DEF Promise!ApplyEntry, ApplyEntry, Promise!Membership, Membership
<1> QED BY <1>2 DEF Promise!StateAfter, StateAfter, Promise!ApplyRange, ApplyRange,
                    Promise!DefaultState, DefaultState

\* SledStateMachine implements the registry that Registry specifies: every step of
\* the store, crashes included, decides commands, moves on to the outcome of a
\* longer prefix of them, or changes nothing there.
THEOREM RegistryImplemented == Spec => RegistryPromise
<1>1. Init => Promise!Init
  BY DEF Init, Promise!Init, DefaultState, Promise!DefaultState
<1>2. ASSUME StoreInv, [Next]_vars
      PROVE  [Promise!Decide \/ Promise!Advance]_<<chosen, smDisk>>
  <2>1. chosen \in Seq(Command) /\ Len(chosen) \in Nat
    BY <1>2 DEF StoreInv, TypeOK
  <2>2. CASE smDisk' = smDisk /\ chosen' = chosen
    BY <2>2
  <2>3. CASE smDisk' = sm /\ chosen' = chosen /\ smDisk' # smDisk
    <3> DEFINE m == smDisk.last_applied
               n == sm.last_applied
    <3>1. /\ sm = StateAfter(chosen, n) /\ smDisk = StateAfter(chosen, m)
          /\ m \in Nat /\ n \in Nat /\ m <= n /\ n <= Len(chosen)
      <4>1. m \in Nat /\ n \in Nat /\ known \in Nat /\ Len(chosen) \in Nat
        BY <1>2, Numbers DEF StoreInv
      <4>2. m <= n /\ n <= known /\ known <= Len(chosen)
        BY <1>2 DEF StoreInv, Order
      <4> QED BY <1>2, <4>1, <4>2 DEF StoreInv, States
    <3>2. m # n
      <4> HIDE DEF m, n
      <4> QED BY <2>3, <3>1
    <3>3. n \in m + 1 .. Len(chosen)
      <4> HIDE DEF m, n
      <4> QED BY <2>1, <3>1, <3>2
    <3>4. smDisk' = Promise!StateAfter(chosen, n)
      BY <2>3, <3>1, SameStates
    <3>5. \E k \in smDisk.last_applied + 1 .. Len(chosen) :
            smDisk' = Promise!StateAfter(chosen, k)
      BY <3>3, <3>4
    <3> QED BY <2>3, <3>5 DEF Promise!Advance
  <2>4. CASE /\ smDisk' = smDisk
             /\ chosen' \in Seq(Command) /\ Len(chosen') >= Len(chosen)
             /\ \A i \in 1..Len(chosen) : chosen'[i] = chosen[i]
    <3>1. Len(chosen') \in Nat
      BY <2>4
    <3>2. CASE Len(chosen') = Len(chosen)
      <4>1. chosen' = chosen
        BY <2>1, <2>4, <3>2
      <4> QED BY <2>4, <4>1
    <3>3. CASE Len(chosen') > Len(chosen)
      <4>1. SubSeq(chosen', 1, Len(chosen)) = chosen
        BY <2>1, <2>4, <3>1, <3>3
      <4> QED BY <2>4, <3>3, <4>1 DEF Promise!Decide
    <3> QED BY <2>1, <2>4, <3>1, <3>2, <3>3
  <2> QED BY <1>2, <2>2, <2>3, <2>4, DiskMoves
<1> QED BY <1>1, <1>2, StoreKept, PTL DEF Spec, RegistryPromise, Promise!Spec
=============================================================================
