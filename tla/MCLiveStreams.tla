--------------------------- MODULE MCLiveStreams ---------------------------
(* Two launches of one job, of which the second writes to stdout only. *)
EXTENDS LiveStreams

CONSTANTS a1, a2

FewLines == [t \in Launch |->
               [s \in Stream |-> CASE t = a1 /\ s = "stdout" -> 2
                                   [] t = a2 /\ s = "stderr" -> 0
                                   [] OTHER -> 1]]

\* The two feeds share no variable and no action, and every property, or conjunct
\* of TypeOK, reads one of them: so it is enough to look at each of them while the
\* other has not begun.
OneFeed == \/ chans' = <<>>
           \/ watcher'.pc = "start" /\ moves' = 0 /\ jobs' = 0 /\ ~ops'.there
=============================================================================
