------------------------------ MODULE AppendLog -------------------------------
(***************************************************************************)
(* What the event store promises its readers: every subject has one         *)
(* timeline, a sequence of contents that only ever grows at its end and     *)
(* whose event times strictly increase.                                     *)
(***************************************************************************)
EXTENDS Integers, Sequences

CONSTANTS Subjects, Contents

VARIABLE log    \* log[s]: the timeline of subject s

TimesIncrease(t) == \A i \in 1..(Len(t) - 1) : t[i].time < t[i + 1].time

Extends(old, new) == Len(old) <= Len(new) /\ SubSeq(new, 1, Len(old)) = old

Init == log = [s \in Subjects |-> << >>]

\* One commit may append to several timelines (a bulk insert).
Commit ==
  /\ DOMAIN log' = Subjects
  /\ \A s \in Subjects :
       /\ \A i \in 1..Len(log'[s]) : log'[s][i] \in Contents /\ log'[s][i].subject = s
       /\ Extends(log[s], log'[s])
       /\ TimesIncrease(log'[s])

Spec == Init /\ [][Commit]_log

===============================================================================
