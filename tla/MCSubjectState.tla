---------------------------- MODULE MCSubjectState -----------------------------
(***************************************************************************)
(* Small instances of SubjectState: constants of its runs.                  *)
(***************************************************************************)
EXTENDS SubjectState

CONSTANTS s1, s2, s3, g1, c1, j1, x, y

\* All name the same subject; s3, which has no events, comes and goes.
Together == {[r \in Readers \cup Creators |-> s] : s \in {s1, s2, s3}}
TwoSubjects == <<s2, s1>>
\* Reader g1 may see three events.
UpToThree == [r \in Readers |-> 3]

Set(k, v) == [j \in {k} |-> v]

\* s1 and s2 have an event.
Before == [s \in ListedSubjects |-> IF s = s3 THEN << >> ELSE <<Set(x, 0)>>]

\* A history of s1 in which no state repeats, and one in which the last event undoes the one
\* before it; nothing happens to the others.
Mixed ==
  [s \in ListedSubjects |->
     IF s = s1 THEN {<<Set(x, 0), Set(y, 1), Set(x, 1), Set(y, 0)>>,
                     <<Set(x, 0), Set(x, 1), Set(x, 0)>>}
               ELSE {Before[s]}]

===============================================================================
