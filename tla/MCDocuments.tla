------------------------------ MODULE MCDocuments ------------------------------
(***************************************************************************)
(* Small instances of Documents: constants of its runs.                     *)
(***************************************************************************)
EXTENDS Documents

CONSTANTS
  d1, d2,       \* stored documents
  q1, q2, q3,   \* requests
  f1, f2, f4, f5,
  s1, s2,
  Kept          \* a type without retention

\* Stored documents, due once the clock reads 2.
OldRows ==
  [d \in Stored |-> [id |-> d, file |-> IF d = d1 THEN f1 ELSE f2, subject |-> s1, type |-> Expiring,
                     parent |-> NoDoc, version |-> 1, latest |-> TRUE, deleted |-> FALSE,
                     created |-> 0]]

A(op, doc, file, subject, type) ==
  [op |-> op, doc |-> doc, file |-> file, subject |-> subject, type |-> type]

\* q1 uploads a version of d1; q2 does, or builds on q1's, or uploads q1's content, or
\* deletes; q3 runs the retention, or changes the type of d2.
MixedCalls ==
  [r \in Requests |->
     CASE r = q1 -> {A(Upload, d1, f4, s1, Kept)}
       [] r = q2 -> {A(Upload, d1, f5, s2, Expiring), A(Upload, q1, f5, s1, Kept),
                     A(Upload, NoDoc, f4, s1, Kept), A(Upload, NoDoc, f2, s1, Kept),
                     A(Delete, d1, f1, s1, Kept), A(Delete, d2, f1, s1, Kept),
                     A(Delete, q1, f1, s1, Kept)}
       [] r = q3 -> {A(Retention, NoDoc, f1, s1, Kept), A(Update, d2, f1, s1, Kept)}]

===============================================================================
