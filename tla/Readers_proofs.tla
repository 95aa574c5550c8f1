----------------------------- MODULE Readers_proofs -----------------------------
(***************************************************************************)
(* Proofs about what reads timelines while others append to them.            *)
(*                                                                         *)
(* VerificationJobs, for every number of verifications, of events and of      *)
(* pages, and every order in which appends commit meanwhile: what a job's     *)
(* client sees, and what a verdict says.  SubjectState, for every number of   *)
(* subjects, requests and events, every page size and limit: a job that       *)
(* reports an error for a subject that is there has lost what it reports as   *)
(* created, and a committed one has stored it, a reader misses                *)
(* nothing that was committed when it began, unless there is more to replay   *)
(* than the limit, and an answer is a replay.  The two share neither constant *)
(* nor variable, and no proof is about both.                                  *)
(***************************************************************************)
EXTENDS VerificationJobs, SubjectState, WellFoundedInduction, NaturalsInduction,
        FiniteSetTheorems, SequenceTheorems, TLAPS

-----------------------------------------------------------------------------
(***************************************************************************)
(* Counting.                                                               *)
(***************************************************************************)

\* The least number of a set of numbers: what the inductions below rest on.
LEMMA LeastElement ==
  ASSUME NEW S \in SUBSET Nat, S # {}
  PROVE  \E m \in S : \A k \in S : m <= k
<1>1. PICK m \in S : \A k \in S : <<k, m>> \notin OpToRel(<, Nat)
  BY NatLessThanWellFounded, WFMin, Zenon
<1>2. \A k \in S : ~(k < m)
  BY ONLY <1>1, S \in SUBSET Nat, Zenon DEF OpToRel
<1> QED
  BY <1>2

\* How many elements of a set precede one of them.
Rank(S, R, x) == Cardinality({y \in S : <<y, x>> \in R})

StrictOrder(S, R) ==
  /\ \A x \in S : <<x, x>> \notin R
  /\ \A x, y, z \in S : <<x, y>> \in R /\ <<y, z>> \in R => <<x, z>> \in R
  /\ \A x, y \in S : x = y \/ <<x, y>> \in R \/ <<y, x>> \in R

\* In a strict order each element has its own rank, and every rank its element.
LEMMA Ranks ==
  ASSUME NEW S, IsFiniteSet(S), NEW R, StrictOrder(S, R)
  PROVE  /\ Cardinality(S) \in Nat
         /\ \A x \in S : Rank(S, R, x) \in 0..(Cardinality(S) - 1)
         /\ \A x, y \in S : <<x, y>> \in R <=> Rank(S, R, x) < Rank(S, R, y)
         /\ \A x, y \in S : Rank(S, R, x) = Rank(S, R, y) => x = y
         /\ \A n \in 0..(Cardinality(S) - 1) : \E x \in S : Rank(S, R, x) = n
<1> DEFINE Down(x) == {y \in S : <<y, x>> \in R}
           N == Cardinality(S)
           rank == [x \in S |-> Rank(S, R, x)]
<1>1. N \in Nat
  BY FS_CardinalityType
<1>2. ASSUME NEW x \in S
      PROVE  IsFiniteSet(Down(x)) /\ Cardinality(Down(x)) \in Nat /\ Cardinality(Down(x)) < N
  <2>1. Down(x) \in SUBSET S /\ x \notin Down(x)
    BY DEF StrictOrder
  <2>2. IsFiniteSet(Down(x)) /\ Cardinality(Down(x)) <= N /\ Cardinality(Down(x)) # N
    <3> HIDE DEF Down
    <3> QED
      BY <2>1, FS_Subset
  <2>3. Cardinality(Down(x)) \in Nat
    BY <2>2, FS_CardinalityType
  <2> HIDE DEF Down, N
  <2> QED
    BY <1>1, <2>2, <2>3
<1>3. ASSUME NEW x \in S, NEW y \in S, <<x, y>> \in R
      PROVE  Cardinality(Down(x)) < Cardinality(Down(y))
  <2>1. Down(x) \in SUBSET Down(y) /\ x \in Down(y) /\ x \notin Down(x)
    BY <1>3 DEF StrictOrder
  <2>2. /\ IsFiniteSet(Down(y)) /\ Cardinality(Down(x)) \in Nat /\ Cardinality(Down(y)) \in Nat
    BY <1>2
  <2>3. Cardinality(Down(x)) <= Cardinality(Down(y)) /\ Cardinality(Down(x)) # Cardinality(Down(y))
    <3> HIDE DEF Down
    <3> QED
      BY <2>1, <2>2, FS_Subset
  <2> HIDE DEF Down
  <2> QED
    BY <2>2, <2>3
<1>4. \A x \in S : Rank(S, R, x) = Cardinality(Down(x))
  BY DEF Rank
<1>5. \A x \in S : Rank(S, R, x) \in 0..(N - 1)
  <2> HIDE DEF Down, N
  <2> QED
    BY <1>1, <1>2, <1>4
<1>6. \A x, y \in S : <<x, y>> \in R => Rank(S, R, x) < Rank(S, R, y)
  <2> HIDE DEF Down
  <2> QED
    BY <1>3, <1>4
<1> HIDE DEF Down, N
<1>7. ASSUME NEW x \in S, NEW y \in S
      PROVE  /\ <<x, y>> \in R <=> Rank(S, R, x) < Rank(S, R, y)
             /\ Rank(S, R, x) = Rank(S, R, y) => x = y
  <2>1. Rank(S, R, x) \in Int /\ Rank(S, R, y) \in Int
    BY <1>1, <1>5
  <2>2. x = y \/ <<x, y>> \in R \/ <<y, x>> \in R
    BY DEF StrictOrder
  <2>3. CASE x = y
    <3>1. <<x, y>> \notin R
      BY <2>3 DEF StrictOrder
    <3> QED
      BY <2>1, <2>3, <3>1
  <2>4. CASE <<x, y>> \in R
    <3>1. Rank(S, R, x) < Rank(S, R, y)
      BY <1>6, <2>4
    <3> QED
      BY <2>1, <2>4, <3>1
  <2>5. CASE <<y, x>> \in R /\ <<x, y>> \notin R
    <3>1. Rank(S, R, y) < Rank(S, R, x)
      BY <1>6, <2>5
    <3> QED
      BY <2>1, <2>5, <3>1
  <2> QED
    BY <2>2, <2>3, <2>4, <2>5
<1>9. IsFiniteSet(0..(N - 1)) /\ Cardinality(0..(N - 1)) = N
  <2>1. 0 \in Int /\ N - 1 \in Int
    BY <1>1
  <2>2. /\ IsFiniteSet(0..(N - 1))
        /\ Cardinality(0..(N - 1)) = IF 0 > N - 1 THEN 0 ELSE (N - 1) - 0 + 1
    BY ONLY <2>1, FS_Interval
  <2> QED
    BY <1>1, <2>2
<1>10. rank \in Injection(S, 0..(N - 1))
  <2>1. rank \in [S -> 0..(N - 1)]
    BY <1>5
  <2>2. \A x, y \in S : rank[x] = rank[y] => x = y
    BY <1>7
  <2> HIDE DEF rank
  <2> QED
    BY <2>1, <2>2 DEF Injection, IsInjective
<1>11. rank \in Surjection(S, 0..(N - 1))
  <2>1. Cardinality(S) = N
    BY DEF N
  <2> HIDE DEF rank
  <2> QED
    BY <1>9, <1>10, <2>1, FS_Injection
<1>12. \A n \in 0..(N - 1) : \E x \in S : Rank(S, R, x) = n
  BY <1>11 DEF Surjection
<1> QED
  BY <1>1, <1>5, <1>7, <1>12 DEF N

-----------------------------------------------------------------------------
(***************************************************************************)
(* Pages.                                                                  *)
(***************************************************************************)

\* How many rows of a table are newer than one of them.
Above(table, r) == Cardinality({q \in table : q.seq > r.seq})

\* A table whose rows have event_seqs of their own.
IsTable(table) ==
  /\ IsFiniteSet(table) /\ table \subseteq Row
  /\ \A q, r \in table : q.seq = r.seq => q = r

\* The newer rows come first, each in a place of its own, and no place is empty.
LEMMA Places ==
  ASSUME NEW table, IsTable(table)
  PROVE  /\ Cardinality(table) \in Nat
         /\ \A r \in table : Above(table, r) \in 0..(Cardinality(table) - 1)
         /\ \A q, r \in table : q.seq > r.seq <=> Above(table, q) < Above(table, r)
         /\ \A q, r \in table : Above(table, q) = Above(table, r) => q = r
         /\ \A n \in 0..(Cardinality(table) - 1) : \E r \in table : Above(table, r) = n
<1> DEFINE R == {p \in table \X table : p[1].seq > p[2].seq}
<1>1. \A q, r \in table : <<q, r>> \in R <=> q.seq > r.seq
  OBVIOUS
<1>2. \A r \in table : r.seq \in Nat
  BY DEF IsTable, Row
<1> HIDE DEF R
<1>3. StrictOrder(table, R)
  <2>1. \A r \in table : <<r, r>> \notin R
    BY <1>1, <1>2
  <2>2. \A q, r, x \in table : <<q, r>> \in R /\ <<r, x>> \in R => <<q, x>> \in R
    BY <1>1, <1>2
  <2>3. ASSUME NEW q \in table, NEW r \in table
        PROVE  q = r \/ <<q, r>> \in R \/ <<r, q>> \in R
    <3>1. q.seq \in Nat /\ r.seq \in Nat /\ (q.seq = r.seq => q = r)
      BY <1>2 DEF IsTable
    <3>2. q.seq = r.seq \/ q.seq > r.seq \/ r.seq > q.seq
      BY <3>1
    <3> QED
      BY <1>1, <3>1, <3>2
  <2> QED
    BY <2>1, <2>2, <2>3 DEF StrictOrder
<1>4. \A r \in table : Rank(table, R, r) = Above(table, r)
  <2> TAKE r \in table
  <2>1. {q \in table : <<q, r>> \in R} = {q \in table : q.seq > r.seq}
    BY <1>1
  <2> QED
    BY <2>1 DEF Rank, Above
<1>5. IsFiniteSet(table)
  BY DEF IsTable
<1>6. /\ Cardinality(table) \in Nat
      /\ \A x \in table : Rank(table, R, x) \in 0..(Cardinality(table) - 1)
      /\ \A x, y \in table : <<x, y>> \in R <=> Rank(table, R, x) < Rank(table, R, y)
      /\ \A x, y \in table : Rank(table, R, x) = Rank(table, R, y) => x = y
      /\ \A n \in 0..(Cardinality(table) - 1) : \E x \in table : Rank(table, R, x) = n
  BY ONLY <1>3, <1>5, Ranks
<1> QED
  BY <1>1, <1>4, <1>6

\* A page holds the rows in its places, in order; a short page is the last one.
LEMMA PageHolds ==
  ASSUME NEW table, IsTable(table), NEW skip \in Nat, NEW most \in Nat
  PROVE  /\ Page(table, skip, most) \in Seq(table)
         /\ Len(Page(table, skip, most)) <= most
         /\ \A i \in 1..Len(Page(table, skip, most)) :
              Above(table, Page(table, skip, most)[i]) = skip + i - 1
         /\ \A r \in table : Above(table, r) \in skip..(skip + most - 1) =>
              \E i \in 1..Len(Page(table, skip, most)) : Page(table, skip, most)[i] = r
         /\ Len(Page(table, skip, most)) < most =>
              \A r \in table : Above(table, r) < skip + most
<1> DEFINE N == Cardinality(table)
           batch == {r \in table : Above(table, r) \in skip..(skip + most - 1)}
           m == IF N <= skip THEN 0 ELSE IF N - skip <= most THEN N - skip ELSE most
           g == [i \in 1..m |-> CHOOSE r \in batch : Above(table, r) = skip + i - 1]
<1>1. /\ N \in Nat
      /\ \A r \in table : Above(table, r) \in 0..(N - 1)
      /\ \A q, r \in table : Above(table, q) = Above(table, r) => q = r
      /\ \A n \in 0..(N - 1) : \E r \in table : Above(table, r) = n
  BY Places
<1> HIDE DEF N
<1>2. m \in Nat /\ m <= most /\ \A i \in 1..m : skip + i - 1 \in 0..(N - 1)
  BY <1>1
<1>3. \A r \in batch : Above(table, r) - skip + 1 \in 1..m
  BY <1>1
<1>4. \A i \in 1..m : skip + i - 1 \in skip..(skip + most - 1)
  BY <1>1, <1>2
<1>5. m < most => N <= skip + m
  BY <1>1
<1> HIDE DEF m
<1>6. \A i \in 1..m : g[i] \in batch /\ Above(table, g[i]) = skip + i - 1
  <2> TAKE i \in 1..m
  <2>1. \E r \in table : Above(table, r) = skip + i - 1
    BY <1>1, <1>2
  <2>2. \E r \in batch : Above(table, r) = skip + i - 1
    BY <1>4, <2>1
  <2> HIDE DEF batch
  <2> QED
    BY <2>2
<1>7. \A r \in batch : \E i \in 1..m : g[i] = r
  <2> TAKE r \in batch
  <2>1. PICK i \in 1..m : i = Above(table, r) - skip + 1
    BY <1>3
  <2>2. Above(table, r) = skip + i - 1
    BY <1>1, <1>2, <2>1
  <2>3. g[i] = r
    <3>1. g[i] \in table /\ Above(table, g[i]) = Above(table, r) /\ r \in table
      BY <1>6, <2>2
    <3> HIDE DEF g
    <3> QED
      BY <1>1, <3>1
  <2> QED
    BY <2>3
<1>8. Cardinality(batch) = m
  <2>1. g \in [1..m -> batch]
    BY <1>6
  <2>2. \A i, j \in 1..m : g[i] = g[j] => i = j
    <3> TAKE i \in 1..m, j \in 1..m
    <3>1. g[i] = g[j] => skip + i - 1 = skip + j - 1
      BY <1>6
    <3> QED
      BY <1>2, <3>1
  <2> HIDE DEF g, batch
  <2>3. g \in Bijection(1..m, batch)
    BY <1>7, <2>1, <2>2 DEF Bijection, Injection, Surjection, IsInjective
  <2> QED
    BY <1>2, <2>3, FS_CountingElements DEF ExistsBijection
<1>9. Page(table, skip, most) = g
  <2>1. Page(table, skip, most) =
          [k \in 1..Cardinality(batch) |-> CHOOSE r \in batch : Above(table, r) = skip + k - 1]
    BY DEF Page, Above
  <2> QED
    BY <1>8, <2>1
<1>10. g \in Seq(table) /\ Len(g) = m
  <2>1. g \in [1..m -> table]
    BY <1>6
  <2> HIDE DEF g
  <2> QED
    BY <1>2, <2>1, SeqDef, LenProperties
<1>11. \A r \in table : m < most => Above(table, r) < skip + most
  BY <1>1, <1>2, <1>5
<1> HIDE DEF g
<1>12. \A r \in table : Above(table, r) \in skip..(skip + most - 1) => \E i \in 1..m : g[i] = r
  BY <1>7
<1> QED
  BY <1>2, <1>6, <1>9, <1>10, <1>11, <1>12

-----------------------------------------------------------------------------
(***************************************************************************)
(* The table.  Whatever is appended, and whatever one row is turned into,   *)
(* the event_seqs, the lengths of the histories that the hashes stand for,  *)
(* and the times in them all grow along a timeline.                         *)
(***************************************************************************)

LengthsGrow(table) ==
  /\ \A r \in table : Len(r.hash) = Len(r.prev) + 1
  /\ \A q, r \in table :
       q.content.subject = r.content.subject /\ q.seq < r.seq => Len(q.hash) < Len(r.hash)

TimesGrow(table) ==
  \A r \in table :
    /\ r.hash[Len(r.hash)].time <= r.content.time
    /\ r.prev # NoHash => r.prev[Len(r.prev)].time < r.content.time

RowsInv == IsTable(rows) /\ LengthsGrow(rows) /\ TimesGrow(rows)

\* What makes a row that RowsInv admits, whatever else is in the table.
GoodRow(r) ==
  /\ r \in Row
  /\ Len(r.hash) = Len(r.prev) + 1
  /\ r.hash[Len(r.hash)].time <= r.content.time
  /\ r.prev # NoHash => r.prev[Len(r.prev)].time < r.content.time

LEMMA RowTypes ==
  ASSUME NEW r \in Row
  PROVE  /\ r.content \in Content /\ r.content.subject \in Subjects /\ r.content.time \in Nat
         /\ r.seq \in Nat /\ r.prev \in Seq(Content) /\ r.hash \in Seq(Content)
         /\ Len(r.prev) \in Nat /\ Len(r.hash) \in Nat
         /\ r.prev = NoHash <=> Len(r.prev) = 0
<1>1. /\ r.content \in Content /\ r.seq \in Nat
      /\ r.prev \in Seq(Content) /\ r.hash \in Seq(Content)
  BY DEF Row, Hashes
<1>2. r.content.subject \in Subjects /\ r.content.time \in Nat
  BY <1>1 DEF Content
<1>3. /\ Len(r.prev) \in Nat /\ Len(r.hash) \in Nat
      /\ r.prev = NoHash <=> Len(r.prev) = 0
  BY <1>1, EmptySeq, LenProperties DEF NoHash
<1> QED
  BY <1>1, <1>2, <1>3

LEMMA GoodRows ==
  ASSUME RowsInv
  PROVE  \A r \in rows : GoodRow(r)
BY DEF RowsInv, IsTable, LengthsGrow, TimesGrow, GoodRow

\* A row whose hash was computed from its own content.
LEMMA ComputedRow ==
  ASSUME NEW prev \in Seq(Content), NEW content \in Content, NEW seq \in Nat,
         NEW id \in Requests \X Nat, prev # NoHash => prev[Len(prev)].time < content.time
  PROVE  LET r == [id |-> id, content |-> content, prev |-> prev,
                   hash |-> compute_hash(content, prev), seq |-> seq]
         IN  /\ r \in Row /\ GoodRow(r)
             /\ Len(r.hash) = Len(prev) + 1 /\ r.hash[Len(r.hash)] = content
<1> DEFINE r == [id |-> id, content |-> content, prev |-> prev,
                 hash |-> compute_hash(content, prev), seq |-> seq]
<1>1. /\ Append(prev, content) \in Seq(Content) /\ Len(Append(prev, content)) = Len(prev) + 1
      /\ Append(prev, content)[Len(prev) + 1] = content /\ Len(prev) \in Nat
  BY AppendProperties, LenProperties
<1>2. /\ r.hash = Append(prev, content) /\ r.prev = prev /\ r.content = content
  BY DEF compute_hash
<1>3. r \in Row
  BY <1>1 DEF Row, Hashes, compute_hash
<1>4. content.time \in Nat
  BY DEF Content
<1> HIDE DEF r
<1>5. GoodRow(r)
  BY <1>1, <1>2, <1>3, <1>4 DEF GoodRow
<1> QED
  BY <1>1, <1>2, <1>3, <1>5 DEF r

\* The rows of one subject are a table.
LEMMA RowsOfTable ==
  ASSUME NEW table, IsTable(table), NEW s
  PROVE  IsTable(RowsOf(table, s)) /\ RowsOf(table, s) \subseteq table
<1>1. RowsOf(table, s) \in SUBSET table
  BY DEF RowsOf
<1>2. IsFiniteSet(RowsOf(table, s))
  BY <1>1, FS_Subset DEF IsTable
<1> QED
  BY <1>1, <1>2 DEF IsTable

\* A table that is not empty has a last row, and only one.
LEMMA LastRow ==
  ASSUME NEW table, IsTable(table), table # {}
  PROVE  LET last == CHOOSE r \in table : IsLastEvent(r, table)
         IN  IsLastEvent(last, table)
<1>1. PICK r0 \in table : TRUE
  OBVIOUS
<1>2. /\ Cardinality(table) \in Nat
      /\ Above(table, r0) \in 0..(Cardinality(table) - 1)
      /\ \A q \in table : Above(table, q) \in 0..(Cardinality(table) - 1)
      /\ \A q, r \in table : q.seq > r.seq <=> Above(table, q) < Above(table, r)
      /\ \A n \in 0..(Cardinality(table) - 1) : \E r \in table : Above(table, r) = n
  BY Places
<1>3. 0 \in 0..(Cardinality(table) - 1)
  BY <1>2
<1>4. PICK r \in table : Above(table, r) = 0
  BY <1>2, <1>3
<1>5. ASSUME NEW q \in table
      PROVE  q.seq <= r.seq
  <2>1. ~(q.seq > r.seq)
    BY <1>2, <1>4
  <2>2. q.seq \in Nat /\ r.seq \in Nat
    BY DEF IsTable, Row
  <2> QED
    BY <2>1, <2>2
<1>6. IsLastEvent(r, table)
  BY <1>5 DEF IsLastEvent
<1> QED
  BY <1>6

\* What CommitAppend adds to the table.
Appended(r, s) ==
  /\ GoodRow(r) /\ r.content.subject = s
  /\ rows' = rows \cup {r}
  /\ \A q \in rows : q.seq # r.seq
  /\ \A q \in RowsOf(rows, s) : q.seq < r.seq /\ Len(q.hash) < Len(r.hash)

LEMMA AppendsOne ==
  ASSUME RowsInv, NEW s \in Subjects, CommitAppend(s)
  PROVE  \E r : Appended(r, s)
<1> DEFINE table == RowsOf(rows, s)
           last == CHOOSE r \in table : IsLastEvent(r, table)
           t == CHOOSE x \in EventTypes : TRUE
           content == [subject |-> s, type |-> t, payload |-> EmptyPayload,
                       time |-> IF table = {} THEN 1 ELSE last.content.time + 1]
           prev == IF table = {} THEN NoHash ELSE last.hash
           new(q) == [id |-> <<Writer, q>>, content |-> content, prev |-> prev,
                      hash |-> compute_hash(content, prev), seq |-> q]
<1>1. PICK q \in (1..MaxSeq) \ {r.seq : r \in rows} :
        /\ \A r \in table : r.seq < q
        /\ rows' = rows \cup {new(q)}
  BY DEF CommitAppend
<1>2. q \in Nat /\ \A r \in rows : r.seq # q
  <2>1. MaxSeq \in Nat
    BY VerificationAssumption
  <2> QED
    BY <2>1
<1>3. t \in EventTypes /\ EmptyPayload \in Payloads /\ <<Writer, q>> \in Requests \X Nat
  BY <1>2, VerificationAssumption, EmptyPayloadAssumption
<1>4. IsTable(table) /\ table \subseteq rows
  BY RowsOfTable DEF RowsInv
<1>5. ASSUME table # {}
      PROVE  last \in table /\ GoodRow(last) /\ last \in Row /\ \A r \in table : r.seq <= last.seq
  <2>1. IsLastEvent(last, table)
    <3> HIDE DEF table
    <3> QED
      BY <1>4, <1>5, LastRow
  <2> HIDE DEF last, table
  <2> QED
    BY <2>1, <1>4, GoodRows DEF IsLastEvent, GoodRow
<1> HIDE DEF last, t
<1>6. prev \in Seq(Content) /\ content \in Content
  <2>1. CASE table = {}
    BY <2>1, <1>3, EmptySeq DEF NoHash, Content
  <2>2. CASE table # {}
    <3>1. last.hash \in Seq(Content) /\ last.content.time \in Nat
      BY <1>5, <2>2, RowTypes
    <3> QED
      BY <2>2, <3>1, <1>3 DEF Content
  <2> QED
    BY <2>1, <2>2
<1>7. prev # NoHash => prev[Len(prev)].time < content.time
  <2>1. CASE table = {}
    BY <2>1
  <2>2. CASE table # {}
    <3>1. /\ last.hash \in Seq(Content) /\ last.content.time \in Nat
          /\ Len(last.hash) \in Nat /\ Len(last.prev) \in Nat
      BY <1>5, <2>2, RowTypes
    <3>2. Len(last.hash) = Len(last.prev) + 1 /\ last.hash[Len(last.hash)].time <= last.content.time
      BY <1>5, <2>2 DEF GoodRow
    <3>3. last.hash[Len(last.hash)] \in Content
      BY <3>1, <3>2, ElementOfSeq
    <3>4. last.hash[Len(last.hash)].time \in Nat
      BY <3>3 DEF Content
    <3>5. prev = last.hash /\ content.time = last.content.time + 1
      BY <2>2
    <3> HIDE DEF content, prev
    <3> QED
      BY <3>1, <3>2, <3>4, <3>5
  <2> QED
    BY <2>1, <2>2
<1>8. content.subject = s
  OBVIOUS
<1>9. \A r \in table : Len(r.hash) <= Len(prev)
  <2> TAKE r \in table
  <2>1. last \in table /\ r.seq <= last.seq /\ prev = last.hash /\ r \in rows /\ last \in rows
    BY <1>4, <1>5
  <2>2. r.content.subject = last.content.subject
    BY <2>1 DEF RowsOf
  <2>3. r \in Row /\ last \in Row
    BY <2>1 DEF RowsInv, IsTable
  <2>4. r.seq \in Nat /\ last.seq \in Nat /\ Len(r.hash) \in Nat /\ Len(last.hash) \in Nat
    BY <2>3, RowTypes
  <2>5. r.seq < last.seq => Len(r.hash) < Len(last.hash)
    BY <2>1, <2>2 DEF RowsInv, LengthsGrow
  <2>6. r.seq = last.seq => r = last
    BY <2>1 DEF RowsInv, IsTable
  <2> HIDE DEF prev, table
  <2> QED
    BY <2>1, <2>4, <2>5, <2>6
<1> HIDE DEF content, prev, table
<1>10. /\ new(q) \in Row /\ GoodRow(new(q))
       /\ Len(new(q).hash) = Len(prev) + 1
  BY <1>2, <1>3, <1>6, <1>7, ComputedRow
<1>11. new(q).seq = q /\ new(q).content = content
  OBVIOUS
<1>12. \A r \in table : Len(r.hash) < Len(new(q).hash)
  <2> TAKE r \in table
  <2>1. r \in Row
    BY <1>4 DEF IsTable
  <2>2. Len(r.hash) \in Nat /\ Len(prev) \in Nat
    BY <2>1, <1>6, RowTypes, LenProperties
  <2> HIDE DEF new
  <2> QED
    BY <1>9, <1>10, <2>2
<1> HIDE DEF new
<1>13. Appended(new(q), s)
  BY <1>1, <1>2, <1>8, <1>10, <1>11, <1>12 DEF Appended, table
<1> QED
  BY <1>13

\* The contents that Forgeries puts into a row.
LEMMA AlteredContent ==
  ASSUME NEW content \in Content, NEW p \in Payloads, NEW t \in {content.time, content.time + 1}
  PROVE  LET c == [content EXCEPT !.payload = p, !.time = t]
         IN  c \in Content /\ c.subject = content.subject /\ content.time <= c.time
<1> DEFINE c == [content EXCEPT !.payload = p, !.time = t]
<1>1. content.time \in Nat
  BY DEF Content
<1>2. t \in Nat /\ content.time <= t
  BY <1>1
<1>3. c \in Content /\ c.subject = content.subject /\ c.time = t
  BY <1>2 DEF Content
<1> QED
  BY <1>2, <1>3

LEMMA AlteredContents ==
  ASSUME NEW content \in Content,
         NEW c \in {[content EXCEPT !.payload = new[1], !.time = new[2]] :
                    new \in Payloads \X {content.time, content.time + 1}}
  PROVE  /\ c \in Content /\ c.subject = content.subject
         /\ c.time \in Nat /\ content.time <= c.time
<1>1. PICK new \in Payloads \X {content.time, content.time + 1} :
        c = [content EXCEPT !.payload = new[1], !.time = new[2]]
  OBVIOUS
<1>2. new[1] \in Payloads /\ new[2] \in {content.time, content.time + 1}
  OBVIOUS
<1>3. c \in Content /\ c.subject = content.subject /\ content.time <= c.time
  BY <1>1, <1>2, AlteredContent
<1> QED
  BY <1>3 DEF Content

\* What Tamper puts in the place of a row: nothing, or a row that keeps its place, its
\* links, its subject, and whose time is no earlier.
Forged(r, f) ==
  /\ GoodRow(f)
  /\ f.seq = r.seq /\ f.prev = r.prev /\ f.content.subject = r.content.subject
  /\ Len(f.hash) = Len(r.hash)

LEMMA TampersWithOne ==
  ASSUME RowsInv, Tamper
  PROVE  \E r \in rows : \/ rows' = rows \ {r}
                         \/ \E f : Forged(r, f) /\ rows' = (rows \ {r}) \cup {f}
<1>0. PICK r \in rows : \E forged \in Forgeries(r) : rows' = (rows \ {r}) \cup forged
  BY DEF Tamper
<1>1. PICK forged \in Forgeries(r) : rows' = (rows \ {r}) \cup forged
  BY <1>0
<1>2. r \in Row /\ GoodRow(r)
  BY GoodRows DEF GoodRow
<1>3. /\ r.content \in Content /\ r.content.time \in Nat /\ r.seq \in Nat
      /\ r.prev \in Seq(Content) /\ r.hash \in Seq(Content)
      /\ Len(r.prev) \in Nat /\ Len(r.hash) \in Nat
  BY <1>2, RowTypes
<1>4. /\ Len(r.hash) = Len(r.prev) + 1
      /\ r.hash[Len(r.hash)].time <= r.content.time
      /\ r.prev # NoHash => r.prev[Len(r.prev)].time < r.content.time
  BY <1>2 DEF GoodRow
<1>5. r.hash[Len(r.hash)].time \in Nat
  <2>1. r.hash[Len(r.hash)] \in Content
    BY <1>3, <1>4, ElementOfSeq
  <2> QED
    BY <2>1 DEF Content
<1>6. r.prev # NoHash => r.prev[Len(r.prev)].time \in Nat
  <2>1. r.prev # NoHash => Len(r.prev) \in 1..Len(r.prev)
    BY <1>2, <1>3, RowTypes
  <2>2. \A i \in 1..Len(r.prev) : r.prev[i] \in Content
    BY <1>3, ElementOfSeq
  <2> QED
    BY <2>1, <2>2 DEF Content
<1> DEFINE changed == {[r.content EXCEPT !.payload = new[1], !.time = new[2]] :
                         new \in Payloads \X {r.content.time, r.content.time + 1}}
<1>7. ASSUME NEW c \in changed
      PROVE  /\ c \in Content /\ c.subject = r.content.subject
             /\ c.time \in Nat /\ r.content.time <= c.time
  BY <1>3, AlteredContents
<1>8. \/ forged = {}
      \/ \E c \in changed : forged = {[r EXCEPT !.content = c]}
      \/ \E c \in changed : forged = {[r EXCEPT !.content = c, !.hash = compute_hash(c, r.prev)]}
  <2>1. Forgeries(r) =
          {{}} \cup {{[r EXCEPT !.content = c]} : c \in changed}
               \cup {{[r EXCEPT !.content = c, !.hash = compute_hash(c, r.prev)]} : c \in changed}
    BY DEF Forgeries
  <2> HIDE DEF changed
  <2> QED
    BY <1>1, <2>1
<1> HIDE DEF changed
<1>9. ASSUME NEW c \in changed
      PROVE  Forged(r, [r EXCEPT !.content = c])
  <2> DEFINE f == [r EXCEPT !.content = c]
  <2>1. f \in Row
    BY <1>2, <1>7 DEF Row
  <2>2. f.seq = r.seq /\ f.prev = r.prev /\ f.hash = r.hash /\ f.content = c
    BY <1>2 DEF Row
  <2> HIDE DEF f
  <2>3. GoodRow(f)
    BY <1>3, <1>4, <1>5, <1>6, <1>7, <2>1, <2>2 DEF GoodRow
  <2> QED
    BY <1>7, <2>2, <2>3 DEF Forged, f
<1>10. ASSUME NEW c \in changed
       PROVE  Forged(r, [r EXCEPT !.content = c, !.hash = compute_hash(c, r.prev)])
  <2> DEFINE f == [r EXCEPT !.content = c, !.hash = compute_hash(c, r.prev)]
  <2>1. /\ f = [id |-> r.id, content |-> c, prev |-> r.prev,
                hash |-> compute_hash(c, r.prev), seq |-> r.seq]
        /\ r.id \in Requests \X Nat
    <3>1. r.id \in Requests \X Nat /\ compute_hash(c, r.prev) \in Hashes
      BY <1>2, <1>3, <1>7, AppendProperties DEF Row, Hashes, compute_hash
    <3>2. f \in Row
      BY <1>2, <1>7, <3>1 DEF Row
    <3>3. /\ f.id = r.id /\ f.content = c /\ f.prev = r.prev
          /\ f.hash = compute_hash(c, r.prev) /\ f.seq = r.seq
      BY <1>2 DEF Row
    <3> HIDE DEF f
    <3>4. f = [id |-> f.id, content |-> f.content, prev |-> f.prev, hash |-> f.hash, seq |-> f.seq]
      BY <3>2 DEF Row
    <3> QED
      BY <3>1, <3>3, <3>4
  <2>2. f.seq = r.seq /\ f.prev = r.prev /\ f.content = c
    BY <2>1
  <2>3. r.prev # NoHash => r.prev[Len(r.prev)].time < c.time
    BY <1>3, <1>4, <1>6, <1>7
  <2>4. GoodRow(f) /\ Len(f.hash) = Len(r.prev) + 1
    <3> HIDE DEF f
    <3> QED
      BY <1>3, <1>7, <2>1, <2>3, ComputedRow
  <2> HIDE DEF f
  <2> QED
    BY <1>4, <1>7, <2>2, <2>4 DEF Forged, f
<1> QED
  BY <1>1, <1>8, <1>9, <1>10

\* RowsInv is preserved whatever is done to the table.
LEMMA RowsStep ==
  ASSUME RowsInv, [Next]_vars
  PROVE  RowsInv'
<1>1. \A r \in rows : GoodRow(r)
  BY GoodRows
<1>2. ASSUME NEW s \in Subjects, CommitAppend(s)
      PROVE  RowsInv'
  <2>1. PICK r : Appended(r, s)
    BY <1>2, AppendsOne
  <2>2. \A q \in rows' : GoodRow(q)
    BY <1>1, <2>1 DEF Appended
  <2>3. \A q \in rows : q.content.subject = s => q.seq < r.seq /\ Len(q.hash) < Len(r.hash)
    BY <2>1 DEF Appended, RowsOf
  <2>4. IsFiniteSet(rows')
    BY <2>1, FS_AddElement DEF Appended, RowsInv, IsTable
  <2>5. IsTable(rows)'
    BY <2>1, <2>2, <2>4 DEF Appended, RowsInv, IsTable, GoodRow
  <2>6. ASSUME NEW x \in rows', NEW y \in rows', x.content.subject = y.content.subject, x.seq < y.seq
        PROVE  Len(x.hash) < Len(y.hash)
    <3>1. x.seq \in Nat /\ y.seq \in Nat
      BY <2>2, RowTypes DEF GoodRow
    <3>2. CASE x \in rows /\ y \in rows
      BY <2>6, <3>2 DEF RowsInv, LengthsGrow
    <3>3. CASE x \in rows /\ y = r
      BY <2>1, <2>3, <2>6, <3>3 DEF Appended
    <3>4. CASE x = r /\ y \in rows
      <4>1. y.seq < r.seq
        BY <2>1, <2>3, <2>6, <3>4 DEF Appended
      <4> QED
        BY <2>6, <3>1, <3>4, <4>1
    <3>5. CASE x = r /\ y = r
      BY <2>6, <3>1, <3>5
    <3> QED
      BY <2>1, <3>2, <3>3, <3>4, <3>5 DEF Appended
  <2> QED
    BY <2>2, <2>5, <2>6 DEF RowsInv, LengthsGrow, TimesGrow, GoodRow
<1>3. ASSUME Tamper
      PROVE  RowsInv'
  <2>1. PICK r \in rows : \/ rows' = rows \ {r}
                          \/ \E f : Forged(r, f) /\ rows' = (rows \ {r}) \cup {f}
    BY <1>3, TampersWithOne
  <2>2. CASE rows' = rows \ {r}
    <3>1. IsFiniteSet(rows') /\ rows' \subseteq rows
      BY <2>2, FS_RemoveElement DEF RowsInv, IsTable
    <3> QED
      BY <3>1 DEF RowsInv, IsTable, LengthsGrow, TimesGrow
  <2>3. ASSUME NEW f, Forged(r, f), rows' = (rows \ {r}) \cup {f}
        PROVE  RowsInv'
    <3>1. IsFiniteSet(rows')
      <4>1. IsFiniteSet(rows \ {r})
        BY FS_RemoveElement DEF RowsInv, IsTable
      <4> QED
        BY <2>3, <4>1, FS_AddElement
    <3>2. \A q \in rows' : GoodRow(q)
      BY <1>1, <2>3 DEF Forged
    \* Every row of the new table stands for one of the old that cannot be told from it here.
    <3> DEFINE old(x) == IF x = f THEN r ELSE x
    <3>3. \A x \in rows' : /\ old(x) \in rows /\ old(x).seq = x.seq
                           /\ old(x).content.subject = x.content.subject
                           /\ Len(old(x).hash) = Len(x.hash)
      BY <2>3 DEF Forged
    <3>4. \A x, y \in rows' : old(x) = old(y) => x = y
      BY <2>3
    <3> HIDE DEF old
    <3>5. IsTable(rows)'
      BY <3>1, <3>2, <3>3, <3>4 DEF RowsInv, IsTable, GoodRow
    <3>6. LengthsGrow(rows)'
      BY <3>2, <3>3 DEF RowsInv, LengthsGrow, GoodRow
    <3> QED
      BY <3>2, <3>5, <3>6 DEF RowsInv, TimesGrow, GoodRow
  <2> QED
    BY <2>1, <2>2, <2>3
<1>4. CASE UNCHANGED rows
  BY <1>4 DEF RowsInv
<1>5. \/ UNCHANGED rows \/ Tamper \/ \E s \in Subjects : CommitAppend(s)
  BY DEF Next, Work, StartJob, Poll, CheckTenant, CheckSubject, RunJob, CountEvents, FetchPage,
         TimeOut, QueryFails, DropTask, Restart, Tick, vars
<1> QED
  BY <1>2, <1>3, <1>4, <1>5

LEMMA RowsInit ==
  ASSUME Init
  PROVE  RowsInv
BY FS_EmptySet DEF Init, RowsInv, IsTable, LengthsGrow, TimesGrow

-----------------------------------------------------------------------------
(***************************************************************************)
(* The verdict of VerificationService against what it is meant to accept.   *)
(***************************************************************************)

\* The order of SortedByTime between two places of a list.
Before(events, i, j) ==
  \/ events[i].content.time < events[j].content.time
  \/ events[i].content.time = events[j].content.time /\ i < j

\* place tells where in the list each element of the sorted chain comes from.
IsSorting(events, I, chain, place) ==
  /\ DOMAIN chain = 1..Cardinality(I) /\ Cardinality(I) \in Nat
  /\ place \in [DOMAIN chain -> I]
  /\ \A k \in DOMAIN chain : chain[k] = events[place[k]]
  /\ \A i \in I : \E k \in DOMAIN chain : place[k] = i
  /\ \A k, l \in DOMAIN chain : k < l => Before(events, place[k], place[l])

\* Sorting loses nothing, repeats nothing, and puts the older first.
LEMMA SortingSorts ==
  ASSUME NEW events \in Seq(Row), NEW I \in SUBSET (DOMAIN events)
  PROVE  \E place : IsSorting(events, I, SortedByTime(events, I), place)
<1> DEFINE R == {p \in I \X I : Before(events, p[1], p[2])}
           N == Cardinality(I)
           chain == SortedByTime(events, I)
           place == [k \in 1..N |-> CHOOSE i \in I : Rank(I, R, i) = k - 1]
<1>1. \A i, j \in I : <<i, j>> \in R <=> Before(events, i, j)
  OBVIOUS
<1>2. \A i \in I : i \in Nat /\ events[i].content.time \in Nat
  <2> TAKE i \in I
  <2>1. DOMAIN events = 1..Len(events) /\ Len(events) \in Nat
    BY LenProperties
  <2>2. events[i] \in Row
    BY <2>1, ElementOfSeq
  <2> QED
    BY <2>1, <2>2, RowTypes
<1>3. IsFiniteSet(I)
  <2>1. DOMAIN events = 1..Len(events) /\ Len(events) \in Nat
    BY LenProperties
  <2>2. IsFiniteSet(1..Len(events))
    BY <2>1, FS_Interval
  <2> QED
    BY <2>1, <2>2, FS_Subset
<1> HIDE DEF R
<1>4. StrictOrder(I, R)
  <2>1. \A i \in I : <<i, i>> \notin R
    BY <1>1, <1>2 DEF Before
  <2>2. ASSUME NEW i \in I, NEW j \in I, NEW k \in I, <<i, j>> \in R, <<j, k>> \in R
        PROVE  <<i, k>> \in R
    BY <1>1, <1>2, <2>2 DEF Before
  <2>3. ASSUME NEW i \in I, NEW j \in I
        PROVE  i = j \/ <<i, j>> \in R \/ <<j, i>> \in R
    BY <1>1, <1>2 DEF Before
  <2> QED
    BY <2>1, <2>2, <2>3 DEF StrictOrder
<1>5. /\ N \in Nat
      /\ \A i \in I : Rank(I, R, i) \in 0..(N - 1)
      /\ \A i, j \in I : <<i, j>> \in R <=> Rank(I, R, i) < Rank(I, R, j)
      /\ \A i, j \in I : Rank(I, R, i) = Rank(I, R, j) => i = j
      /\ \A n \in 0..(N - 1) : \E i \in I : Rank(I, R, i) = n
  BY ONLY <1>3, <1>4, Ranks
<1>6. \A i \in I : Rank(I, R, i) = Cardinality({j \in I : Before(events, j, i)})
  <2> TAKE i \in I
  <2>1. {j \in I : <<j, i>> \in R} = {j \in I : Before(events, j, i)}
    BY <1>1
  <2> QED
    BY <2>1 DEF Rank
<1>7. chain = [k \in 1..N |-> events[place[k]]]
  <2>1. chain = [k \in 1..N |->
                   events[CHOOSE i \in I : Cardinality({j \in I : Before(events, j, i)}) = k - 1]]
    BY DEF SortedByTime, Before
  <2>2. ASSUME NEW k \in 1..N
        PROVE  (CHOOSE i \in I : Cardinality({j \in I : Before(events, j, i)}) = k - 1) = place[k]
    <3>1. \A i \in I : Cardinality({j \in I : Before(events, j, i)}) = k - 1 <=> Rank(I, R, i) = k - 1
      BY <1>6
    <3> QED
      BY <3>1
  <2> HIDE DEF place, N
  <2> QED
    BY <2>1, <2>2
<1>8. \A k \in 1..N : place[k] \in I /\ Rank(I, R, place[k]) = k - 1
  <2> TAKE k \in 1..N
  <2>1. k - 1 \in 0..(N - 1)
    BY <1>5
  <2> QED
    BY <1>5, <2>1
<1> HIDE DEF N
<1>9. DOMAIN chain = 1..N /\ \A k \in 1..N : chain[k] = events[place[k]]
  BY <1>7
<1>10. place \in [1..N -> I]
  BY <1>8
<1> HIDE DEF place, chain
<1>11. \A i \in I : \E k \in 1..N : place[k] = i
  <2> TAKE i \in I
  <2>1. Rank(I, R, i) + 1 \in 1..N
    BY <1>5
  <2>2. Rank(I, R, place[Rank(I, R, i) + 1]) = Rank(I, R, i)
    BY <1>5, <1>8, <2>1
  <2> QED
    BY <1>5, <1>8, <2>1, <2>2
<1>12. ASSUME NEW k \in 1..N, NEW l \in 1..N, k < l
       PROVE  Before(events, place[k], place[l])
  <2>1. place[k] \in I /\ place[l] \in I /\ Rank(I, R, place[k]) < Rank(I, R, place[l])
    BY <1>8, <1>12
  <2> QED
    BY <1>1, <1>5, <2>1
<1>13. IsSorting(events, I, chain, place)
  BY <1>5, <1>9, <1>10, <1>11, <1>12 DEF IsSorting, N
<1> QED
  BY <1>13 DEF chain

\* A table as RowsInv says it is, in which two rows of a subject with histories of one
\* length are the same row.
GoodTable(table) == IsTable(table) /\ LengthsGrow(table) /\ TimesGrow(table)

LEMMA LengthsTell ==
  ASSUME NEW table, GoodTable(table), NEW q \in table, NEW r \in table,
         q.content.subject = r.content.subject, ~(Len(q.hash) < Len(r.hash)), q # r
  PROVE  Len(r.hash) < Len(q.hash) /\ r.seq < q.seq
<1>1. /\ q.seq \in Nat /\ r.seq \in Nat /\ Len(q.hash) \in Nat /\ Len(r.hash) \in Nat
  BY RowTypes DEF GoodTable, IsTable
<1>2. q.seq # r.seq /\ ~(q.seq < r.seq)
  BY DEF GoodTable, IsTable, LengthsGrow
<1>3. r.seq < q.seq
  BY <1>1, <1>2
<1> QED
  BY <1>3 DEF GoodTable, LengthsGrow

\* What VerifyEvent demands of an event it calls valid.
LEMMA ValidEvent ==
  ASSUME NEW chain, NEW k
  PROVE  VerifyEvent(chain, k) = "valid" <=>
           /\ chain[k].hash = compute_hash(chain[k].content, chain[k].prev)
           /\ k = 1 => chain[k].prev = NoHash
           /\ k > 1 => chain[k].prev = chain[k - 1].hash
BY DEF VerifyEvent

\* The hash of a row that recomputes ends in the row's own content.
LEMMA LastContent ==
  ASSUME NEW r \in Row, r.hash = compute_hash(r.content, r.prev)
  PROVE  r.hash[Len(r.hash)] = r.content /\ Len(r.hash) = Len(r.prev) + 1 /\ Len(r.hash) > 0
<1>1. r.prev \in Seq(Content) /\ r.content \in Content /\ Len(r.prev) \in Nat
  BY RowTypes
<1>2. /\ Len(Append(r.prev, r.content)) = Len(r.prev) + 1
      /\ Append(r.prev, r.content)[Len(r.prev) + 1] = r.content
  BY <1>1, AppendProperties
<1> QED
  BY <1>1, <1>2 DEF compute_hash

\* Rows that are all in a list found valid are intact, if they are the oldest of their
\* subjects in the table: what the list repeats, or has besides, hides nothing.
LEMMA ValidMeansIntact ==
  ASSUME NEW table, GoodTable(table), NEW list \in Seq(table), IsChainValid(list),
         NEW S \in SUBSET table,
         \A r \in S : \E i \in 1..Len(list) : list[i] = r,
         \A q \in table \ S, r \in S : q.content.subject = r.content.subject => q.seq > r.seq
  PROVE  Intact(S)
<1>1. \A r \in table : r \in Row
  BY DEF GoodTable, IsTable
<1>2. ASSUME NEW r \in S
      PROVE  /\ r.hash = compute_hash(r.content, r.prev)
             /\ r.prev # NoHash => \E q \in table : /\ q.content.subject = r.content.subject
                                                    /\ q.hash = r.prev
  <2> DEFINE s == r.content.subject
             I == OfSubject(list, s)
             chain == SortedByTime(list, I)
  <2>1. PICK i \in 1..Len(list) : list[i] = r
    OBVIOUS
  <2>2. DOMAIN list = 1..Len(list) /\ list \in Seq(Row) /\ \A j \in 1..Len(list) : list[j] \in table
    BY <1>1, LenProperties, ElementOfSeq, SeqDef
  <2>3. i \in I /\ I \in SUBSET (DOMAIN list) /\ \A j \in I : list[j].content.subject = s
    BY <2>1, <2>2 DEF OfSubject
  <2>4. s \in Subjects
    BY <1>1, RowTypes
  <2>5. \A k \in DOMAIN chain : VerifyEvent(chain, k) = "valid"
    BY <2>4 DEF IsChainValid
  <2> HIDE DEF I
  <2>6. PICK place : IsSorting(list, I, chain, place)
    BY <2>2, <2>3, SortingSorts
  <2> HIDE DEF chain
  <2>7. PICK k \in DOMAIN chain : place[k] = i
    BY <2>3, <2>6 DEF IsSorting
  <2>8. chain[k] = r /\ k \in Nat /\ k >= 1
    BY <2>1, <2>6, <2>7 DEF IsSorting
  <2>9. /\ chain[k].hash = compute_hash(chain[k].content, chain[k].prev)
        /\ k = 1 => chain[k].prev = NoHash
        /\ k > 1 => chain[k].prev = chain[k - 1].hash
    BY <2>5, ValidEvent
  <2>10. ASSUME r.prev # NoHash
         PROVE  \E q \in table : q.content.subject = s /\ q.hash = r.prev
    <3>1. k > 1 /\ k - 1 \in DOMAIN chain
      BY <2>6, <2>8, <2>9, <2>10 DEF IsSorting
    <3>2. place[k - 1] \in I /\ chain[k - 1] = list[place[k - 1]]
      BY <2>6, <3>1 DEF IsSorting
    <3>3. chain[k - 1] \in table /\ chain[k - 1].content.subject = s
      BY <2>2, <2>3, <3>2
    <3> QED
      BY <2>8, <2>9, <3>1, <3>3
  <2> QED
    BY <2>8, <2>9, <2>10
<1>3. HashesRecompute(S)
  BY <1>2 DEF HashesRecompute
<1>4. NoFork(S)
  <2>1. ASSUME NEW r \in S, NEW q \in S, r.content.subject = q.content.subject, r.prev = q.prev
        PROVE  r = q
    <3>1. Len(r.hash) = Len(q.hash) /\ Len(r.hash) \in Nat
      BY <1>1, <2>1, RowTypes DEF GoodTable, LengthsGrow
    <3> QED
      BY <2>1, <3>1, LengthsTell
  <2> QED
    BY <2>1 DEF NoFork
<1>5. ASSUME NEW r \in S, r.prev # NoHash
      PROVE  \E q \in RowsOf(S, r.content.subject) :
               q.hash = r.prev /\ q.content.time < r.content.time
  <2>1. PICK q \in table : q.content.subject = r.content.subject /\ q.hash = r.prev
    BY <1>2, <1>5
  <2>2. /\ Len(q.hash) \in Nat /\ Len(r.hash) = Len(q.hash) + 1
        /\ q.seq \in Nat /\ r.seq \in Nat
    BY <1>1, <2>1, RowTypes DEF GoodTable, LengthsGrow
  <2>3. q \in S
    <3>1. ASSUME q \notin S
          PROVE  Len(r.hash) < Len(q.hash)
      <4>1. r.seq < q.seq
        BY <2>1, <2>2, <3>1
      <4> QED
        BY <2>1, <4>1 DEF GoodTable, LengthsGrow
    <3>2. Len(r.hash) \in Nat
      BY <1>1, RowTypes
    <3> QED
      BY <2>2, <3>1, <3>2
  <2>4. q.hash[Len(q.hash)] = q.content
    BY <1>1, <1>2, <2>3, LastContent
  <2>5. r.prev[Len(r.prev)].time < r.content.time
    BY <1>5 DEF GoodTable, TimesGrow
  <2> QED
    BY <2>1, <2>3, <2>4, <2>5 DEF RowsOf
<1> QED
  BY <1>3, <1>4, <1>5 DEF Intact

\* In an intact table the longer history is the later event.
LEMMA TimesFollowLengths ==
  ASSUME NEW table, GoodTable(table), Intact(table), NEW r \in table, NEW x \in table,
         r.content.subject = x.content.subject, Len(r.hash) < Len(x.hash)
  PROVE  r.content.time < x.content.time
<1> DEFINE Wrong(y) == /\ y.content.subject = r.content.subject
                       /\ Len(r.hash) < Len(y.hash) /\ ~(r.content.time < y.content.time)
           M == {n \in Nat : \E y \in table : Wrong(y) /\ Len(y.hash) = n}
<1>1. \A y \in table : /\ y \in Row /\ Len(y.hash) \in Nat /\ Len(y.prev) \in Nat
                       /\ y.content.time \in Nat /\ Len(y.hash) = Len(y.prev) + 1
                       /\ y.prev = NoHash <=> Len(y.prev) = 0
  BY RowTypes DEF GoodTable, IsTable, LengthsGrow
<1>2. SUFFICES ASSUME ~(r.content.time < x.content.time)
               PROVE  FALSE
  OBVIOUS
<1>3. Wrong(x)
  BY <1>2
<1> HIDE DEF Wrong
<1>4. Len(x.hash) \in M
  BY <1>1, <1>3
<1>5. PICK m \in M : \A k \in M : m <= k
  BY <1>4, LeastElement
<1>6. PICK y \in table : Wrong(y) /\ Len(y.hash) = m
  BY <1>5
<1>7. y.content.subject = r.content.subject /\ Len(r.hash) < Len(y.hash)
      /\ ~(r.content.time < y.content.time)
  BY <1>6 DEF Wrong
<1>8. y.prev # NoHash
  BY <1>1, <1>7
<1>9. PICK z \in table : /\ z.content.subject = y.content.subject
                         /\ z.hash = y.prev /\ z.content.time < y.content.time
  BY <1>8 DEF Intact, RowsOf
<1>10. Len(y.hash) = Len(z.hash) + 1
  BY <1>1, <1>9
<1>11. CASE z = r
  BY <1>7, <1>9, <1>11
<1>12. CASE z # r
  <2>1. ~(Len(z.hash) < Len(r.hash))
    BY <1>1, <1>7, <1>10
  <2>2. Len(r.hash) < Len(z.hash)
    BY <1>7, <1>9, <1>12, <2>1, LengthsTell
  <2>3. ~(r.content.time < z.content.time)
    BY <1>1, <1>7, <1>9
  <2>4. Wrong(z)
    BY <1>7, <1>9, <2>2, <2>3 DEF Wrong
  <2>5. Len(z.hash) \in M
    BY <1>1, <2>4
  <2> HIDE DEF M
  <2> QED
    BY <1>1, <1>5, <1>6, <1>10, <2>5
<1> QED
  BY <1>11, <1>12

\* An intact table is found valid, whatever the order in which it was listed.
LEMMA IntactMeansValid ==
  ASSUME NEW table, GoodTable(table), Intact(table), NEW list \in Seq(table),
         \A r \in table : \E i \in 1..Len(list) : list[i] = r,
         \A i, j \in 1..Len(list) : list[i] = list[j] => i = j
  PROVE  IsChainValid(list)
<1>1. \A r \in table : /\ r \in Row /\ Len(r.hash) \in Nat /\ Len(r.prev) \in Nat
                       /\ r.content.time \in Nat /\ Len(r.hash) = Len(r.prev) + 1
                       /\ r.prev = NoHash <=> Len(r.prev) = 0
  BY RowTypes DEF GoodTable, IsTable, LengthsGrow
<1>2. DOMAIN list = 1..Len(list) /\ list \in Seq(Row) /\ \A j \in 1..Len(list) : list[j] \in table
  BY <1>1, LenProperties, ElementOfSeq, SeqDef
<1> SUFFICES ASSUME NEW s \in Subjects,
                    NEW k \in DOMAIN SortedByTime(list, OfSubject(list, s))
             PROVE  VerifyEvent(SortedByTime(list, OfSubject(list, s)), k) = "valid"
  BY DEF IsChainValid
<1> DEFINE I == OfSubject(list, s)
           chain == SortedByTime(list, I)
<1>3. /\ I \in SUBSET (DOMAIN list)
      /\ \A j \in 1..Len(list) : j \in I <=> list[j].content.subject = s
  BY <1>2 DEF OfSubject
<1> HIDE DEF I
<1>4. PICK place : IsSorting(list, I, chain, place)
  BY <1>2, <1>3, SortingSorts
<1> HIDE DEF chain
<1>5. /\ DOMAIN chain \in SUBSET Nat /\ \A n \in DOMAIN chain : n >= 1
      /\ \A n, l \in DOMAIN chain : \A x \in Nat : n < x /\ x < l => x \in DOMAIN chain
      /\ \A n \in DOMAIN chain : n > 1 => n - 1 \in DOMAIN chain
  BY <1>4 DEF IsSorting
<1>6. \A n \in DOMAIN chain : /\ place[n] \in I /\ place[n] \in 1..Len(list)
                              /\ chain[n] = list[place[n]]
                              /\ chain[n] \in table /\ chain[n].content.subject = s
  BY <1>2, <1>3, <1>4 DEF IsSorting
<1>7. \A q \in table : q.content.subject = s => \E n \in DOMAIN chain : chain[n] = q
  <2> SUFFICES ASSUME NEW q \in table, q.content.subject = s
               PROVE  \E n \in DOMAIN chain : chain[n] = q
    OBVIOUS
  <2>1. PICK i \in 1..Len(list) : list[i] = q
    OBVIOUS
  <2>2. i \in I
    BY <1>3, <2>1
  <2> QED
    BY <1>4, <2>1, <2>2 DEF IsSorting
<1>8. ASSUME NEW n \in DOMAIN chain, NEW l \in DOMAIN chain, n < l
      PROVE  Len(chain[n].hash) < Len(chain[l].hash)
  <2>1. Before(list, place[n], place[l])
    BY <1>4, <1>8 DEF IsSorting
  <2>2. /\ list[place[n]] = chain[n] /\ list[place[l]] = chain[l]
        /\ chain[n] \in table /\ chain[l] \in table
        /\ chain[n].content.subject = chain[l].content.subject
        /\ place[n] \in 1..Len(list) /\ place[l] \in 1..Len(list)
    BY <1>6
  <2>3. chain[n].content.time \in Nat /\ chain[l].content.time \in Nat
    BY <1>1, <2>2
  <2>9. /\ chain[n].content.time <= chain[l].content.time
        /\ place[n] # place[l]
    <3> DEFINE a == chain[n].content.time
               b == chain[l].content.time
    <3>1. a \in Nat /\ b \in Nat /\ place[n] \in Nat /\ place[l] \in Nat
      <4>1. Len(list) \in Nat
        BY LenProperties
      <4> QED
        BY ONLY <2>2, <2>3, <4>1
    <3>2. a < b \/ (a = b /\ place[n] < place[l])
      BY <2>1, <2>2 DEF Before
    <3>3. place[n] = place[l] => a = b
      BY <2>2
    <3> HIDE DEF a, b
    <3>4. a <= b /\ place[n] # place[l]
      BY ONLY <3>1, <3>2, <3>3
    <3> QED
      BY <3>4 DEF a, b
  <2>4. place[n] # place[l]
    BY <2>9
  <2>5. chain[n] # chain[l]
    BY <2>2, <2>4
  <2>6. ASSUME ~(Len(chain[n].hash) < Len(chain[l].hash))
        PROVE  FALSE
    <3>1. Len(chain[l].hash) < Len(chain[n].hash)
      BY <2>2, <2>5, <2>6, LengthsTell
    <3>2. chain[l].content.time < chain[n].content.time
      BY <2>2, <3>1, TimesFollowLengths
    <3> QED
      BY <2>3, <2>9, <3>2
  <2> QED
    BY <2>6
<1> DEFINE r == chain[k]
<1>9. r \in table /\ r.content.subject = s /\ k \in DOMAIN chain
  BY <1>6 DEF chain, I
<1> HIDE DEF r
<1>10. r.hash = compute_hash(r.content, r.prev)
  BY <1>9 DEF Intact, HashesRecompute
<1>11. CASE r.prev = NoHash
  <2>1. ASSUME k > 1
        PROVE  FALSE
    <3>1. k - 1 \in DOMAIN chain /\ chain[k - 1] \in table
      BY <1>5, <1>6, <1>9, <2>1
    <3>2. Len(chain[k - 1].hash) < Len(r.hash)
      BY <1>5, <1>8, <1>9, <3>1 DEF r
    <3>3. Len(r.hash) = 1
      <4>1. Len(r.hash) = Len(r.prev) + 1 /\ Len(r.prev) = 0
        BY <1>1, <1>9, <1>11
      <4> QED
        BY ONLY <4>1
    <3>4. Len(chain[k - 1].hash) \in Nat /\ Len(chain[k - 1].hash) >= 1
      BY <1>1, <3>1
    <3> QED
      BY ONLY <3>2, <3>3, <3>4
  <2> QED
    BY <1>10, <1>11, <2>1, ValidEvent DEF r, chain, I
<1>12. CASE r.prev # NoHash
  <2>1. PICK q \in table : q.content.subject = s /\ q.hash = r.prev
    BY <1>9, <1>12 DEF Intact, RowsOf
  <2>2. PICK j \in DOMAIN chain : chain[j] = q
    BY <1>7, <2>1
  <2>3. Len(r.hash) = Len(q.hash) + 1 /\ Len(q.hash) \in Nat /\ Len(r.hash) \in Nat
    BY <1>1, <1>9, <2>1
  <2>4. k \in Nat /\ j \in Nat /\ k >= 1 /\ j >= 1
    BY <1>5, <1>9
  <2>5. ~(k < j)
    <3>1. k < j => Len(r.hash) < Len(q.hash)
      BY <1>8, <1>9, <2>2 DEF r
    <3> QED
      BY <2>3, <3>1
  <2>6. k # j
    <3>1. k = j => r = q
      BY <2>2 DEF r
    <3> QED
      BY <2>3, <3>1
  <2>7. ~(j < k - 1)
    <3>1. SUFFICES ASSUME j < k - 1
                   PROVE  FALSE
      OBVIOUS
    <3>2. k - 1 \in DOMAIN chain
      BY <1>5, <1>9, <2>4, <3>1
    <3>3. Len(q.hash) < Len(chain[k - 1].hash)
      BY <1>8, <2>2, <3>1, <3>2
    <3>6. k - 1 < k
      BY ONLY <2>4
    <3>4. Len(chain[k - 1].hash) < Len(r.hash)
      BY <1>8, <1>9, <3>2, <3>6 DEF r
    <3>5. Len(chain[k - 1].hash) \in Nat
      BY <1>1, <1>6, <3>2
    <3> QED
      BY ONLY <2>3, <3>3, <3>4, <3>5
  <2>8. j = k - 1 /\ k > 1
    BY ONLY <2>4, <2>5, <2>6, <2>7
  <2> QED
    BY <1>10, <2>1, <2>2, <2>8, ValidEvent DEF r, chain, I
<1> QED
  BY <1>11, <1>12

-----------------------------------------------------------------------------
(***************************************************************************)
(* The entry of a job, and the task that works on it.                       *)
(***************************************************************************)

\* An entry announces what it has.
Settled(job) ==
  /\ job.status = "completed" <=> job.verdict # "none"
  /\ job.status = "failed" <=> job.error # "none"

\* The entry fits the task.
JobAgrees(j) ==
  /\ Settled(jobs[j])
  /\ task[j] = "none" => jobs[j] = NoJob
  /\ task[j] = "created" => jobs[j].status \in {"pending", "404"}
  /\ task[j] \in {"count", "page"} => jobs[j].status \in {"running", "404"}

\* Entries fit their tasks; a request has no entry, and is answered at its end; only who
\* fetches pages has fetched any.
StageInv ==
  /\ \A j \in Jobs : JobAgrees(j)
  /\ \A c \in Checks : task[c] # "created" /\ (response[c] # "none" => task[c] = "ended")
  /\ \A v \in Verifiers : task[v] # "page" => offset[v] = 0 /\ fetched[v] = << >>

\* What a step may do with a job and its task.
Keeps(j) ==
  /\ jobs'[j] \in {jobs[j], NoJob}
  /\ \/ task'[j] \in {task[j], "ended"}
     \/ task[j] = "count" /\ task'[j] = "page"
Starts(j) ==
  /\ task[j] = "none" /\ task'[j] = "created"
  /\ jobs'[j].status = "pending" /\ jobs'[j].verdict = "none" /\ jobs'[j].error = "none"
GoesOn(j) ==
  /\ task[j] = "created" /\ task'[j] = "count" /\ jobs[j].status # "404"
  /\ jobs'[j] \in {Running(jobs[j]), NoJob}
Ends(j) ==
  /\ task[j] \in {"count", "page"} /\ task'[j] = "ended" /\ jobs[j].status # "404"
  /\ jobs'[j] \in {Completed(jobs[j], verdict) : verdict \in {"valid", "invalid"}}
                  \cup {Failed(jobs[j], error) : error \in Errors}
JobStep(j) == Keeps(j) \/ Starts(j) \/ GoesOn(j) \/ Ends(j)

LEMMA NoJobType ==
  /\ NoJob \in Job /\ NoJob.status = "404" /\ NoJob.verdict = "none" /\ NoJob.error = "none"
BY DEF NoJob, Job, Statuses, Terminal

LEMMA JobChanges ==
  ASSUME NEW job \in Job, now \in Nat
  PROVE  /\ Running(job) \in Job /\ Running(job).status = "running"
         /\ Running(job).verdict = job.verdict /\ Running(job).error = job.error
         /\ \A verdict \in {"valid", "invalid"} :
              /\ Completed(job, verdict) \in Job /\ Completed(job, verdict).status = "completed"
              /\ Completed(job, verdict).verdict = verdict /\ Completed(job, verdict).error = job.error
         /\ \A error \in Errors :
              /\ Failed(job, error) \in Job /\ Failed(job, error).status = "failed"
              /\ Failed(job, error).verdict = job.verdict /\ Failed(job, error).error = error
<1>1. /\ Running(job) \in Job /\ Running(job).status = "running"
      /\ Running(job).verdict = job.verdict /\ Running(job).error = job.error
  BY DEF Running, Job, Statuses, Terminal
<1>2. ASSUME NEW verdict \in {"valid", "invalid"}
      PROVE  /\ Completed(job, verdict) \in Job /\ Completed(job, verdict).status = "completed"
             /\ Completed(job, verdict).verdict = verdict /\ Completed(job, verdict).error = job.error
  BY DEF Completed, Job, Statuses, Terminal
<1>3. ASSUME NEW error \in Errors
      PROVE  /\ Failed(job, error) \in Job /\ Failed(job, error).status = "failed"
             /\ Failed(job, error).verdict = job.verdict /\ Failed(job, error).error = error
  BY DEF Failed, Job, Statuses, Terminal
<1> QED
  BY <1>1, <1>2, <1>3

LEMMA Evicting ==
  ASSUME NEW store \in [Jobs -> Job]
  PROVE  /\ Evict(store) \in [Jobs -> Job]
         /\ \A j \in Jobs : Evict(store)[j] \in {store[j], NoJob}
BY NoJobType DEF Evict

LEMMA Updating ==
  ASSUME NEW store \in [Jobs -> Job], NEW j \in Jobs, NEW job \in Job
  PROVE  /\ Update(store, j, job) \in [Jobs -> Job]
         /\ \A k \in Jobs \ {j} : Update(store, j, job)[k] \in {store[k], NoJob}
         /\ store[j].status = "404" => Update(store, j, job) = store
         /\ store[j].status # "404" => Update(store, j, job)[j] \in {job, NoJob}
<1>1. [store EXCEPT ![j] = job] \in [Jobs -> Job]
  OBVIOUS
<1>2. CASE store[j].status = "404"
  BY <1>2 DEF Update
<1>3. CASE store[j].status # "404"
  <2> DEFINE new == [store EXCEPT ![j] = job]
  <2>1. \A k \in Jobs \ {j} : new[k] = store[k]
    OBVIOUS
  <2>2. new[j] = job
    OBVIOUS
  <2> HIDE DEF new
  <2>3. Evict(new) \in [Jobs -> Job] /\ \A k \in Jobs : Evict(new)[k] \in {new[k], NoJob}
    BY <1>1, Evicting DEF new
  <2>4. Update(store, j, job) = Evict(new)
    BY <1>3 DEF Update, new
  <2> QED
    BY <1>3, <2>1, <2>2, <2>3, <2>4
<1> QED
  BY <1>2, <1>3

\* What End does with the entries, for a job and for a request.
LEMMA Ending ==
  ASSUME TypeOK, NEW v \in Verifiers, task[v] \in {"count", "page"},
         NEW res \in {"valid", "invalid"} \cup Errors, End(v, res)
  PROVE  /\ jobs' \in [Jobs -> Job]
         /\ \A j \in Jobs : JobStep(j)
         /\ \A k \in Jobs \ {v} : jobs'[k] \in {jobs[k], NoJob}
         /\ v \in Jobs => jobs'[v].verdict \in {"none", res}
         /\ response' \in [Checks -> {"none", "valid", "invalid"} \cup Errors]
         /\ \A c \in Checks : IF c = v THEN response'[c] = res ELSE response'[c] = response[c]
<1>1. task' = [task EXCEPT ![v] = "ended"] /\ task \in [Verifiers -> {"none", "created", "count", "page", "ended"}]
  BY DEF End, Finish, TypeOK
<1>2. jobs \in [Jobs -> Job] /\ now \in Nat /\ Jobs \cap Checks = {} /\ Jobs \subseteq Verifiers
  BY VerificationAssumption DEF TypeOK, Verifiers
<1>3. CASE v \in Jobs
  <2> DEFINE job == IF res \in Errors THEN Failed(jobs[v], res) ELSE Completed(jobs[v], res)
  <2>1. jobs' = Update(jobs, v, job) /\ response' = response
    BY <1>2, <1>3 DEF End
  <2>2. jobs[v] \in Job
    BY <1>2, <1>3
  <2>3. /\ job \in Job
        /\ job \in {Completed(jobs[v], verdict) : verdict \in {"valid", "invalid"}}
                   \cup {Failed(jobs[v], error) : error \in Errors}
        /\ job.verdict \in {jobs[v].verdict, res}
    BY <1>2, <2>2, JobChanges
  <2>4. jobs[v].verdict = "none"
    BY <1>2, <1>3, <2>2 DEF TypeOK
  <2> HIDE DEF job
  <2>5. /\ jobs' \in [Jobs -> Job]
        /\ \A k \in Jobs \ {v} : jobs'[k] \in {jobs[k], NoJob}
        /\ jobs[v].status = "404" => jobs' = jobs
        /\ jobs[v].status # "404" => jobs'[v] \in {job, NoJob}
    BY <1>2, <1>3, <2>1, <2>3, Updating
  <2>6. \A k \in Jobs \ {v} : Keeps(k)
    BY <1>1, <1>2, <2>5 DEF Keeps
  <2>7. JobStep(v)
    BY <1>1, <1>3, <2>3, <2>5 DEF JobStep, Keeps, Ends
  <2>8. jobs'[v].verdict \in {"none", res}
    BY <2>3, <2>4, <2>5, NoJobType
  <2> QED
    BY <1>2, <1>3, <2>1, <2>5, <2>6, <2>7, <2>8 DEF JobStep, TypeOK
<1>4. CASE v \in Checks
  <2>1. jobs' = jobs /\ response' = [response EXCEPT ![v] = res] /\ v \notin Jobs
    BY <1>2, <1>4 DEF End
  <2>2. \A k \in Jobs : Keeps(k)
    BY <1>1, <1>2, <2>1 DEF Keeps
  <2>3. response \in [Checks -> {"none", "valid", "invalid"} \cup Errors]
    BY DEF TypeOK
  <2> QED
    BY <1>2, <1>4, <2>1, <2>2, <2>3 DEF JobStep
<1> QED
  BY <1>3, <1>4 DEF Verifiers

\* Every step of the system is, for every job, one of the four.
LEMMA JobSteps ==
  ASSUME TypeOK, StageInv, [Next]_vars
  PROVE  jobs' \in [Jobs -> Job] /\ \A j \in Jobs : JobStep(j)
<1>1. /\ jobs \in [Jobs -> Job] /\ now \in Nat /\ Jobs \subseteq Verifiers
      /\ task \in [Verifiers -> {"none", "created", "count", "page", "ended"}]
      /\ Checks \subseteq Verifiers /\ Jobs \cap Checks = {}
  BY VerificationAssumption DEF TypeOK, Verifiers
<1>2. ASSUME NEW i \in Jobs, StartJob(i)
      PROVE  jobs' \in [Jobs -> Job] /\ \A j \in Jobs : JobStep(j)
  <2> DEFINE new == [NoJob EXCEPT !.status = "pending", !.created = now]
  <2>1. /\ new \in Job /\ new.status = "pending" /\ new.verdict = "none" /\ new.error = "none"
    BY <1>1 DEF NoJob, Job, Statuses, Terminal
  <2> HIDE DEF new
  <2>2. jobs' = [Evict(jobs) EXCEPT ![i] = new] /\ task' = [task EXCEPT ![i] = "created"] /\ task[i] = "none"
    BY <1>2 DEF StartJob, new
  <2>3. Evict(jobs) \in [Jobs -> Job] /\ \A j \in Jobs : Evict(jobs)[j] \in {jobs[j], NoJob}
    BY <1>1, Evicting
  <2>4. Starts(i)
    BY <1>1, <2>1, <2>2, <2>3 DEF Starts
  <2>5. \A j \in Jobs \ {i} : Keeps(j)
    BY <1>1, <2>2, <2>3 DEF Keeps
  <2> QED
    BY <2>1, <2>2, <2>3, <2>4, <2>5 DEF JobStep
<1>3. ASSUME NEW i \in Jobs, Poll(i)
      PROVE  jobs' \in [Jobs -> Job] /\ \A j \in Jobs : JobStep(j)
  <2>1. jobs' = Evict(jobs) /\ task' = task
    BY <1>3 DEF Poll
  <2> QED
    BY <1>1, <2>1, Evicting DEF JobStep, Keeps
<1>4. ASSUME NEW i \in Verifiers, RunJob(i), i \in Jobs
      PROVE  jobs' \in [Jobs -> Job] /\ \A j \in Jobs : JobStep(j)
  <2> DEFINE store == Evict(jobs)
  <2>1. /\ jobs' = Update(store, i, Running(store[i])) /\ task[i] = "created"
        /\ task' = [task EXCEPT ![i] = IF store[i].status = "404" THEN "ended" ELSE "count"]
    BY <1>4 DEF RunJob
  <2>2. store \in [Jobs -> Job] /\ \A j \in Jobs : store[j] \in {jobs[j], NoJob}
    BY <1>1, Evicting
  <2> HIDE DEF store
  <2>3. Running(store[i]) \in Job
    BY <1>1, <1>4, <2>2, JobChanges
  <2>4. /\ jobs' \in [Jobs -> Job]
        /\ \A k \in Jobs \ {i} : jobs'[k] \in {store[k], NoJob}
        /\ store[i].status = "404" => jobs' = store
        /\ store[i].status # "404" => jobs'[i] \in {Running(store[i]), NoJob}
    BY <1>4, <2>1, <2>2, <2>3, Updating
  <2>5. \A k \in Jobs \ {i} : Keeps(k)
    <3>1. \A k \in Jobs \ {i} : task'[k] = task[k]
      BY <1>1, <2>1
    <3> QED
      BY <2>2, <2>4, <3>1 DEF Keeps
  <2>6. CASE store[i].status = "404"
    <3>1. task'[i] = "ended"
      BY <1>1, <2>1, <2>6
    <3>2. Keeps(i)
      BY <1>4, <2>2, <2>4, <2>6, <3>1 DEF Keeps
    <3> QED
      BY <2>4, <2>5, <3>2 DEF JobStep
  <2>7. CASE store[i].status # "404"
    <3>1. task'[i] = "count"
      BY <1>1, <2>1, <2>7
    <3>2. store[i] = jobs[i]
      BY <1>4, <2>2, <2>7, NoJobType
    <3>3. GoesOn(i)
      BY <2>1, <2>4, <2>7, <3>1, <3>2 DEF GoesOn
    <3> QED
      BY <2>4, <2>5, <3>3 DEF JobStep
  <2> QED
    BY <2>6, <2>7
<1>5. ASSUME NEW v \in Verifiers, task[v] \in {"count", "page"},
             NEW res \in {"valid", "invalid"} \cup Errors, End(v, res)
      PROVE  jobs' \in [Jobs -> Job] /\ \A j \in Jobs : JobStep(j)
  BY <1>5, Ending
<1>6. ASSUME jobs' = jobs, \A j \in Jobs : \/ task'[j] \in {task[j], "ended"}
                                           \/ task[j] = "count" /\ task'[j] = "page"
      PROVE  jobs' \in [Jobs -> Job] /\ \A j \in Jobs : JobStep(j)
  BY <1>1, <1>6 DEF JobStep, Keeps
<1>7. ASSUME NEW v \in Verifiers, CountEvents(v)
      PROVE  jobs' \in [Jobs -> Job] /\ \A j \in Jobs : JobStep(j)
  <2>1. task[v] = "count"
    BY <1>7 DEF CountEvents
  <2>2. CASE End(v, "limit")
    BY <1>5, <2>1, <2>2 DEF Errors
  <2>3. CASE task' = [task EXCEPT ![v] = "page"] /\ jobs' = jobs
    BY <1>1, <1>6, <2>1, <2>3
  <2> QED
    BY <1>7, <2>2, <2>3 DEF CountEvents
<1>8. ASSUME NEW v \in Verifiers, FetchPage(v)
      PROVE  jobs' \in [Jobs -> Job] /\ \A j \in Jobs : JobStep(j)
  <2>1. \/ task' = task /\ jobs' = jobs
        \/ \E verdict \in {"valid", "invalid"} : End(v, verdict)
    BY <1>8 DEF FetchPage
  <2>2. task[v] = "page"
    BY <1>8 DEF FetchPage
  <2> QED
    BY <1>5, <1>6, <2>1, <2>2
<1>9. ASSUME NEW v \in Verifiers, TimeOut(v)
      PROVE  jobs' \in [Jobs -> Job] /\ \A j \in Jobs : JobStep(j)
  BY <1>5, <1>9 DEF TimeOut, Errors
<1>10. ASSUME NEW v \in Verifiers, QueryFails(v)
       PROVE  jobs' \in [Jobs -> Job] /\ \A j \in Jobs : JobStep(j)
  BY <1>5, <1>10 DEF QueryFails, Errors
<1>11. ASSUME NEW v \in Verifiers, DropTask(v)
       PROVE  jobs' \in [Jobs -> Job] /\ \A j \in Jobs : JobStep(j)
  BY <1>1, <1>6, <1>11 DEF DropTask, Finish
<1>12. ASSUME NEW c \in Checks, CheckTenant(c) \/ CheckSubject(c)
       PROVE  jobs' \in [Jobs -> Job] /\ \A j \in Jobs : JobStep(j)
  BY <1>1, <1>6, <1>12 DEF CheckTenant, CheckSubject
<1>13. ASSUME NEW s \in Subjects, CommitAppend(s)
       PROVE  jobs' \in [Jobs -> Job] /\ \A j \in Jobs : JobStep(j)
  BY <1>1, <1>6, <1>13 DEF CommitAppend
<1>14. ASSUME Restart
       PROVE  jobs' \in [Jobs -> Job] /\ \A j \in Jobs : JobStep(j)
  <2>1. /\ jobs' = [j \in Jobs |-> NoJob]
        /\ \A j \in Jobs : task'[j] \in {task[j], "ended"}
    BY <1>1, <1>14 DEF Restart
  <2> QED
    BY <2>1, NoJobType DEF JobStep, Keeps
<1>15. CASE Tamper \/ Tick \/ UNCHANGED vars
  BY <1>1, <1>6, <1>15 DEF Tamper, Tick, vars
<1>16. \A c \in Checks : ~RunJob(c)
  BY DEF RunJob, StageInv
<1> QED
  BY <1>2, <1>3, <1>4, <1>7, <1>8, <1>9, <1>10, <1>11, <1>12, <1>13, <1>14, <1>15,
     <1>16 DEF Next, Work, Verifiers

\* The four keep the entry in accord with the task.
LEMMA JobStepsAgree ==
  ASSUME TypeOK, NEW j \in Jobs, JobAgrees(j), JobStep(j)
  PROVE  JobAgrees(j)'
<1>1. /\ jobs[j] \in Job /\ now \in Nat
      /\ task[j] \in {"none", "created", "count", "page", "ended"}
  BY DEF TypeOK, Verifiers
<1>2. Settled(NoJob) /\ NoJob.status = "404"
  BY NoJobType DEF Settled
<1>3. CASE Keeps(j)
  <2>1. Settled(jobs'[j])
    BY <1>2, <1>3 DEF Keeps, JobAgrees
  <2>2. task'[j] = "none" => jobs'[j] = NoJob
    BY <1>3 DEF Keeps, JobAgrees
  <2>3. task'[j] = "created" => jobs'[j].status \in {"pending", "404"}
    BY <1>2, <1>3 DEF Keeps, JobAgrees
  <2>4. task'[j] \in {"count", "page"} => jobs'[j].status \in {"running", "404"}
    BY <1>2, <1>3 DEF Keeps, JobAgrees
  <2> QED
    BY <2>1, <2>2, <2>3, <2>4 DEF JobAgrees, Settled
<1>4. CASE Starts(j)
  BY <1>4 DEF Starts, JobAgrees, Settled
<1>5. CASE GoesOn(j)
  <2>1. Settled(Running(jobs[j])) /\ Running(jobs[j]).status = "running"
    BY <1>1, <1>5, JobChanges DEF GoesOn, JobAgrees, Settled
  <2> QED
    BY <1>2, <1>5, <2>1 DEF GoesOn, JobAgrees, Settled
<1>6. CASE Ends(j)
  <2>1. jobs[j].verdict = "none" /\ jobs[j].error = "none"
    BY <1>6 DEF Ends, JobAgrees, Settled
  <2>2. \A verdict \in {"valid", "invalid"} : Settled(Completed(jobs[j], verdict))
    BY <1>1, <2>1, JobChanges DEF Settled
  <2>3. \A error \in Errors : Settled(Failed(jobs[j], error))
    BY <1>1, <2>1, JobChanges DEF Settled, Errors
  <2>4. Settled(jobs'[j]) /\ task'[j] = "ended"
    BY <1>6, <2>2, <2>3 DEF Ends
  <2> QED
    BY <2>4 DEF JobAgrees, Settled
<1> QED
  BY <1>3, <1>4, <1>5, <1>6 DEF JobStep

\* What is verified is a table as RowsInv says, and a page is a part of it.
LEMMA VerifiedTable ==
  ASSUME TypeOK, RowsInv, NEW v \in Verifiers
  PROVE  GoodTable(Verified(v)) /\ Verified(v) \subseteq rows /\ Verified(v) \subseteq Row
<1>1. CASE subject_id[v] = None
  BY <1>1 DEF Verified, GoodTable, RowsInv, IsTable
<1>2. CASE subject_id[v] # None
  <2>1. Verified(v) = RowsOf(rows, subject_id[v])
    BY <1>2 DEF Verified
  <2>2. IsTable(Verified(v)) /\ Verified(v) \subseteq rows
    BY <2>1, RowsOfTable DEF RowsInv
  <2> QED
    BY <2>2 DEF GoodTable, RowsInv, LengthsGrow, TimesGrow, IsTable
<1> QED
  BY <1>1, <1>2

\* The next page of a verification, and all that is fetched with it.
Batch(v) == Page(Verified(v), offset[v], BATCH_SIZE)

LEMMA Batches ==
  ASSUME TypeOK, RowsInv, NEW v \in Verifiers
  PROVE  /\ Batch(v) \in Seq(Verified(v)) /\ Batch(v) \in Seq(Row)
         /\ fetched[v] \o Batch(v) \in Seq(Row)
         /\ Len(Batch(v)) \in Nat /\ Len(Batch(v)) <= BATCH_SIZE
         /\ BATCH_SIZE \in Nat /\ BATCH_SIZE > 0 /\ offset[v] \in Nat
<1>1. IsTable(Verified(v)) /\ Verified(v) \subseteq Row
  BY VerifiedTable DEF GoodTable
<1>2. offset[v] \in Nat /\ BATCH_SIZE \in Nat /\ BATCH_SIZE > 0 /\ fetched[v] \in Seq(Row)
  BY VerificationAssumption DEF TypeOK
<1>3. Batch(v) \in Seq(Verified(v)) /\ Len(Batch(v)) <= BATCH_SIZE
  BY <1>1, <1>2, PageHolds DEF Batch
<1>4. Batch(v) \in Seq(Row)
  BY <1>1, <1>3, SeqDef
<1> QED
  BY <1>2, <1>3, <1>4, LenProperties, ConcatProperties

\* TypeOK but for the entries.
Types ==
  /\ tampered \in BOOLEAN
  /\ response \in [Checks -> {"none", "valid", "invalid"} \cup Errors]
  /\ subject_id \in [Verifiers -> Subjects \cup {None}]
  /\ task \in [Verifiers -> {"none", "created", "count", "page", "ended"}]
  /\ offset \in [Verifiers -> Nat]
  /\ fetched \in [Verifiers -> Seq(Row)]
  /\ intact \in [Verifiers -> BOOLEAN]
  /\ quiet \in [Verifiers -> BOOLEAN]
  /\ now \in Nat

LEMMA EndTypes ==
  ASSUME TypeOK, NEW v \in Verifiers, task[v] \in {"count", "page"},
         NEW res \in {"valid", "invalid"} \cup Errors, End(v, res)
  PROVE  /\ response' \in [Checks -> {"none", "valid", "invalid"} \cup Errors]
         /\ task' \in [Verifiers -> {"none", "created", "count", "page", "ended"}]
         /\ offset' \in [Verifiers -> Nat] /\ fetched' \in [Verifiers -> Seq(Row)]
         /\ task' = [task EXCEPT ![v] = "ended"]
         /\ offset' = [offset EXCEPT ![v] = 0] /\ fetched' = [fetched EXCEPT ![v] = << >>]
<1>1. << >> \in Seq(Row)
  BY EmptySeq
<1>2. response' \in [Checks -> {"none", "valid", "invalid"} \cup Errors]
  BY Ending
<1>3. /\ task' = [task EXCEPT ![v] = "ended"]
      /\ offset' = [offset EXCEPT ![v] = 0] /\ fetched' = [fetched EXCEPT ![v] = << >>]
  BY DEF End, Finish
<1> QED
  BY <1>1, <1>2, <1>3 DEF TypeOK

LEMMA TypesStep ==
  ASSUME TypeOK, RowsInv, [Next]_vars
  PROVE  Types'
<1> USE DEF Types, TypeOK, reading
<1>1. ASSUME NEW v \in Verifiers, CountEvents(v)
      PROVE  Types'
  <2>1. task[v] = "count" /\ UNCHANGED <<tampered, subject_id, intact, quiet, now>>
    BY <1>1 DEF CountEvents
  <2>2. CASE End(v, "limit")
    BY <2>1, <2>2, EndTypes DEF Errors
  <2>3. CASE /\ task' = [task EXCEPT ![v] = "page"]
             /\ UNCHANGED <<response, offset, fetched>>
    BY <2>1, <2>3
  <2> QED
    BY <1>1, <2>2, <2>3 DEF CountEvents
<1>2. ASSUME NEW v \in Verifiers, FetchPage(v)
      PROVE  Types'
  <2>1. /\ task[v] = "page" /\ UNCHANGED <<tampered, subject_id, now>>
        /\ \/ /\ offset' = [offset EXCEPT ![v] = @ + BATCH_SIZE]
              /\ fetched' = [fetched EXCEPT ![v] = fetched[v] \o Batch(v)]
              /\ UNCHANGED <<response, task>>
           \/ \E verdict \in {"valid", "invalid"} : End(v, verdict)
    BY <1>2 DEF FetchPage, Batch
  <2>2. intact' \in [Verifiers -> BOOLEAN] /\ quiet' \in [Verifiers -> BOOLEAN]
    <3>1. Intact(Verified(v)) \in BOOLEAN
      BY DEF Intact, HashesRecompute, NoFork
    <3>2. \/ intact' = [intact EXCEPT ![v] = Intact(Verified(v))] /\ quiet' = [quiet EXCEPT ![v] = TRUE]
          \/ UNCHANGED <<intact, quiet>>
      BY <1>2 DEF FetchPage
    <3> QED
      BY <3>1, <3>2
  <2>3. ASSUME NEW verdict \in {"valid", "invalid"}, End(v, verdict)
        PROVE  Types'
    BY <2>1, <2>2, <2>3, EndTypes
  <2>4. CASE /\ offset' = [offset EXCEPT ![v] = @ + BATCH_SIZE]
             /\ fetched' = [fetched EXCEPT ![v] = fetched[v] \o Batch(v)]
             /\ UNCHANGED <<response, task>>
    <3>1. offset[v] + BATCH_SIZE \in Nat /\ fetched[v] \o Batch(v) \in Seq(Row)
      BY Batches
    <3> QED
      BY <2>1, <2>2, <2>4, <3>1
  <2> QED
    BY <2>1, <2>3, <2>4
<1>3. ASSUME NEW v \in Verifiers, TimeOut(v)
      PROVE  Types'
  BY <1>3, EndTypes DEF TimeOut, Errors
<1>4. ASSUME NEW v \in Verifiers, QueryFails(v)
      PROVE  Types'
  BY <1>4, EndTypes DEF QueryFails, Errors
<1>5. ASSUME NEW v \in Verifiers, DropTask(v)
      PROVE  Types'
  BY <1>5, EmptySeq DEF DropTask, Finish
<1>6. ASSUME NEW v \in Verifiers, RunJob(v)
      PROVE  Types'
  <2>1. task' \in [Verifiers -> {"none", "created", "count", "page", "ended"}]
    BY <1>6 DEF RunJob
  <2>2. UNCHANGED <<tampered, response, subject_id, reading, now>>
    BY <1>6 DEF RunJob
  <2> QED
    BY <2>1, <2>2
<1>7. ASSUME NEW j \in Jobs, StartJob(j) \/ Poll(j)
      PROVE  Types'
  BY <1>7 DEF StartJob, Poll
<1>8. ASSUME NEW c \in Checks, CheckTenant(c) \/ CheckSubject(c)
      PROVE  Types'
  <2>1. /\ task' \in [Verifiers -> {"none", "created", "count", "page", "ended"}]
        /\ UNCHANGED <<tampered, response, reading, now>>
    BY <1>8 DEF CheckTenant, CheckSubject
  <2>2. subject_id' \in [Verifiers -> Subjects \cup {None}]
    BY <1>8 DEF CheckTenant, CheckSubject
  <2> QED
    BY <2>1, <2>2
<1>9. ASSUME NEW s \in Subjects, CommitAppend(s)
      PROVE  Types'
  <2>1. UNCHANGED <<tampered, response, subject_id, task, offset, fetched, intact, now>>
    BY <1>9 DEF CommitAppend
  <2>2. quiet' = [v \in Verifiers |-> quiet[v] /\ ~(task[v] = "page" /\ subject_id[v] \in {s, None})]
    BY <1>9 DEF CommitAppend
  <2>3. quiet' \in [Verifiers -> BOOLEAN]
    BY <2>2
  <2> QED
    BY <2>1, <2>3
<1>10. CASE Restart
  <2>1. task' \in [Verifiers -> {"none", "created", "count", "page", "ended"}]
    BY <1>10 DEF Restart
  <2>2. offset' \in [Verifiers -> Nat] /\ fetched' \in [Verifiers -> Seq(Row)]
    BY <1>10, EmptySeq DEF Restart
  <2> QED
    BY <1>10, <2>1, <2>2 DEF Restart
<1>11. CASE Tamper
  <2>1. tampered' = TRUE /\ UNCHANGED <<response, subject_id, task, reading, now>>
    BY <1>11 DEF Tamper
  <2> QED
    BY <2>1
<1>12. CASE Tick
  BY <1>12 DEF Tick
<1>13. CASE UNCHANGED vars
  BY <1>13 DEF vars
<1> QED
  BY <1>1, <1>2, <1>3, <1>4, <1>5, <1>6, <1>7, <1>8, <1>9, <1>10, <1>11, <1>12, <1>13
     DEF Next, Work

LEMMA StageStep ==
  ASSUME TypeOK, StageInv, [Next]_vars
  PROVE  StageInv'
<1>1. \A j \in Jobs : JobAgrees(j)'
  BY JobSteps, JobStepsAgree DEF StageInv
<1> DEFINE C(c) == task[c] # "created" /\ (response[c] # "none" => task[c] = "ended")
           P(v) == task[v] # "page" => offset[v] = 0 /\ fetched[v] = << >>
<1>2. /\ task \in [Verifiers -> {"none", "created", "count", "page", "ended"}]
      /\ offset \in [Verifiers -> Nat] /\ fetched \in [Verifiers -> Seq(Row)]
      /\ response \in [Checks -> {"none", "valid", "invalid"} \cup Errors]
      /\ Jobs \subseteq Verifiers /\ Checks \subseteq Verifiers /\ Jobs \cap Checks = {}
  BY VerificationAssumption DEF TypeOK, Verifiers
<1>3. (\A c \in Checks : C(c)) /\ (\A v \in Verifiers : P(v))
  BY DEF StageInv
<1> SUFFICES (\A c \in Checks : C(c)') /\ (\A v \in Verifiers : P(v)')
  BY <1>1 DEF StageInv
\* Whoever is at its end has nothing fetched; nobody else is touched.
<1>4. ASSUME NEW v \in Verifiers, task[v] \in {"count", "page"},
             NEW res \in {"valid", "invalid"} \cup Errors, End(v, res)
      PROVE  (\A c \in Checks : C(c)') /\ (\A w \in Verifiers : P(w)')
  <2>1. /\ task' = [task EXCEPT ![v] = "ended"]
        /\ offset' = [offset EXCEPT ![v] = 0] /\ fetched' = [fetched EXCEPT ![v] = << >>]
        /\ \A c \in Checks : IF c = v THEN response'[c] = res ELSE response'[c] = response[c]
    BY <1>4, EndTypes, Ending
  <2>2. ASSUME NEW c \in Checks
        PROVE  C(c)'
    BY <1>2, <1>3, <2>1
  <2>3. ASSUME NEW w \in Verifiers
        PROVE  P(w)'
    BY <1>2, <1>3, <2>1
  <2> QED
    BY <2>2, <2>3
<1>5. ASSUME UNCHANGED <<offset, fetched, response>>,
             \A v \in Verifiers : \/ task'[v] = task[v]
                                  \/ task[v] # "page" /\ task[v] # "ended" /\ response'[v] = response[v]
                                     /\ (v \in Checks => task'[v] \in {"count", "page"})
      PROVE  (\A c \in Checks : C(c)') /\ (\A w \in Verifiers : P(w)')
  <2>1. ASSUME NEW c \in Checks
        PROVE  C(c)'
    BY <1>2, <1>3, <1>5
  <2>2. ASSUME NEW w \in Verifiers
        PROVE  P(w)'
    BY <1>2, <1>3, <1>5
  <2> QED
    BY <2>1, <2>2
<1>6. ASSUME NEW v \in Verifiers, CountEvents(v)
      PROVE  (\A c \in Checks : C(c)') /\ (\A w \in Verifiers : P(w)')
  <2>1. task[v] = "count"
    BY <1>6 DEF CountEvents
  <2>2. CASE End(v, "limit")
    BY <1>4, <2>1, <2>2 DEF Errors
  <2>3. CASE task' = [task EXCEPT ![v] = "page"] /\ UNCHANGED <<response, offset, fetched>>
    BY <1>2, <1>5, <2>1, <2>3
  <2> QED
    BY <1>6, <2>2, <2>3 DEF CountEvents
<1>7. ASSUME NEW v \in Verifiers, FetchPage(v)
      PROVE  (\A c \in Checks : C(c)') /\ (\A w \in Verifiers : P(w)')
  <2>1. /\ task[v] = "page"
        /\ \/ /\ \E n : offset' = [offset EXCEPT ![v] = n]
              /\ \E all : fetched' = [fetched EXCEPT ![v] = all]
              /\ UNCHANGED <<response, task>>
           \/ \E verdict \in {"valid", "invalid"} : End(v, verdict)
    BY <1>7 DEF FetchPage
  <2>2. ASSUME NEW n, NEW all, offset' = [offset EXCEPT ![v] = n],
               fetched' = [fetched EXCEPT ![v] = all], UNCHANGED <<response, task>>
        PROVE  (\A c \in Checks : C(c)') /\ (\A w \in Verifiers : P(w)')
    <3>1. ASSUME NEW c \in Checks
          PROVE  C(c)'
      BY <1>3, <2>2
    <3>2. ASSUME NEW w \in Verifiers
          PROVE  P(w)'
      BY <1>2, <1>3, <2>1, <2>2
    <3> QED
      BY <3>1, <3>2
  <2> QED
    BY <1>4, <2>1, <2>2
<1>8. ASSUME NEW v \in Verifiers, TimeOut(v) \/ QueryFails(v)
      PROVE  (\A c \in Checks : C(c)') /\ (\A w \in Verifiers : P(w)')
  BY <1>4, <1>8 DEF TimeOut, QueryFails, Errors
<1>9. ASSUME NEW v \in Verifiers, DropTask(v)
      PROVE  (\A c \in Checks : C(c)') /\ (\A w \in Verifiers : P(w)')
  <2>1. /\ task' = [task EXCEPT ![v] = "ended"] /\ response' = response
        /\ offset' = [offset EXCEPT ![v] = 0] /\ fetched' = [fetched EXCEPT ![v] = << >>]
    BY <1>9 DEF DropTask, Finish
  <2>2. ASSUME NEW c \in Checks
        PROVE  C(c)'
    BY <1>2, <1>3, <2>1
  <2>3. ASSUME NEW w \in Verifiers
        PROVE  P(w)'
    BY <1>2, <1>3, <2>1
  <2> QED
    BY <2>2, <2>3
<1>10. ASSUME NEW v \in Jobs, RunJob(v)
       PROVE  (\A c \in Checks : C(c)') /\ (\A w \in Verifiers : P(w)')
  <2>1. /\ UNCHANGED <<offset, fetched, response>> /\ task[v] = "created"
        /\ \E t : task' = [task EXCEPT ![v] = t]
    BY <1>10 DEF RunJob, reading
  <2>2. \A w \in Verifiers : w # v => task'[w] = task[w]
    BY <1>2, <2>1
  <2>3. \A c \in Checks : c # v
    BY <1>2
  <2> QED
    BY <1>2, <1>5, <2>1, <2>2, <2>3
<1>11. ASSUME NEW j \in Jobs, StartJob(j) \/ Poll(j)
       PROVE  (\A c \in Checks : C(c)') /\ (\A w \in Verifiers : P(w)')
  <2>1. /\ UNCHANGED <<offset, fetched, response>>
        /\ \/ task[j] = "none" /\ task' = [task EXCEPT ![j] = "created"]
           \/ task' = task
    BY <1>11 DEF StartJob, Poll, reading
  <2> QED
    BY <1>2, <1>5, <2>1
<1>12. ASSUME NEW c \in Checks, CheckTenant(c) \/ CheckSubject(c)
       PROVE  (\A x \in Checks : C(x)') /\ (\A w \in Verifiers : P(w)')
  <2>1. /\ UNCHANGED <<offset, fetched, response>> /\ task[c] = "none"
        /\ \/ task' = [task EXCEPT ![c] = "count"]
           \/ task' = [task EXCEPT ![c] = "page"]
    BY <1>12 DEF CheckTenant, CheckSubject, reading
  <2> QED
    BY <1>2, <1>5, <2>1
<1>13. CASE Restart
  <2>1. /\ response' = response /\ offset' = [v \in Verifiers |-> 0]
        /\ fetched' = [v \in Verifiers |-> << >>]
        /\ task' = [v \in Verifiers |-> IF task[v] = "none" THEN "none" ELSE "ended"]
    BY <1>13 DEF Restart
  <2>2. ASSUME NEW c \in Checks
        PROVE  C(c)'
    BY <1>2, <1>3, <2>1
  <2>3. ASSUME NEW w \in Verifiers
        PROVE  P(w)'
    BY <2>1
  <2> QED
    BY <2>2, <2>3
<1>14. CASE UNCHANGED <<offset, fetched, response, task>>
  BY <1>5, <1>14
<1>15. /\ Tamper \/ Tick \/ UNCHANGED vars => UNCHANGED <<offset, fetched, response, task>>
       /\ \A s \in Subjects : CommitAppend(s) => UNCHANGED <<offset, fetched, response, task>>
       /\ \A c \in Checks : ~RunJob(c)
  BY DEF Tamper, Tick, vars, reading, CommitAppend, RunJob, StageInv
<1> HIDE DEF C, P
<1> QED
  BY <1>6, <1>7, <1>8, <1>9, <1>10, <1>11, <1>12, <1>13, <1>14, <1>15 DEF Next, Work, Verifiers

\* Type correctness, with the table and the stages it needs.
LEMMA TypeStep ==
  ASSUME TypeOK, RowsInv, StageInv, [Next]_vars
  PROVE  TypeOK' /\ RowsInv' /\ StageInv'
<1>1. RowsInv' /\ StageInv' /\ Types' /\ jobs' \in [Jobs -> Job]
  BY RowsStep, StageStep, TypesStep, JobSteps
<1>2. (rows \in SUBSET Row)'
  BY <1>1 DEF RowsInv, IsTable
<1>3. (seen \in [Jobs -> Statuses \cup {"nothing"}])'
  <2>1. ASSUME NEW j \in Jobs, Poll(j)
        PROVE  (seen \in [Jobs -> Statuses \cup {"nothing"}])'
    <3>1. jobs'[j].status \in Statuses
      BY <1>1 DEF Job
    <3>2. seen' = [seen EXCEPT ![j] = jobs'[j].status] /\ seen \in [Jobs -> Statuses \cup {"nothing"}]
      BY <2>1 DEF Poll, TypeOK
    <3> QED
      BY <3>1, <3>2
  <2>2. seen' = seen \/ \E j \in Jobs : Poll(j)
    BY DEF Next, Work, StartJob, CheckTenant, CheckSubject, RunJob, CountEvents, FetchPage,
           TimeOut, QueryFails, DropTask, CommitAppend, Tamper, Restart, Tick, vars
  <2> QED
    BY <2>1, <2>2 DEF TypeOK
<1> QED
  BY <1>1, <1>2, <1>3 DEF Types, TypeOK, StageInv, JobAgrees, Settled

LEMMA TypeInit ==
  ASSUME Init
  PROVE  TypeOK /\ RowsInv /\ StageInv
<1>1. RowsInv
  BY RowsInit
<1>2. StageInv
  BY NoJobType DEF Init, StageInv, JobAgrees, Settled, Verifiers
<1>3. TypeOK
  BY NoJobType, EmptySeq DEF Init, TypeOK, Statuses, Verifiers
<1> QED
  BY <1>1, <1>2, <1>3

\* Types: whatever runs, the store, the tasks and the table are what TypeOK says, a task that
\* reads has an entry that says so, and an entry has what it announces.
THEOREM TypeCorrect == Spec => [](TypeOK /\ RowsInv /\ StageInv)
<1>1. Init => TypeOK /\ RowsInv /\ StageInv
  BY TypeInit
<1>2. TypeOK /\ RowsInv /\ StageInv /\ [Next]_vars => (TypeOK /\ RowsInv /\ StageInv)'
  BY TypeStep
<1> QED
  BY <1>1, <1>2, PTL DEF Spec

\* The entry of a job only advances: StatusOnlyAdvances.
LEMMA JobStepsAdvance ==
  ASSUME TypeOK, NEW j \in Jobs, JobAgrees(j), JobStep(j), task[j] # "none"
  PROVE  \/ jobs'[j].status = jobs[j].status
         \/ jobs'[j].status = "404"
         \/ /\ jobs[j].status # "404"
            /\ Order[jobs[j].status] < Order[jobs'[j].status]
<1>1. jobs[j] \in Job /\ now \in Nat
  BY DEF TypeOK
<1>2. /\ Order["pending"] = 1 /\ Order["running"] = 2
      /\ Order["completed"] = 3 /\ Order["failed"] = 3
  BY DEF Order
<1>3. CASE Keeps(j)
  BY <1>3, NoJobType DEF Keeps
<1>4. CASE GoesOn(j)
  <2>1. jobs[j].status = "pending" /\ jobs'[j] \in {Running(jobs[j]), NoJob}
    BY <1>4 DEF GoesOn, JobAgrees
  <2>2. jobs'[j].status \in {"running", "404"}
    BY <1>1, <2>1, JobChanges, NoJobType
  <2> QED
    BY <1>2, <2>1, <2>2
<1>5. CASE Ends(j)
  <2>1. jobs[j].status = "running"
    BY <1>5 DEF Ends, JobAgrees
  <2>2. /\ \A verdict \in {"valid", "invalid"} : Completed(jobs[j], verdict).status = "completed"
        /\ \A error \in Errors : Failed(jobs[j], error).status = "failed"
    BY <1>1, JobChanges
  <2>3. \/ \E verdict \in {"valid", "invalid"} : jobs'[j] = Completed(jobs[j], verdict)
        \/ \E error \in Errors : jobs'[j] = Failed(jobs[j], error)
    BY <1>5 DEF Ends
  <2>4. jobs'[j].status \in {"completed", "failed"}
    BY <2>2, <2>3
  <2> QED
    BY <1>2, <2>1, <2>4
<1> QED
  BY <1>3, <1>4, <1>5 DEF JobStep, Starts

\* What is on the page of a job never goes back: a result is not replaced, and a job that is
\* gone does not return, whatever is evicted, cancelled or restarted in between.
THEOREM JobsOnlyAdvance == Spec => StatusOnlyAdvances
<1>1. TypeOK /\ StageInv /\ [Next]_vars =>
        [\A j \in Jobs : task[j] # "none" =>
           \/ jobs'[j].status = jobs[j].status
           \/ jobs'[j].status = "404"
           \/ /\ jobs[j].status # "404"
              /\ Order[jobs[j].status] < Order[jobs'[j].status]]_vars
  BY JobSteps, JobStepsAdvance DEF StageInv
<1> QED
  BY <1>1, TypeCorrect, PTL DEF Spec, StatusOnlyAdvances

-----------------------------------------------------------------------------
(***************************************************************************)
(* Pages while others append.  S stands for the rows that were there when    *)
(* the first page was fetched: those above the offset have been fetched, and *)
(* what came since is newer than all of its subject in S.                    *)
(***************************************************************************)

Paged(table, S, list, n) ==
  /\ list \in Seq(table) /\ S \subseteq table
  /\ \A r \in S : Above(table, r) < n => \E i \in 1..Len(list) : list[i] = r
  /\ \A q \in table \ S, r \in S : q.content.subject = r.content.subject => q.seq > r.seq

\* Nothing came since: the list has the rows in their places.
Exact(table, list) == \A i \in 1..Len(list) : Above(table, list[i]) = i - 1

PageInv(v) ==
  task[v] = "page" =>
    /\ Len(fetched[v]) = offset[v]
    /\ offset[v] > 0 =>
         \E S \in SUBSET Verified(v) :
           /\ Paged(Verified(v), S, fetched[v], offset[v])
           /\ intact[v] = Intact(S)
           /\ quiet[v] => S = Verified(v) /\ Exact(Verified(v), fetched[v])

Told(v) ==
  /\ Verdict(v) = "valid" => intact[v]
  /\ Verdict(v) = "invalid" /\ quiet[v] => ~intact[v]

VerdictInv == \A v \in Verifiers : PageInv(v) /\ Told(v)

\* One more page.
LEMMA NextPage ==
  ASSUME NEW table, IsTable(table), NEW S, NEW list, NEW n \in Nat, NEW most \in Nat,
         Paged(table, S, list, n), Len(list) = n
  PROVE  LET batch == Page(table, n, most)
             all == list \o batch
         IN  /\ Paged(table, S, all, n + most)
             /\ Len(all) = n + Len(batch)
             /\ Exact(table, list) => Exact(table, all)
             /\ Len(batch) < most => \A r \in S : \E i \in 1..Len(all) : all[i] = r
<1> DEFINE batch == Page(table, n, most)
           all == list \o batch
<1>1. /\ batch \in Seq(table) /\ Len(batch) \in Nat
      /\ \A i \in 1..Len(batch) : Above(table, batch[i]) = n + i - 1
      /\ \A r \in table : Above(table, r) \in n..(n + most - 1) => \E i \in 1..Len(batch) : batch[i] = r
      /\ Len(batch) < most => \A r \in table : Above(table, r) < n + most
  BY PageHolds, LenProperties
<1> HIDE DEF batch
<1>2. list \in Seq(table) /\ S \subseteq table
  BY DEF Paged
<1>3. /\ all \in Seq(table) /\ Len(all) = n + Len(batch)
      /\ \A i \in 1..Len(all) : all[i] = IF i <= n THEN list[i] ELSE batch[i - n]
  <2>1. /\ all \in Seq(table) /\ Len(all) = Len(list) + Len(batch)
        /\ \A i \in 1..Len(list) + Len(batch) :
             all[i] = IF i <= Len(list) THEN list[i] ELSE batch[i - Len(list)]
    BY ONLY <1>1, <1>2, ConcatProperties
  <2>2. Len(list) = n
    OBVIOUS
  <2> HIDE DEF all
  <2> QED
    BY ONLY <2>1, <2>2
<1> HIDE DEF all
<1>4. \A r \in S : Above(table, r) \in Nat
  BY <1>2, Places
<1>5. \A i \in 1..Len(batch) : n + i \in 1..Len(all) /\ all[n + i] = batch[i]
  <2> TAKE i \in 1..Len(batch)
  <2>1. n + i \in 1..Len(all) /\ ~(n + i <= n) /\ (n + i) - n = i
    BY <1>1, <1>3
  <2> QED
    BY <1>3, <2>1
<1>6. \A i \in 1..n : i \in 1..Len(all) /\ all[i] = list[i]
  BY <1>1, <1>3
<1>7. ASSUME NEW r \in S, Above(table, r) < n + most
      PROVE  \E i \in 1..Len(all) : all[i] = r
  <2>1. CASE Above(table, r) < n
    <3>1. PICK i \in 1..n : list[i] = r
      BY <2>1 DEF Paged
    <3> QED
      BY <1>6, <3>1
  <2>2. CASE ~(Above(table, r) < n)
    <3>1. Above(table, r) \in n..(n + most - 1) /\ r \in table
      BY <1>2, <1>4, <1>7, <2>2
    <3>2. PICK i \in 1..Len(batch) : batch[i] = r
      BY <1>1, <3>1
    <3> QED
      BY <1>5, <3>2
  <2> QED
    BY <2>1, <2>2
<1>8. Paged(table, S, all, n + most)
  BY <1>2, <1>3, <1>7 DEF Paged
<1>9. ASSUME Exact(table, list), NEW i \in 1..Len(all)
      PROVE  Above(table, all[i]) = i - 1
  <2>1. CASE i <= n
    <3>1. all[i] = list[i] /\ i \in 1..n
      BY <1>3, <2>1
    <3> QED
      BY <1>9, <3>1 DEF Exact
  <2>2. CASE ~(i <= n)
    <3>1. all[i] = batch[i - n] /\ i - n \in 1..Len(batch)
      BY <1>1, <1>3, <2>2
    <3>2. Above(table, batch[i - n]) = n + (i - n) - 1
      BY <1>1, <3>1
    <3> QED
      BY <1>1, <1>3, <3>1, <3>2
  <2> QED
    BY <2>1, <2>2
<1>10. Len(batch) < most => \A r \in S : \E i \in 1..Len(all) : all[i] = r
  BY <1>1, <1>2, <1>7
<1> QED
  BY <1>3, <1>8, <1>9, <1>10 DEF Exact, all, batch

\* An append moves rows down, never up.
LEMMA AppendPages ==
  ASSUME NEW table, IsTable(table), NEW new, IsTable(table \cup {new}),
         \A q \in table : q.content.subject = new.content.subject => q.seq < new.seq,
         NEW S, NEW list, NEW n \in Nat, Paged(table, S, list, n)
  PROVE  Paged(table \cup {new}, S, list, n)
<1> DEFINE T == table \cup {new}
<1>1. list \in Seq(T) /\ S \subseteq T /\ S \subseteq table
  BY SeqDef DEF Paged
<1>2. ASSUME NEW r \in S, Above(T, r) < n
      PROVE  \E i \in 1..Len(list) : list[i] = r
  <2> DEFINE U == {q \in table : q.seq > r.seq}
             V == {q \in T : q.seq > r.seq}
  <2>1. U \in SUBSET V /\ U \in SUBSET table /\ V \in SUBSET T
    OBVIOUS
  <2>2. IsFiniteSet(table) /\ IsFiniteSet(T)
    BY DEF IsTable
  <2>3. Above(table, r) = Cardinality(U) /\ Above(T, r) = Cardinality(V)
    BY DEF Above
  <2> HIDE DEF U, V, T
  <2>4. IsFiniteSet(U) /\ IsFiniteSet(V)
    BY <2>1, <2>2, FS_Subset
  <2>5. Cardinality(U) <= Cardinality(V) /\ Cardinality(U) \in Nat /\ Cardinality(V) \in Nat
    BY <2>1, <2>4, FS_Subset, FS_CardinalityType
  <2>6. Above(table, r) < n
    BY <1>2, <2>3, <2>5
  <2> QED
    BY <2>6 DEF Paged
<1>3. ASSUME NEW q \in T \ S, NEW r \in S, q.content.subject = r.content.subject
      PROVE  q.seq > r.seq
  <2>1. CASE q \in table
    BY <1>3, <2>1 DEF Paged
  <2>2. CASE q = new
    BY <1>1, <1>3, <2>2
  <2> QED
    BY <2>1, <2>2
<1> QED
  BY <1>1, <1>2, <1>3 DEF Paged

LEMMA NoVerdictYet ==
  ASSUME TypeOK, StageInv, NEW v \in Verifiers, task[v] # "ended"
  PROVE  Verdict(v) = "none"
<1>1. CASE v \in Jobs
  <2>1. JobAgrees(v) /\ task[v] \in {"none", "created", "count", "page"}
    BY <1>1 DEF StageInv, TypeOK
  <2>2. jobs[v].status # "completed"
    BY <2>1, NoJobType DEF JobAgrees
  <2> QED
    BY <1>1, <2>1, <2>2 DEF JobAgrees, Settled, Verdict
<1>2. CASE v \notin Jobs
  BY <1>2 DEF StageInv, Verifiers, Verdict
<1> QED
  BY <1>1, <1>2

\* What End tells, and whom.
LEMMA EndTells ==
  ASSUME TypeOK, NEW v \in Verifiers, task[v] \in {"count", "page"},
         NEW res \in {"valid", "invalid"} \cup Errors, End(v, res)
  PROVE  /\ Verdict(v)' \in {"none", res}
         /\ \A w \in Verifiers \ {v} : Verdict(w)' \in {"none", Verdict(w)}
         /\ task'[v] = "ended"
         /\ \A w \in Verifiers \ {v} : /\ task'[w] = task[w] /\ offset'[w] = offset[w]
                                       /\ fetched'[w] = fetched[w]
<1>1. Jobs \cap Checks = {} /\ Verifiers = Jobs \cup Checks
  BY VerificationAssumption DEF Verifiers
<1>2. /\ \A k \in Jobs \ {v} : jobs'[k] \in {jobs[k], NoJob}
      /\ v \in Jobs => jobs'[v].verdict \in {"none", res}
      /\ \A c \in Checks : IF c = v THEN response'[c] = res ELSE response'[c] = response[c]
  BY Ending
<1>3. /\ task' = [task EXCEPT ![v] = "ended"]
      /\ offset' = [offset EXCEPT ![v] = 0] /\ fetched' = [fetched EXCEPT ![v] = << >>]
      /\ task \in [Verifiers -> {"none", "created", "count", "page", "ended"}]
      /\ offset \in [Verifiers -> Nat] /\ fetched \in [Verifiers -> Seq(Row)]
  BY EndTypes DEF TypeOK
<1>4. Verdict(v)' \in {"none", res}
  BY <1>1, <1>2 DEF Verdict
<1>5. \A w \in Verifiers \ {v} : Verdict(w)' \in {"none", Verdict(w)}
  BY <1>1, <1>2, NoJobType DEF Verdict
<1> QED
  BY <1>3, <1>4, <1>5

\* A verifier that a step leaves alone, or that it only lets begin or end.
Apart(v) ==
  /\ rows' = rows
  /\ Verdict(v)' \in {"none", Verdict(v)} \cup Errors
  /\ intact'[v] = intact[v] /\ quiet'[v] = quiet[v]
  /\ \/ task'[v] # "page"
     \/ /\ offset'[v] = offset[v] /\ fetched'[v] = fetched[v]
        /\ task[v] # "page" \/ subject_id'[v] = subject_id[v]

LEMMA ApartStep ==
  ASSUME TypeOK, StageInv, NEW v \in Verifiers, PageInv(v), Told(v), Apart(v)
  PROVE  PageInv(v)' /\ Told(v)'
<1>1. Told(v)'
  BY DEF Apart, Told, Errors
<1>2. CASE task'[v] # "page"
  BY <1>1, <1>2 DEF PageInv
<1>3. CASE task'[v] = "page" /\ task[v] # "page"
  <2>1. offset'[v] = 0 /\ fetched'[v] = << >>
    BY <1>3 DEF Apart, StageInv
  <2>2. Len(fetched'[v]) = 0
    BY <2>1
  <2> QED
    BY <1>1, <2>1, <2>2 DEF PageInv
<1>4. CASE task'[v] = "page" /\ task[v] = "page"
  <2>1. /\ offset'[v] = offset[v] /\ fetched'[v] = fetched[v]
        /\ intact'[v] = intact[v] /\ quiet'[v] = quiet[v] /\ Verified(v)' = Verified(v)
    BY <1>4 DEF Apart, Verified
  <2> QED
    BY <1>1, <1>4, <2>1 DEF PageInv
<1> QED
  BY <1>2, <1>3, <1>4

\* One page more: if it is the last, the verdict is right about the rows of the first page.
LEMMA FetchStep ==
  ASSUME TypeOK, RowsInv, StageInv, VerdictInv, NEW v \in Verifiers, FetchPage(v)
  PROVE  VerdictInv'
<1> DEFINE table == Verified(v)
           n == offset[v]
           list == fetched[v]
           all == list \o Batch(v)
<1>1. /\ task[v] = "page" /\ UNCHANGED <<rows, tampered, subject_id, seen, now>>
      /\ \/ /\ Len(Batch(v)) = BATCH_SIZE
            /\ offset' = [offset EXCEPT ![v] = @ + BATCH_SIZE]
            /\ fetched' = [fetched EXCEPT ![v] = all]
            /\ UNCHANGED <<jobs, response, task>>
         \/ /\ Len(Batch(v)) < BATCH_SIZE
            /\ \E verdict \in {"valid", "invalid"} :
                 (verdict = "valid" <=> IsChainValid(all)) /\ End(v, verdict)
      /\ IF offset[v] = 0
           THEN /\ intact' = [intact EXCEPT ![v] = Intact(Verified(v))]
                /\ quiet' = [quiet EXCEPT ![v] = TRUE]
           ELSE UNCHANGED <<intact, quiet>>
  BY DEF FetchPage, Batch
<1>2. /\ GoodTable(table) /\ IsTable(table) /\ table' = table /\ list \in Seq(Row)
      /\ n \in Nat /\ Len(list) = n /\ BATCH_SIZE \in Nat /\ BATCH_SIZE > 0 /\ Len(Batch(v)) \in Nat
      /\ Len(Batch(v)) <= BATCH_SIZE
  <2>1. table' = table
    BY <1>1 DEF Verified
  <2>2. Len(list) = n /\ list \in Seq(Row)
    BY <1>1 DEF VerdictInv, PageInv, TypeOK
  <2> QED
    BY <2>1, <2>2, VerifiedTable, Batches DEF GoodTable
<1>3. /\ offset \in [Verifiers -> Nat] /\ fetched \in [Verifiers -> Seq(Row)]
      /\ intact \in [Verifiers -> BOOLEAN] /\ quiet \in [Verifiers -> BOOLEAN]
  BY DEF TypeOK
\* The rows of the first page's table.
<1>4. PICK S \in SUBSET table :
        /\ Paged(table, S, list, n)
        /\ intact'[v] = Intact(S)
        /\ quiet'[v] => S = table /\ Exact(table, list)
  <2>1. CASE n = 0
    <3>1. list = << >>
      BY <1>2, <2>1, EmptySeq
    <3>2. \A r \in table : Above(table, r) \in Nat
      BY <1>2, Places
    <3>3. Paged(table, table, list, n)
      BY <2>1, <3>1, <3>2, EmptySeq DEF Paged
    <3>4. Exact(table, list)
      BY <3>1 DEF Exact
    <3>5. intact'[v] = Intact(table)
      BY <1>1, <1>3, <2>1
    <3> HIDE DEF table
    <3> QED
      BY <3>3, <3>4, <3>5
  <2>2. CASE n # 0
    <3>1. PageInv(v) /\ n > 0 /\ intact' = intact /\ quiet' = quiet
      BY <1>1, <1>2, <2>2 DEF VerdictInv
    <3> QED
      BY <1>1, <3>1 DEF PageInv
  <2> QED
    BY <2>1, <2>2
<1>5. /\ Paged(table, S, all, n + BATCH_SIZE)
      /\ Len(all) = n + Len(Batch(v))
      /\ Exact(table, list) => Exact(table, all)
      /\ Len(Batch(v)) < BATCH_SIZE => \A r \in S : \E i \in 1..Len(all) : all[i] = r
  <2> HIDE DEF table, n, list
  <2>1. Batch(v) = Page(table, n, BATCH_SIZE)
    BY DEF Batch, table, n
  <2> QED
    BY <1>2, <1>4, <2>1, NextPage DEF list
<1> HIDE DEF all, table
<1>6. ASSUME NEW w \in Verifiers, w # v
      PROVE  intact'[w] = intact[w] /\ quiet'[w] = quiet[w]
  BY <1>1, <1>3, <1>6
<1>7. CASE Len(Batch(v)) = BATCH_SIZE /\ UNCHANGED <<jobs, response, task>>
           /\ offset' = [offset EXCEPT ![v] = @ + BATCH_SIZE]
           /\ fetched' = [fetched EXCEPT ![v] = all]
  <2>1. ASSUME NEW w \in Verifiers, w # v
        PROVE  PageInv(w)' /\ Told(w)'
    <3>1. /\ offset'[w] = offset[w] /\ fetched'[w] = fetched[w] /\ Verdict(w)' = Verdict(w)
          /\ subject_id'[w] = subject_id[w] /\ rows' = rows
      BY <1>1, <1>3, <1>7, <2>1 DEF Verdict
    <3>2. Apart(w)
      BY <1>6, <2>1, <3>1 DEF Apart
    <3> QED
      BY <3>2, ApartStep DEF VerdictInv
  <2>2. PageInv(v)'
    <3>1. /\ offset'[v] = n + BATCH_SIZE /\ fetched'[v] = all /\ Verified(v)' = table
      BY <1>2, <1>3, <1>7 DEF table
    <3>2. Len(all) = n + BATCH_SIZE
      BY <1>5, <1>7
    <3> QED
      BY <1>4, <1>5, <3>1, <3>2 DEF PageInv
  <2>3. Told(v)'
    <3>1. Verdict(v)' = Verdict(v)
      BY <1>7 DEF Verdict
    <3> QED
      BY <1>1, <3>1, NoVerdictYet DEF Told
  <2> QED
    BY <2>1, <2>2, <2>3 DEF VerdictInv
<1>8. ASSUME Len(Batch(v)) < BATCH_SIZE, NEW verdict \in {"valid", "invalid"},
             verdict = "valid" <=> IsChainValid(all), End(v, verdict)
      PROVE  VerdictInv'
  <2>1. /\ Verdict(v)' \in {"none", verdict} /\ task'[v] = "ended"
        /\ \A w \in Verifiers \ {v} : /\ Verdict(w)' \in {"none", Verdict(w)}
                                      /\ task'[w] = task[w] /\ offset'[w] = offset[w]
                                      /\ fetched'[w] = fetched[w]
    BY <1>1, <1>8, EndTells
  <2>2. ASSUME NEW w \in Verifiers, w # v
        PROVE  PageInv(w)' /\ Told(w)'
    <3>1. Apart(w)
      BY <1>1, <1>6, <2>1, <2>2 DEF Apart
    <3> QED
      BY <3>1, ApartStep DEF VerdictInv
  <2>3. verdict = "valid" => Intact(S)
    <3>1. /\ all \in Seq(table) /\ \A r \in S : \E i \in 1..Len(all) : all[i] = r
          /\ \A q \in table \ S, r \in S : q.content.subject = r.content.subject => q.seq > r.seq
      BY <1>5, <1>8 DEF Paged
    <3> QED
      BY <1>2, <1>8, <3>1, ValidMeansIntact
  <2>4. quiet'[v] /\ verdict = "invalid" => ~Intact(S)
    <3>1. SUFFICES ASSUME quiet'[v], Intact(S)
                   PROVE  IsChainValid(all)
      BY <1>8
    <3>2. S = table /\ Exact(table, all)
      BY <1>4, <1>5, <3>1
    <3>3. /\ all \in Seq(table) /\ \A r \in table : \E i \in 1..Len(all) : all[i] = r
      BY <1>5, <1>8, <3>2 DEF Paged
    <3>4. \A i, j \in 1..Len(all) : all[i] = all[j] => i = j
      <4> TAKE i \in 1..Len(all), j \in 1..Len(all)
      <4>1. Above(table, all[i]) = i - 1 /\ Above(table, all[j]) = j - 1
        BY <3>2 DEF Exact
      <4> QED
        BY <4>1
    <3> QED
      BY <1>2, <3>1, <3>2, <3>3, <3>4, IntactMeansValid
  <2>5. Told(v)'
    BY <1>4, <2>1, <2>3, <2>4 DEF Told
  <2>6. PageInv(v)'
    BY <2>1 DEF PageInv
  <2> QED
    BY <2>2, <2>5, <2>6 DEF VerdictInv
<1> QED
  BY <1>1, <1>7, <1>8

\* An append leaves what was fetched, and whoever reads its chain is no longer quiet.
LEMMA AppendStep ==
  ASSUME TypeOK, RowsInv, StageInv, VerdictInv, NEW s \in Subjects, CommitAppend(s), RowsInv'
  PROVE  VerdictInv'
<1>1. PICK r : Appended(r, s)
  BY AppendsOne
<1>2. /\ UNCHANGED <<jobs, response, subject_id, task, offset, fetched, intact>>
      /\ quiet' = [v \in Verifiers |-> quiet[v] /\ ~(task[v] = "page" /\ subject_id[v] \in {s, None})]
      /\ quiet \in [Verifiers -> BOOLEAN]
  BY DEF CommitAppend, TypeOK
<1>3. /\ rows' = rows \cup {r} /\ r.content.subject = s
      /\ \A q \in rows : q.content.subject = s => q.seq < r.seq
  BY <1>1 DEF Appended, RowsOf
<1> SUFFICES ASSUME NEW v \in Verifiers
             PROVE  PageInv(v)' /\ Told(v)'
  BY DEF VerdictInv
<1>4. PageInv(v) /\ Told(v)
  BY DEF VerdictInv
<1>5. quiet'[v] => quiet[v]
  BY <1>2
<1>6. Told(v)'
  <2>1. Verdict(v)' = Verdict(v) /\ intact'[v] = intact[v]
    BY <1>2 DEF Verdict
  <2> QED
    BY <1>4, <1>5, <2>1 DEF Told
<1>7. ASSUME task[v] = "page"
      PROVE  PageInv(v)'
  <2> DEFINE table == Verified(v)
  <2>1. IsTable(table) /\ offset[v] \in Nat /\ table \subseteq rows
    BY VerifiedTable DEF GoodTable, TypeOK
  <2>2. /\ Len(fetched'[v]) = offset'[v]
        /\ offset'[v] = offset[v] /\ fetched'[v] = fetched[v] /\ intact'[v] = intact[v]
        /\ task'[v] = "page"
    BY <1>2, <1>4, <1>7 DEF PageInv
  <2>3. CASE subject_id[v] \in {s, None}
    <3>1. Verified(v)' = table \cup {r}
      BY <1>2, <1>3, <2>3 DEF Verified, RowsOf
    <3>2. IsTable(table \cup {r})
      <4>1. IsTable(rows') /\ table \cup {r} \subseteq rows'
        BY <1>3, <2>1 DEF RowsInv, IsTable
      <4>2. IsFiniteSet(table \cup {r})
        BY <4>1, FS_Subset DEF IsTable
      <4> HIDE DEF table
      <4> QED
        BY <4>1, <4>2 DEF IsTable
    <3>3. ~quiet'[v]
      BY <1>2, <1>7, <2>3
    <3> HIDE DEF table
    <3>4. ASSUME NEW S \in SUBSET table, Paged(table, S, fetched[v], offset[v])
          PROVE  Paged(table \cup {r}, S, fetched[v], offset[v])
      BY <1>3, <2>1, <3>2, <3>4, AppendPages
    <3>5. ASSUME offset[v] > 0
          PROVE  \E S \in SUBSET (table \cup {r}) :
                   /\ Paged(table \cup {r}, S, fetched[v], offset[v]) /\ intact[v] = Intact(S)
      <4>1. PICK S \in SUBSET table : Paged(table, S, fetched[v], offset[v]) /\ intact[v] = Intact(S)
        BY <1>4, <1>7, <3>5 DEF PageInv, table
      <4>2. S \in SUBSET (table \cup {r})
        BY <4>1
      <4> QED
        BY <3>4, <4>1, <4>2
    <3> QED
      BY <2>2, <3>1, <3>3, <3>5 DEF PageInv
  <2>4. CASE subject_id[v] \notin {s, None}
    <3>1. Verified(v)' = table
      BY <1>2, <1>3, <2>4 DEF Verified, RowsOf
    <3> QED
      BY <1>4, <1>5, <1>7, <2>2, <3>1 DEF PageInv
  <2> QED
    BY <2>3, <2>4
<1> QED
  BY <1>2, <1>6, <1>7 DEF PageInv

LEMMA VerdictStep ==
  ASSUME TypeOK, RowsInv, StageInv, VerdictInv, [Next]_vars
  PROVE  VerdictInv'
<1> USE DEF reading
<1>1. /\ Jobs \cap Checks = {} /\ Verifiers = Jobs \cup Checks
      /\ task \in [Verifiers -> {"none", "created", "count", "page", "ended"}]
      /\ subject_id \in [Verifiers -> Subjects \cup {None}]
  BY VerificationAssumption DEF Verifiers, TypeOK
<1>2. ASSUME \A v \in Verifiers : Apart(v)
      PROVE  VerdictInv'
  BY <1>2, ApartStep DEF VerdictInv
<1>3. ASSUME NEW v \in Verifiers, task[v] \in {"count", "page"}, NEW error \in Errors,
             End(v, error), UNCHANGED <<rows, subject_id, intact, quiet>>
      PROVE  VerdictInv'
  <2>1. /\ Verdict(v)' \in {"none", error} /\ task'[v] = "ended"
        /\ \A w \in Verifiers \ {v} : /\ Verdict(w)' \in {"none", Verdict(w)}
                                      /\ offset'[w] = offset[w] /\ fetched'[w] = fetched[w]
    BY <1>3, EndTells
  <2>2. \A w \in Verifiers : Apart(w)
    BY <1>3, <2>1 DEF Apart
  <2> QED
    BY <1>2, <2>2
\* Steps that tell nobody anything but that a job is gone.
<1>4. ASSUME UNCHANGED <<rows, response, subject_id, intact, quiet>>,
             \A j \in Jobs : jobs'[j].verdict \in {"none", jobs[j].verdict},
             \A v \in Verifiers : task'[v] = "page" => /\ offset'[v] = offset[v]
                                                       /\ fetched'[v] = fetched[v]
      PROVE  VerdictInv'
  <2>1. \A v \in Verifiers : Verdict(v)' \in {"none", Verdict(v)}
    BY <1>4 DEF Verdict
  <2> QED
    BY <1>2, <1>4, <2>1 DEF Apart
<1>5. ASSUME NEW j \in Jobs, StartJob(j) \/ Poll(j) \/ RunJob(j)
      PROVE  VerdictInv'
  <2>1. UNCHANGED <<rows, response, subject_id, intact, quiet, offset, fetched>>
    BY <1>5 DEF StartJob, Poll, RunJob
  <2>2. ASSUME NEW i \in Jobs
        PROVE  jobs'[i].verdict \in {"none", jobs[i].verdict}
    <3>1. JobStep(i) /\ jobs[i] \in Job /\ now \in Nat
      BY JobSteps DEF TypeOK
    <3>2. ~Ends(i)
      BY <1>1, <1>5 DEF StartJob, Poll, RunJob, Ends, TypeOK
    <3>3. Running(jobs[i]).verdict = jobs[i].verdict /\ NoJob.verdict = "none"
      BY <3>1, JobChanges, NoJobType
    <3> QED
      BY <3>1, <3>2, <3>3 DEF JobStep, Keeps, Starts, GoesOn
  <2> QED
    BY <1>4, <2>1, <2>2
<1>6. ASSUME NEW c \in Checks, CheckTenant(c)
      PROVE  VerdictInv'
  BY <1>4, <1>6 DEF CheckTenant
<1>7. ASSUME NEW c \in Checks, CheckSubject(c)
      PROVE  VerdictInv'
  <2>1. /\ task[c] = "none" /\ \E s \in Subjects : subject_id' = [subject_id EXCEPT ![c] = s]
        /\ UNCHANGED <<rows, jobs, response, intact, quiet, offset, fetched>>
        /\ task' = [task EXCEPT ![c] = "page"]
    BY <1>7 DEF CheckSubject
  <2>2. \A w \in Verifiers : Verdict(w)' = Verdict(w)
    BY <2>1 DEF Verdict
  <2>3. \A w \in Verifiers : task[w] = "page" => subject_id'[w] = subject_id[w]
    BY <1>1, <2>1
  <2> QED
    BY <1>2, <2>1, <2>2, <2>3 DEF Apart
<1>8. ASSUME NEW v \in Verifiers, CountEvents(v)
      PROVE  VerdictInv'
  <2>1. task[v] = "count" /\ UNCHANGED <<rows, subject_id, intact, quiet>>
    BY <1>8 DEF CountEvents
  <2>2. CASE End(v, "limit")
    BY <1>3, <2>1, <2>2 DEF Errors
  <2>3. CASE UNCHANGED <<jobs, response, offset, fetched>>
    BY <1>4, <2>1, <2>3
  <2> QED
    BY <1>8, <2>2, <2>3 DEF CountEvents
<1>9. ASSUME NEW v \in Verifiers, TimeOut(v)
      PROVE  VerdictInv'
  BY <1>3, <1>9 DEF TimeOut, Errors
<1>10. ASSUME NEW v \in Verifiers, QueryFails(v)
       PROVE  VerdictInv'
  BY <1>3, <1>10 DEF QueryFails, Errors
<1>11. ASSUME NEW v \in Verifiers, DropTask(v)
       PROVE  VerdictInv'
  <2>1. /\ UNCHANGED <<rows, jobs, response, subject_id, intact, quiet>>
        /\ task' = [task EXCEPT ![v] = "ended"]
        /\ offset' = [offset EXCEPT ![v] = 0] /\ fetched' = [fetched EXCEPT ![v] = << >>]
        /\ offset \in [Verifiers -> Nat] /\ fetched \in [Verifiers -> Seq(Row)]
    BY <1>11 DEF DropTask, Finish, TypeOK
  <2>2. \A w \in Verifiers : task'[w] = "page" => offset'[w] = offset[w] /\ fetched'[w] = fetched[w]
    BY <1>1, <2>1
  <2> QED
    BY <1>4, <2>1, <2>2
<1>12. CASE Restart
  <2>1. /\ jobs' = [j \in Jobs |-> NoJob] /\ \A v \in Verifiers : task'[v] # "page"
        /\ UNCHANGED <<rows, response, subject_id, intact, quiet>>
    BY <1>12 DEF Restart
  <2> QED
    BY <1>4, <2>1, NoJobType
<1>13. CASE Tamper
  <2>1. /\ \A v \in Verifiers : task'[v] = "none"
        /\ UNCHANGED <<jobs, response, intact, quiet>>
    BY <1>13 DEF Tamper
  <2>2. \A v \in Verifiers : Verdict(v)' = Verdict(v)
    BY <2>1 DEF Verdict
  <2> QED
    BY <2>1, <2>2 DEF VerdictInv, PageInv, Told
<1>14. CASE Tick \/ UNCHANGED vars
  <2>1. UNCHANGED <<rows, jobs, response, subject_id, intact, quiet, offset, fetched>>
    BY <1>14 DEF Tick, vars
  <2> QED
    BY <1>4, <2>1
<1>15. ASSUME NEW s \in Subjects, CommitAppend(s)
       PROVE  VerdictInv'
  BY <1>15, AppendStep, RowsStep
<1>16. ASSUME NEW v \in Verifiers, FetchPage(v)
       PROVE  VerdictInv'
  BY <1>16, FetchStep
<1>17. \A c \in Checks : ~RunJob(c)
  BY DEF RunJob, StageInv
<1> QED
  BY <1>1, <1>5, <1>6, <1>7, <1>8, <1>9, <1>10, <1>11, <1>12, <1>13, <1>14, <1>15, <1>16, <1>17
     DEF Next, Work

LEMMA VerdictInit ==
  ASSUME Init
  PROVE  VerdictInv
<1>1. \A v \in Verifiers : Verdict(v) = "none" /\ task[v] = "none"
  BY NoJobType DEF Init, Verdict, Verifiers
<1> QED
  BY <1>1 DEF VerdictInv, PageInv, Told

\* Both verdicts, with what is known of the page that is fetched next.
LEMMA VerdictsAreRight == Spec => []VerdictInv
<1>1. Init => VerdictInv
  BY VerdictInit
<1>2. TypeOK /\ RowsInv /\ StageInv /\ VerdictInv /\ [Next]_vars => VerdictInv'
  BY VerdictStep
<1> QED
  BY <1>1, <1>2, TypeCorrect, PTL DEF Spec

\* However many pages the events fill, and however many appends commit while they are fetched,
\* VerificationService calls no chain valid that was broken when it began.
THEOREM BrokenChainsAreFound == Spec => []BrokenChainNeverValid
<1>1. VerdictInv => BrokenChainNeverValid
  BY DEF VerdictInv, Told, BrokenChainNeverValid
<1> QED
  BY <1>1, VerdictsAreRight, PTL

\* It calls a chain invalid that was intact only if something was appended in the meantime.
THEOREM FalseAlarmsComeFromAppends == Spec => []FalseAlarmNeedsAppend
<1>1. VerdictInv => FalseAlarmNeedsAppend
  BY DEF VerdictInv, Told, FalseAlarmNeedsAppend
<1> QED
  BY <1>1, VerdictsAreRight, PTL

-----------------------------------------------------------------------------
(***************************************************************************)
(* What a replay computes.                                                 *)
(***************************************************************************)

\* f holds the states after 0, 1, ... k of the events, from state on.
Replays(f, state, events, k) ==
  f = [n \in 0..k |-> IF n = 0 THEN state ELSE ApplyEvent(f[n - 1], events[n])]

\* There are such states for as many of the events as one likes: a number for which there are
\* none has a least one, and the states before it can be continued.
LEMMA StatesExist ==
  ASSUME NEW state, NEW events, NEW k \in Nat
  PROVE  \E f : Replays(f, state, events, k)
<1> DEFINE Bad == {n \in Nat : ~\E f : Replays(f, state, events, n)}
<1> SUFFICES ASSUME Bad # {} PROVE FALSE
  OBVIOUS
<1>1. PICK m \in Bad : \A n \in Bad : m <= n
  BY LeastElement
<1>2. CASE m = 0
  <2> DEFINE f == [n \in 0..0 |-> state]
  <2>1. Replays(f, state, events, 0)
    BY DEF Replays
  <2> HIDE DEF f
  <2> QED
    BY <1>2, <2>1
<1>3. CASE m # 0
  <2>1. m - 1 \in Nat /\ m - 1 \notin Bad /\ m \in Nat
    BY <1>1, <1>3
  <2>2. PICK f : Replays(f, state, events, m - 1)
    BY <2>1
  <2> DEFINE g == [n \in 0..m |-> IF n = m THEN ApplyEvent(f[m - 1], events[m]) ELSE f[n]]
             next == [n \in 0..m |-> IF n = 0 THEN state ELSE ApplyEvent(g[n - 1], events[n])]
  <2>3. ASSUME NEW n \in 0..m PROVE g[n] = next[n]
    <3>1. CASE n = m
      <4>1. g[m - 1] = f[m - 1] /\ g[m] = ApplyEvent(f[m - 1], events[m])
        BY <2>1
      <4> QED
        BY <1>3, <3>1, <4>1
    <3>2. CASE n # m
      <4>1. n \in 0..(m - 1) /\ g[n] = f[n] /\ (n # 0 => n - 1 \in 0..m /\ g[n - 1] = f[n - 1])
        BY <2>1, <3>2
      <4>2. f[n] = IF n = 0 THEN state ELSE ApplyEvent(f[n - 1], events[n])
        BY <2>2, <4>1 DEF Replays
      <4> HIDE DEF g
      <4> QED
        BY <4>1, <4>2
    <3> QED
      BY <3>1, <3>2
  <2>4. g = next
    BY <2>3
  <2>5. Replays(g, state, events, m)
    BY <2>4 DEF Replays
  <2> QED
    BY <1>1, <2>5
<1> QED
  BY <1>2, <1>3

\* The k events of e are those of d after the first ones.
Stretch(d, e, from, k) == \A i \in 1..k : d[from + i] = e[i]

\* Two such functions for overlapping stretches of the same events agree where they overlap,
\* if they agree where the second begins.
LEMMA StatesAgree ==
  ASSUME NEW f, NEW g, NEW a, NEW b, NEW d, NEW e, NEW from, NEW j, NEW k,
         from \in Nat, j \in Nat, k \in Nat, from + k <= j,
         Replays(f, a, d, j), Replays(g, b, e, k), f[from] = b,
         Stretch(d, e, from, k)
  PROVE  \A n \in 0..k : f[from + n] = g[n]
<1> DEFINE Bad == {i \in 0..k : f[from + i] # g[i]}
<1> SUFFICES ASSUME Bad # {} PROVE FALSE
  OBVIOUS
<1>1. PICK m \in Bad : \A i \in Bad : m <= i
  <2>1. Bad \in SUBSET Nat
    OBVIOUS
  <2> HIDE DEF Bad
  <2> QED
    BY <2>1, LeastElement
<1>2. m \in 0..k /\ f[from + m] # g[m]
  OBVIOUS
<1>3. m # 0
  <2>1. g[0] = b
    BY DEF Replays
  <2> QED
    BY <1>2, <2>1
<1>4. m - 1 \in 0..k /\ from + m \in 0..j /\ from + m # 0 /\ (from + m) - 1 = from + (m - 1)
  BY <1>2, <1>3
<1>5. f[from + (m - 1)] = g[m - 1]
  BY <1>1, <1>4
<1>6. f[from + m] = ApplyEvent(f[(from + m) - 1], d[from + m])
  <2> HIDE DEF Bad
  <2> QED
    BY <1>4 DEF Replays
<1>7. g[m] = ApplyEvent(g[m - 1], e[m])
  BY <1>2, <1>3 DEF Replays
<1>8. d[from + m] = e[m]
  BY <1>2, <1>3 DEF Stretch
<1> HIDE DEF Bad
<1> QED
  BY <1>2, <1>4, <1>5, <1>6, <1>7, <1>8

LEMMA ReplayStates ==
  ASSUME NEW state, NEW events, Len(events) \in Nat
  PROVE  \E f : Replays(f, state, events, Len(events)) /\ Replay(state, events) = f[Len(events)]
<1> DEFINE k == Len(events)
           P(f) == f = [n \in 0..k |-> IF n = 0 THEN state ELSE ApplyEvent(f[n - 1], events[n])]
           after == CHOOSE f : P(f)
<1>1. \E f : P(f)
  <2>1. \E f : Replays(f, state, events, k)
    BY StatesExist
  <2> QED
    BY <2>1 DEF Replays
<1>2. P(after)
  BY <1>1
<1>3. Replay(state, events) = after[k]
  BY DEF Replay
<1>4. Replays(after, state, events, k)
  BY <1>2 DEF Replays
<1> QED
  BY <1>3, <1>4

\* A replay of nothing, and of a stretch of a timeline on the state before it.
LEMMA ReplayNothing ==
  ASSUME NEW state, NEW events, Len(events) = 0
  PROVE  Replay(state, events) = state
<1>1. PICK f : Replays(f, state, events, 0) /\ Replay(state, events) = f[0]
  BY ReplayStates
<1> QED
  BY <1>1 DEF Replays

LEMMA ReplayStretch ==
  ASSUME NEW S, NEW line \in Seq(S), NEW from \in Nat, NEW upto \in Nat,
         from <= upto, upto <= Len(line), NEW state
  PROVE  Replay(Replay(state, SubSeq(line, 1, from)), SubSeq(line, from + 1, upto))
           = Replay(state, SubSeq(line, 1, upto))
<1> DEFINE whole == SubSeq(line, 1, upto)
           first == SubSeq(line, 1, from)
           rest == SubSeq(line, from + 1, upto)
<1>1. /\ Len(whole) = upto /\ Len(first) = from /\ Len(rest) = upto - from
      /\ \A i \in 1..upto : whole[i] = line[i]
      /\ \A i \in 1..from : first[i] = line[i]
      /\ \A i \in 1..(upto - from) : rest[i] = line[from + i]
  OBVIOUS
<1>2. upto - from \in Nat
  OBVIOUS
<1> HIDE DEF whole, first, rest
<1>3. PICK f : Replays(f, state, whole, upto) /\ Replay(state, whole) = f[upto]
  <2>1. Len(whole) \in Nat
    BY <1>1
  <2>2. \E f : Replays(f, state, whole, Len(whole)) /\ Replay(state, whole) = f[Len(whole)]
    BY <2>1, ReplayStates
  <2> QED
    BY <1>1, <2>2
<1>4. PICK g : Replays(g, state, first, from) /\ Replay(state, first) = g[from]
  <2>1. Len(first) \in Nat
    BY <1>1
  <2>2. \E g : Replays(g, state, first, Len(first)) /\ Replay(state, first) = g[Len(first)]
    BY <2>1, ReplayStates
  <2> QED
    BY <1>1, <2>2
<1>5. f[0] = state
  BY <1>3 DEF Replays
<1>6. f[from] = g[from]
  <2>1. 0 \in Nat /\ 0 + from <= upto /\ from \in 0..from /\ 0 + from = from
    OBVIOUS
  <2>2. ASSUME NEW i \in 1..from PROVE whole[0 + i] = first[i]
    <3>1. 0 + i = i /\ i \in 1..upto
      OBVIOUS
    <3> QED
      BY <1>1, <3>1
  <2>3. Stretch(whole, first, 0, from)
    BY <2>2 DEF Stretch
  <2>4. \A n \in 0..from : f[0 + n] = g[n]
    BY <1>3, <1>4, <1>5, <2>1, <2>3, StatesAgree
  <2>5. f[0 + from] = g[from]
    BY <2>1, <2>4
  <2> QED
    BY <2>1, <2>5
<1>7. PICK h : /\ Replays(h, g[from], rest, upto - from)
               /\ Replay(g[from], rest) = h[upto - from]
  <2>1. Len(rest) \in Nat
    BY <1>1, <1>2
  <2>2. \E h : /\ Replays(h, g[from], rest, Len(rest))
               /\ Replay(g[from], rest) = h[Len(rest)]
    BY <2>1, ReplayStates
  <2> QED
    BY <1>1, <2>2
<1>8. f[from + (upto - from)] = h[upto - from]
  <2>1. /\ from + (upto - from) <= upto /\ upto - from \in 0..(upto - from)
        /\ Stretch(whole, rest, from, upto - from)
    <3>1. ASSUME NEW i \in 1..(upto - from) PROVE whole[from + i] = rest[i]
      <4>1. from + i \in 1..upto
        OBVIOUS
      <4> QED
        BY <1>1, <4>1
    <3> QED
      BY <1>2, <3>1 DEF Stretch
  <2>2. \A n \in 0..(upto - from) : f[from + n] = h[n]
    BY <1>2, <1>3, <1>6, <1>7, <2>1, StatesAgree
  <2> QED
    BY <2>1, <2>2
<1> QED
  <2>1. from + (upto - from) = upto
    OBVIOUS
  <2>2. Replay(Replay(state, first), rest) = Replay(state, whole)
    BY <1>3, <1>4, <1>7, <1>8, <2>1
  <2> QED
    BY <2>2 DEF whole, first, rest

-----------------------------------------------------------------------------
(***************************************************************************)
(* The state of a subject: types of its rows and of what is derived.         *)
(***************************************************************************)

Working == {"snapshot", "events", "load", "write"}
MaybeRow == Snapshot \cup {NoSnapshot}
Derived == [state : State, last : Nat, count : Nat]
Kinds == {"created", "skipped", "errors"}

\* Where the requests are: a request that derives or writes has a subject, and a reader or a
\* creator has one all the time.
PagesOK ==
  /\ pc \in [Calls -> PCs]
  /\ page \in [Calls -> Seq(ListedSubjects)]
  /\ limit \in [Runs -> Limits] /\ total \in [Runs -> Nat]
  /\ \A q \in Calls : q \notin Runs \/ pc[q] \in Working => page[q] # << >>

\* Rows are rows, wherever they are.
RowsOK ==
  /\ timeline \in [ListedSubjects -> Seq(State)]
  /\ snapshots \in [ListedSubjects -> MaybeRow]
  /\ write = [q \in Calls |-> write[q]]
  /\ \A q \in Calls : \A s \in DOMAIN write[q] : s \in ListedSubjects /\ write[q][s] \in Snapshot
  /\ base \in [Calls -> MaybeRow] /\ loaded \in [Calls -> MaybeRow]
  /\ result \in [Calls -> Derived]

TypesInv == listed \in Seq(ListedSubjects) /\ PagesOK /\ RowsOK

LEMMA ApplyState ==
  ASSUME NEW state \in State, NEW payload \in State
  PROVE  ApplyEvent(state, payload) \in State
<1>1. PICK D \in SUBSET Keys : state \in [D -> Values]
  BY DEF State
<1>2. PICK E \in SUBSET Keys : payload \in [E -> Values]
  BY DEF State
<1>3. ApplyEvent(state, payload) \in [D \cup E -> Values]
  BY <1>1, <1>2 DEF ApplyEvent
<1> QED
  BY <1>3 DEF State

LEMMA EmptyIsState == EmptyState \in State
<1>1. EmptyState \in [{} -> Values]
  BY DEF EmptyState
<1> QED
  BY <1>1 DEF State

\* What a replay of payloads gives is a state.
LEMMA ReplayState ==
  ASSUME NEW state \in State, NEW events \in Seq(State)
  PROVE  Replay(state, events) \in State
<1>1. PICK f : Replays(f, state, events, Len(events)) /\ Replay(state, events) = f[Len(events)]
  BY ReplayStates
<1> DEFINE Bad == {n \in 0..Len(events) : f[n] \notin State}
<1>2. Bad = {}
  <2> SUFFICES ASSUME Bad # {} PROVE FALSE
    OBVIOUS
  <2>1. Bad \in SUBSET Nat
    OBVIOUS
  <2>2. PICK m \in Bad : \A n \in Bad : m <= n
    <3> HIDE DEF Bad
    <3> QED
      BY <2>1, LeastElement
  <2>3. m \in 0..Len(events) /\ f[m] \notin State
    OBVIOUS
  <2>4. m # 0
    BY <2>3, <1>1 DEF Replays
  <2>5. m - 1 \in 0..Len(events) /\ m - 1 \notin Bad
    BY <2>2, <2>3, <2>4
  <2>6. f[m - 1] \in State
    BY <2>5
  <2>7. f[m] = ApplyEvent(f[m - 1], events[m])
    BY <1>1, <2>3, <2>4 DEF Replays
  <2>8. events[m] \in State
    BY <2>3, <2>4
  <2> QED
    BY <2>3, <2>6, <2>7, <2>8, ApplyState
<1>3. Len(events) \in 0..Len(events)
  OBVIOUS
<1> QED
  BY <1>1, <1>2, <1>3

LEMMA CurrentSubject ==
  ASSUME TypesInv, NEW r \in Calls, r \notin Runs \/ pc[r] \in Working
  PROVE  /\ Current(r) \in ListedSubjects /\ Current(r) \in ToSet(page[r])
         /\ timeline[Current(r)] \in Seq(State) /\ Len(timeline[Current(r)]) \in Nat
<1>1. page[r] \in Seq(ListedSubjects) /\ page[r] # << >>
  BY DEF TypesInv, PagesOK
<1>2. Current(r) \in ListedSubjects /\ Current(r) \in ToSet(page[r])
  BY <1>1 DEF Current, ToSet
<1> QED
  BY <1>2 DEF TypesInv, RowsOK

LEMMA ViewType ==
  ASSUME RowsOK, NEW r \in Calls, NEW s \in ListedSubjects
  PROVE  View(r, s) \in MaybeRow
BY DEF RowsOK, View, MaybeRow

LEMMA TypesInit == StateInit => TypesInv
<1> SUFFICES ASSUME StateInit PROVE TypesInv
  OBVIOUS
<1>1. Stored \in [ListedSubjects -> Seq(State)] /\ Listed \in Seq(ListedSubjects)
      /\ Targets \subseteq [Readers \cup Creators -> ListedSubjects]
  BY StateAssumption
<1>2. ASSUME NEW s \in ListedSubjects PROVE snapshots[s] \in MaybeRow
  <2>1. CASE snapshots[s] = NoSnapshot
    BY <2>1 DEF MaybeRow
  <2>2. CASE snapshots[s] # NoSnapshot
    <3>1. snapshots[s] = SnapshotOf(Stored[s]) /\ Stored[s] \in Seq(State)
      BY <1>1, <2>2 DEF StateInit
    <3>2. Replay(EmptyState, Stored[s]) \in State /\ Len(Stored[s]) \in Nat
      BY <3>1, EmptyIsState, ReplayState
    <3> QED
      BY <3>1, <3>2 DEF SnapshotOf, MaybeRow, Snapshot
  <2> QED
    BY <2>1, <2>2
<1>3. snapshots \in [ListedSubjects -> MaybeRow]
  BY <1>2 DEF StateInit
<1>4. RowsOK
  <2>1. NoResult \in Derived
    BY EmptyIsState DEF NoResult, Derived
  <2>2. \A q \in Calls : write[q] = << >>
    BY DEF StateInit
  <2> QED
    BY <1>1, <1>3, <2>1, <2>2 DEF StateInit, RowsOK, MaybeRow
<1>5. PagesOK
  <2>1. PICK subjectOf \in Targets :
          page = [r \in Calls |-> IF r \in Runs THEN << >> ELSE <<subjectOf[r]>>]
    BY DEF StateInit
  <2>2. ASSUME NEW r \in Calls, r \notin Runs PROVE <<subjectOf[r]>> \in Seq(ListedSubjects)
    BY <1>1, <2>2 DEF Calls
  <2>3. page \in [Calls -> Seq(ListedSubjects)]
    BY <2>1, <2>2
  <2> QED
    BY <2>1, <2>3 DEF StateInit, PagesOK, PCs, Working
<1> QED
  BY <1>1, <1>4, <1>5 DEF StateInit, TypesInv

\* A request that goes to another label with the subjects it has.
LEMMA GotoPages ==
  ASSUME PagesOK, NEW r \in Calls, NEW label \in PCs, Goto(r, label),
         UNCHANGED <<page, limit, total>>,
         label \in Working => pc[r] \in Working
  PROVE  PagesOK'
BY DEF PagesOK, Goto

LEMMA FailPages ==
  ASSUME PagesOK, NEW r \in Calls, NEW error, Fail(r, error)
  PROVE  PagesOK'
BY GotoPages DEF Fail, PCs, Working

LEMMA NextSubjectPages ==
  ASSUME PagesOK, NEW r \in Calls, NEW kind, NEW state, NextSubject(r, kind, state),
         pc[r] \in Working
  PROVE  PagesOK'
<1>1. CASE r \notin Runs
  BY <1>1, GotoPages DEF NextSubject, PCs, Working
<1>2. CASE r \in Runs
  <2>1. PICK label \in {"snapshot", "list", "answer"} :
          Goto(r, label) /\ (label = "snapshot" => Tail(page[r]) # << >>)
    BY <1>2 DEF NextSubject
  <2>2. /\ page' = [page EXCEPT ![r] = Tail(@)]
        /\ limit' = limit /\ total' = [total EXCEPT ![r] = @ + 1]
    BY <1>2 DEF NextSubject
  <2>3. Tail(page[r]) \in Seq(ListedSubjects)
    BY DEF PagesOK
  <2>4. page' \in [Calls -> Seq(ListedSubjects)] /\ page'[r] = Tail(page[r])
        /\ \A q \in Calls \ {r} : page'[q] = page[q]
    BY <2>2, <2>3 DEF PagesOK
  <2>5. pc' \in [Calls -> PCs] /\ pc'[r] = label /\ \A q \in Calls \ {r} : pc'[q] = pc[q]
    BY <2>1 DEF PagesOK, Goto, PCs
  <2>6. limit' \in [Runs -> Limits] /\ total' \in [Runs -> Nat]
    BY <1>2, <2>2 DEF PagesOK
  <2> QED
    BY <1>2, <2>1, <2>4, <2>5, <2>6 DEF PagesOK, Working
<1> QED
  BY <1>1, <1>2

LEMMA PagesStep ==
  ASSUME TypesInv, NEW r \in Calls, Step(r) \/ Abort(r)
  PROVE  PagesOK'
<1> USE DEF TypesInv
<1>1. CASE ListPage(r)
  <2>1. CASE Fail(r, "error")
    BY <2>1, FailPages
  <2>2. CASE ~Fail(r, "error")
    <3> DEFINE upto == Least(Len(listed), total[r] + Least(PAGE_SIZE, limit[r] - total[r]))
               subjects == SubSeq(listed, total[r] + 1, upto)
    <3>1. /\ page' = [page EXCEPT ![r] = subjects]
          /\ Goto(r, IF subjects = << >> THEN "answer" ELSE "snapshot")
          /\ UNCHANGED <<limit, total>>
      BY <1>1, <2>2 DEF ListPage
    <3>2. subjects \in Seq(ListedSubjects)
      <4>1. total[r] \in Nat /\ limit[r] \in Nat /\ PAGE_SIZE \in Nat
            /\ listed \in Seq(ListedSubjects) /\ Len(listed) \in Nat
        BY <1>1, StateAssumption DEF ListPage, PagesOK
      <4>2. upto \in Int /\ upto <= Len(listed)
        BY <4>1 DEF Least
      <4> HIDE DEF upto
      <4>3. \A i \in (total[r] + 1)..upto : listed[i] \in ListedSubjects
        BY <4>1, <4>2
      <4> QED
        BY <4>1, <4>2, <4>3
    <3> HIDE DEF subjects, upto
    <3>3. /\ page' \in [Calls -> Seq(ListedSubjects)] /\ page'[r] = subjects
          /\ \A q \in Calls \ {r} : page'[q] = page[q]
      BY <3>1, <3>2 DEF PagesOK
    <3>4. /\ pc' \in [Calls -> PCs] /\ pc'[r] = (IF subjects = << >> THEN "answer" ELSE "snapshot")
          /\ \A q \in Calls \ {r} : pc'[q] = pc[q]
      BY <3>1 DEF PagesOK, Goto, PCs
    <3> QED
      BY <1>1, <3>1, <3>3, <3>4 DEF ListPage, PagesOK, Working
  <2> QED
    BY <2>1, <2>2
<1>2. CASE ReadSnapshot(r)
  BY <1>2, FailPages, NextSubjectPages, GotoPages DEF ReadSnapshot, PCs, Working
<1>3. CASE ReadEvents(r)
  BY <1>3, FailPages, NextSubjectPages, GotoPages DEF ReadEvents, PCs, Working
<1>4. CASE WriteRow(r)
  BY <1>4, FailPages, NextSubjectPages DEF WriteRow, FlushFails, Working
<1>5. CASE LoadRow(r) \/ Answer(r) \/ CommitOrClose(r)
  BY <1>5, GotoPages DEF LoadRow, Answer, CommitOrClose, PCs, Working
<1>6. CASE Abort(r)
  BY <1>6, FailPages DEF Abort
<1> QED
  BY <1>1, <1>2, <1>3, <1>4, <1>5, <1>6 DEF Step

LEMMA FailRows ==
  ASSUME RowsOK, NEW r \in Calls, NEW error, Fail(r, error),
         UNCHANGED <<timeline, snapshots, base, loaded, result>>
  PROVE  RowsOK'
<1>1. write' = [write EXCEPT ![r] = << >>]
  BY DEF Fail
<1>2. write' = [q \in Calls |-> write'[q]] /\ write'[r] = << >>
      /\ \A q \in Calls \ {r} : write'[q] = write[q]
  BY <1>1 DEF RowsOK
<1> QED
  BY <1>2 DEF RowsOK

\* The tail that is replayed.
LEMMA TailType ==
  ASSUME TypesInv, NEW r \in Calls, pc[r] = "events", NEW from \in Nat
  PROVE  EventsAfter(r, from) \in Seq(State)
<1> DEFINE line == timeline[Current(r)]
           upto == Least(Admitted(r), from + MAX_TAIL)
<1>1. line \in Seq(State) /\ Len(line) \in Nat /\ MAX_TAIL \in Nat
  BY CurrentSubject, StateAssumption DEF Working
<1>2. Admitted(r) \in Nat /\ Admitted(r) <= Len(line)
  <2>1. r \in Readers => AsOf[r] \in Nat
    BY StateAssumption
  <2> QED
    BY <1>1, <2>1 DEF Admitted, Least
<1>3. upto \in Nat /\ upto <= Len(line)
  BY <1>1, <1>2 DEF Least
<1> HIDE DEF upto, line
<1>4. \A i \in (from + 1)..upto : line[i] \in State
  BY <1>1, <1>3
<1>5. SubSeq(line, from + 1, upto) \in Seq(State)
  BY <1>1, <1>3, <1>4
<1> QED
  BY <1>5 DEF EventsAfter, line, upto

LEMMA ReadEventsRows ==
  ASSUME TypesInv, NEW r \in Calls, ReadEvents(r)
  PROVE  RowsOK'
<1> USE DEF TypesInv
<1> DEFINE from == IF base[r] = NoSnapshot THEN 0 ELSE base[r].at
           tail == EventsAfter(r, from)
           start == IF from = 0 THEN EmptyState ELSE base[r].state
           found == [state |-> Replay(start, tail),
                     last  |-> from + Len(tail),
                     count |-> (IF from = 0 THEN 0 ELSE base[r].count) + Len(tail)]
<1>1. pc[r] = "events" /\ result' = [result EXCEPT ![r] = found]
      /\ UNCHANGED <<timeline, snapshots, base, loaded>>
  BY DEF ReadEvents
<1>2. base[r] = NoSnapshot \/ base[r] \in Snapshot
  BY DEF RowsOK, MaybeRow
<1>3. from \in Nat /\ start \in State /\ (IF from = 0 THEN 0 ELSE base[r].count) \in Nat
  BY <1>2, EmptyIsState DEF Snapshot
<1> HIDE DEF from
<1>4. tail \in Seq(State) /\ Len(tail) \in Nat
  <2>1. tail \in Seq(State)
    BY <1>1, <1>3, TailType
  <2> QED
    BY <2>1
<1> HIDE DEF tail, start
<1>5. Replay(start, tail) \in State
  BY <1>3, <1>4, ReplayState
<1>6. found \in Derived
  BY <1>3, <1>4, <1>5 DEF Derived
<1> HIDE DEF found
<1>7. result' \in [Calls -> Derived]
  BY <1>1, <1>6 DEF RowsOK
<1>8. UNCHANGED write \/ write' = [write EXCEPT ![r] = << >>]
  BY DEF ReadEvents, Fail
<1>9. write' = [q \in Calls |-> write'[q]] /\ \A q \in Calls : write'[q] \in {write[q], << >>}
  BY <1>8 DEF RowsOK
<1> QED
  BY <1>1, <1>7, <1>9 DEF RowsOK

LEMMA WriteRowRows ==
  ASSUME TypesInv, NEW r \in Calls, WriteRow(r)
  PROVE  RowsOK'
<1> USE DEF TypesInv
<1> DEFINE s == Current(r)
           row == View(r, s)
           new == IF row # NoSnapshot THEN Updated(r, row)
                  ELSE [at |-> result[r].last, state |-> result[r].state,
                        count |-> result[r].count]
<1>1. UNCHANGED <<timeline, snapshots, base, loaded, result>> /\ pc[r] = "write"
  BY DEF WriteRow
<1>2. s \in ListedSubjects /\ row \in MaybeRow
  BY <1>1, CurrentSubject, ViewType DEF Working
<1>3. result[r] \in Derived
  BY DEF RowsOK
<1> HIDE DEF s, row
<1>4. new \in Snapshot
  <2>1. row # NoSnapshot => row \in Snapshot
    BY <1>2 DEF MaybeRow
  <2>2. row \in Snapshot => Updated(r, row) \in Snapshot
    BY <1>3 DEF Updated, Derived, Snapshot
  <2>3. [at |-> result[r].last, state |-> result[r].state, count |-> result[r].count] \in Snapshot
    BY <1>3 DEF Derived, Snapshot
  <2> QED
    BY <2>1, <2>2, <2>3
<1> HIDE DEF new
<1>5. \/ UNCHANGED write \/ write' = [write EXCEPT ![r] = << >>]
      \/ write' = [write EXCEPT ![r] = [t \in DOMAIN @ \cup {s} |-> IF t # s THEN @[t] ELSE new]]
  BY DEF WriteRow, FlushFails, Fail, s, row, new
<1>6. CASE UNCHANGED write \/ write' = [write EXCEPT ![r] = << >>]
  <2>1. write' = [q \in Calls |-> write'[q]] /\ \A q \in Calls : write'[q] \in {write[q], << >>}
    BY <1>6 DEF RowsOK
  <2> QED
    BY <1>1, <2>1 DEF RowsOK
<1>7. CASE write' = [write EXCEPT ![r] =
                       [t \in DOMAIN @ \cup {s} |-> IF t # s THEN @[t] ELSE new]]
  <2>1. /\ write' = [q \in Calls |-> write'[q]] /\ \A q \in Calls \ {r} : write'[q] = write[q]
        /\ write'[r] = [t \in DOMAIN write[r] \cup {s} |-> IF t # s THEN write[r][t] ELSE new]
    BY <1>7 DEF RowsOK
  <2>2. \A t \in DOMAIN write'[r] : t \in ListedSubjects /\ write'[r][t] \in Snapshot
    BY <1>2, <1>4, <2>1 DEF RowsOK
  <2> QED
    BY <1>1, <2>1, <2>2 DEF RowsOK
<1> QED
  BY <1>5, <1>6, <1>7

LEMMA StateRowsStep ==
  ASSUME TypesInv, NEW r \in Calls, Step(r) \/ Abort(r)
  PROVE  RowsOK'
<1> USE DEF TypesInv
<1>1. CASE ListPage(r)
  BY <1>1, FailRows DEF ListPage, RowsOK
<1>2. CASE ReadSnapshot(r)
  <2> DEFINE row == View(r, Current(r))
  <2>1. UNCHANGED <<timeline, snapshots, loaded, result>> /\ pc[r] = "snapshot"
    BY <1>2 DEF ReadSnapshot
  <2>2. row \in MaybeRow /\ NoSnapshot \in MaybeRow
    BY <2>1, CurrentSubject, ViewType DEF Working, MaybeRow
  <2>3. UNCHANGED base \/ \E b \in {row, NoSnapshot} : base' = [base EXCEPT ![r] = b]
    BY <1>2 DEF ReadSnapshot
  <2> HIDE DEF row
  <2>4. base' \in [Calls -> MaybeRow]
    BY <2>2, <2>3 DEF RowsOK
  <2>5. UNCHANGED write \/ write' = [write EXCEPT ![r] = << >>]
    BY <1>2 DEF ReadSnapshot, Fail
  <2>6. write' = [q \in Calls |-> write'[q]] /\ \A q \in Calls : write'[q] \in {write[q], << >>}
    BY <2>5 DEF RowsOK
  <2> QED
    BY <2>1, <2>4, <2>6 DEF RowsOK
<1>3. CASE LoadRow(r)
  <2>1. /\ loaded' = [loaded EXCEPT ![r] = View(r, Current(r))]
        /\ UNCHANGED <<timeline, snapshots, write, base, result>>
    BY <1>3 DEF LoadRow
  <2>2. View(r, Current(r)) \in MaybeRow
    BY <1>3, CurrentSubject, ViewType DEF LoadRow, Working
  <2> QED
    BY <2>1, <2>2 DEF RowsOK
<1>4. CASE CommitOrClose(r)
  <2>1. /\ UNCHANGED <<timeline, base, loaded, result>>
        /\ write' = [write EXCEPT ![r] = << >>]
        /\ UNCHANGED snapshots \/ snapshots' = [s \in ListedSubjects |-> View(r, s)]
    BY <1>4 DEF CommitOrClose
  <2>2. snapshots' \in [ListedSubjects -> MaybeRow]
    BY <2>1, ViewType DEF RowsOK
  <2>3. write' = [q \in Calls |-> write'[q]] /\ \A q \in Calls : write'[q] \in {write[q], << >>}
    BY <2>1 DEF RowsOK
  <2> QED
    BY <2>1, <2>2, <2>3 DEF RowsOK
<1>5. CASE Answer(r)
  BY <1>5 DEF Answer, RowsOK
<1>6. CASE Abort(r)
  BY <1>6, FailRows DEF Abort
<1> QED
  BY <1>1, <1>2, <1>3, <1>4, <1>5, <1>6, ReadEventsRows, WriteRowRows DEF Step

\* The subjects there are: one more, one less, or the same.
LEMMA ListedStep ==
  ASSUME TypesInv, [StateNext]_stateVars
  PROVE  /\ listed' \in Seq(ListedSubjects)
         /\ gone \subseteq gone' /\ ToSet(listed) \subseteq ToSet(listed') \cup gone'
<1>1. listed \in Seq(ListedSubjects)
  BY DEF TypesInv
<1>2. CASE UNCHANGED <<listed, gone>>
  BY <1>1, <1>2
<1>3. ASSUME NEW s \in ListedSubjects, CreateSubject(s)
      PROVE  /\ listed' \in Seq(ListedSubjects)
             /\ gone \subseteq gone' /\ ToSet(listed) \subseteq ToSet(listed') \cup gone'
  <2>1. listed' = <<s>> \o listed /\ gone' = gone
    BY <1>3 DEF CreateSubject
  <2>2. listed' \in Seq(ListedSubjects) /\ Len(listed') = Len(listed) + 1
        /\ \A i \in 1..Len(listed) : listed'[i + 1] = listed[i]
    BY <1>1, <2>1
  <2>3. ASSUME NEW i \in 1..Len(listed) PROVE listed[i] \in ToSet(listed')
    <3>1. i + 1 \in DOMAIN listed' /\ listed'[i + 1] = listed[i]
      BY <1>1, <2>2
    <3> QED
      BY <3>1 DEF ToSet
  <2>4. ToSet(listed) = {listed[i] : i \in 1..Len(listed)}
    BY <1>1 DEF ToSet
  <2>5. ToSet(listed) \subseteq ToSet(listed')
    BY <2>3, <2>4
  <2> QED
    BY <2>1, <2>2, <2>5
<1>4. ASSUME NEW s \in ListedSubjects, DeleteSubject(s)
      PROVE  /\ listed' \in Seq(ListedSubjects)
             /\ gone \subseteq gone' /\ ToSet(listed) \subseteq ToSet(listed') \cup gone'
  <2>1. PICK i \in DOMAIN listed : listed[i] = s /\ listed' = RemoveAt(listed, i)
    BY <1>4 DEF DeleteSubject
  <2>2. gone' = gone \cup {s}
    BY <1>4 DEF DeleteSubject
  <2>3. i \in 1..Len(listed) /\ Len(listed) \in Nat
    BY <1>1, <2>1
  <2> DEFINE before == SubSeq(listed, 1, i - 1)
             after == SubSeq(listed, i + 1, Len(listed))
  <2>4. /\ before \in Seq(ListedSubjects) /\ Len(before) = i - 1
        /\ \A j \in 1..(i - 1) : before[j] = listed[j]
    BY <1>1, <2>3
  <2>5. /\ after \in Seq(ListedSubjects) /\ Len(after) = Len(listed) - i
        /\ \A j \in 1..(Len(listed) - i) : after[j] = listed[i + j]
    BY <1>1, <2>3
  <2>6. listed' = before \o after
    BY <2>1 DEF RemoveAt
  <2> HIDE DEF before, after
  <2>7. /\ listed' \in Seq(ListedSubjects) /\ DOMAIN listed' = 1..(Len(listed) - 1)
        /\ \A j \in 1..(i - 1) : listed'[j] = listed[j]
        /\ \A j \in 1..(Len(listed) - i) : listed'[(i - 1) + j] = listed[i + j]
    <3>1. listed' \in Seq(ListedSubjects) /\ Len(listed') = Len(listed) - 1
      BY <2>3, <2>4, <2>5, <2>6
    <3>2. DOMAIN listed' = 1..(Len(listed) - 1)
      BY <3>1
    <3>3. \A j \in 1..(i - 1) : listed'[j] = listed[j]
      BY <2>3, <2>4, <2>5, <2>6
    <3>4. \A j \in 1..(Len(listed) - i) : listed'[(i - 1) + j] = listed[i + j]
      BY <2>3, <2>4, <2>5, <2>6
    <3> QED
      BY <3>1, <3>2, <3>3, <3>4
  <2>8. ASSUME NEW k \in 1..Len(listed), k # i PROVE listed[k] \in ToSet(listed')
    <3>1. CASE k < i
      <4>1. k \in DOMAIN listed' /\ listed'[k] = listed[k]
        BY <2>3, <2>7, <2>8, <3>1
      <4> QED
        BY <4>1 DEF ToSet
    <3>2. CASE k > i
      <4>1. k - i \in 1..(Len(listed) - i) /\ i + (k - i) = k /\ (i - 1) + (k - i) \in DOMAIN listed'
        BY <2>3, <2>7, <2>8, <3>2
      <4>2. listed'[(i - 1) + (k - i)] = listed[k]
        BY <2>7, <4>1
      <4> QED
        BY <4>1, <4>2 DEF ToSet
    <3> QED
      BY <2>3, <2>8, <3>1, <3>2
  <2>9. ToSet(listed) = {listed[k] : k \in 1..Len(listed)}
    BY <1>1 DEF ToSet
  <2>10. ToSet(listed) \subseteq ToSet(listed') \cup {s}
    BY <2>1, <2>8, <2>9
  <2> QED
    BY <2>2, <2>7, <2>10
<1>5. ASSUME NEW r \in Calls, Step(r) \/ Abort(r) PROVE UNCHANGED <<listed, gone>>
  BY <1>5
  DEF Step, Abort, ListPage, ReadSnapshot, ReadEvents, LoadRow, WriteRow, Answer, CommitOrClose
<1>6. ASSUME NEW s \in ListedSubjects, AppendEvent(s) PROVE UNCHANGED <<listed, gone>>
  BY <1>6 DEF AppendEvent
<1> QED
  BY <1>2, <1>3, <1>4, <1>5, <1>6 DEF StateNext, AllDone, stateVars

LEMMA TypesNext == TypesInv /\ [StateNext]_stateVars => TypesInv'
<1> SUFFICES ASSUME TypesInv, [StateNext]_stateVars PROVE TypesInv'
  OBVIOUS
<1>1. listed' \in Seq(ListedSubjects)
  BY ListedStep
<1>2. CASE \E r \in Calls : Step(r) \/ Abort(r)
  BY <1>1, <1>2, PagesStep, StateRowsStep DEF TypesInv
<1>3. CASE UNCHANGED <<timeline, snapshots, write, base, loaded, result, pc, page, limit, total>>
  BY <1>1, <1>3 DEF TypesInv, PagesOK, RowsOK
<1>4. ASSUME NEW s \in ListedSubjects, AppendEvent(s) PROVE TypesInv'
  <2>1. PICK h \in Histories[s] :
          /\ IsStrictPrefix(timeline[s], h)
          /\ timeline' = [timeline EXCEPT ![s] = SubSeq(h, 1, Len(@) + 1)]
    BY <1>4 DEF AppendEvent
  <2>2. h \in Seq(State) /\ timeline[s] \in Seq(State)
    BY StateAssumption DEF TypesInv, RowsOK
  <2>3. Len(h) \in Nat /\ Len(timeline[s]) \in Nat /\ Len(timeline[s]) + 1 <= Len(h)
    <3>1. /\ Len(timeline[s]) <= Len(h) /\ timeline[s] # h
          /\ SubSeq(timeline[s], 1, Len(timeline[s])) = SubSeq(h, 1, Len(timeline[s]))
      BY <2>1 DEF IsStrictPrefix, IsPrefix
    <3>2. SubSeq(timeline[s], 1, Len(timeline[s])) = timeline[s] /\ SubSeq(h, 1, Len(h)) = h
      BY <2>2
    <3>3. Len(timeline[s]) # Len(h)
      BY <3>1, <3>2
    <3> QED
      BY <2>2, <3>1, <3>3
  <2>4. SubSeq(h, 1, Len(timeline[s]) + 1) \in Seq(State)
    BY <2>2, <2>3
  <2>5. timeline' \in [ListedSubjects -> Seq(State)]
    BY <2>1, <2>4 DEF TypesInv, RowsOK
  <2>6. UNCHANGED <<snapshots, write, base, loaded, result, pc, page, limit, total>>
    BY <1>4 DEF AppendEvent
  <2> QED
    BY <1>1, <2>5, <2>6 DEF TypesInv, PagesOK, RowsOK
<1> QED
  BY <1>2, <1>3, <1>4 DEF StateNext, AllDone, stateVars, CreateSubject, DeleteSubject

-----------------------------------------------------------------------------
(***************************************************************************)
(* Jobs that report errors.                                                *)
(***************************************************************************)

\* What request r sees a row of: its own, or a committed one.
Has(r, s) == s \in DOMAIN write[r] \/ snapshots[s] # NoSnapshot

StateTypes ==
  /\ session \in [Calls -> {"active", "inactive", "closed"}]
  /\ report \in [Runs -> [Kinds -> SUBSET ListedSubjects]]
  /\ committed \subseteq Calls

\* Only an active session has something written, and derives or writes a snapshot; a row that
\* was loaded stays; a transaction is committed at the end.
RequestInv(r) ==
  /\ session[r] # "active" => DOMAIN write[r] = {}
  /\ pc[r] \in {"events", "load", "write"} => session[r] = "active"
  /\ pc[r] = "write" /\ loaded[r] # NoSnapshot => Has(r, Current(r))
  /\ r \in committed => pc[r] = "done"

\* A job's subjects are still there or gone; an error for one that is still there has ended
\* its session's activity; and while it is active, it sees what it has created.
JobInv(r) ==
  /\ ToSet(page[r]) \subseteq ToSet(listed) \cup gone
  /\ pc[r] = "done" => session[r] # "active"
  /\ report[r]["errors"] \subseteq gone \/ (session[r] # "active" /\ r \notin committed)
  /\ session[r] = "active" => \A s \in report[r]["created"] : Has(r, s)
  /\ r \in committed => \A s \in report[r]["created"] : snapshots[s] # NoSnapshot

RunInv == TypesInv /\ StateTypes /\ (\A r \in Calls : RequestInv(r)) /\ (\A r \in Runs : JobInv(r))

\* What a step of r leaves to the others: snapshots stay, though not the same.
OthersSame(r) ==
  /\ UNCHANGED <<listed, gone>>
  /\ \A s \in ListedSubjects : snapshots[s] # NoSnapshot => snapshots'[s] # NoSnapshot
  /\ \A q \in Calls \ {r} :
       /\ session'[q] = session[q] /\ pc'[q] = pc[q] /\ write'[q] = write[q]
       /\ page'[q] = page[q] /\ loaded'[q] = loaded[q]
       /\ q \in committed' <=> q \in committed
       /\ q \in Runs => report'[q] = report[q]

\* What a step of r must show.
StepOK(r) == StateTypes' /\ OthersSame(r) /\ RequestInv(r)' /\ (r \in Runs => JobInv(r)')

-----------------------------------------------------------------------------
LEMMA InitOK == StateInit => RunInv
<1> SUFFICES ASSUME StateInit PROVE RunInv
  OBVIOUS
<1>1. TypesInv
  BY TypesInit
<1>2. StateTypes
  BY DEF StateInit, StateTypes, Kinds
<1>3. \A r \in Calls : RequestInv(r)
  BY DEF StateInit, RequestInv
<1>4. ASSUME NEW r \in Runs PROVE JobInv(r)
  <2>1. page[r] = << >>
    BY <1>4 DEF StateInit, Calls
  <2>2. ToSet(page[r]) = {}
    BY <2>1 DEF ToSet
  <2>3. r \in Calls /\ committed = {} /\ report[r] = [kind \in Kinds |-> {}] /\ pc[r] = "list"
    BY <1>4 DEF StateInit, Calls, Kinds
  <2> QED
    BY <2>2, <2>3 DEF JobInv, Kinds
<1> QED
  BY <1>1, <1>2, <1>3, <1>4 DEF RunInv

\* A rollback that ends the request.
LEMMA FailOK ==
  ASSUME RunInv, NEW r \in Calls, NEW error, Fail(r, error), pc[r] # "done",
         UNCHANGED <<listed, gone, snapshots, committed, loaded>>
  PROVE  StepOK(r)
<1>1. pc' = [pc EXCEPT ![r] = "done"] /\ session' = [session EXCEPT ![r] = "closed"]
      /\ write' = [write EXCEPT ![r] = << >>] /\ UNCHANGED <<report, page>>
  BY DEF Fail, Goto
<1>2. StateTypes' /\ OthersSame(r)
  BY <1>1 DEF RunInv, TypesInv, PagesOK, RowsOK, StateTypes, OthersSame
<1>3. session'[r] = "closed" /\ pc'[r] = "done" /\ write'[r] = << >> /\ r \notin committed
  BY <1>1 DEF RunInv, TypesInv, PagesOK, RowsOK, StateTypes, RequestInv
<1>4. RequestInv(r)'
  BY <1>3 DEF RequestInv
<1>5. r \in Runs => JobInv(r)'
  BY <1>1, <1>3 DEF RunInv, JobInv
<1> QED
  BY <1>2, <1>4, <1>5 DEF StepOK

\* What a step that changes no report and nothing that is stored must show of a request that
\* goes to another label.
LEMMA GotoOK ==
  ASSUME RunInv, NEW r \in Calls, NEW label \in PCs \ {"done", "write"}, Goto(r, label),
         pc[r] # "done", label \in {"events", "load"} => session[r] = "active",
         UNCHANGED <<listed, gone, snapshots, session, write, page, committed, report, loaded>>
  PROVE  StepOK(r)
<1>1. /\ pc'[r] = label /\ \A q \in Calls \ {r} : pc'[q] = pc[q]
  BY DEF Goto, RunInv, TypesInv, PagesOK
<1>2. StateTypes' /\ OthersSame(r)
  BY <1>1 DEF RunInv, StateTypes, OthersSame
<1>3. RequestInv(r)'
  BY <1>1 DEF RunInv, RequestInv
<1>4. r \in Runs => JobInv(r)'
  BY <1>1 DEF RunInv, JobInv, Has
<1> QED
  BY <1>2, <1>3, <1>4 DEF StepOK

\* The end of a subject, with what the flush has left in write: its own row is there if it is
\* counted as created, and only an inactive session counts one that is not gone as an error.
LEMMA NextSubjectOK ==
  ASSUME RunInv, NEW r \in Calls, NEW kind \in Kinds, NEW state \in {"active", "inactive"},
         NextSubject(r, kind, state), pc[r] \in Working,
         UNCHANGED <<listed, gone, snapshots, committed, loaded>>,
         \A q \in Calls \ {r} : write'[q] = write[q],
         state = "inactive" => DOMAIN write'[r] = {},
         state = "active" /\ r \in Runs =>
           /\ session[r] = "active" /\ DOMAIN write[r] \subseteq DOMAIN write'[r]
           /\ kind = "errors" => Current(r) \in gone
           /\ kind = "created" =>
                Current(r) \in DOMAIN write'[r] \/ snapshots[Current(r)] # NoSnapshot
  PROVE  StepOK(r)
<1>1. session' = [session EXCEPT ![r] = state] /\ pc[r] # "done" /\ r \notin committed
  BY DEF NextSubject, Working, RunInv, RequestInv
<1>2. Current(r) \in ListedSubjects /\ Current(r) \in ToSet(page[r])
  BY CurrentSubject DEF RunInv
<1>3. \E label \in {"snapshot", "list", "answer"} : pc' = [pc EXCEPT ![r] = label]
  BY DEF NextSubject, Goto
<1>4. pc'[r] \in {"snapshot", "list", "answer"} /\ \A q \in Calls \ {r} : pc'[q] = pc[q]
  BY <1>3 DEF RunInv, TypesInv, PagesOK
<1>5. session'[r] = state /\ \A q \in Calls \ {r} : session'[q] = session[q]
  BY <1>1 DEF RunInv, StateTypes
<1>6. RequestInv(r)'
  BY <1>1, <1>4, <1>5 DEF RequestInv
<1>7. CASE r \notin Runs
  <2>1. UNCHANGED <<report, page>>
    BY <1>7 DEF NextSubject
  <2>2. StateTypes' /\ OthersSame(r)
    BY <1>1, <1>4, <1>5, <2>1 DEF RunInv, StateTypes, OthersSame
  <2> QED
    BY <1>6, <1>7, <2>2 DEF StepOK
<1>8. CASE r \in Runs
  <2> DEFINE s == Current(r)
             old == report[r]
             new == report'[r]
  <2>1. /\ report' = [report EXCEPT ![r] = [old EXCEPT ![kind] = @ \cup {s}]]
        /\ page' = [page EXCEPT ![r] = Tail(@)]
    BY <1>8 DEF NextSubject
  <2>2. old \in [Kinds -> SUBSET ListedSubjects]
    BY <1>8 DEF RunInv, StateTypes
  <2>3. /\ new = [old EXCEPT ![kind] = @ \cup {s}] /\ \A q \in Runs \ {r} : report'[q] = report[q]
    BY <1>8, <2>1 DEF RunInv, StateTypes
  <2> HIDE DEF new, s
  <2>4. /\ new \in [Kinds -> SUBSET ListedSubjects] /\ new[kind] = old[kind] \cup {s}
        /\ \A k \in Kinds \ {kind} : new[k] = old[k]
    BY <1>2, <2>2, <2>3 DEF s
  <2>5. report' \in [Runs -> [Kinds -> SUBSET ListedSubjects]]
    BY <2>1, <2>3, <2>4 DEF RunInv, StateTypes
  <2>6. /\ page'[r] = Tail(page[r]) /\ \A q \in Calls \ {r} : page'[q] = page[q]
    BY <2>1 DEF RunInv, TypesInv, PagesOK
  <2>7. ToSet(page'[r]) \subseteq ToSet(page[r])
    <3>1. page[r] \in Seq(ListedSubjects) /\ page[r] # << >>
      BY <1>2 DEF RunInv, TypesInv, PagesOK, ToSet
    <3> QED
      BY <2>6, <3>1 DEF ToSet
  <2>8. StateTypes' /\ OthersSame(r)
    BY <1>1, <1>4, <1>5, <2>3, <2>5, <2>6 DEF RunInv, StateTypes, OthersSame
  <2>9. "errors" \in Kinds /\ "created" \in Kinds
    BY DEF Kinds
  <2>10. new["errors"] \subseteq gone' \/ state # "active"
    <3>1. SUFFICES ASSUME state = "active" PROVE new["errors"] \subseteq gone
      OBVIOUS
    <3>2. old["errors"] \subseteq gone
      BY <1>8, <3>1 DEF RunInv, JobInv
    <3>3. kind = "errors" => s \in gone
      BY <1>8, <3>1 DEF s
    <3> QED
      BY <2>4, <2>9, <3>2, <3>3
  <2>11. ASSUME state = "active", NEW t \in new["created"] PROVE Has(r, t)'
    <3>1. CASE t \in old["created"]
      <4>1. Has(r, t)
        BY <1>8, <2>11, <3>1 DEF RunInv, JobInv
      <4> QED
        BY <1>8, <2>11, <4>1 DEF Has
    <3>2. CASE t \notin old["created"]
      <4>1. kind = "created" /\ t = s
        BY <2>4, <2>9, <2>11, <3>2
      <4> QED
        BY <1>8, <2>11, <4>1 DEF Has, s
    <3> QED
      BY <3>1, <3>2
  <2>12. JobInv(r)'
    <3>1. ToSet(page'[r]) \subseteq ToSet(listed') \cup gone'
      BY <1>8, <2>7 DEF RunInv, JobInv
    <3> QED
      BY <1>1, <1>4, <1>5, <2>10, <2>11, <3>1 DEF JobInv, new
  <2> QED
    BY <1>6, <2>8, <2>12 DEF StepOK
<1> QED
  BY <1>7, <1>8

-----------------------------------------------------------------------------
LEMMA ListPageOK ==
  ASSUME RunInv, NEW r \in Calls, ListPage(r)
  PROVE  StepOK(r)
<1>1. /\ r \in Runs /\ pc[r] = "list"
      /\ UNCHANGED <<listed, gone, snapshots, committed, loaded>>
  BY DEF ListPage
<1>2. CASE session[r] # "active"
  BY <1>1, <1>2, FailOK DEF ListPage
<1>3. CASE session[r] = "active"
  <2> DEFINE upto == Least(Len(listed), total[r] + Least(PAGE_SIZE, limit[r] - total[r]))
             subjects == SubSeq(listed, total[r] + 1, upto)
  <2>1. /\ page' = [page EXCEPT ![r] = subjects]
        /\ pc' = [pc EXCEPT ![r] = IF subjects = << >> THEN "answer" ELSE "snapshot"]
        /\ UNCHANGED <<write, session, report>>
    BY <1>3 DEF ListPage, Goto
  <2>2. ToSet(subjects) \subseteq ToSet(listed)
    <3>1. /\ total[r] \in Nat /\ limit[r] \in Nat /\ PAGE_SIZE \in Nat
          /\ listed \in Seq(ListedSubjects) /\ Len(listed) \in Nat
      BY <1>1, StateAssumption DEF RunInv, TypesInv, PagesOK
    <3>2. upto \in Int /\ upto <= Len(listed)
      BY <3>1 DEF Least
    <3> HIDE DEF upto
    <3>3. \A i \in (total[r] + 1)..upto : listed[i] \in ListedSubjects
      BY <3>1, <3>2
    <3>4. \A i \in DOMAIN subjects : total[r] + i \in 1..Len(listed)
                                      /\ subjects[i] = listed[total[r] + i]
      <4>1. subjects \in Seq(ListedSubjects)
            /\ Len(subjects) = IF total[r] + 1 <= upto THEN upto - total[r] ELSE 0
        BY <3>1, <3>2, <3>3
      <4>2. DOMAIN subjects = 1..Len(subjects)
        BY <4>1
      <4> SUFFICES ASSUME NEW i \in 1..Len(subjects)
                   PROVE  total[r] + i \in 1..Len(listed) /\ subjects[i] = listed[total[r] + i]
        BY <4>2
      <4>3. total[r] + i \in 1..Len(listed) /\ i \in 1..(upto - total[r])
        BY <3>1, <3>2, <4>1
      <4> QED
        BY <3>1, <3>2, <4>3
    <3> HIDE DEF subjects
    <3> QED
      BY <3>1, <3>4 DEF ToSet
  <2> HIDE DEF subjects
  <2>3. /\ page'[r] = subjects /\ pc'[r] \in {"answer", "snapshot"}
        /\ \A q \in Calls \ {r} : page'[q] = page[q] /\ pc'[q] = pc[q]
    BY <2>1 DEF RunInv, TypesInv, PagesOK
  <2>4. StateTypes' /\ OthersSame(r)
    BY <1>1, <2>1, <2>3 DEF RunInv, StateTypes, OthersSame
  <2>5. RequestInv(r)'
    BY <1>1, <2>1, <2>3 DEF RunInv, RequestInv
  <2>6. JobInv(r)'
    BY <1>1, <2>1, <2>2, <2>3 DEF RunInv, JobInv, Has
  <2> QED
    BY <2>4, <2>5, <2>6 DEF StepOK
<1> QED
  BY <1>2, <1>3

LEMMA ReadSnapshotOK ==
  ASSUME RunInv, NEW r \in Calls, ReadSnapshot(r)
  PROVE  StepOK(r)
<1>1. pc[r] = "snapshot" /\ pc[r] \in Working
      /\ UNCHANGED <<listed, gone, snapshots, committed, loaded>>
  BY DEF ReadSnapshot, Working
<1>2. CASE session[r] = "active" /\ Current(r) \in ToSet(listed)
  <2>1. Goto(r, "events") /\ UNCHANGED <<session, write, page, report>>
    BY <1>2 DEF ReadSnapshot
  <2> QED
    BY <1>1, <1>2, <2>1, GotoOK DEF PCs
<1>3. CASE session[r] = "active" /\ Current(r) \notin ToSet(listed)
  <2>1. CASE Fail(r, "not_found")
    BY <1>1, <2>1, FailOK
  <2>2. CASE r \in Runs /\ NextSubject(r, "errors", "active") /\ UNCHANGED write
    <3>1. Current(r) \in gone
      <4>1. Current(r) \in ToSet(page[r])
        BY <1>1, CurrentSubject DEF RunInv
      <4> QED
        BY <1>3, <2>2, <4>1 DEF RunInv, JobInv
    <3>2. "errors" \in Kinds /\ "errors" # "created"
      BY DEF Kinds
    <3> QED
      BY <1>1, <1>3, <2>2, <3>1, <3>2, NextSubjectOK
  <2> QED
    BY <1>3, <2>1, <2>2 DEF ReadSnapshot
<1>4. CASE session[r] # "active"
  <2>1. NextSubject(r, "errors", "inactive") /\ UNCHANGED write
    BY <1>4 DEF ReadSnapshot
  <2>2. DOMAIN write'[r] = {} /\ "errors" \in Kinds
    BY <1>4, <2>1 DEF RunInv, RequestInv, Kinds
  <2> QED
    BY <1>1, <2>1, <2>2, NextSubjectOK
<1> QED
  BY <1>2, <1>3, <1>4

LEMMA ReadEventsOK ==
  ASSUME RunInv, NEW r \in Calls, ReadEvents(r)
  PROVE  StepOK(r)
<1>1. pc[r] = "events" /\ session[r] = "active" /\ pc[r] \in Working
      /\ UNCHANGED <<listed, gone, snapshots, committed, loaded>>
  BY DEF ReadEvents, RunInv, RequestInv, Working
<1>2. CASE r \in Readers /\ Goto(r, "done") /\ UNCHANGED <<write, session, page, report>>
  <2>1. pc'[r] = "done" /\ r \notin Runs /\ \A q \in Calls \ {r} : pc'[q] = pc[q]
    BY <1>2, StateAssumption DEF Goto, RunInv, TypesInv, PagesOK
  <2>2. StateTypes' /\ OthersSame(r)
    BY <1>1, <1>2, <2>1 DEF RunInv, StateTypes, OthersSame
  <2>3. RequestInv(r)'
    BY <1>1, <1>2, <2>1 DEF RunInv, RequestInv
  <2> QED
    BY <2>1, <2>2, <2>3 DEF StepOK
<1>3. CASE Goto(r, "load") /\ UNCHANGED <<write, session, page, report>>
  BY <1>1, <1>3, GotoOK DEF PCs
<1>4. CASE Fail(r, "no_events")
  BY <1>1, <1>4, FailOK
<1>5. CASE r \in Runs /\ NextSubject(r, "skipped", "active") /\ UNCHANGED write
  <2>1. "skipped" \in Kinds /\ "skipped" # "created" /\ "skipped" # "errors"
    BY DEF Kinds
  <2> QED
    BY <1>1, <1>5, <2>1, NextSubjectOK
<1> QED
  BY <1>2, <1>3, <1>4, <1>5 DEF ReadEvents

LEMMA LoadRowOK ==
  ASSUME RunInv, NEW r \in Calls, LoadRow(r)
  PROVE  StepOK(r)
<1>1. /\ pc[r] = "load" /\ pc' = [pc EXCEPT ![r] = "write"]
      /\ loaded' = [loaded EXCEPT ![r] = View(r, Current(r))]
      /\ UNCHANGED <<listed, gone, snapshots, session, write, page, committed, report>>
  BY DEF LoadRow, Goto
<1>2. /\ pc'[r] = "write" /\ loaded'[r] = View(r, Current(r)) /\ session[r] = "active"
      /\ \A q \in Calls \ {r} : pc'[q] = pc[q] /\ loaded'[q] = loaded[q]
  BY <1>1 DEF RunInv, TypesInv, PagesOK, RowsOK, RequestInv
<1>3. View(r, Current(r)) # NoSnapshot => Has(r, Current(r))
  BY DEF View, Has
<1>4. Has(r, Current(r))' <=> Has(r, Current(r))
  BY <1>1 DEF Has, Current
<1>5. StateTypes' /\ OthersSame(r)
  BY <1>1, <1>2 DEF RunInv, StateTypes, OthersSame
<1>6. RequestInv(r)'
  BY <1>1, <1>2, <1>3, <1>4 DEF RunInv, RequestInv
<1>7. r \in Runs => JobInv(r)'
  BY <1>1, <1>2 DEF RunInv, JobInv, Has
<1> QED
  BY <1>5, <1>6, <1>7 DEF StepOK

LEMMA WriteRowOK ==
  ASSUME RunInv, NEW r \in Calls, WriteRow(r)
  PROVE  StepOK(r)
<1>1. pc[r] = "write" /\ session[r] = "active" /\ pc[r] \in Working
      /\ UNCHANGED <<listed, gone, snapshots, committed, loaded>>
  BY DEF WriteRow, RunInv, RequestInv, Working
<1>2. CASE FlushFails(r)
  <2>1. CASE Fail(r, "error")
    BY <1>1, <2>1, FailOK
  <2>2. CASE NextSubject(r, "errors", "inactive") /\ write' = [write EXCEPT ![r] = << >>]
    <3>1. DOMAIN write'[r] = {} /\ \A q \in Calls \ {r} : write'[q] = write[q]
      <4>1. write'[r] = << >> /\ \A q \in Calls \ {r} : write'[q] = write[q]
        BY <2>2 DEF RunInv, TypesInv, RowsOK
      <4> QED
        BY <4>1
    <3>2. "errors" \in Kinds
      BY DEF Kinds
    <3> QED
      BY <1>1, <2>2, <3>1, <3>2, NextSubjectOK
  <2> QED
    BY <1>2, <2>1, <2>2 DEF FlushFails
<1>3. CASE ~FlushFails(r)
  <2> DEFINE s == Current(r)
             row == View(r, s)
             same == loaded[r] # NoSnapshot /\ Updated(r, loaded[r]) = loaded[r]
             new == IF row # NoSnapshot THEN Updated(r, row)
                    ELSE [at |-> result[r].last, state |-> result[r].state,
                          count |-> result[r].count]
  <2>1. NextSubject(r, "created", "active")
    BY <1>3 DEF WriteRow
  <2>2. /\ \A q \in Calls \ {r} : write'[q] = write[q]
        /\ DOMAIN write[r] \subseteq DOMAIN write'[r] /\ (same \/ s \in DOMAIN write'[r])
    <3>1. CASE same /\ UNCHANGED write
      BY <3>1
    <3>2. CASE write' = [write EXCEPT ![r] =
                           [t \in DOMAIN @ \cup {s} |-> IF t # s THEN @[t] ELSE new]]
      <4> HIDE DEF new, s, same
      <4>1. /\ \A q \in Calls \ {r} : write'[q] = write[q]
            /\ write'[r] = [t \in DOMAIN write[r] \cup {s} |-> IF t # s THEN write[r][t] ELSE new]
        BY <3>2 DEF RunInv, TypesInv, RowsOK
      <4> QED
        BY <4>1
    <3> QED
      BY <1>3, <3>1, <3>2 DEF WriteRow
  <2>3. same => Has(r, s)
    BY <1>1 DEF RunInv, RequestInv
  <2>4. s \in DOMAIN write'[r] \/ snapshots[s] # NoSnapshot
    <3> HIDE DEF s, same
    <3> QED
      BY <2>2, <2>3 DEF Has
  <2>5. "created" \in Kinds /\ "created" # "errors"
    BY DEF Kinds
  <2> HIDE DEF same
  <2> QED
    BY <1>1, <2>1, <2>2, <2>4, <2>5, NextSubjectOK
<1> QED
  BY <1>2, <1>3

LEMMA AnswerOK ==
  ASSUME RunInv, NEW r \in Calls, Answer(r)
  PROVE  StepOK(r)
BY GotoOK DEF Answer, PCs

LEMMA CommitOrCloseOK ==
  ASSUME RunInv, NEW r \in Calls, CommitOrClose(r)
  PROVE  StepOK(r)
<1>1. /\ pc' = [pc EXCEPT ![r] = "done"] /\ session' = [session EXCEPT ![r] = "closed"]
      /\ write' = [write EXCEPT ![r] = << >>] /\ pc[r] = "commit" /\ r \notin committed
      /\ UNCHANGED <<listed, gone, page, loaded, report>>
  BY DEF CommitOrClose, Goto, RunInv, RequestInv
<1>2. /\ session'[r] = "closed" /\ pc'[r] = "done" /\ write'[r] = << >>
      /\ \A q \in Calls \ {r} : session'[q] = session[q] /\ pc'[q] = pc[q] /\ write'[q] = write[q]
  BY <1>1 DEF RunInv, TypesInv, PagesOK, RowsOK, StateTypes
<1>3. CASE UNCHANGED <<snapshots, committed>>
  <2>1. StateTypes' /\ OthersSame(r)
    BY <1>1, <1>2, <1>3 DEF RunInv, StateTypes, OthersSame
  <2>2. RequestInv(r)'
    BY <1>2 DEF RequestInv
  <2>3. r \in Runs => JobInv(r)'
    BY <1>1, <1>2, <1>3 DEF RunInv, JobInv
  <2> QED
    BY <2>1, <2>2, <2>3 DEF StepOK
<1>4. CASE /\ session[r] = "active" /\ snapshots' = [s \in ListedSubjects |-> View(r, s)]
           /\ committed' = committed \cup {r}
  <2>1. \A s \in ListedSubjects : Has(r, s) => snapshots'[s] # NoSnapshot
    <3> SUFFICES ASSUME NEW s \in ListedSubjects, Has(r, s) PROVE snapshots'[s] # NoSnapshot
      OBVIOUS
    <3>1. snapshots'[s] = View(r, s)
      BY <1>4
    <3>2. NoSnapshot \notin Snapshot
      BY StateAssumption DEF Snapshot
    <3> QED
      BY <3>1, <3>2 DEF Has, View, RunInv, TypesInv, RowsOK
  <2>2. \A s \in ListedSubjects : snapshots[s] # NoSnapshot => snapshots'[s] # NoSnapshot
    BY <2>1 DEF Has
  <2>3. StateTypes' /\ OthersSame(r)
    BY <1>1, <1>2, <1>4, <2>2 DEF RunInv, StateTypes, OthersSame
  <2>4. RequestInv(r)'
    BY <1>2 DEF RequestInv
  <2>5. ASSUME r \in Runs PROVE JobInv(r)'
    <3>1. /\ report[r]["errors"] \subseteq gone /\ \A s \in report[r]["created"] : Has(r, s)
          /\ ToSet(page[r]) \subseteq ToSet(listed) \cup gone
      BY <1>4, <2>5 DEF RunInv, JobInv
    <3>2. report[r]["created"] \subseteq ListedSubjects
      BY <2>5 DEF RunInv, StateTypes, Kinds
    <3>3. \A s \in report[r]["created"] : snapshots'[s] # NoSnapshot
      BY <2>1, <3>1, <3>2
    <3> QED
      BY <1>1, <1>2, <3>1, <3>3 DEF JobInv
  <2> QED
    BY <2>3, <2>4, <2>5 DEF StepOK
<1> QED
  BY <1>3, <1>4 DEF CommitOrClose

LEMMA RequestStepOK ==
  ASSUME RunInv, NEW r \in Calls, Step(r) \/ Abort(r)
  PROVE  StepOK(r)
<1>1. CASE Abort(r)
  BY <1>1, FailOK DEF Abort
<1> QED
  BY <1>1, ListPageOK, ReadSnapshotOK, ReadEventsOK, LoadRowOK, WriteRowOK, AnswerOK, CommitOrCloseOK
  DEF Step

LEMMA NextOK == RunInv /\ [StateNext]_stateVars => RunInv'
<1> SUFFICES ASSUME RunInv, [StateNext]_stateVars PROVE RunInv'
  OBVIOUS
<1>1. TypesInv'
  BY TypesNext DEF RunInv
<1>2. ASSUME NEW r \in Calls, Step(r) \/ Abort(r) PROVE RunInv'
  <2>1. StepOK(r)
    BY <1>2, RequestStepOK
  <2>2. ASSUME NEW q \in Calls \ {r}, q \notin Runs \/ pc[q] \in Working
        PROVE  Has(q, Current(q)) => Has(q, Current(q))'
    <3>1. Current(q) \in ListedSubjects
      BY <2>2, CurrentSubject DEF RunInv
    <3> QED
      BY <2>1, <3>1 DEF StepOK, OthersSame, Has, Current
  <2>3. ASSUME NEW q \in Calls \ {r} PROVE RequestInv(q)'
    BY <2>1, <2>2 DEF StepOK, OthersSame, RunInv, RequestInv, Working
  <2>4. ASSUME NEW q \in Runs, q # r PROVE JobInv(q)'
    <3>1. q \in Calls \ {r}
      BY <2>4 DEF Calls
    <3>2. report[q]["created"] \subseteq ListedSubjects
      BY <2>4 DEF RunInv, StateTypes, Kinds
    <3>3. \A s \in report[q]["created"] : Has(q, s) => Has(q, s)'
      BY <2>1, <3>1, <3>2 DEF StepOK, OthersSame, Has
    <3> QED
      BY <2>1, <2>4, <3>1, <3>2, <3>3 DEF StepOK, OthersSame, RunInv, JobInv
  <2> QED
    BY <1>1, <2>1, <2>3, <2>4 DEF StepOK, RunInv
<1>3. CASE UNCHANGED <<session, pc, page, write, snapshots, loaded, report, committed>>
  <2>1. gone \subseteq gone' /\ ToSet(listed) \subseteq ToSet(listed') \cup gone'
    BY ListedStep DEF RunInv
  <2>2. StateTypes' /\ \A r \in Calls : RequestInv(r)'
    BY <1>3 DEF RunInv, StateTypes, RequestInv, Has, Current
  <2>3. \A r \in Runs : JobInv(r)'
    BY <1>3, <2>1 DEF RunInv, JobInv, Has
  <2> QED
    BY <1>1, <2>2, <2>3 DEF RunInv
<1>4. ASSUME NEW s \in ListedSubjects, AppendEvent(s) \/ CreateSubject(s) \/ DeleteSubject(s)
      PROVE  UNCHANGED <<session, pc, page, write, snapshots, loaded, report, committed>>
  BY <1>4 DEF AppendEvent, CreateSubject, DeleteSubject
<1> QED
  BY <1>2, <1>3, <1>4 DEF StateNext, AllDone, stateVars

\* ErrorsLoseTheRun is not inductive: that a job's error for a subject that is not gone has
\* left its session inactive, with nothing written and no way back, is what keeps the commit
\* from storing anything; and that an active one sees all it has created, that it stores them.
THEOREM JobErrorsLoseTheRun == StateSpec => []ErrorsLoseTheRun
<1>1. RunInv => ErrorsLoseTheRun
  <2> SUFFICES ASSUME RunInv, NEW r \in Runs
               PROVE  /\ report[r].errors \ gone # {} => r \notin committed /\ DOMAIN write[r] = {}
                      /\ r \in committed => \A s \in report[r].created : snapshots[s] # NoSnapshot
    BY DEF ErrorsLoseTheRun
  <2>1. r \in Calls /\ report[r].errors = report[r]["errors"]
        /\ report[r].created = report[r]["created"]
    BY DEF Calls
  <2> QED
    BY <2>1 DEF RunInv, RequestInv, JobInv
<1> QED
  BY <1>1, InitOK, NextOK, PTL DEF StateSpec

-----------------------------------------------------------------------------
(***************************************************************************)
(* What a reader sees.                                                     *)
(***************************************************************************)

\* A row names an event that its subject's timeline has.
RowAt(s, row) ==
  "at" \in DOMAIN row /\ row.at \in Nat /\ row.at <= Len(timeline[s])

ReadTypes ==
  /\ timeline \in [ListedSubjects -> Seq(State)]
  /\ base = [q \in Calls |-> base[q]]
  /\ result = [q \in Calls |-> result[q]]
  /\ begun \in [Readers -> Nat]
  /\ outcome \in [Calls -> Outcomes]

\* What AnswerIsCurrent says of one reader.
IsCurrent(r) == result[r].last >= Least(begun[r], AsOf[r]) \/ result[r].last >= MAX_TAIL

\* The derivation starts from an event as_of admits, and what it has seen stays on the
\* timeline; a reader never leaves its three labels.
SeenOK(r) ==
  /\ \A s \in DOMAIN write[r] : s \in ListedSubjects /\ RowAt(s, write[r][s])
  /\ pc[r] = "events" =>
       /\ base[r] = NoSnapshot \/ RowAt(Current(r), base[r])
       /\ r \in Readers => /\ base[r] # NoSnapshot => base[r].at <= AsOf[r]
                           /\ begun[r] <= Len(timeline[Current(r)])
  /\ pc[r] \in {"load", "write"} =>
       result[r].last \in Nat /\ result[r].last <= Len(timeline[Current(r)])
  /\ r \in Readers =>
       /\ pc[r] \in {"snapshot", "events", "done"} /\ session[r] # "inactive"
       /\ outcome[r] = "success" => pc[r] = "done" /\ IsCurrent(r)

SnapshotsOK ==
  /\ snapshots = [s \in ListedSubjects |-> snapshots[s]]
  /\ \A s \in ListedSubjects : snapshots[s] = NoSnapshot \/ RowAt(s, snapshots[s])

ReadInv == ReadTypes /\ SnapshotsOK /\ \A r \in Calls : SeenOK(r)

LEMMA ViewOK ==
  ASSUME SnapshotsOK, NEW r \in Calls, SeenOK(r), NEW s \in ListedSubjects
  PROVE  View(r, s) = NoSnapshot \/ RowAt(s, View(r, s))
BY DEF SnapshotsOK, SeenOK, View

LEMMA ReadInit == StateInit => ReadInv
<1> SUFFICES ASSUME StateInit PROVE ReadInv
  OBVIOUS
<1>1. Stored \in [ListedSubjects -> Seq(State)] /\ AsOf \in [Readers -> Nat]
  BY StateAssumption
<1>2. snapshots = [s \in ListedSubjects |-> snapshots[s]]
  BY DEF StateInit
<1>3. ASSUME NEW s \in ListedSubjects, snapshots[s] # NoSnapshot PROVE RowAt(s, snapshots[s])
  <2>1. snapshots[s] = SnapshotOf(Stored[s]) /\ timeline[s] = Stored[s] /\ Len(Stored[s]) \in Nat
    BY <1>1, <1>3 DEF StateInit
  <2> QED
    BY <2>1 DEF SnapshotOf, RowAt
<1>4. ASSUME NEW r \in Calls
      PROVE  /\ pc[r] \in {"list", "snapshot"} /\ session[r] = "active" /\ outcome[r] = "none"
             /\ write[r] = << >> /\ (r \in Readers => pc[r] = "snapshot")
  BY StateAssumption DEF StateInit
<1>5. \A r \in Calls : SeenOK(r)
  BY <1>4 DEF SeenOK
<1> QED
  BY <1>1, <1>2, <1>3, <1>5 DEF StateInit, ReadInv, ReadTypes, SnapshotsOK, Outcomes

\* The bound that a replay of at most MAX_TAIL events puts on what it has seen.
LEMMA TailBound ==
  ASSUME TypesInv, NEW r \in Calls, pc[r] = "events", NEW from \in Nat, from <= Admitted(r)
  PROVE  LET last == from + Len(EventsAfter(r, from))
         IN  /\ last \in Nat /\ last <= Admitted(r)
             /\ last = Admitted(r) \/ last >= MAX_TAIL
<1> DEFINE line == timeline[Current(r)]
           upto == Least(Admitted(r), from + MAX_TAIL)
           tail == EventsAfter(r, from)
<1>1. line \in Seq(State) /\ Len(line) \in Nat /\ MAX_TAIL \in Nat
  BY CurrentSubject, StateAssumption DEF Working
<1>2. Admitted(r) \in Nat /\ Admitted(r) <= Len(line)
  <2>1. r \in Readers => AsOf[r] \in Nat
    BY StateAssumption
  <2> QED
    BY <1>1, <2>1 DEF Admitted, Least
<1>3. upto \in Nat /\ from <= upto /\ upto <= Len(line)
      /\ upto <= Admitted(r) /\ (upto = Admitted(r) \/ upto = from + MAX_TAIL)
  BY <1>1, <1>2 DEF Least
<1> HIDE DEF upto
<1>4. Len(SubSeq(line, from + 1, upto)) = upto - from
  BY <1>1, <1>3
<1>5. Len(tail) = upto - from
  BY <1>4 DEF EventsAfter, upto
<1> QED
  BY <1>1, <1>2, <1>3, <1>5

\* Timelines only grow, so what was seen on one is still there.
LEMMA GrowthOK ==
  ASSUME ReadInv, RunInv, NEW s \in ListedSubjects, AppendEvent(s)
  PROVE  ReadInv'
<1>1. PICK h \in Histories[s] :
        /\ IsStrictPrefix(timeline[s], h)
        /\ timeline' = [timeline EXCEPT ![s] = SubSeq(h, 1, Len(@) + 1)]
  BY DEF AppendEvent
<1>2. h \in Seq(State) /\ timeline[s] \in Seq(State)
  BY StateAssumption DEF ReadInv, ReadTypes
<1>3. Len(h) \in Nat /\ Len(timeline[s]) \in Nat /\ Len(timeline[s]) + 1 <= Len(h)
  <2>1. /\ Len(timeline[s]) <= Len(h) /\ timeline[s] # h
        /\ SubSeq(timeline[s], 1, Len(timeline[s])) = SubSeq(h, 1, Len(timeline[s]))
    BY <1>1 DEF IsStrictPrefix, IsPrefix
  <2>2. SubSeq(timeline[s], 1, Len(timeline[s])) = timeline[s] /\ SubSeq(h, 1, Len(h)) = h
    BY <1>2
  <2>3. Len(timeline[s]) # Len(h)
    BY <2>1, <2>2
  <2> QED
    BY <1>2, <2>1, <2>3
<1>4. SubSeq(h, 1, Len(timeline[s]) + 1) \in Seq(State)
      /\ Len(SubSeq(h, 1, Len(timeline[s]) + 1)) = Len(timeline[s]) + 1
  BY <1>2, <1>3
<1>5. /\ timeline' \in [ListedSubjects -> Seq(State)]
      /\ \A t \in ListedSubjects : /\ Len(timeline[t]) \in Nat /\ Len(timeline'[t]) \in Nat
                             /\ Len(timeline[t]) <= Len(timeline'[t])
  <2>1. \A t \in ListedSubjects : timeline[t] \in Seq(State)
    BY DEF ReadInv, ReadTypes
  <2> QED
    BY <1>1, <1>3, <1>4, <2>1 DEF ReadInv, ReadTypes
<1>6. UNCHANGED <<snapshots, write, session, committed, limit, pc, page, base, result, loaded,
                 report, begun, outcome>>
  BY DEF AppendEvent
<1>7. \A t \in ListedSubjects : \A row : RowAt(t, row) => RowAt(t, row)'
  BY <1>5 DEF RowAt
<1>8. ReadTypes' /\ SnapshotsOK'
  BY <1>5, <1>6, <1>7 DEF ReadInv, ReadTypes, SnapshotsOK
<1>9. ASSUME NEW r \in Calls PROVE SeenOK(r)'
  <2>1. /\ SeenOK(r) /\ Current(r)' = Current(r)
        /\ pc[r] \in {"events", "load", "write"} => Current(r) \in ListedSubjects
    BY <1>6, CurrentSubject DEF ReadInv, RunInv, Current, Working
  <2>2. r \in Readers => begun[r] \in Nat
    BY DEF ReadInv, ReadTypes
  <2> QED
    BY <1>5, <1>6, <1>7, <2>1, <2>2 DEF SeenOK, IsCurrent
<1> QED
  BY <1>8, <1>9 DEF ReadInv

\* What a step of r leaves to the others, besides OthersSame.
OthersKeep(r) ==
  \A q \in Calls \ {r} :
    /\ base'[q] = base[q] /\ result'[q] = result[q] /\ outcome'[q] = outcome[q]
    /\ q \in Readers => begun'[q] = begun[q]

LEMMA OthersSeen ==
  ASSUME ReadInv, NEW r \in Calls, OthersSame(r), OthersKeep(r), timeline' = timeline,
         NEW q \in Calls \ {r}
  PROVE  SeenOK(q)'
<1>1. SeenOK(q) /\ Current(q)' = Current(q)
  BY DEF ReadInv, OthersSame, Current
<1> QED
  BY <1>1 DEF SeenOK, OthersSame, OthersKeep, RowAt, IsCurrent

\* A step to a label of no derivation, for r that is not an answered reader.
LEMMA LeaveOK ==
  ASSUME NEW r \in Calls, timeline' = timeline, pc'[r] \notin {"events", "load", "write"},
         \A s \in DOMAIN write'[r] : s \in ListedSubjects /\ RowAt(s, write'[r][s]),
         r \in Readers => /\ pc'[r] = "done" /\ session'[r] # "inactive"
                          /\ outcome'[r] = "success" => IsCurrent(r)'
  PROVE  SeenOK(r)'
BY DEF SeenOK, RowAt

LEMMA FailSeen ==
  ASSUME ReadInv, RunInv, NEW r \in Calls, NEW error \in Outcomes, Fail(r, error),
         r \in Readers => error # "success",
         UNCHANGED <<timeline, base, result, begun>>
  PROVE  ReadTypes' /\ OthersKeep(r) /\ SeenOK(r)'
<1>1. /\ pc'[r] = "done" /\ session'[r] = "closed" /\ write'[r] = << >> /\ outcome'[r] = error
  BY DEF Fail, Goto, RunInv, TypesInv, PagesOK, RowsOK, StateTypes, ReadInv, ReadTypes
<1>2. ReadTypes' /\ OthersKeep(r)
  BY DEF Fail, ReadInv, ReadTypes, OthersKeep
<1> QED
  BY <1>1, <1>2, LeaveOK

LEMMA NextSubjectSeen ==
  ASSUME ReadInv, RunInv, NEW r \in Calls \ Readers, NEW kind,
         NEW state \in {"active", "inactive"}, NextSubject(r, kind, state),
         \A s \in DOMAIN write'[r] : s \in ListedSubjects /\ RowAt(s, write'[r][s]),
         UNCHANGED <<timeline, base, begun>>,
         result' = [q \in Calls |-> result'[q]],
         \A q \in Calls \ {r} : result'[q] = result[q]
  PROVE  ReadTypes' /\ OthersKeep(r) /\ SeenOK(r)'
<1>1. pc'[r] \in {"snapshot", "list", "answer"}
  BY DEF NextSubject, Goto, RunInv, TypesInv, PagesOK
<1>2. UNCHANGED outcome
  BY DEF NextSubject
<1> QED
  BY <1>1, <1>2, LeaveOK DEF ReadInv, ReadTypes, OthersKeep

LEMMA ListPageSeen ==
  ASSUME ReadInv, RunInv, NEW r \in Calls, ListPage(r)
  PROVE  ReadTypes' /\ OthersKeep(r) /\ SeenOK(r)'
<1>1. r \notin Readers /\ UNCHANGED <<timeline, base, result, begun>>
  BY StateAssumption DEF ListPage
<1>2. CASE Fail(r, "error")
  BY <1>1, <1>2, FailSeen DEF Outcomes
<1>3. CASE ~Fail(r, "error")
  <2>1. pc'[r] \in {"answer", "snapshot"} /\ UNCHANGED <<write, outcome>>
    BY <1>3 DEF ListPage, Goto, RunInv, TypesInv, PagesOK
  <2> QED
    BY <1>1, <2>1, LeaveOK DEF ReadInv, ReadTypes, OthersKeep, SeenOK
<1> QED
  BY <1>2, <1>3

LEMMA ReadSnapshotSeen ==
  ASSUME ReadInv, RunInv, NEW r \in Calls, ReadSnapshot(r)
  PROVE  ReadTypes' /\ OthersKeep(r) /\ SeenOK(r)'
<1> USE DEF ReadInv, RunInv
<1>1. /\ pc[r] = "snapshot" /\ UNCHANGED <<timeline, result>>
      /\ \A s \in DOMAIN write[r] : s \in ListedSubjects /\ RowAt(s, write[r][s])
  BY DEF ReadSnapshot, SeenOK
<1>2. CASE \E state \in {"active", "inactive"} : NextSubject(r, "errors", state)
           /\ r \notin Readers /\ UNCHANGED <<write, base, begun>>
  BY <1>1, <1>2, NextSubjectSeen DEF ReadTypes
<1>3. CASE Fail(r, "not_found") /\ UNCHANGED <<base, begun>>
  BY <1>1, <1>3, FailSeen DEF Outcomes
<1>4. CASE session[r] = "active" /\ Current(r) \in ToSet(listed)
  <2> DEFINE row == View(r, Current(r))
             n == Len(timeline[Current(r)])
  <2>1. /\ pc' = [pc EXCEPT ![r] = "events"]
        /\ base' = [base EXCEPT ![r] =
                      IF row # NoSnapshot /\ (r \in Readers => row.at <= AsOf[r]) THEN row
                                                                                 ELSE NoSnapshot]
        /\ begun' = [q \in Readers |-> IF q = r THEN n ELSE begun[q]]
        /\ UNCHANGED <<write, session, page, outcome>>
    BY <1>4 DEF ReadSnapshot, Goto
  <2>2. row = NoSnapshot \/ RowAt(Current(r), row)
    BY <1>1, CurrentSubject, ViewOK DEF Working
  <2>3. n \in Nat
    BY <1>1, CurrentSubject DEF Working
  <2> HIDE DEF row, n
  <2>4. ReadTypes' /\ OthersKeep(r)
    BY <1>1, <2>1, <2>3 DEF ReadTypes, OthersKeep
  <2>5. pc'[r] = "events" /\ Current(r)' = Current(r)
    BY <2>1 DEF TypesInv, PagesOK, Current
  <2>6. base'[r] = NoSnapshot \/ (base'[r] = row /\ row # NoSnapshot
                                  /\ (r \in Readers => row.at <= AsOf[r]))
    BY <2>1 DEF ReadTypes
  <2>7. r \in Readers => begun'[r] = n /\ outcome[r] # "success"
    BY <1>1, <2>1 DEF SeenOK
  <2> QED
    BY <1>1, <2>1, <2>2, <2>3, <2>4, <2>5, <2>6, <2>7 DEF SeenOK, RowAt, n
<1>5. r \in Runs => r \notin Readers
  BY StateAssumption
<1>6. session[r] = "inactive" => r \notin Readers
  BY DEF SeenOK
<1> QED
  BY <1>2, <1>3, <1>4, <1>5, <1>6 DEF ReadSnapshot

LEMMA ReadEventsSeen ==
  ASSUME ReadInv, RunInv, NEW r \in Calls, ReadEvents(r)
  PROVE  ReadTypes' /\ OthersKeep(r) /\ SeenOK(r)'
<1> USE DEF ReadInv, RunInv
<1> DEFINE from == IF base[r] = NoSnapshot THEN 0 ELSE base[r].at
           tail == EventsAfter(r, from)
           last == from + Len(tail)
           n == Len(timeline[Current(r)])
<1>1. /\ pc[r] = "events"
      /\ UNCHANGED <<timeline, base, begun>>
  BY DEF ReadEvents
<1>2. n \in Nat /\ Current(r) \in ListedSubjects /\ (r \in Readers => AsOf[r] \in Nat)
  BY <1>1, CurrentSubject, StateAssumption DEF Working
<1>3. from \in Nat /\ from <= n /\ (r \in Readers => from <= AsOf[r])
  BY <1>1, <1>2 DEF SeenOK, RowAt
<1>4. from <= Admitted(r) /\ Admitted(r) <= n /\ Admitted(r) \in Nat
  BY <1>2, <1>3 DEF Admitted, Least
<1>5. /\ last \in Nat /\ last <= Admitted(r)
      /\ last = Admitted(r) \/ last >= MAX_TAIL
  BY <1>1, <1>3, <1>4, TailBound
<1>6. /\ result' = [q \in Calls |-> result'[q]] /\ result'[r].last = last
      /\ \A q \in Calls \ {r} : result'[q] = result[q]
  <2> DEFINE found == [state |-> Replay(IF from = 0 THEN EmptyState ELSE base[r].state, tail),
                       last  |-> last,
                       count |-> (IF from = 0 THEN 0 ELSE base[r].count) + Len(tail)]
  <2>1. result' = [result EXCEPT ![r] = found] /\ found.last = last
    BY DEF ReadEvents
  <2> HIDE DEF found
  <2> QED
    BY <2>1 DEF ReadTypes
<1> HIDE DEF last, n, from
<1>7. \A s \in DOMAIN write[r] : s \in ListedSubjects /\ RowAt(s, write[r][s])
  BY DEF SeenOK
<1>8. CASE r \in Readers /\ Goto(r, "done") /\ outcome' = [outcome EXCEPT ![r] = "success"]
           /\ UNCHANGED <<write, session, page>>
  <2>1. begun[r] <= n /\ begun[r] \in Nat /\ Admitted(r) = Least(AsOf[r], n)
    BY <1>1, <1>8 DEF SeenOK, ReadTypes, Admitted, n
  <2>2. last >= Least(begun[r], AsOf[r]) \/ last >= MAX_TAIL
    BY <1>2, <1>5, <1>8, <2>1 DEF Least
  <2>3. IsCurrent(r)'
    BY <1>1, <1>6, <2>2 DEF IsCurrent
  <2>4. pc'[r] = "done" /\ session'[r] # "inactive"
    BY <1>8 DEF Goto, TypesInv, PagesOK, SeenOK
  <2>5. ReadTypes' /\ OthersKeep(r)
    BY <1>1, <1>6, <1>8 DEF ReadTypes, OthersKeep, Outcomes
  <2> QED
    BY <1>1, <1>7, <1>8, <2>3, <2>4, <2>5, LeaveOK DEF RowAt
<1>9. CASE r \notin Readers /\ Goto(r, "load")
           /\ UNCHANGED <<write, session, page, outcome>>
  <2>1. pc'[r] = "load" /\ Current(r)' = Current(r)
    BY <1>9 DEF Goto, TypesInv, PagesOK, Current
  <2>2. result'[r].last \in Nat /\ result'[r].last <= n
    BY <1>2, <1>4, <1>5, <1>6
  <2>3. ReadTypes' /\ OthersKeep(r)
    BY <1>1, <1>6, <1>9 DEF ReadTypes, OthersKeep
  <2> QED
    BY <1>1, <1>7, <1>9, <2>1, <2>2, <2>3 DEF SeenOK, RowAt, n
<1>10. CASE Fail(r, "no_events") /\ r \notin Readers
  <2>1. pc'[r] = "done" /\ write'[r] = << >>
    BY <1>10 DEF Fail, Goto, TypesInv, PagesOK, RowsOK
  <2>2. ReadTypes' /\ OthersKeep(r)
    BY <1>1, <1>6, <1>10 DEF Fail, ReadTypes, OthersKeep, Outcomes
  <2> QED
    BY <1>1, <1>10, <2>1, <2>2, LeaveOK
<1>11. CASE r \in Runs /\ NextSubject(r, "skipped", "active") /\ UNCHANGED write
  <2>1. r \notin Readers
    BY <1>11, StateAssumption
  <2>2. \A s \in DOMAIN write'[r] : s \in ListedSubjects /\ RowAt(s, write'[r][s])
    BY <1>7, <1>11
  <2> QED
    BY <1>1, <1>6, <1>11, <2>1, <2>2, NextSubjectSeen
<1> QED
  BY <1>8, <1>9, <1>10, <1>11, StateAssumption DEF ReadEvents

LEMMA WriteRowSeen ==
  ASSUME ReadInv, RunInv, NEW r \in Calls, WriteRow(r)
  PROVE  ReadTypes' /\ OthersKeep(r) /\ SeenOK(r)'
<1> USE DEF ReadInv, RunInv
<1> DEFINE s == Current(r)
           row == View(r, s)
<1>1. /\ pc[r] = "write"
      /\ UNCHANGED <<timeline, base, result, begun>>
  BY DEF WriteRow
<1>2. r \notin Readers
  BY <1>1 DEF SeenOK
<1>3. \A t \in DOMAIN write[r] : t \in ListedSubjects /\ RowAt(t, write[r][t])
  BY DEF SeenOK
<1>4. CASE FlushFails(r)
  <2>1. CASE Fail(r, "error")
    BY <1>1, <1>2, <2>1, FailSeen DEF Outcomes
  <2>2. CASE NextSubject(r, "errors", "inactive")
             /\ write' = [write EXCEPT ![r] = << >>]
    <3>1. write'[r] = << >> /\ result' = [q \in Calls |-> result'[q]]
      BY <1>1, <2>2 DEF TypesInv, RowsOK, ReadTypes
    <3> QED
      BY <1>1, <1>2, <2>2, <3>1, NextSubjectSeen
  <2> QED
    BY <1>4, <2>1, <2>2 DEF FlushFails
<1>5. CASE ~FlushFails(r)
  <2>1. NextSubject(r, "created", "active")
    BY <1>5 DEF WriteRow
  <2>2. result' = [q \in Calls |-> result'[q]]
    BY <1>1 DEF ReadTypes
  <2>3. \A t \in DOMAIN write'[r] : t \in ListedSubjects /\ RowAt(t, write'[r][t])
    <3>1. CASE UNCHANGED write
      BY <1>3, <3>1
    <3>2. CASE ~UNCHANGED write
      <4> DEFINE new == IF row # NoSnapshot THEN Updated(r, row)
                        ELSE [at |-> result[r].last, state |-> result[r].state,
                              count |-> result[r].count]
      <4>1. write' = [write EXCEPT ![r] = [t \in DOMAIN @ \cup {s} |-> IF t # s THEN @[t] ELSE new]]
        BY <1>5, <3>2 DEF WriteRow
      <4>2. /\ s \in ListedSubjects /\ (row = NoSnapshot \/ RowAt(s, row))
            /\ result[r].last \in Nat /\ result[r].last <= Len(timeline[s])
        BY <1>1, CurrentSubject, ViewOK DEF SeenOK, Working
      <4>3. RowAt(s, new)
        <5>1. CASE row = NoSnapshot
          BY <4>2, <5>1 DEF RowAt
        <5>2. CASE row # NoSnapshot
          <6>1. /\ "at" \in DOMAIN Updated(r, row)
                /\ Updated(r, row).at = IF result[r].last # loaded[r].at THEN result[r].last
                                                                        ELSE row.at
            BY <4>2, <5>2 DEF Updated, RowAt
          <6> QED
            BY <4>2, <5>2, <6>1 DEF RowAt
        <5> QED
          BY <5>1, <5>2
      <4> HIDE DEF new, s
      <4>4. write'[r] = [t \in DOMAIN write[r] \cup {s} |-> IF t # s THEN write[r][t] ELSE new]
        BY <4>1 DEF TypesInv, RowsOK
      <4> QED
        BY <1>3, <4>2, <4>3, <4>4
    <3> QED
      BY <3>1, <3>2
  <2>4. \A t \in DOMAIN write'[r] : t \in ListedSubjects /\ RowAt(t, write'[r][t])
    BY <2>3
  <2> QED
    BY <1>1, <1>2, <2>1, <2>2, <2>4, NextSubjectSeen
<1> QED
  BY <1>4, <1>5

LEMMA OtherStepsSeen ==
  ASSUME ReadInv, RunInv, NEW r \in Calls, LoadRow(r) \/ Answer(r) \/ CommitOrClose(r)
  PROVE  ReadTypes' /\ OthersKeep(r) /\ SeenOK(r)'
<1> USE DEF ReadInv, RunInv
<1>1. /\ UNCHANGED <<timeline, page, base, result, begun>>
      /\ \A q \in Calls \ {r} : outcome'[q] = outcome[q]
      /\ outcome' \in [Calls -> Outcomes]
  BY DEF LoadRow, Answer, CommitOrClose, ReadTypes, Outcomes
<1>2. ReadTypes' /\ OthersKeep(r)
  BY <1>1 DEF ReadTypes, OthersKeep
<1>3. r \notin Readers
  BY DEF LoadRow, Answer, CommitOrClose, SeenOK
<1>4. /\ pc'[r] \in {"write", "commit", "done"} /\ (pc'[r] = "write" => pc[r] = "load")
      /\ write'[r] \in {write[r], << >>}
  BY DEF LoadRow, Answer, CommitOrClose, Goto, TypesInv, PagesOK, RowsOK
<1>5. Current(r)' = Current(r) /\ \A s \in DOMAIN write'[r] : s \in DOMAIN write[r]
                                                              /\ write'[r][s] = write[r][s]
  BY <1>1, <1>4 DEF Current
<1> QED
  BY <1>1, <1>2, <1>3, <1>4, <1>5 DEF SeenOK, RowAt

\* The rows a commit publishes are among those the request saw.
LEMMA SnapshotsSeen ==
  ASSUME ReadInv, RunInv, NEW r \in Calls, Step(r) \/ Abort(r)
  PROVE  SnapshotsOK' /\ timeline' = timeline
<1>1. timeline' = timeline
  BY DEF Step, Abort, ListPage, ReadSnapshot, ReadEvents, LoadRow, WriteRow, Answer, CommitOrClose
<1>2. CASE UNCHANGED snapshots
  BY <1>1, <1>2 DEF ReadInv, SnapshotsOK, RowAt
<1>3. CASE snapshots' = [s \in ListedSubjects |-> View(r, s)]
  <2>1. \A s \in ListedSubjects : View(r, s) = NoSnapshot \/ RowAt(s, View(r, s))
    BY ViewOK DEF ReadInv
  <2> HIDE DEF View
  <2> QED
    BY <1>1, <1>3, <2>1 DEF SnapshotsOK, RowAt
<1> QED
  BY <1>1, <1>2, <1>3
  DEF Step, Abort, ListPage, ReadSnapshot, ReadEvents, LoadRow, WriteRow, Answer, CommitOrClose

LEMMA StepKeeps ==
  ASSUME ReadInv, RunInv, NEW r \in Calls, Step(r) \/ Abort(r)
  PROVE  ReadTypes' /\ OthersKeep(r) /\ SeenOK(r)' /\ OthersSame(r)
<1>1. ReadTypes' /\ OthersKeep(r) /\ SeenOK(r)'
  <2>1. CASE Abort(r)
    <3>1. /\ Fail(r, IF outcome[r] = "none" THEN "aborted" ELSE outcome[r])
          /\ pc[r] # "done" /\ UNCHANGED <<timeline, base, result, begun>>
      BY <2>1 DEF Abort
    <3>2. PICK error \in Outcomes : Fail(r, error) /\ (r \in Readers => error # "success")
      BY <3>1 DEF ReadInv, ReadTypes, SeenOK, Outcomes
    <3> QED
      BY <3>1, <3>2, FailSeen DEF RunInv
  <2> QED
    BY <2>1, ListPageSeen, ReadSnapshotSeen, ReadEventsSeen, WriteRowSeen, OtherStepsSeen DEF Step
<1>2. OthersSame(r)
  BY RequestStepOK DEF StepOK
<1> QED
  BY <1>1, <1>2

LEMMA ReadStep ==
  ASSUME ReadInv, RunInv, NEW r \in Calls, Step(r) \/ Abort(r)
  PROVE  ReadInv'
<1>1. ReadTypes' /\ OthersKeep(r) /\ SeenOK(r)' /\ OthersSame(r)
  BY StepKeeps
<1>2. SnapshotsOK' /\ timeline' = timeline
  BY SnapshotsSeen
<1>3. \A q \in Calls : SeenOK(q)'
  BY <1>1, <1>2, OthersSeen
<1> QED
  BY <1>1, <1>2, <1>3 DEF ReadInv

LEMMA ReadNext == RunInv /\ ReadInv /\ [StateNext]_stateVars => ReadInv'
<1> SUFFICES ASSUME RunInv, ReadInv, [StateNext]_stateVars PROVE ReadInv'
  OBVIOUS
<1>1. ASSUME NEW s \in ListedSubjects, AppendEvent(s) PROVE ReadInv'
  BY <1>1, GrowthOK
<1>2. CASE UNCHANGED <<timeline, snapshots, write, session, pc, page, base, result, loaded, begun, outcome>>
  BY <1>2 DEF ReadInv, ReadTypes, SnapshotsOK, SeenOK, RowAt, IsCurrent, Current
<1>3. ASSUME NEW s \in ListedSubjects, CreateSubject(s) \/ DeleteSubject(s)
      PROVE  UNCHANGED <<timeline, snapshots, write, session, pc, page, base, result, loaded, begun, outcome>>
  BY <1>3 DEF CreateSubject, DeleteSubject
<1> QED
  BY <1>1, <1>2, <1>3, ReadStep DEF StateNext, AllDone, stateVars

\* Reads are two statements apart, and snapshots come and go between them; still a reader
\* misses nothing that was committed when it began, unless MAX_TAIL cuts the replay short.
THEOREM ReadersAreCurrent == StateSpec => []AnswerIsCurrent
<1>1. ReadInv => AnswerIsCurrent
  BY DEF ReadInv, SeenOK, IsCurrent, AnswerIsCurrent, Answered, Calls
<1>2. StateInit => RunInv /\ ReadInv
  BY InitOK, ReadInit
<1>3. RunInv /\ ReadInv /\ [StateNext]_stateVars => RunInv' /\ ReadInv'
  BY NextOK, ReadNext
<1> QED
  BY <1>1, <1>2, <1>3, PTL DEF StateSpec

-----------------------------------------------------------------------------
(***************************************************************************)
(* What a reader is told.                                                  *)
(***************************************************************************)

\* The count of a row is the place of its event; the state is that of a replay up to it, if no
\* state of the subject repeats.
TrueRow(s, row) ==
  /\ {"at", "state", "count"} \subseteq DOMAIN row
  /\ row.count = row.at
  /\ NeverRepeats(s) => row.state = StateAt(s, row.at)

\* The same of what is derived.
TrueResult(s, found) ==
  /\ found.count = found.last
  /\ NeverRepeats(s) => found.state = StateAt(s, found.last)

ReplayOK(r) ==
  /\ \A s \in DOMAIN write[r] : TrueRow(s, write[r][s])
  /\ pc[r] = "events" => base[r] = NoSnapshot \/ TrueRow(Current(r), base[r])
  /\ pc[r] \in {"load", "write"} => TrueResult(Current(r), result[r])
  /\ pc[r] = "write" =>
       loaded[r] = NoSnapshot \/ (RowAt(Current(r), loaded[r]) /\ TrueRow(Current(r), loaded[r]))
  /\ r \in Readers /\ outcome[r] = "success" =>
       /\ result[r].last \in Nat
       /\ result[r].last <= Least(AsOf[r], Len(timeline[Current(r)]))
       /\ TrueResult(Current(r), result[r])

ReplayInv ==
  /\ loaded = [q \in Calls |-> loaded[q]]
  /\ \A s \in ListedSubjects : snapshots[s] = NoSnapshot \/ TrueRow(s, snapshots[s])
  /\ \A r \in Calls : ReplayOK(r)

LEMMA ReplayInit == StateInit => ReplayInv
<1> SUFFICES ASSUME StateInit PROVE ReplayInv
  OBVIOUS
<1>1. ASSUME NEW s \in ListedSubjects, snapshots[s] # NoSnapshot PROVE TrueRow(s, snapshots[s])
  <2>1. snapshots[s] = SnapshotOf(Stored[s]) /\ timeline[s] = Stored[s] /\ Stored[s] \in Seq(State)
    BY <1>1, StateAssumption DEF StateInit
  <2>2. SubSeq(Stored[s], 1, Len(Stored[s])) = Stored[s]
    BY <2>1
  <2>3. LET row == SnapshotOf(Stored[s])
        IN  /\ {"at", "state", "count"} \subseteq DOMAIN row
            /\ row.count = Len(Stored[s]) /\ row.at = Len(Stored[s])
            /\ row.state = Replay(EmptyState, Stored[s])
    BY DEF SnapshotOf
  <2> QED
    BY <2>1, <2>2, <2>3 DEF TrueRow, StateAt
<1>2. \A r \in Calls : pc[r] \in {"list", "snapshot"} /\ outcome[r] = "none" /\ write[r] = << >>
  BY DEF StateInit
<1>3. \A r \in Calls : ReplayOK(r)
  BY <1>2 DEF ReplayOK
<1> QED
  BY <1>1, <1>3 DEF StateInit, ReplayInv

\* An append leaves the states there were, and no repetition can disappear.
LEMMA AppendKeepsStates ==
  ASSUME ReadInv, NEW s \in ListedSubjects, AppendEvent(s), NEW t \in ListedSubjects
  PROVE  /\ Len(timeline[t]) \in Nat /\ Len(timeline'[t]) \in Nat
         /\ Len(timeline[t]) <= Len(timeline'[t])
         /\ \A n \in 0..Len(timeline[t]) : StateAt(t, n)' = StateAt(t, n)
         /\ NeverRepeats(t)' => NeverRepeats(t)
<1>1. PICK h \in Histories[s] :
        /\ IsStrictPrefix(timeline[s], h)
        /\ timeline' = [timeline EXCEPT ![s] = SubSeq(h, 1, Len(@) + 1)]
  BY DEF AppendEvent
<1> DEFINE old == timeline[t]
           new == timeline'[t]
<1>2. h \in Seq(State) /\ old \in Seq(State) /\ Len(old) \in Nat
  BY StateAssumption DEF ReadInv, ReadTypes
<1>3. /\ Len(new) \in Nat /\ new \in Seq(State) /\ Len(old) <= Len(new)
      /\ \A n \in 0..Len(old) : SubSeq(new, 1, n) = SubSeq(old, 1, n)
  <2>1. CASE t # s
    <3>1. new = old
      BY <1>1, <2>1 DEF ReadInv, ReadTypes
    <3> QED
      BY <1>2, <3>1
  <2>2. CASE t = s
    <3>1. new = SubSeq(h, 1, Len(old) + 1)
      BY <1>1, <2>2 DEF ReadInv, ReadTypes
    <3>2. Len(old) <= Len(h) /\ old # h /\ SubSeq(old, 1, Len(old)) = SubSeq(h, 1, Len(old))
      BY <1>1, <2>2 DEF IsStrictPrefix, IsPrefix
    <3>3. Len(old) + 1 <= Len(h) /\ Len(h) \in Nat
      <4>1. SubSeq(old, 1, Len(old)) = old /\ SubSeq(h, 1, Len(h)) = h
        BY <1>2
      <4>2. Len(old) # Len(h)
        BY <3>2, <4>1
      <4> QED
        BY <1>2, <3>2, <4>2
    <3>4. \A i \in 1..Len(old) : old[i] = h[i]
      <4>1. \A i \in 1..Len(old) :
              SubSeq(old, 1, Len(old))[i] = old[i] /\ SubSeq(h, 1, Len(old))[i] = h[i]
        BY <1>2, <3>3
      <4> QED
        BY <3>2, <4>1
    <3>5. new \in Seq(State) /\ Len(new) = Len(old) + 1 /\ \A i \in 1..Len(new) : new[i] = h[i]
      BY <1>2, <3>1, <3>3
    <3>6. ASSUME NEW n \in 0..Len(old) PROVE SubSeq(new, 1, n) = SubSeq(old, 1, n)
      <4> HIDE DEF new, old
      <4> QED
        BY <1>2, <3>4, <3>5
    <3> QED
      BY <1>2, <3>5, <3>6
  <2> QED
    BY <2>1, <2>2
<1>4. \A n \in 0..Len(old) : StateAt(t, n)' = StateAt(t, n)
  BY <1>3 DEF StateAt
<1>5. ASSUME NeverRepeats(t)', NEW m \in 0..Len(old), NEW n \in 0..Len(old),
             StateAt(t, m) = StateAt(t, n)
      PROVE  m = n
  <2>1. m \in 0..Len(new) /\ n \in 0..Len(new)
    BY <1>2, <1>3
  <2>2. StateAt(t, m)' = StateAt(t, n)'
    BY <1>4, <1>5
  <2> QED
    BY <1>5, <2>1, <2>2 DEF NeverRepeats
<1>6. NeverRepeats(t)' => NeverRepeats(t)
  BY <1>5 DEF NeverRepeats
<1> QED
  BY <1>2, <1>3, <1>4, <1>6

LEMMA GrowthReplay ==
  ASSUME ReadInv, RunInv, ReplayInv, NEW s \in ListedSubjects, AppendEvent(s)
  PROVE  ReplayInv'
<1>1. UNCHANGED <<snapshots, write, session, committed, limit, pc, page, base, result, loaded,
                 report, begun, outcome>>
  BY DEF AppendEvent
<1>2. ASSUME NEW t \in ListedSubjects, NEW row, RowAt(t, row), TrueRow(t, row) PROVE TrueRow(t, row)'
  BY <1>2, AppendKeepsStates DEF RowAt, TrueRow
<1>3. ASSUME NEW t \in ListedSubjects, NEW found, found.last \in Nat, found.last <= Len(timeline[t]),
             TrueResult(t, found)
      PROVE  TrueResult(t, found)'
  BY <1>3, AppendKeepsStates DEF TrueResult
<1>4. \A t \in ListedSubjects : snapshots'[t] = NoSnapshot \/ TrueRow(t, snapshots[t])'
  BY <1>1, <1>2 DEF ReplayInv, ReadInv, SnapshotsOK
<1>5. ASSUME NEW r \in Calls PROVE ReplayOK(r)'
  <2>1. /\ ReplayOK(r) /\ SeenOK(r) /\ Current(r)' = Current(r)
        /\ r \in Readers \/ pc[r] \in {"events", "load", "write"} => Current(r) \in ListedSubjects
    BY <1>1, CurrentSubject, StateAssumption DEF ReplayInv, ReadInv, RunInv, Current, Working
  <2>2. \A t \in DOMAIN write[r] : TrueRow(t, write[r][t])'
    BY <1>1, <1>2, <2>1 DEF ReplayOK, SeenOK
  <2>3. pc[r] = "events" => base[r] = NoSnapshot \/ TrueRow(Current(r), base[r])'
    BY <1>1, <1>2, <2>1 DEF ReplayOK, SeenOK
  <2>4. pc[r] \in {"load", "write"} => TrueResult(Current(r), result[r])'
    BY <1>1, <1>3, <2>1 DEF ReplayOK, SeenOK
  <2>5. pc[r] = "write" =>
          loaded[r] = NoSnapshot
            \/ (RowAt(Current(r), loaded[r])' /\ TrueRow(Current(r), loaded[r])')
    <3>1. ASSUME pc[r] = "write" PROVE \A row : RowAt(Current(r), row) => RowAt(Current(r), row)'
      BY <2>1, <3>1, AppendKeepsStates DEF RowAt
    <3> QED
      BY <1>1, <1>2, <2>1, <3>1 DEF ReplayOK
  <2>6. PICK t : t = Current(r)
    OBVIOUS
  <2>7. ASSUME r \in Readers, outcome[r] = "success"
        PROVE  /\ result[r].last \in Nat
               /\ result[r].last <= Least(AsOf[r], Len(timeline'[t]))
               /\ TrueResult(t, result[r])'
    <3>1. t \in ListedSubjects /\ AsOf[r] \in Nat
      BY <2>1, <2>6, <2>7, StateAssumption
    <3>2. /\ Len(timeline[t]) \in Nat /\ Len(timeline'[t]) \in Nat
          /\ Len(timeline[t]) <= Len(timeline'[t])
      BY <3>1, AppendKeepsStates
    <3>3. /\ result[r].last \in Nat
          /\ result[r].last <= Least(AsOf[r], Len(timeline[t]))
          /\ TrueResult(t, result[r])
      BY <2>1, <2>6, <2>7 DEF ReplayOK
    <3>4. /\ result[r].last <= Len(timeline[t])
          /\ result[r].last <= Least(AsOf[r], Len(timeline'[t]))
      BY <3>1, <3>2, <3>3 DEF Least
    <3> QED
      BY <1>1, <1>3, <3>1, <3>3, <3>4
  <2> QED
    BY <1>1, <2>1, <2>2, <2>3, <2>4, <2>5, <2>6, <2>7 DEF ReplayOK
<1> QED
  BY <1>1, <1>4, <1>5 DEF ReplayInv

LEMMA OthersTrue ==
  ASSUME ReplayInv, NEW r \in Calls, OthersSame(r), OthersKeep(r), timeline' = timeline,
         NEW q \in Calls \ {r}, loaded'[q] = loaded[q]
  PROVE  ReplayOK(q)'
<1>1. ReplayOK(q) /\ Current(q)' = Current(q)
  BY DEF ReplayInv, OthersSame, Current
<1> QED
  BY <1>1 DEF ReplayOK, OthersSame, OthersKeep, RowAt, TrueRow, TrueResult, NeverRepeats, StateAt

LEMMA LeaveTrue ==
  ASSUME NEW r \in Calls, timeline' = timeline, pc'[r] \notin {"events", "load", "write"},
         \A s \in DOMAIN write'[r] : TrueRow(s, write'[r][s]),
         r \in Readers => outcome'[r] # "success"
  PROVE  ReplayOK(r)'
BY DEF ReplayOK, TrueRow, NeverRepeats, StateAt

LEMMA ViewTrue ==
  ASSUME ReplayInv, NEW r \in Calls, NEW s \in ListedSubjects
  PROVE  View(r, s) = NoSnapshot \/ TrueRow(s, View(r, s))
BY DEF ReplayInv, ReplayOK, View

LEMMA ReadSnapshotTrue ==
  ASSUME ReplayInv, ReadInv, RunInv, NEW r \in Calls, ReadSnapshot(r)
  PROVE  ReplayOK(r)'
<1> USE DEF ReplayInv, ReadInv, RunInv
<1>1. /\ pc[r] = "snapshot" /\ UNCHANGED timeline
      /\ \A s \in DOMAIN write[r] : TrueRow(s, write[r][s])
  BY DEF ReadSnapshot, ReplayOK
<1>2. CASE \E state \in {"active", "inactive"} : NextSubject(r, "errors", state)
           /\ r \notin Readers /\ UNCHANGED write
  <2>1. pc'[r] \in {"snapshot", "list", "answer"}
    BY <1>2 DEF NextSubject, Goto, TypesInv, PagesOK
  <2> QED
    BY <1>1, <1>2, <2>1, LeaveTrue
<1>3. CASE Fail(r, "not_found")
  <2>1. pc'[r] = "done" /\ write'[r] = << >> /\ outcome'[r] = "not_found"
    BY <1>3 DEF Fail, Goto, TypesInv, PagesOK, RowsOK, ReadTypes
  <2> QED
    BY <1>1, <2>1, LeaveTrue
<1>4. CASE session[r] = "active" /\ Current(r) \in ToSet(listed)
  <2> DEFINE row == View(r, Current(r))
  <2>1. /\ pc' = [pc EXCEPT ![r] = "events"]
        /\ base' = [base EXCEPT ![r] =
                      IF row # NoSnapshot /\ (r \in Readers => row.at <= AsOf[r]) THEN row
                                                                                 ELSE NoSnapshot]
        /\ UNCHANGED <<write, page, outcome>>
    BY <1>4 DEF ReadSnapshot, Goto
  <2>2. row = NoSnapshot \/ TrueRow(Current(r), row)
    BY <1>1, CurrentSubject, ViewTrue DEF Working
  <2>3. base'[r] \in {NoSnapshot, row}
    <3> HIDE DEF row
    <3> QED
      BY <2>1 DEF ReadTypes
  <2>4. pc'[r] = "events" /\ Current(r)' = Current(r) /\ (r \in Readers => outcome'[r] # "success")
    BY <1>1, <2>1 DEF TypesInv, PagesOK, Current, SeenOK
  <2>5. \A s \in DOMAIN write'[r] : TrueRow(s, write'[r][s])
    BY <1>1, <2>1
  <2> HIDE DEF row
  <2> QED
    BY <1>1, <2>1, <2>2, <2>3, <2>4, <2>5 DEF ReplayOK, TrueRow, NeverRepeats, StateAt
<1>5. r \in Runs => r \notin Readers
  BY StateAssumption
<1>6. session[r] = "inactive" => r \notin Readers
  BY DEF SeenOK
<1> QED
  BY <1>2, <1>3, <1>4, <1>5, <1>6 DEF ReadSnapshot

\* The derivation: a replay of the tail, on the state of the snapshot or from nothing.
LEMMA DerivedTrue ==
  ASSUME ReplayInv, ReadInv, RunInv, NEW r \in Calls, pc[r] = "events"
  PROVE  LET from == IF base[r] = NoSnapshot THEN 0 ELSE base[r].at
             tail == EventsAfter(r, from)
             last == from + Len(tail)
         IN  /\ last \in Nat /\ last <= Admitted(r)
             /\ (IF from = 0 THEN 0 ELSE base[r].count) + Len(tail) = last
             /\ NeverRepeats(Current(r)) =>
                  Replay(IF from = 0 THEN EmptyState ELSE base[r].state, tail)
                    = StateAt(Current(r), last)
<1> USE DEF ReplayInv, ReadInv, RunInv
<1> DEFINE s == Current(r)
           line == timeline[s]
           from == IF base[r] = NoSnapshot THEN 0 ELSE base[r].at
           tail == EventsAfter(r, from)
           last == from + Len(tail)
           state == IF from = 0 THEN EmptyState ELSE base[r].state
           count == IF from = 0 THEN 0 ELSE base[r].count
           upto == Least(Admitted(r), from + MAX_TAIL)
<1>1. s \in ListedSubjects /\ line \in Seq(State) /\ Len(line) \in Nat /\ MAX_TAIL \in Nat
      /\ (r \in Readers => AsOf[r] \in Nat)
  BY CurrentSubject, StateAssumption DEF Working
<1>2. base[r] = NoSnapshot \/ (RowAt(s, base[r]) /\ TrueRow(s, base[r]))
  BY DEF SeenOK, ReplayOK
<1>3. from \in Nat /\ from <= Len(line) /\ (r \in Readers => from <= AsOf[r])
  BY <1>1, <1>2 DEF RowAt, SeenOK
<1>4. from <= Admitted(r) /\ Admitted(r) <= Len(line) /\ Admitted(r) \in Nat
  BY <1>1, <1>3 DEF Admitted, Least
<1>5. upto \in Nat /\ from <= upto /\ upto <= Admitted(r)
  BY <1>1, <1>3, <1>4 DEF Least
<1>6. tail = SubSeq(line, from + 1, upto)
  BY DEF EventsAfter
<1>7. count = from
  BY <1>2, <1>3 DEF TrueRow
<1>8. NeverRepeats(s) => state = Replay(EmptyState, SubSeq(line, 1, from))
  <2>1. CASE from = 0
    <3>1. Len(SubSeq(line, 1, 0)) = 0
      BY <1>1
    <3> QED
      BY <2>1, <3>1, ReplayNothing
  <2>2. CASE from # 0
    BY <1>2, <2>2 DEF TrueRow, StateAt
  <2> QED
    BY <2>1, <2>2
<1> HIDE DEF from, upto, state, count, line, s, tail
<1>9. Len(tail) = upto - from
  BY <1>1, <1>3, <1>4, <1>5, <1>6
<1>10. NeverRepeats(s) => Replay(state, tail) = Replay(EmptyState, SubSeq(line, 1, upto))
  <2>1. upto <= Len(line)
    BY <1>1, <1>4, <1>5
  <2>2. Replay(Replay(EmptyState, SubSeq(line, 1, from)), SubSeq(line, from + 1, upto))
          = Replay(EmptyState, SubSeq(line, 1, upto))
    BY <1>1, <1>3, <1>5, <2>1, ReplayStretch
  <2> QED
    BY <1>6, <1>8, <2>2
<1>11. last = upto
  BY <1>3, <1>5, <1>9
<1>12. /\ last \in Nat /\ last <= Admitted(r) /\ count + Len(tail) = last
       /\ NeverRepeats(s) => Replay(state, tail) = StateAt(s, last)
  <2> HIDE DEF last
  <2>1. count + Len(tail) = last
    BY <1>7 DEF last
  <2> QED
    BY <1>5, <1>10, <1>11, <2>1 DEF StateAt, line
<1> QED
  BY <1>12 DEF from, tail, state, count, s

LEMMA ReadEventsTrue ==
  ASSUME ReplayInv, ReadInv, RunInv, NEW r \in Calls, ReadEvents(r)
  PROVE  ReplayOK(r)'
<1> USE DEF ReplayInv, ReadInv, RunInv
<1> DEFINE s == Current(r)
           from == IF base[r] = NoSnapshot THEN 0 ELSE base[r].at
           tail == EventsAfter(r, from)
           found == [state |-> Replay(IF from = 0 THEN EmptyState ELSE base[r].state, tail),
                     last  |-> from + Len(tail),
                     count |-> (IF from = 0 THEN 0 ELSE base[r].count) + Len(tail)]
<1>1. /\ pc[r] = "events" /\ result' = [result EXCEPT ![r] = found]
      /\ UNCHANGED <<timeline, base, loaded, begun>>
  BY DEF ReadEvents
<1>2. /\ found.last \in Nat /\ found.last <= Admitted(r) /\ found.count = found.last
      /\ NeverRepeats(s) => found.state = StateAt(s, found.last)
  BY <1>1, DerivedTrue
<1> HIDE DEF found, s
<1>3. result'[r] = found
  BY <1>1 DEF ReadTypes
<1>4. \A t \in DOMAIN write[r] : TrueRow(t, write[r][t])
  BY DEF ReplayOK
<1>5. CASE r \in Readers /\ Goto(r, "done") /\ outcome' = [outcome EXCEPT ![r] = "success"]
           /\ UNCHANGED <<write, session, page>>
  <2>1. pc'[r] = "done" /\ r \notin Runs
    BY <1>5, StateAssumption DEF Goto, TypesInv, PagesOK
  <2>2. Current(r)' = s /\ Admitted(r) = Least(AsOf[r], Len(timeline[s]))
    BY <1>5, <2>1 DEF s, Current, Admitted
  <2> QED
    BY <1>1, <1>2, <1>3, <1>4, <1>5, <2>1, <2>2
    DEF ReplayOK, TrueRow, TrueResult, NeverRepeats, StateAt
<1>6. CASE r \notin Readers /\ Goto(r, "load")
           /\ UNCHANGED <<write, session, page, outcome>>
  <2>1. pc'[r] = "load" /\ Current(r)' = s
    BY <1>6 DEF Goto, TypesInv, PagesOK, Current, s
  <2> QED
    BY <1>1, <1>2, <1>3, <1>4, <1>6, <2>1
    DEF ReplayOK, TrueRow, TrueResult, NeverRepeats, StateAt
<1>7. CASE Fail(r, "no_events") /\ r \notin Readers
  <2>1. pc'[r] = "done" /\ write'[r] = << >>
    BY <1>7 DEF Fail, Goto, TypesInv, PagesOK, RowsOK
  <2> QED
    BY <1>1, <1>7, <2>1, LeaveTrue
<1>8. CASE r \in Runs /\ NextSubject(r, "skipped", "active") /\ UNCHANGED write
  <2>1. r \notin Readers /\ pc'[r] \in {"snapshot", "list", "answer"}
    BY <1>8, StateAssumption DEF NextSubject, Goto, TypesInv, PagesOK
  <2> QED
    BY <1>1, <1>4, <1>8, <2>1, LeaveTrue
<1> QED
  BY <1>5, <1>6, <1>7, <1>8, StateAssumption DEF ReadEvents

\* The row an UPDATE leaves is true if the row, the one that was loaded and the result are, even
\* if they come from three moments: where no state repeats, the state differs from the loaded
\* one exactly if the event does.
LEMMA UpdatedTrue ==
  ASSUME NEW r \in Calls, NEW s \in ListedSubjects, NEW row, TrueRow(s, row),
         RowAt(s, loaded[r]), TrueRow(s, loaded[r]), TrueResult(s, result[r]),
         result[r].last \in Nat, result[r].last <= Len(timeline[s]), Len(timeline[s]) \in Nat
  PROVE  TrueRow(s, Updated(r, row))
<1>1. LET new == Updated(r, row)
      IN  /\ {"at", "state", "count"} \subseteq DOMAIN new
          /\ new.at = IF result[r].last # loaded[r].at THEN result[r].last ELSE row.at
          /\ new.state = IF result[r].state # loaded[r].state THEN result[r].state ELSE row.state
          /\ new.count = IF result[r].count # loaded[r].count THEN result[r].count ELSE row.count
  BY DEF Updated, TrueRow
<1>2. Updated(r, row).count = Updated(r, row).at
  BY <1>1 DEF TrueRow, TrueResult
<1>3. ASSUME NeverRepeats(s) PROVE Updated(r, row).state = StateAt(s, Updated(r, row).at)
  <2>1. /\ result[r].state = StateAt(s, result[r].last) /\ row.state = StateAt(s, row.at)
        /\ loaded[r].state = StateAt(s, loaded[r].at)
    BY <1>3 DEF TrueRow, TrueResult
  <2>2. result[r].last \in 0..Len(timeline[s]) /\ loaded[r].at \in 0..Len(timeline[s])
    BY DEF RowAt
  <2>3. result[r].state = loaded[r].state <=> result[r].last = loaded[r].at
    BY <1>3, <2>1, <2>2 DEF NeverRepeats
  <2> QED
    BY <1>1, <2>1, <2>3
<1> QED
  BY <1>1, <1>2, <1>3 DEF TrueRow

LEMMA WriteRowTrue ==
  ASSUME ReplayInv, ReadInv, RunInv, NEW r \in Calls, WriteRow(r)
  PROVE  ReplayOK(r)'
<1> USE DEF ReplayInv, ReadInv, RunInv
<1> DEFINE s == Current(r)
           row == View(r, s)
<1>1. pc[r] = "write" /\ timeline' = timeline /\ r \notin Readers
  BY DEF WriteRow, SeenOK
<1>2. pc'[r] \in {"done", "snapshot", "list", "answer"}
  BY <1>1 DEF WriteRow, FlushFails, NextSubject, Fail, Goto, TypesInv, PagesOK
<1>3. \A t \in DOMAIN write[r] : TrueRow(t, write[r][t])
  BY DEF ReplayOK
<1>4. \A t \in DOMAIN write'[r] : TrueRow(t, write'[r][t])
  <2>1. CASE UNCHANGED write \/ write'[r] = << >>
    BY <1>3, <2>1
  <2>2. CASE ~UNCHANGED write /\ write'[r] # << >>
    <3> DEFINE new == IF row # NoSnapshot THEN Updated(r, row)
                      ELSE [at |-> result[r].last, state |-> result[r].state,
                            count |-> result[r].count]
    <3>1. /\ loaded[r] = NoSnapshot => row = NoSnapshot
          /\ loaded[r] # NoSnapshot => Updated(r, loaded[r]) # loaded[r]
          /\ write' = [write EXCEPT ![r] = [t \in DOMAIN @ \cup {s} |-> IF t # s THEN @[t] ELSE new]]
      <4>1. ~FlushFails(r)
        <5>1. FlushFails(r) => write' = [write EXCEPT ![r] = << >>]
          BY DEF FlushFails, Fail
        <5> QED
          BY <2>2, <5>1 DEF TypesInv, RowsOK
      <4> QED
        BY <2>2, <4>1 DEF WriteRow
    <3>2. s \in ListedSubjects /\ Len(timeline[s]) \in Nat /\ (row = NoSnapshot \/ TrueRow(s, row))
      BY <1>1, CurrentSubject, ViewTrue DEF Working
    <3>3. /\ TrueResult(s, result[r]) /\ result[r].last \in Nat
          /\ result[r].last <= Len(timeline[s])
          /\ loaded[r] = NoSnapshot \/ (RowAt(s, loaded[r]) /\ TrueRow(s, loaded[r]))
      BY <1>1 DEF ReplayOK, SeenOK
    <3> HIDE DEF s, row
    <3>4. TrueRow(s, new)
      <4>1. CASE row = NoSnapshot
        BY <3>3, <4>1 DEF TrueRow, TrueResult
      <4>2. CASE row # NoSnapshot
        BY <3>1, <3>2, <3>3, <4>2, UpdatedTrue
      <4> QED
        BY <4>1, <4>2
    <3> HIDE DEF new
    <3>5. write'[r] = [t \in DOMAIN write[r] \cup {s} |-> IF t # s THEN write[r][t] ELSE new]
      BY <3>1 DEF TypesInv, RowsOK
    <3> QED
      BY <1>3, <3>4, <3>5
  <2> QED
    BY <2>1, <2>2
<1>5. \A t \in DOMAIN write'[r] : TrueRow(t, write'[r][t])
  BY <1>4
<1> QED
  BY <1>1, <1>2, <1>5, LeaveTrue

LEMMA ListPageTrue ==
  ASSUME ReplayInv, RunInv, NEW r \in Calls, ListPage(r)
  PROVE  ReplayOK(r)'
<1>1. r \notin Readers /\ UNCHANGED timeline
  BY StateAssumption DEF ListPage
<1>2. /\ pc'[r] \in {"done", "answer", "snapshot"} /\ write'[r] \in {write[r], << >>}
  BY DEF ListPage, Fail, Goto, RunInv, TypesInv, PagesOK, RowsOK
<1>3. \A s \in DOMAIN write'[r] : TrueRow(s, write'[r][s])
  BY <1>2 DEF ReplayInv, ReplayOK
<1> QED
  BY <1>1, <1>2, <1>3, LeaveTrue

LEMMA OtherStepsTrue ==
  ASSUME ReplayInv, ReadInv, RunInv, NEW r \in Calls,
         LoadRow(r) \/ Answer(r) \/ CommitOrClose(r) \/ Abort(r)
  PROVE  ReplayOK(r)'
<1> USE DEF ReplayInv, ReadInv, RunInv
<1>1. \A t \in DOMAIN write[r] : TrueRow(t, write[r][t])
  BY DEF ReplayOK
<1>2. CASE LoadRow(r)
  <2>1. /\ pc[r] = "load" /\ pc' = [pc EXCEPT ![r] = "write"]
        /\ loaded' = [loaded EXCEPT ![r] = View(r, Current(r))]
        /\ UNCHANGED <<timeline, write, page, result, outcome>>
    BY <1>2 DEF LoadRow, Goto
  <2> DEFINE row == View(r, Current(r))
  <2>2. /\ row = NoSnapshot \/ TrueRow(Current(r), row)
        /\ row = NoSnapshot \/ RowAt(Current(r), row)
    BY <2>1, CurrentSubject, ViewTrue, ViewOK DEF Working
  <2> HIDE DEF row
  <2>3. loaded'[r] = row /\ pc'[r] = "write" /\ Current(r)' = Current(r)
    BY <2>1 DEF TypesInv, PagesOK, Current, row
  <2>4. r \notin Readers /\ TrueResult(Current(r), result[r])
    BY <2>1 DEF SeenOK, ReplayOK
  <2> QED
    BY <1>1, <2>1, <2>2, <2>3, <2>4
    DEF ReplayOK, RowAt, TrueRow, TrueResult, NeverRepeats, StateAt
<1>3. CASE ~LoadRow(r)
  <2>1. timeline' = timeline /\ pc'[r] \notin {"events", "load", "write"}
        /\ write'[r] \in {write[r], << >>}
    BY <1>3 DEF Answer, CommitOrClose, Abort, Fail, Goto, TypesInv, PagesOK, RowsOK
  <2>2. r \in Readers => outcome'[r] # "success"
    <3>1. CASE Abort(r)
      BY <3>1 DEF Abort, Fail, SeenOK, ReadTypes, Outcomes
    <3>2. CASE ~Abort(r)
      BY <1>3, <3>2 DEF Answer, CommitOrClose, SeenOK
    <3> QED
      BY <3>1, <3>2
  <2>3. \A t \in DOMAIN write'[r] : TrueRow(t, write'[r][t])
    BY <1>1, <2>1
  <2>4. \A t \in DOMAIN write'[r] : TrueRow(t, write'[r][t])
    BY <2>3
  <2> QED
    BY <2>1, <2>2, <2>4, LeaveTrue
<1> QED
  BY <1>2, <1>3

LEMMA SnapshotsTrue ==
  ASSUME ReplayInv, NEW r \in Calls, Step(r) \/ Abort(r), timeline' = timeline
  PROVE  \A s \in ListedSubjects : snapshots'[s] = NoSnapshot \/ TrueRow(s, snapshots'[s])
<1>1. CASE UNCHANGED snapshots
  BY <1>1 DEF ReplayInv
<1>2. CASE snapshots' = [s \in ListedSubjects |-> View(r, s)]
  <2>1. \A s \in ListedSubjects : View(r, s) = NoSnapshot \/ TrueRow(s, View(r, s))
    BY ViewTrue
  <2> HIDE DEF View
  <2> QED
    BY <1>2, <2>1
<1> QED
  BY <1>1, <1>2
  DEF Step, Abort, ListPage, ReadSnapshot, ReadEvents, LoadRow, WriteRow, Answer, CommitOrClose

LEMMA ReplayStep ==
  ASSUME ReplayInv, ReadInv, RunInv, NEW r \in Calls, Step(r) \/ Abort(r)
  PROVE  ReplayInv'
<1>1. OthersSame(r) /\ OthersKeep(r) /\ timeline' = timeline
  BY StepKeeps, SnapshotsSeen
<1>2. ReplayOK(r)'
  BY ListPageTrue, ReadSnapshotTrue, ReadEventsTrue, WriteRowTrue, OtherStepsTrue DEF Step
<1>3. loaded' = [q \in Calls |-> loaded'[q]] /\ \A q \in Calls \ {r} : loaded'[q] = loaded[q]
  BY DEF Step, Abort, ListPage, ReadSnapshot, ReadEvents, LoadRow, WriteRow, Answer, CommitOrClose, ReplayInv
<1>4. \A q \in Calls : ReplayOK(q)'
  BY <1>1, <1>2, <1>3, OthersTrue
<1>5. \A s \in ListedSubjects : snapshots'[s] = NoSnapshot \/ TrueRow(s, snapshots'[s])
  BY <1>1, SnapshotsTrue
<1>6. \A s \in ListedSubjects : snapshots'[s] = NoSnapshot \/ TrueRow(s, snapshots[s])'
  BY <1>1, <1>5 DEF TrueRow, NeverRepeats, StateAt
<1> QED
  BY <1>3, <1>4, <1>6 DEF ReplayInv

LEMMA ReplayNext == RunInv /\ ReadInv /\ ReplayInv /\ [StateNext]_stateVars => ReplayInv'
<1> SUFFICES ASSUME RunInv, ReadInv, ReplayInv, [StateNext]_stateVars PROVE ReplayInv'
  OBVIOUS
<1>1. CASE UNCHANGED <<timeline, snapshots, write, pc, page, base, result, loaded, outcome>>
  BY <1>1 DEF ReplayInv, ReplayOK, Current, RowAt, TrueRow, TrueResult, NeverRepeats, StateAt
<1>2. ASSUME NEW s \in ListedSubjects, CreateSubject(s) \/ DeleteSubject(s)
      PROVE  UNCHANGED <<timeline, snapshots, write, pc, page, base, result, loaded, outcome>>
  BY <1>2 DEF CreateSubject, DeleteSubject
<1> QED
  BY <1>1, <1>2, GrowthReplay, ReplayStep DEF StateNext, AllDone, stateVars

\* A snapshot may be replaced between the two reads of an answer, and may itself have been put
\* together from the runs of two creations; the answer is still that of a full replay.  What is
\* inductive is that every row, stored, written or loaded, and every result is one.
THEOREM AnswersAreReplays == StateSpec => []AnswerIsReplay
<1>1. ReplayInv => AnswerIsReplay
  BY DEF ReplayInv, ReplayOK, TrueResult, AnswerIsReplay, Answered, Calls
<1>2. StateInit => RunInv /\ ReadInv /\ ReplayInv
  BY InitOK, ReadInit, ReplayInit
<1>3. RunInv /\ ReadInv /\ ReplayInv /\ [StateNext]_stateVars => RunInv' /\ ReadInv' /\ ReplayInv'
  BY NextOK, ReadNext, ReplayNext
<1> QED
  BY <1>1, <1>2, <1>3, PTL DEF StateSpec

================================================================================
