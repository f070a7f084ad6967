---------------------------- MODULE ListingProofs ----------------------------
(***************************************************************************)
(* Proofs about Listing, for any number of rows, any times, limits and     *)
(* queries: a page agrees with its count, and a walk through the pages     *)
(* misses nothing.                                                         *)
(***************************************************************************)
EXTENDS Listing, TLAPS, FiniteSetTheorems, SequenceTheorems

LEMMA Limits ==
    /\ DefaultLimit \in Nat /\ DefaultLimit > 0 /\ MaxLimit \in Nat /\ DefaultLimit <= MaxLimit
    /\ MaxTime \in Nat /\ MaxTime > 0 /\ MaxInt \in Nat /\ MaxInt > 0
  BY LimitsAssumption

LEMMA ProductGrows ==
    ASSUME NEW a \in Nat, NEW b \in Nat, NEW c \in Nat, a <= b
    PROVE  a * c <= b * c
  OBVIOUS

LEMMA ProductIsNat == \A a, b \in Nat : a * b \in Nat
  OBVIOUS

LEMMA Successor ==
    ASSUME NEW a \in Int, NEW c \in Int
    PROVE  (a + 1) * c = a * c + c /\ (a - 1) * c = a * c - c
  OBVIOUS

LEMMA Division ==
    ASSUME NEW n \in Nat, NEW l \in Nat, l > 0
    PROVE  /\ n \div l \in Nat
           /\ (n \div l) * l <= n
           /\ n < (n \div l) * l + l
  OBVIOUS

LEMMA WrapsNothing ==
    ASSUME NEW n \in Nat, n <= MaxInt
    PROVE  Wrap(n) = n
  <1> DEFINE x == n + MaxInt + 1
             m == 2 * (MaxInt + 1)
  <1>1. x \in Nat /\ m \in Nat /\ x < m /\ m > 0
    BY Limits
  <1> HIDE DEF x, m
  <1>2. x % m = x
    BY <1>1
  <1> QED
    BY <1>2, Limits DEF Wrap, x, m

LEMMA WrapIsInt == \A n \in Int : Wrap(n) \in Int
  BY Limits DEF Wrap

LEMMA SequenceOf ==
    ASSUME NEW S, IsFiniteSet(S), NEW s \in SetToSeqs(S)
    PROVE  /\ s \in Seq(S) /\ Len(s) = Cardinality(S) /\ Cardinality(S) \in Nat
           /\ \A i \in 1..Len(s) : s[i] \in S
           /\ \A i, j \in 1..Len(s) : s[i] = s[j] => i = j
           /\ \A x \in S : \E i \in 1..Len(s) : s[i] = x
  <1> DEFINE n == Cardinality(S)
  <1>1. n \in Nat
    BY FS_CardinalityType
  <1>2. s \in [1..n -> S] /\ \A i, j \in 1..n : i # j => s[i] # s[j]
    BY DEF SetToSeqs
  <1> HIDE DEF n
  <1>3. s \in Seq(S)
    BY <1>1, <1>2, SeqDef
  <1>4. Len(s) = n
    BY <1>1, <1>2, <1>3, LenProperties
  <1>5. s \in Injection(1..n, S)
    BY <1>2 DEF Injection, IsInjective
  <1>6. Cardinality(1..n) = n
    BY <1>1, FS_Interval
  <1>7. s \in Surjection(1..n, S)
    BY <1>5, <1>6, FS_Injection DEF n
  <1> QED
    BY <1>1, <1>2, <1>3, <1>4, <1>7 DEF Surjection, n

(* What comes before place i.                                              *)
Prefix(s, i) == {s[j] : j \in 1..(i - 1)}

LEMMA PrefixCount ==
    ASSUME NEW S, NEW s \in Seq(S), \A i, j \in 1..Len(s) : s[i] = s[j] => i = j,
           NEW i \in 1..Len(s)
    PROVE  Cardinality(Prefix(s, i)) = i - 1
  <1> DEFINE T == {s[j] : j \in 1..(i - 1)}
             f == [j \in 1..(i - 1) |-> s[j]]
  <1>1. Len(s) \in Nat /\ i \in Nat /\ i - 1 \in Nat
    BY LenProperties
  <1>2. f \in [1..(i - 1) -> T]
    OBVIOUS
  <1>3. \A j, k \in 1..(i - 1) : f[j] = f[k] => j = k
    BY <1>1
  <1>4. \A t \in T : \E j \in 1..(i - 1) : f[j] = t
    OBVIOUS
  <1>5. f \in Bijection(1..(i - 1), T)
    BY <1>2, <1>3, <1>4 DEF Bijection, Injection, IsInjective, Surjection
  <1>6. ExistsBijection(1..(i - 1), T)
    BY <1>5 DEF ExistsBijection
  <1> QED
    BY <1>1, <1>6, FS_CountingElements DEF Prefix

LEMMA CutFacts ==
    ASSUME NEW S, NEW s \in Seq(S), NEW offset \in Int, NEW limit \in Nat, limit > 0
    PROVE  LET from == IF offset > 0 THEN offset ELSE 0
               items == Cut(s, offset, limit)
           IN  /\ items \in Seq(S)
               /\ Len(items) = IF from >= Len(s) THEN 0
                               ELSE IF from + limit < Len(s) THEN limit ELSE Len(s) - from
               /\ \A i \in 1..Len(items) : items[i] = s[from + i]
  <1> DEFINE from == IF offset > 0 THEN offset ELSE 0
             to == IF from + limit < Len(s) THEN from + limit ELSE Len(s)
             items == Cut(s, offset, limit)
  <1>1. Len(s) \in Nat /\ from \in Nat /\ to \in Int
    BY LenProperties
  <1>2. items = SubSeq(s, from + 1, to)
    BY DEF Cut
  <1>3. to <= Len(s) /\ (from < Len(s) => to > from) /\ (from >= Len(s) => to <= from)
    BY <1>1
  <1>4. from + limit < Len(s) => to = from + limit
    OBVIOUS
  <1>5. ~(from + limit < Len(s)) => to = Len(s)
    OBVIOUS
  <1> HIDE DEF from, to, items
  <1>6. \A i \in (from + 1)..to : s[i] \in S
    BY <1>1, <1>3, ElementOfSeq
  <1>7. /\ items \in Seq(S)
        /\ Len(items) = IF from + 1 <= to THEN to - (from + 1) + 1 ELSE 0
        /\ \A i \in 1..(to - (from + 1) + 1) : items[i] = s[from + 1 + i - 1]
    <2>1. PICK m \in Int : m = from + 1
      BY <1>1
    <2>2. \A i \in m..to : s[i] \in S
      BY <1>6, <2>1
    <2>3. /\ SubSeq(s, m, to) \in Seq(S)
          /\ Len(SubSeq(s, m, to)) = IF m <= to THEN to - m + 1 ELSE 0
          /\ \A i \in 1..(to - m + 1) : SubSeq(s, m, to)[i] = s[m + i - 1]
      BY <1>1, <2>2, SubSeqProperties
    <2> QED
      BY <1>2, <2>1, <2>3
  <1>8. Len(items) = IF from >= Len(s) THEN 0
                     ELSE IF from + limit < Len(s) THEN limit ELSE Len(s) - from
    BY <1>1, <1>3, <1>4, <1>5, <1>7
  <1>9. \A i \in 1..Len(items) : items[i] = s[from + i]
    BY <1>1, <1>7
  <1> QED
    BY <1>7, <1>8, <1>9 DEF from, items

-----------------------------------------------------------------------------
(* Types.                                                                  *)

LEMMA MatchingIsFinite ==
    /\ IsFiniteSet(Matching) /\ Cardinality(Matching) \in Nat /\ Cardinality(Rows) \in Nat
    /\ Cardinality(Matching) <= Cardinality(Rows)
  <1>1. Matching \in SUBSET Rows
    BY DEF Matching
  <1> QED
    BY <1>1, RowsAssumption, FS_Subset, FS_CardinalityType

LEMMA RowFacts ==
    ASSUME TypeOK, NEW t \in Rows
    PROVE  /\ row[t] \in TimedRow \cup {Absent}
           /\ row[t].state \in {"listed", "hidden", "deleted", "absent"}
           /\ row[t].created \in 0..MaxTime /\ row[t].updated \in 0..MaxTime
           /\ row[t] = Absent => row[t].state = "absent"
  <1>1. row[t] \in TimedRow \cup {Absent}
    BY DEF TypeOK
  <1> QED
    BY <1>1, Limits DEF TimedRow, Absent

LEMMA NewRow ==
    ASSUME NEW n \in 1..MaxTime
    PROVE  New(n) \in TimedRow
  BY DEF New, TimedRow

LEMMA Normalized ==
    ASSUME NEW q \in Queries
    PROVE  /\ Normalize(q) \in Query /\ q \in Query
           /\ Normalize(q).limit \in 1..MaxLimit /\ Normalize(q).page \in 1..MaxInt
  <1>1. q \in Query /\ q.page \in (-MaxInt)..MaxInt /\ q.limit \in (-MaxInt)..MaxInt
    BY QueriesAssumption
  <1> DEFINE l == CASE q.limit <= 0       -> DefaultLimit
                    [] q.limit > MaxLimit -> MaxLimit
                    [] OTHER              -> q.limit
             p == IF q.page <= 0 THEN 1 ELSE q.page
  <1>2. l \in 1..MaxLimit
    <2>1. q.limit \in Int
      BY <1>1
    <2>2. CASE q.limit <= 0
      <3>1. l = DefaultLimit
        BY <2>1, <2>2, Limits
      <3> QED
        BY <3>1, Limits
    <2>3. CASE q.limit > MaxLimit
      <3>1. l = MaxLimit
        BY <2>1, <2>3, Limits
      <3> QED
        BY <3>1, Limits
    <2>4. CASE ~(q.limit <= 0) /\ ~(q.limit > MaxLimit)
      <3>1. l = q.limit
        BY <2>1, <2>4
      <3> QED
        BY <2>1, <2>4, <3>1, Limits
    <2> QED
      BY <2>2, <2>3, <2>4
  <1>3. p \in 1..MaxInt
    BY <1>1, Limits
  <1>4. Normalize(q) = [q EXCEPT !.limit = l, !.page = p]
    BY DEF Normalize
  <1> HIDE DEF l, p
  <1>5. l \in Int /\ p \in Int
    BY <1>2, <1>3
  <1>6. Normalize(q) \in Query
    BY <1>1, <1>4, <1>5 DEF Query
  <1>7. Normalize(q).limit = l /\ Normalize(q).page = p
    BY <1>1, <1>4 DEF Query
  <1> QED
    BY <1>1, <1>2, <1>3, <1>6, <1>7

LEMMA Refused ==
    ASSUME NEW code \in {"badRequest", "notFound", "error"}
    PROVE  LET page == [NoPage EXCEPT !.code = code]
           IN  page \in Page /\ page.items = <<>> /\ page.code = code
  <1>1. NoPage \in Page /\ NoPage.items = <<>>
    BY EmptySeq, Limits DEF NoPage, Page
  <1>2. PICK none \in Page : none = NoPage
    BY <1>1
  <1>3. [none EXCEPT !.code = code] \in Page
    BY DEF Page
  <1>4. [none EXCEPT !.code = code].items = none.items /\ [none EXCEPT !.code = code].code = code
    BY DEF Page
  <1> QED
    BY <1>1, <1>2, <1>3, <1>4

(* What a handler has not begun, and what a counted page rests on.         *)
Stages ==
    /\ pc = "idle" => reply = NoPage
    /\ pc = "find" /\ quiet => total = Cardinality(Matching)

Listed == TypeOK /\ Stages

LEMMA InitListed == Init => Listed
  <1> SUFFICES ASSUME Init PROVE Listed
    OBVIOUS
  <1>1. row \in [Rows -> TimedRow \cup {Absent}]
    BY NewRow DEF Init
  <1>2. NoPage \in Page /\ Len(NoPage.items) = 0
    BY EmptySeq, Limits DEF NoPage, Page
  <1>3. /\ query \in Query /\ query.limit = DefaultLimit /\ query.page = 1
    BY Limits DEF Init, Query, Orders
  <1>4. total \in 0..Cardinality(Rows)
    BY MatchingIsFinite DEF Init
  <1> QED
    BY <1>1, <1>2, <1>3, <1>4, Limits DEF Init, Listed, TypeOK, Stages

LEMMA AcceptListed ==
    ASSUME Listed, NEW q \in Queries, NEW refusal \in {"badRequest", "notFound"},
           Accept(q, refusal)
    PROVE  /\ Listed' /\ reply'.code # "ok"
           /\ pc' = "done" \/ (pc' = "count" /\ reply' = reply)
  <1>1. /\ query' = Normalize(q) /\ pc = "idle" /\ reply = NoPage
        /\ start' = IF Normalize(q).page = 1 THEN Matching ELSE {}
        /\ UNCHANGED <<row, total, seen, touched, calm, quiet>>
    BY DEF Accept, Listed, Stages
  <1>2. /\ query' \in Query /\ query'.limit \in 1..MaxLimit /\ query'.page \in 1..MaxInt
        /\ q.valid \in BOOLEAN /\ q.foreign \in BOOLEAN
    BY <1>1, Normalized DEF Query
  <1>3. \/ \E code \in {"badRequest", "notFound"} :
              reply' = [NoPage EXCEPT !.code = code] /\ pc' = "done"
        \/ pc' = "count" /\ reply' = reply
    <2>1. CASE ~q.valid
      BY <2>1 DEF Accept, Refuse
    <2>2. CASE q.valid /\ q.foreign
      BY <2>2 DEF Accept, Refuse
    <2>3. CASE q.valid /\ ~q.foreign
      BY <2>3 DEF Accept
    <2> QED
      BY <1>2, <2>1, <2>2, <2>3
  <1>4. /\ reply' \in Page /\ Len(reply'.items) = 0 /\ reply'.code # "ok"
    <2>1. NoPage \in Page /\ Len(NoPage.items) = 0 /\ NoPage.code = "none"
      BY EmptySeq, Limits DEF NoPage, Page
    <2>2. ASSUME NEW code \in {"badRequest", "notFound"}, reply' = [NoPage EXCEPT !.code = code]
          PROVE  reply' \in Page /\ Len(reply'.items) = 0 /\ reply'.code # "ok"
      BY <2>2, Refused, EmptySeq
    <2> QED
      BY <1>1, <1>3, <2>1, <2>2
  <1>5. start' \subseteq Rows
    BY <1>1 DEF Matching
  <1>6. TypeOK'
    BY <1>1, <1>2, <1>3, <1>4, <1>5, Limits DEF Listed, TypeOK
  <1>7. Stages'
    BY <1>3 DEF Stages
  <1> QED
    BY <1>3, <1>4, <1>6, <1>7 DEF Listed

LEMMA CountListed ==
    ASSUME Listed, Count
    PROVE  Listed'
  <1>1. total' = Cardinality(Matching) /\ total' \in 0..Cardinality(Rows)
    BY MatchingIsFinite DEF Count
  <1>2. Matching' = Matching
    BY DEF Count, Matching
  <1>3. TypeOK'
    BY <1>1 DEF Count, Listed, TypeOK
  <1> QED
    BY <1>1, <1>2, <1>3 DEF Count, Listed, Stages

LEMMA FailListed ==
    ASSUME Listed, DbFails
    PROVE  Listed' /\ reply'.code = "error"
  <1>1. reply' \in Page /\ Len(reply'.items) = 0 /\ reply'.code = "error" /\ pc' = "done"
    BY Refused, EmptySeq DEF DbFails, Refuse
  <1>2. TypeOK'
    BY <1>1 DEF DbFails, Listed, TypeOK
  <1> QED
    BY <1>1, <1>2 DEF Listed, Stages

LEMMA ChangeListed ==
    ASSUME Listed, NEW t \in Rows, NEW new \in TimedRow, Change(t, new)
    PROVE  Listed'
  <1>1. row' \in [Rows -> TimedRow \cup {Absent}]
    BY DEF Change, Listed, TypeOK
  <1>2. calm' \in BOOLEAN /\ touched' \subseteq Rows
    BY DEF Change, Listed, TypeOK
  <1>3. TypeOK'
    BY <1>1, <1>2 DEF Change, Listed, TypeOK
  <1>4. Stages'
    BY DEF Change, Reading, Stages
  <1> QED
    BY <1>3, <1>4 DEF Listed

(* What others write is a row of a later time, or the same one, deleted.   *)
Follows(t, new) ==
    /\ new \in TimedRow
    /\ row[t].state = "listed" => new.created = row[t].created /\ new.updated >= row[t].updated

LEMMA OthersChange ==
    ASSUME Listed, Others
    PROVE  \E t \in Rows : \E new : Follows(t, new) /\ Change(t, new)
  <1>1. PICK t \in Rows :
            \/ \E n \in 1..MaxTime : \/ CreateTask(t, n) \/ Register(t, n)
                                     \/ \E state \in {"listed", "hidden"} : UpdateTask(t, n, state)
            \/ DeleteTask(t)
    BY DEF Others
  <1>2. /\ row[t] \in TimedRow \cup {Absent} /\ row[t].created \in 0..MaxTime
        /\ row[t].updated \in 0..MaxTime /\ (row[t] = Absent => row[t].state = "absent")
        /\ row[t].state # "absent" => row[t] \in TimedRow
    BY RowFacts DEF Listed, Absent
  <1>3. ASSUME NEW n \in 1..MaxTime, CreateTask(t, n) \/ Register(t, n)
        PROVE  \E new : Follows(t, new) /\ Change(t, new)
    BY <1>2, <1>3, NewRow DEF CreateTask, Register, Follows
  <1>4. ASSUME NEW n \in 1..MaxTime, NEW state \in {"listed", "hidden"}, UpdateTask(t, n, state)
        PROVE  \E new : Follows(t, new) /\ Change(t, new)
    <2> DEFINE new == [row[t] EXCEPT !.updated = n, !.state = state]
    <2>1. row[t] \in TimedRow /\ n > row[t].updated /\ Change(t, new)
      BY <1>2, <1>4 DEF UpdateTask
    <2>2. new \in TimedRow /\ new.created = row[t].created /\ new.updated = n
      BY <2>1 DEF TimedRow
    <2>3. new.updated >= row[t].updated
      BY <1>2, <2>1, <2>2
    <2>4. Follows(t, new)
      BY <2>2, <2>3 DEF Follows
    <2> QED
      BY <2>1, <2>4
  <1>5. ASSUME DeleteTask(t)
        PROVE  \E new : Follows(t, new) /\ Change(t, new)
    <2> DEFINE new == [row[t] EXCEPT !.state = "deleted"]
    <2>1. row[t] \in TimedRow /\ Change(t, new)
      BY <1>2, <1>5 DEF DeleteTask
    <2>2. new \in TimedRow /\ new.created = row[t].created /\ new.updated = row[t].updated
      BY <2>1 DEF TimedRow
    <2>3. Follows(t, new)
      BY <1>2, <2>2 DEF Follows
    <2> QED
      BY <2>1, <2>3
  <1> QED
    BY <1>1, <1>3, <1>4, <1>5

-----------------------------------------------------------------------------
(* A page.                                                                 *)

ThePage(s) == Cut(s, Offset(query), query.limit)
From == IF Offset(query) > 0 THEN Offset(query) ELSE 0

(* The step of Find that sorts the rows as s does.                         *)
Found(s) ==
    /\ pc = "find" /\ s \in Sorted
    /\ reply' = [items |-> ThePage(s), page |-> query.page, count |-> total,
                 totalPages |-> TotalPages(total, query.limit), code |-> "ok", quiet |-> quiet]
    /\ seen' = seen \cup {ThePage(s)[i] : i \in 1..Len(ThePage(s))}
    /\ \/ /\ Len(ThePage(s)) < query.limit \/ query.page = MaxInt
          /\ pc' = "done" /\ query' = query
       \/ /\ ~(Len(ThePage(s)) < query.limit) /\ query.page # MaxInt
          /\ pc' = "count" /\ query' = [query EXCEPT !.page = query.page + 1]
    /\ calm' = (calm /\ ~Twins)
    /\ UNCHANGED <<row, total, start, touched, quiet>>

LEMMA FindFinds == Find => \E s \in Sorted : Found(s)
  <1> SUFFICES ASSUME Find PROVE \E s \in Sorted : Found(s)
    OBVIOUS
  <1>1. PICK s \in Sorted :
          LET items == Cut(s, Offset(query), query.limit)
          IN  /\ reply' = [items |-> items, page |-> query.page, count |-> total,
                           totalPages |-> TotalPages(total, query.limit), code |-> "ok",
                           quiet |-> quiet]
              /\ seen' = seen \cup {items[i] : i \in 1..Len(items)}
              /\ IF Len(items) < query.limit \/ query.page = MaxInt
                 THEN pc' = "done" /\ query' = query
                 ELSE pc' = "count" /\ query' = [query EXCEPT !.page = @ + 1]
    BY DEF Find
  <1>2. /\ pc = "find" /\ calm' = (calm /\ ~Twins)
        /\ UNCHANGED <<row, total, start, touched, quiet>>
    BY DEF Find
  <1>3. \/ /\ Len(ThePage(s)) < query.limit \/ query.page = MaxInt
           /\ pc' = "done" /\ query' = query
        \/ /\ ~(Len(ThePage(s)) < query.limit) /\ query.page # MaxInt
           /\ pc' = "count" /\ query' = [query EXCEPT !.page = query.page + 1]
    <2>1. CASE Len(ThePage(s)) < query.limit \/ query.page = MaxInt
      BY <1>1, <2>1 DEF ThePage
    <2>2. CASE ~(Len(ThePage(s)) < query.limit \/ query.page = MaxInt)
      BY <1>1, <2>2 DEF ThePage
    <2> QED
      BY <2>1, <2>2
  <1>4. /\ reply' = [items |-> ThePage(s), page |-> query.page, count |-> total,
                     totalPages |-> TotalPages(total, query.limit), code |-> "ok",
                     quiet |-> quiet]
        /\ seen' = seen \cup {ThePage(s)[i] : i \in 1..Len(ThePage(s))}
    BY <1>1 DEF ThePage
  <1> QED
    BY <1>2, <1>3, <1>4 DEF Found

LEMMA QueryFacts ==
    ASSUME Listed
    PROVE  /\ query.limit \in Nat /\ query.limit > 0 /\ query.page \in Nat /\ query.page > 0
           /\ query.page <= MaxInt /\ Offset(query) \in Int /\ From \in Nat
           /\ total \in Nat
  <1>1. /\ query.limit \in Nat /\ query.limit > 0 /\ query.page \in Nat /\ query.page > 0
        /\ query.page <= MaxInt
    BY Limits DEF Listed, TypeOK
  <1>2. (query.page - 1) * query.limit \in Int
    BY <1>1
  <1>3. Offset(query) \in Int
    BY <1>2, WrapIsInt DEF Offset
  <1>4. total \in Nat
    BY MatchingIsFinite DEF Listed, TypeOK
  <1> QED
    BY <1>1, <1>3, <1>4 DEF From

LEMMA PageFacts ==
    ASSUME Listed, NEW s \in Sorted
    PROVE  /\ s \in Seq(Rows) /\ Len(s) = Cardinality(Matching) /\ Len(s) \in Nat
           /\ ThePage(s) \in Seq(Rows) /\ Len(ThePage(s)) \in Nat
           /\ Len(ThePage(s)) = IF From >= Len(s) THEN 0
                                ELSE IF From + query.limit < Len(s) THEN query.limit
                                ELSE Len(s) - From
           /\ \A i \in 1..Len(ThePage(s)) : ThePage(s)[i] = s[From + i]
           /\ Len(ThePage(s)) <= query.limit
  <1>1. s \in SetToSeqs(Matching)
    BY DEF Sorted
  <1>2. s \in Seq(Matching) /\ Len(s) = Cardinality(Matching) /\ Len(s) \in Nat
    BY <1>1, MatchingIsFinite, SequenceOf
  <1>3. s \in Seq(Rows)
    BY <1>2, SeqMonotonic DEF Matching
  <1>4. /\ ThePage(s) \in Seq(Rows)
        /\ Len(ThePage(s)) = IF From >= Len(s) THEN 0
                             ELSE IF From + query.limit < Len(s) THEN query.limit
                             ELSE Len(s) - From
        /\ \A i \in 1..Len(ThePage(s)) : ThePage(s)[i] = s[From + i]
    <2>1. Offset(query) \in Int /\ query.limit \in Nat /\ query.limit > 0
      BY QueryFacts
    <2>2. LET from == IF Offset(query) > 0 THEN Offset(query) ELSE 0
              items == Cut(s, Offset(query), query.limit)
          IN  /\ items \in Seq(Rows)
              /\ Len(items) = IF from >= Len(s) THEN 0
                              ELSE IF from + query.limit < Len(s) THEN query.limit
                              ELSE Len(s) - from
              /\ \A i \in 1..Len(items) : items[i] = s[from + i]
      BY <1>3, <2>1, CutFacts
    <2> QED
      BY <2>2 DEF ThePage, From
  <1>5. Len(ThePage(s)) \in Nat
    BY <1>4, LenProperties
  <1>6. Len(ThePage(s)) <= query.limit
    BY <1>2, <1>4, QueryFacts
  <1> QED
    BY <1>2, <1>3, <1>4, <1>5, <1>6

LEMMA PagesAreNat ==
    ASSUME NEW n \in Nat, NEW l \in Nat, l > 0
    PROVE  TotalPages(n, l) \in Nat
  <1>1. n + l - 1 \in Nat
    OBVIOUS
  <1> QED
    BY <1>1, Division DEF TotalPages

LEMMA FindListed ==
    ASSUME Listed, NEW s \in Sorted, Found(s)
    PROVE  Listed' /\ query'.limit = query.limit /\ query'.order = query.order
  <1>1. /\ query'.limit = query.limit /\ query'.order = query.order
        /\ query' \in Query /\ query'.page \in 1..MaxInt
    <2>1. CASE query' = query
      BY <2>1 DEF Listed, TypeOK
    <2>2. CASE query.page # MaxInt /\ query' = [query EXCEPT !.page = query.page + 1]
      <3>1. query \in Query /\ query.page + 1 \in 1..MaxInt
        BY <2>2, QueryFacts, Limits DEF Listed, TypeOK
      <3> QED
        BY <2>2, <3>1 DEF Query
    <2> QED
      BY <2>1, <2>2 DEF Found
  <1>2. /\ reply'.items = ThePage(s) /\ reply' \in Page
    <2>1. ThePage(s) \in Seq(Rows)
      BY PageFacts
    <2>2. TotalPages(total, query.limit) \in Nat /\ total \in Nat
      BY QueryFacts, PagesAreNat
    <2>3. query.page \in 1..MaxInt /\ quiet \in BOOLEAN
      BY DEF Listed, TypeOK
    <2> HIDE DEF ThePage
    <2> QED
      BY <2>1, <2>2, <2>3 DEF Found, Page
  <1>3. seen' \subseteq Rows
    <2>1. \A i \in 1..Len(ThePage(s)) : ThePage(s)[i] \in Rows
      BY PageFacts, ElementOfSeq
    <2> QED
      BY <2>1 DEF Found, Listed, TypeOK
  <1>4. pc' \in {"count", "done"} /\ calm' \in BOOLEAN
    BY DEF Found, Listed, TypeOK
  <1>5. Len(reply'.items) <= query'.limit
    BY <1>1, <1>2, PageFacts
  <1>6. TypeOK'
    BY <1>1, <1>2, <1>3, <1>4, <1>5 DEF Found, Listed, TypeOK
  <1>7. Stages'
    BY <1>4 DEF Stages
  <1> QED
    BY <1>1, <1>6, <1>7 DEF Listed

-----------------------------------------------------------------------------
(* The pages and their number.                                             *)

(* How many of n rows are on page p of l rows each, and how many pages     *)
(* there are.                                                              *)
LEMMA PageArithmetic ==
    ASSUME NEW n \in Nat, NEW l \in Nat, l > 0, NEW p \in Nat, p > 0
    PROVE  LET before == (p - 1) * l
               len == IF before >= n THEN 0 ELSE IF before + l < n THEN l ELSE n - before
               pages == TotalPages(n, l)
           IN  /\ len = 0 <=> p > pages
               /\ p < pages => len = l
               /\ p = pages => len = n - before
  <1> DEFINE before == (p - 1) * l
             len == IF before >= n THEN 0 ELSE IF before + l < n THEN l ELSE n - before
             q == (n + l - 1) \div l
  <1>1. before \in Nat /\ before + l = p * l
    BY Successor
  <1>2. CASE n = 0
    <2>1. TotalPages(n, l) = 0 /\ len = 0
      BY <1>1, <1>2 DEF TotalPages
    <2> QED
      BY <2>1
  <1>3. CASE n > 0
    <2>1. TotalPages(n, l) = q
      BY <1>3 DEF TotalPages
    <2>2. n + l - 1 \in Nat
      OBVIOUS
    <2>3. q \in Nat /\ q * l <= n + l - 1 /\ n + l - 1 < q * l + l
      BY <2>2, Division
    <2> HIDE DEF q
    <2>4. PICK r \in Nat : r = q * l
      BY <2>3, ProductIsNat
    <2>5. n <= r /\ r < n + l
      BY <2>3, <2>4
    <2>6. p > q => before >= r
      <3> SUFFICES ASSUME p > q PROVE before >= r
        OBVIOUS
      <3>1. p - 1 \in Nat /\ q <= p - 1
        BY <2>3
      <3> QED
        BY <2>3, <2>4, <3>1, ProductGrows
    <2>7. p <= q => before + l <= r
      BY <1>1, <2>3, <2>4, ProductGrows
    <2>8. p < q => before + l + l <= r
      <3> SUFFICES ASSUME p < q PROVE before + l + l <= r
        OBVIOUS
      <3>1. p + 1 \in Nat /\ p + 1 <= q /\ (p + 1) * l = p * l + l
        BY <2>3, Successor
      <3>2. (p + 1) * l <= q * l
        BY <2>3, <3>1, ProductGrows
      <3> QED
        BY <1>1, <2>4, <3>1, <3>2
    <2>9. p = q => before + l = r
      BY <1>1, <2>4
    <2> HIDE DEF before
    <2>10. len = 0 <=> p > q
      BY <1>1, <2>3, <2>5, <2>6, <2>7
    <2>11. p < q => len = l
      BY <1>1, <2>3, <2>5, <2>8
    <2>12. p = q => len = n - before
      BY <1>1, <2>3, <2>5, <2>9
    <2> QED
      BY <2>1, <2>10, <2>11, <2>12 DEF before
  <1> QED
    BY <1>2, <1>3

LEMMA FindFits ==
    ASSUME Listed, NEW s \in Sorted, Found(s)
    PROVE  PagesFitCount'
  <1> DEFINE before == (query.page - 1) * query.limit
             pages == TotalPages(total, query.limit)
  <1>1. /\ reply'.items = ThePage(s) /\ reply'.page = query.page /\ reply'.count = total
        /\ reply'.totalPages = pages /\ reply'.quiet = quiet /\ query'.limit = query.limit
    BY FindListed DEF Found
  <1> SUFFICES ASSUME quiet, before <= MaxInt
               PROVE  /\ ThePage(s) = <<>> <=> query.page > pages
                      /\ query.page < pages => Len(ThePage(s)) = query.limit
                      /\ query.page = pages => Len(ThePage(s)) = total - before
    BY <1>1 DEF PagesFitCount
  <1>2. total = Len(s)
    BY PageFacts DEF Found, Listed, Stages
  <1>3. before \in Nat
    <2>1. query.page - 1 \in Nat /\ query.limit \in Nat
      BY QueryFacts
    <2> QED
      BY <2>1, ProductIsNat
  <1>4. From = before
    <2>1. Offset(query) = before
      BY <1>3, WrapsNothing DEF Offset
    <2> QED
      BY <1>3, <2>1 DEF From
  <1>5. Len(ThePage(s)) = IF before >= total THEN 0
                          ELSE IF before + query.limit < total THEN query.limit
                          ELSE total - before
    BY <1>2, <1>4, PageFacts
  <1>6. ThePage(s) = <<>> <=> Len(ThePage(s)) = 0
    BY PageFacts, EmptySeq
  <1>7. /\ Len(ThePage(s)) = 0 <=> query.page > pages
        /\ query.page < pages => Len(ThePage(s)) = query.limit
        /\ query.page = pages => Len(ThePage(s)) = total - before
    <2>1. /\ total \in Nat
          /\ query.limit \in Nat /\ query.limit > 0 /\ query.page \in Nat /\ query.page > 0
      BY QueryFacts
    <2>2. LET len == IF before >= total THEN 0
                     ELSE IF before + query.limit < total THEN query.limit
                     ELSE total - before
          IN  /\ len = 0 <=> query.page > pages
              /\ query.page < pages => len = query.limit
              /\ query.page = pages => len = total - before
      BY <2>1, PageArithmetic
    <2> QED
      BY <1>5, <2>2
  <1> QED
    BY <1>6, <1>7

-----------------------------------------------------------------------------
(* The walk.                                                               *)

(* The rows that a query's order puts before t, and how many there are.    *)
Ahead(u, t) == IF query.order = "earliest" THEN Key(u) < Key(t) ELSE Key(u) > Key(t)
Earlier(t) == {u \in Matching : Ahead(u, t)}
Rank(t) == Cardinality(Earlier(t))

(* The rows that the client is owed.                                       *)
Owed == start \ (IF query.order = "lastUpdated" THEN touched ELSE {})

(* While the list is calm, every such row is listed, and has been seen or  *)
(* has at least as many rows before it as the pages so far have shown: a   *)
(* row's rank never decreases.                                             *)
Walk ==
    calm =>
        /\ Reading => \A t \in Owed : /\ t \in Matching
                                      /\ t \in seen \/ Rank(t) >= (query.page - 1) * query.limit
        /\ pc = "done" /\ reply.code = "ok" => Owed \subseteq seen

LEMMA KeyType ==
    ASSUME TypeOK, NEW t \in Rows
    PROVE  Key(t) \in Int
  BY RowFacts DEF Key

LEMMA EarlierFacts ==
    ASSUME NEW t
    PROVE  /\ Earlier(t) \in SUBSET Matching /\ IsFiniteSet(Earlier(t))
           /\ Rank(t) \in Nat
  <1>1. Earlier(t) \in SUBSET Matching
    BY DEF Earlier
  <1> QED
    BY <1>1, MatchingIsFinite, FS_Subset, FS_CardinalityType DEF Rank

(* Without twins a row's rank is its place in whatever the database sorts. *)
LEMMA RankIsPlace ==
    ASSUME TypeOK, ~Twins, NEW s \in Sorted, NEW i \in 1..Len(s)
    PROVE  Rank(s[i]) = i - 1
  <1>1. /\ s \in Seq(Matching) /\ Len(s) \in Nat
        /\ \A j \in 1..Len(s) : s[j] \in Matching
        /\ \A j, k \in 1..Len(s) : s[j] = s[k] => j = k
        /\ \A u \in Matching : \E j \in 1..Len(s) : s[j] = u
    <2>1. s \in SetToSeqs(Matching)
      BY DEF Sorted
    <2> QED
      BY <2>1, MatchingIsFinite, SequenceOf
  <1>2. \A j, k \in 1..Len(s) : j < k => Before(s[j], s[k])
    BY DEF Sorted
  <1>3. ASSUME NEW j \in 1..Len(s), j < i
        PROVE  s[j] \in Earlier(s[i])
    <2>1. s[j] \in Matching /\ s[i] \in Matching /\ s[j] # s[i] /\ Before(s[j], s[i])
      BY <1>1, <1>2, <1>3
    <2>2. Key(s[j]) # Key(s[i])
      BY <2>1 DEF Twins
    <2>3. Key(s[j]) \in Int /\ Key(s[i]) \in Int
      BY <2>1, KeyType DEF Matching
    <2> QED
      BY <2>1, <2>2, <2>3 DEF Earlier, Ahead, Before
  <1>4. ASSUME NEW u \in Earlier(s[i])
        PROVE  \E j \in 1..(i - 1) : s[j] = u
    <2>1. u \in Matching /\ Ahead(u, s[i])
      BY DEF Earlier
    <2>2. PICK j \in 1..Len(s) : s[j] = u
      BY <1>1, <2>1
    <2>3. Key(u) \in Int /\ Key(s[i]) \in Int
      BY <1>1, <2>1, KeyType DEF Matching
    <2>4. ~(j > i)
      <3> SUFFICES ASSUME j > i PROVE FALSE
        OBVIOUS
      <3>1. Before(s[i], u)
        BY <1>2, <2>2
      <3> QED
        BY <2>1, <2>3, <3>1 DEF Ahead, Before
    <2>5. j # i
      BY <2>1, <2>2, <2>3 DEF Ahead
    <2>6. j \in Int /\ i \in Int /\ 1 <= j
      BY <1>1
    <2>7. j \in 1..(i - 1)
      BY <2>4, <2>5, <2>6
    <2> QED
      BY <2>2, <2>7
  <1>5. Earlier(s[i]) = Prefix(s, i)
    <2>1. ASSUME NEW u \in Earlier(s[i])
          PROVE  u \in Prefix(s, i)
      BY <1>4 DEF Prefix
    <2>2. ASSUME NEW j \in 1..(i - 1)
          PROVE  s[j] \in Earlier(s[i])
      BY <1>1, <1>3
    <2> QED
      BY <2>1, <2>2 DEF Prefix
  <1>6. Cardinality(Prefix(s, i)) = i - 1
    BY <1>1, PrefixCount
  <1> QED
    BY <1>5, <1>6 DEF Rank

(* The table has fewer rows than the largest int.                          *)
TableFits == Cardinality(Rows) <= MaxInt

(* A page shows the rows whose rank falls in it, unless there are twins;   *)
(* rows of a higher rank are left only beyond a full page that is not the  *)
(* last an int can number.                                                 *)
LEMMA PageShowsRanks ==
    ASSUME TableFits, Listed, ~Twins, NEW s \in Sorted, NEW t \in Matching,
           Rank(t) >= (query.page - 1) * query.limit
    PROVE  \/ \E i \in 1..Len(ThePage(s)) : ThePage(s)[i] = t
           \/ /\ Len(ThePage(s)) = query.limit /\ query.page # MaxInt
              /\ Rank(t) >= (query.page - 1) * query.limit + query.limit
  <1> DEFINE before == (query.page - 1) * query.limit
  <1>1. PICK i \in 1..Len(s) : s[i] = t
    <2>1. s \in SetToSeqs(Matching)
      BY DEF Sorted
    <2> QED
      BY <2>1, MatchingIsFinite, SequenceOf
  <1>2. Rank(t) = i - 1 /\ i \in Nat /\ i > 0 /\ i <= Len(s) /\ Len(s) \in Nat
    BY <1>1, RankIsPlace, PageFacts DEF Listed
  <1>3. Len(s) <= MaxInt
    BY MatchingIsFinite, PageFacts, Limits DEF TableFits
  <1>4. before \in Nat
    <2>1. query.page - 1 \in Nat /\ query.limit \in Nat
      BY QueryFacts
    <2> QED
      BY <2>1, ProductIsNat
  <1>5. From = before
    <2>1. before <= MaxInt
      BY <1>2, <1>3, <1>4, Limits
    <2>2. Offset(query) = before
      BY <1>4, <2>1, WrapsNothing DEF Offset
    <2> QED
      BY <1>4, <2>2 DEF From
  <1>6. /\ before < i
        /\ Len(ThePage(s)) = IF before >= Len(s) THEN 0
                             ELSE IF before + query.limit < Len(s) THEN query.limit
                             ELSE Len(s) - before
        /\ \A j \in 1..Len(ThePage(s)) : ThePage(s)[j] = s[before + j]
        /\ query.limit \in Nat /\ query.limit > 0
    BY <1>2, <1>4, <1>5, PageFacts, QueryFacts
  <1>7. query.page = MaxInt => i <= before + query.limit
    <2> SUFFICES ASSUME query.page = MaxInt PROVE i <= before + query.limit
      OBVIOUS
    <2>1. before + query.limit = MaxInt * query.limit
      BY QueryFacts, Successor, Limits
    <2>2. MaxInt * 1 <= MaxInt * query.limit
      BY <1>6, Limits
    <2> QED
      BY <1>2, <1>3, <1>4, <1>6, <2>1, <2>2, Limits
  <1> HIDE DEF before
  <1>8. CASE i <= before + query.limit
    <2>1. i - before \in 1..Len(ThePage(s))
      BY <1>2, <1>4, <1>6, <1>8
    <2>2. before + (i - before) = i
      BY <1>2, <1>4
    <2>3. ThePage(s)[i - before] = t
      BY <1>1, <1>6, <2>1, <2>2
    <2> QED
      BY <2>1, <2>3
  <1>9. CASE ~(i <= before + query.limit)
    <2>1. Len(ThePage(s)) = query.limit
      BY <1>2, <1>4, <1>6, <1>9
    <2>2. Rank(t) >= before + query.limit
      BY <1>2, <1>4, <1>6, <1>9
    <2> QED
      BY <1>7, <1>9, <2>1, <2>2 DEF before
  <1> QED
    BY <1>8, <1>9

LEMMA FindWalks ==
    ASSUME TableFits, Listed, Walk, NEW s \in Sorted, Found(s)
    PROVE  Walk'
  <1> SUFFICES ASSUME calm'
               PROVE  /\ Reading' => \A t \in Owed' :
                            /\ t \in Matching'
                            /\ \/ t \in seen'
                               \/ Rank(t)' >= ((query.page - 1) * query.limit)'
                      /\ pc' = "done" => Owed' \subseteq seen'
    BY DEF Walk
  <1>1. calm /\ ~Twins /\ Reading
    BY DEF Found, Reading
  <1>2. query'.limit = query.limit /\ query'.order = query.order
    BY FindListed
  <1>3. Owed' = Owed /\ Matching' = Matching
    BY <1>2 DEF Found, Owed, Matching
  <1>4. \A t : Rank(t)' = Rank(t)
    BY <1>2, <1>3 DEF Found, Rank, Earlier, Ahead, Key
  <1>5. ASSUME NEW t \in Owed
        PROVE  /\ t \in Matching
               /\ \/ t \in seen'
                  \/ /\ Len(ThePage(s)) = query.limit /\ query.page # MaxInt
                     /\ Rank(t) >= (query.page - 1) * query.limit + query.limit
    <2>1. t \in Matching /\ (t \in seen \/ Rank(t) >= (query.page - 1) * query.limit)
      BY <1>1 DEF Walk
    <2>2. CASE t \in seen
      BY <2>1, <2>2 DEF Found
    <2>3. CASE Rank(t) >= (query.page - 1) * query.limit
      <3>1. \/ \E i \in 1..Len(ThePage(s)) : ThePage(s)[i] = t
            \/ /\ Len(ThePage(s)) = query.limit /\ query.page # MaxInt
               /\ Rank(t) >= (query.page - 1) * query.limit + query.limit
        BY <1>1, <2>1, <2>3, PageShowsRanks
      <3> QED
        BY <2>1, <3>1 DEF Found
    <2> QED
      BY <2>1, <2>2, <2>3
  <1>6. CASE /\ Len(ThePage(s)) < query.limit \/ query.page = MaxInt
             /\ pc' = "done" /\ query' = query
    <2>1. ~(Len(ThePage(s)) = query.limit /\ query.page # MaxInt)
      BY <1>6, PageFacts, QueryFacts
    <2> QED
      BY <1>3, <1>5, <1>6, <2>1 DEF Reading
  <1>7. CASE /\ ~(Len(ThePage(s)) < query.limit) /\ query.page # MaxInt
             /\ pc' = "count" /\ query' = [query EXCEPT !.page = query.page + 1]
    <2>1. query'.page = query.page + 1
      BY <1>7 DEF Listed, TypeOK, Query
    <2>2. (query'.page - 1) * query'.limit = (query.page - 1) * query.limit + query.limit
      <3>1. /\ query'.page - 1 = (query.page - 1) + 1
            /\ query.page - 1 \in Int /\ query.limit \in Int
        BY <2>1, QueryFacts
      <3> QED
        BY <1>2, <3>1, Successor
    <2> QED
      BY <1>3, <1>4, <1>5, <1>7, <2>2
  <1> QED
    BY <1>6, <1>7 DEF Found

(* What others write pushes no row that the client is owed forward.        *)
LEMMA ChangeWalks ==
    ASSUME Listed, Listed', Walk, NEW c \in Rows, NEW new, Follows(c, new), Change(c, new)
    PROVE  Walk'
  <1>1. /\ Reading /\ Reading' /\ row' = [row EXCEPT ![c] = new]
        /\ touched' = touched \cup {c} /\ query' = query /\ seen' = seen /\ start' = start
        /\ pc' # "done"
    BY DEF Change, Reading
  <1> SUFFICES ASSUME calm', NEW t \in Owed'
               PROVE  /\ t \in Matching'
                      /\ t \in seen \/ Rank(t)' >= (query.page - 1) * query.limit
    BY <1>1 DEF Walk
  <1>2. calm /\ (row[c].state = "listed" => new.state = "listed")
    BY DEF Change
  <1>3. t \in Owed
    BY <1>1 DEF Owed
  <1>4. t \in Matching /\ (t \in seen \/ Rank(t) >= (query.page - 1) * query.limit)
    BY <1>1, <1>2, <1>3 DEF Walk
  <1>5. /\ row'[c] = new /\ \A u \in Rows \ {c} : row'[u] = row[u]
    BY <1>1 DEF Listed, TypeOK
  <1>6. Matching \subseteq Matching'
    BY <1>2, <1>5 DEF Matching
  <1>7. Key(t)' = Key(t)
    <2>1. CASE t # c
      BY <1>1, <1>4, <1>5, <2>1 DEF Key, Matching
    <2>2. CASE t = c
      <3>1. query.order # "lastUpdated"
        BY <1>1, <2>2 DEF Owed
      <3>2. new.created = row[c].created
        BY <1>4, <2>2 DEF Follows, Matching
      <3> QED
        BY <1>1, <1>5, <2>2, <3>1, <3>2 DEF Key
    <2> QED
      BY <2>1, <2>2
  <1>8. ASSUME NEW u \in Earlier(t)
        PROVE  u \in Earlier(t)'
    <2>1. u \in Matching /\ u \in Rows /\ Ahead(u, t) /\ t \in Rows
      BY <1>4 DEF Earlier, Matching
    <2>2. Key(u) \in Int /\ Key(t) \in Int /\ Key(u)' \in Int
      <3>1. row'[u] \in TimedRow \cup {Absent}
        BY <2>1 DEF Listed, TypeOK
      <3>2. row'[u].created \in Int /\ row'[u].updated \in Int
        BY <3>1, Limits DEF TimedRow, Absent
      <3>3. Key(u)' \in Int
        BY <3>2 DEF Key
      <3> QED
        BY <2>1, <3>3, KeyType DEF Listed
    <2>3. Key(u)' >= Key(u) /\ (query.order # "lastUpdated" => Key(u)' = Key(u))
      <3>1. CASE u # c
        BY <1>1, <1>5, <2>1, <2>2, <3>1 DEF Key
      <3>2. CASE u = c
        <4>1. new.created = row[c].created /\ new.updated >= row[c].updated
          BY <2>1, <3>2 DEF Follows, Matching
        <4> QED
          BY <1>1, <1>5, <2>2, <3>2, <4>1 DEF Key
      <3> QED
        BY <3>1, <3>2
    <2>4. Ahead(u, t)'
      BY <1>1, <1>7, <2>1, <2>2, <2>3 DEF Ahead
    <2> QED
      BY <1>6, <2>1, <2>4 DEF Earlier
  <1>9. Rank(t)' >= Rank(t) /\ Rank(t) \in Nat /\ Rank(t)' \in Nat
    <2>1. IsFiniteSet(Earlier(t)') /\ Rank(t) \in Nat /\ Rank(t)' \in Nat
      <3>1. Matching' \in SUBSET Rows
        BY DEF Matching
      <3>2. Earlier(t)' \in SUBSET Rows
        BY <3>1 DEF Earlier
      <3>3. IsFiniteSet(Earlier(t)')
        BY <3>2, RowsAssumption, FS_Subset
      <3> QED
        BY <3>3, EarlierFacts, FS_CardinalityType DEF Rank
    <2>2. Earlier(t) \in SUBSET (Earlier(t)')
      BY <1>8
    <2>3. Cardinality(Earlier(t)) <= Cardinality(Earlier(t)')
      BY <2>1, <2>2, FS_Subset
    <2> QED
      BY <2>1, <2>3 DEF Rank
  <1>10. (query.page - 1) * query.limit \in Int
    BY QueryFacts
  <1> QED
    BY <1>4, <1>6, <1>9, <1>10

LEMMA AcceptWalks ==
    ASSUME Listed, NEW q \in Queries, NEW refusal \in {"badRequest", "notFound"},
           Accept(q, refusal)
    PROVE  Walk'
  <1>1. /\ reply'.code # "ok" /\ pc' \in {"count", "done"} /\ Listed'
    BY AcceptListed
  <1>2. /\ query' = Normalize(q) /\ start' = IF query'.page = 1 THEN Matching ELSE {}
        /\ row' = row
    BY DEF Accept
  <1>3. ASSUME NEW t \in Owed'
        PROVE  t \in Matching' /\ Rank(t)' >= (query'.page - 1) * query'.limit
    <2>1. t \in Matching /\ query'.page = 1
      BY <1>2 DEF Owed
    <2>2. Matching' = Matching
      BY <1>2 DEF Matching
    <2>3. query'.limit \in Int
      BY <1>1 DEF Listed, TypeOK
    <2>4. (query'.page - 1) * query'.limit = 0
      BY <2>1, <2>3
    <2>5. Rank(t)' \in Nat
      <3>1. Earlier(t)' \in SUBSET Matching
        BY <2>2 DEF Earlier
      <3>2. IsFiniteSet(Earlier(t)')
        BY <3>1, MatchingIsFinite, FS_Subset
      <3> QED
        BY <3>2, FS_CardinalityType DEF Rank
    <2> QED
      BY <2>1, <2>2, <2>4, <2>5
  <1> QED
    BY <1>1, <1>3 DEF Walk

(* Steps that leave the walk where it is.                                  *)
LEMMA WalkStands ==
    ASSUME Walk, UNCHANGED <<row, query, reply, seen, start, touched, calm>>,
           pc' = pc \/ (Reading /\ Reading')
    PROVE  Walk'
  <1>1. Owed' = Owed /\ Matching' = Matching
    BY DEF Owed, Matching
  <1>2. \A t : Rank(t)' = Rank(t)
    BY <1>1 DEF Rank, Earlier, Ahead, Key
  <1> QED
    BY <1>1, <1>2 DEF Walk, Reading

-----------------------------------------------------------------------------
(* Every step.                                                             *)

LEMMA ListingStep ==
    ASSUME Listed, [Next]_vars
    PROVE  /\ Listed'
           /\ PagesFitCount => PagesFitCount'
           /\ TableFits /\ Walk => Walk'
  <1>1. ASSUME NEW q \in Queries, ListTasks(q) \/ ListUsers(q) \/ GetTeams(q)
        PROVE  Listed' /\ PagesFitCount' /\ Walk'
    <2>1. PICK refusal \in {"badRequest", "notFound"} : Accept(q, refusal)
      BY <1>1 DEF ListTasks, ListUsers, GetTeams
    <2>2. Listed' /\ reply'.code # "ok" /\ Walk'
      BY <2>1, AcceptListed, AcceptWalks
    <2> QED
      BY <2>2 DEF PagesFitCount
  <1>2. CASE Count
    <2>1. /\ UNCHANGED <<row, query, reply, seen, start, touched, calm>>
          /\ Reading /\ Reading'
      BY <1>2 DEF Count, Reading
    <2> QED
      BY <1>2, <2>1, CountListed, WalkStands DEF PagesFitCount
  <1>3. CASE Find
    BY <1>3, FindFinds, FindListed, FindFits, FindWalks
  <1>4. CASE DbFails
    <2>1. Listed' /\ reply'.code = "error" /\ pc' = "done"
      BY <1>4, FailListed DEF DbFails, Refuse
    <2> QED
      BY <2>1 DEF PagesFitCount, Walk, Reading
  <1>5. CASE Others
    <2>1. PICK t \in Rows : \E new : Follows(t, new) /\ Change(t, new)
      BY <1>5, OthersChange
    <2>2. PICK new : Follows(t, new) /\ Change(t, new)
      BY <2>1
    <2>3. Listed'
      BY <2>2, ChangeListed DEF Follows
    <2>4. Walk => Walk'
      BY <2>2, <2>3, ChangeWalks
    <2>5. reply' = reply /\ query' = query
      BY <2>2 DEF Change
    <2> QED
      BY <2>3, <2>4, <2>5 DEF PagesFitCount
  <1>6. CASE UNCHANGED vars
    <2>1. /\ row' = row /\ pc' = pc /\ query' = query /\ total' = total /\ reply' = reply
          /\ seen' = seen /\ start' = start /\ touched' = touched /\ calm' = calm
          /\ quiet' = quiet
      BY <1>6 DEF vars
    <2>2. Listed'
      BY <2>1 DEF Listed, TypeOK, Stages, Matching
    <2> QED
      BY <2>1, <2>2, WalkStands DEF PagesFitCount
  <1> QED
    BY <1>1, <1>2, <1>3, <1>4, <1>5, <1>6 DEF Next

LEMMA InitWalks == Init => PagesFitCount /\ Walk
  <1> SUFFICES ASSUME Init PROVE PagesFitCount /\ Walk
    OBVIOUS
  <1>1. reply.code = "none" /\ pc = "idle"
    BY DEF Init, NoPage
  <1> QED
    BY <1>1 DEF PagesFitCount, Walk, Reading

(* Every variable keeps its shape; in particular a query that reaches the  *)
(* database has a limit and a page it can be cut by, whatever the client   *)
(* asked for (TypeOK).                                                     *)
THEOREM ListingTypes == Spec => []TypeOK
  <1>1. Listed => TypeOK
    BY DEF Listed
  <1>2. Listed /\ [Next]_vars => Listed'
    BY ListingStep
  <1> QED
    BY <1>1, <1>2, InitListed, PTL DEF Spec

(* A page, its count and the number of pages agree whenever nothing        *)
(* changed between the two queries (PagesFitCount), for tables of any size *)
(* and any limit: this is the arithmetic of rounding up.                   *)
THEOREM PagesMatchTheirCount == Spec => []PagesFitCount
  <1>1. Listed /\ PagesFitCount /\ [Next]_vars => (Listed /\ PagesFitCount)'
    BY ListingStep
  <1>2. Init => Listed /\ PagesFitCount
    BY InitListed, InitWalks
  <1> QED
    BY <1>1, <1>2, PTL DEF Spec

(* A client that reads page after page misses no row that was there from   *)
(* the start (WalkMissesNothing), whatever is created or changed between   *)
(* and during its requests, as long as no row leaves the list and no two   *)
(* listed rows have equal keys, in a table of at most MaxInt rows.         *)
THEOREM WalksMissNothing ==
    ASSUME TableFits
    PROVE  Spec => []WalkMissesNothing
  <1>1. Listed /\ Walk /\ [Next]_vars => (Listed /\ Walk)'
    BY ListingStep
  <1>2. Init => Listed /\ Walk
    BY InitListed, InitWalks
  <1>3. Walk => WalkMissesNothing
    BY DEF Walk, WalkMissesNothing, Owed
  <1> QED
    BY <1>1, <1>2, <1>3, PTL DEF Spec
=============================================================================
