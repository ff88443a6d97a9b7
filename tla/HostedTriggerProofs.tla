------------------------ MODULE HostedTriggerProofs ------------------------
(***************************************************************************)
(* No record is emitted twice and none is passed over by the listings      *)
(* modelled, unless one is overrun: for any number of forms, records and   *)
(* failed polls, as long as the remembered keys hold a burst of one        *)
(* timestamp.                                                              *)
(***************************************************************************)
EXTENDS HostedTrigger, FiniteSetTheorems, SequenceTheorems, TLAPS

---------------------------------------------------------------------------
(* The inductive invariant                                                 *)

\* Records are numbered by age; a burst of one timestamp is small.
BornInv ==
    /\ Len(born) <= MaxRecords
    /\ \A r \in Records : born[r] <= clock
    /\ \A r, s \in Records : r <= s => born[r] <= born[s]
    /\ \A t \in 0..MaxTime : Cardinality({r \in Records : born[r] = t}) <= MaxPerTick

\* Copies of a record in a sequence can be numbered from 1 to n.
AtMost(n, seq) ==
    \E copy \in [DOMAIN seq -> 1..n] :
        \A i, j \in DOMAIN seq : seq[i] = seq[j] /\ copy[i] = copy[j] => i = j

\* The remembered keys are in the order of their times; what was told is
\* behind the cursor or remembered.
CursorInv ==
    /\ cursor = NoCursor => poll = NoPoll /\ \A r \in 1..MaxRecords : told[r] = 0
    /\ cursor # NoCursor =>
          /\ baseline <= cursor.since /\ cursor.since <= clock
          /\ \A i \in DOMAIN cursor.seen :
                /\ told[cursor.seen[i]] > 0
                /\ \A j \in DOMAIN cursor.seen :
                      i < j => born[cursor.seen[i]] <= born[cursor.seen[j]]
          /\ \A r \in Records : told[r] > 0 =>
                /\ born[r] <= cursor.since
                /\ born[r] = cursor.since => r \in Keys(cursor.seen)
          /\ AtMost(Copies(listing), cursor.seen)

\* The list has read all that is pending and not newer than its newest row.
RowsComplete ==
    \A r \in Pending : (\E k \in Keys(poll.rows) : r <= k) => r \in Keys(poll.rows)

\* A list that goes through forms has of each form that it has read all that is
\* pending, or of which something newer is in the list when it has ended,
\* unless the form had more than its page or it went on too early.
FormsInv ==
    /\ \A i, j \in DOMAIN poll.rows : poll.rows[i] = poll.rows[j] => i = j
    /\ \A i \in DOMAIN poll.rows : listing.form[poll.rows[i]] \in 1..poll.pages
    /\ ~overrun => \A r \in Pending :
          /\ listing.form[r] \in 1..poll.pages
          /\ Cardinality(Form(listing.form[r])) <= listing.size
          /\ poll.ended => \E k \in Keys(poll.rows) : r <= k
          => r \in Keys(poll.rows)
    /\ poll.ended => poll.pages = listing.pages

\* An ascending listing has read the first pending records, one after the
\* other.  A descending one may repeat rows but leaves no gap above the depth
\* that its pages reach by now.
RowsInv ==
    /\ listing.order = "forms" => FormsInv
    /\ listing.order = "oldest" =>
          /\ \A i \in DOMAIN poll.rows : poll.rows[i] = Len(born) - Cardinality(Pending) + i
          /\ ~poll.ended => Len(poll.rows) = poll.pages * listing.size
    /\ listing.order = "newest" =>
          /\ \A r \in Records :
                r + poll.pages * listing.size > Len(born) /\ (\E k \in Keys(poll.rows) : r <= k)
                => r \in Keys(poll.rows)
          /\ poll.ended /\ poll.pages < listing.pages => RowsComplete
          /\ AtMost(poll.pages, poll.rows)

IInv ==
    /\ TypeOK /\ BornInv /\ CursorInv /\ (cursor # NoCursor => RowsInv)
    /\ ToldOnce /\ NothingSkipped
    /\ ~poll.ended => poll.pages < listing.pages
    /\ \A r \in 1..MaxRecords : r \notin Records => told[r] = 0

---------------------------------------------------------------------------
(* The operators the model is built from                                   *)

\* How many numbers an interval holds.
LEMMA IntervalSize ==
    ASSUME NEW a \in Nat, NEW b \in Nat
    PROVE  /\ IsFiniteSet(a..b)
           /\ a <= b + 1 => Cardinality(a..b) = b + 1 - a
<1>1. IsFiniteSet(a..b) /\ Cardinality(a..b) = IF a > b THEN 0 ELSE b - a + 1
  BY FS_Interval
<1>2. CASE a > b
  BY <1>1, <1>2
<1>3. CASE ~(a > b)
  <2>1. Cardinality(a..b) = b - a + 1
    BY <1>1, <1>3
  <2> QED
    BY <1>1, <2>1
<1> QED
  BY <1>2, <1>3

\* The types, a field at a time.
LEMMA Types ==
    ASSUME TriggerAssumption, TypeOK
    PROVE  /\ listing.size \in Nat \ {0} /\ listing.pages \in Nat \ {0}
           /\ Copies(listing) \in Nat /\ Records = 1..Len(born) /\ Len(born) \in Nat
           /\ \A r \in Records : born[r] \in 0..MaxTime
           /\ poll.pages \in Nat
           /\ poll.rows \in Seq(Records) /\ DOMAIN poll.rows = 1..Len(poll.rows)
           /\ Len(poll.rows) \in Nat /\ \A i \in DOMAIN poll.rows : poll.rows[i] \in Records
           /\ cursor # NoCursor =>
                 /\ cursor.since \in 0..MaxTime /\ cursor.seen \in Seq(Records)
                 /\ DOMAIN cursor.seen = 1..Len(cursor.seen) /\ Len(cursor.seen) \in Nat
                 /\ \A i \in DOMAIN cursor.seen : cursor.seen[i] \in Records
<1>1. listing.size \in Nat \ {0} /\ listing.pages \in Nat \ {0}
  BY DEF TriggerAssumption, TypeOK
<1>2. Copies(listing) \in Nat
  BY <1>1 DEF TriggerAssumption, TypeOK, Copies, Upto
<1>3. Records = 1..Len(born) /\ Len(born) \in Nat /\ \A r \in Records : born[r] \in 0..MaxTime
  <2>1. born \in Seq(0..MaxTime)
    BY DEF TypeOK
  <2>2. Len(born) \in Nat /\ born \in [1..Len(born) -> 0..MaxTime]
    BY <2>1, LenProperties
  <2> QED
    BY <2>2 DEF Records
<1>4. poll.pages \in Nat
  BY <1>1 DEF TypeOK
<1>5. /\ poll.rows \in Seq(Records) /\ DOMAIN poll.rows = 1..Len(poll.rows)
      /\ Len(poll.rows) \in Nat /\ \A i \in DOMAIN poll.rows : poll.rows[i] \in Records
  BY DEF TypeOK
<1>6. cursor # NoCursor =>
         /\ cursor.since \in 0..MaxTime /\ cursor.seen \in Seq(Records)
         /\ DOMAIN cursor.seen = 1..Len(cursor.seen) /\ Len(cursor.seen) \in Nat
         /\ \A i \in DOMAIN cursor.seen : cursor.seen[i] \in Records
  BY DEF TypeOK
<1> QED
  BY <1>1, <1>2, <1>3, <1>4, <1>5, <1>6

\* What a cursor leaves pending are the youngest records.
LEMMA PendingAreYoungest ==
    ASSUME TriggerAssumption, TypeOK, BornInv, cursor # NoCursor
    PROVE  /\ IsFiniteSet(Pending) /\ Cardinality(Pending) \in 0..Len(born)
           /\ \A r \in Records : r \in Pending <=> r > Len(born) - Cardinality(Pending)
<1>1. /\ Records = 1..Len(born) /\ Len(born) \in Nat /\ cursor.since \in Nat
      /\ \A r \in Records : born[r] \in Nat
  BY Types
<1>2. \A a, b \in Nat : /\ IsFiniteSet(a..b)
                        /\ a <= b + 1 => Cardinality(a..b) = b + 1 - a
  BY IntervalSize
<1>3. Pending \subseteq 1..Len(born)
  BY <1>1 DEF Pending
<1>4. IsFiniteSet(Pending) /\ Cardinality(Pending) \in Nat /\ Cardinality(Pending) <= Len(born)
  <2>1. IsFiniteSet(Pending) /\ Cardinality(Pending) <= Cardinality(1..Len(born))
    BY <1>1, <1>2, <1>3, FS_Subset
  <2>2. Cardinality(1..Len(born)) = Len(born)
    <3>1. 1 \in Nat /\ 1 <= Len(born) + 1
      BY <1>1
    <3>2. Cardinality(1..Len(born)) = Len(born) + 1 - 1
      BY <1>1, <1>2, <3>1
    <3> QED BY <1>1, <3>2
  <2>3. Cardinality(Pending) \in Nat /\ Cardinality(1..Len(born)) \in Nat
    BY <1>1, <1>2, <2>1, FS_CardinalityType
  <2> QED
    BY <1>1, <2>1, <2>2, <2>3
<1>5. ASSUME NEW r \in Records, r \in Pending
      PROVE  r > Len(born) - Cardinality(Pending)
  <2>1. r..Len(born) \subseteq Pending
    BY <1>1, <1>5 DEF Pending, BornInv
  <2>2. Cardinality(r..Len(born)) <= Cardinality(Pending)
    BY <1>4, <2>1, FS_Subset
  <2>3. Cardinality(r..Len(born)) = Len(born) - r + 1
    BY <1>1, <1>2
  <2> QED
    BY <1>1, <1>4, <2>2, <2>3
<1>6. ASSUME NEW r \in Records, r \notin Pending
      PROVE  r <= Len(born) - Cardinality(Pending)
  <2>1. Pending \subseteq (r + 1)..Len(born)
    <3> SUFFICES ASSUME NEW s \in Pending PROVE s \in (r + 1)..Len(born)
      OBVIOUS
    <3>1. s \in Records /\ born[s] >= cursor.since /\ born[r] < cursor.since
      BY <1>1, <1>6 DEF Pending
    <3>2. s <= r => born[s] <= born[r]
      BY <3>1 DEF BornInv
    <3> QED
      BY <1>1, <3>1, <3>2
  <2>2. Cardinality(Pending) <= Cardinality((r + 1)..Len(born))
    <3>1. IsFiniteSet((r + 1)..Len(born))
      BY <1>1, FS_Interval
    <3> QED
      BY <2>1, <3>1, FS_Subset
  <2>3. Cardinality((r + 1)..Len(born)) = Len(born) - r
    <3>1. r + 1 \in Nat /\ r + 1 <= Len(born) + 1
      BY <1>1
    <3>2. Cardinality((r + 1)..Len(born)) = Len(born) + 1 - (r + 1)
      BY <1>1, <1>2, <3>1
    <3> QED
      BY <1>1, <3>2
  <2> QED
    BY <1>1, <1>4, <2>2, <2>3
<1> QED
  BY <1>1, <1>4, <1>5, <1>6

\* A record belongs to a form that the list reads.
LEMMA FormTyped ==
    ASSUME TriggerAssumption, TypeOK, BornInv, NEW r \in Records
    PROVE  /\ listing.form[r] \in Nat \ {0}
           /\ listing.order = "forms" => listing.form[r] \in 1..listing.pages
<1>1. r \in 1..MaxRecords
  BY Types DEF BornInv, TriggerAssumption
<1>2. listing.form[r] \in Nat \ {0} /\ listing.pages \in Nat
  BY <1>1 DEF TypeOK, TriggerAssumption
<1>3. listing.order = "forms" => listing.form[r] <= listing.pages
  BY <1>1 DEF TypeOK, TriggerAssumption
<1> QED
  BY <1>2, <1>3

\* What is pending of a form is finite.
LEMMA FormsAreFinite ==
    ASSUME TriggerAssumption, TypeOK, BornInv, cursor # NoCursor
    PROVE  \A n : IsFiniteSet(Form(n)) /\ Cardinality(Form(n)) \in Nat
<1> TAKE n
<1>1. Form(n) \subseteq Pending /\ IsFiniteSet(Pending)
  BY PendingAreYoungest DEF Form
<1>2. IsFiniteSet(Form(n))
  BY <1>1, FS_Subset
<1> QED
  BY <1>2, FS_CardinalityType

\* Before orders the positions of the list totally.
LEMMA BeforeIsTotal ==
    ASSUME TriggerAssumption, TypeOK, NEW i \in DOMAIN poll.rows, NEW j \in DOMAIN poll.rows,
           NEW k \in DOMAIN poll.rows
    PROVE  /\ ~Before(i, i) /\ (i # j => Before(i, j) \/ Before(j, i))
           /\ Before(i, j) => born[poll.rows[i]] <= born[poll.rows[j]] /\ ~Before(j, i)
           /\ Before(i, j) /\ Before(j, k) => Before(i, k)
<1>1. i \in Nat /\ j \in Nat /\ k \in Nat
  <2>1. DOMAIN poll.rows = 1..Len(poll.rows) /\ Len(poll.rows) \in Nat
    BY Types
  <2> QED
    BY <2>1
<1>2. \A r \in Records : born[r] \in Nat
  BY Types
<1>3. born[poll.rows[i]] \in Nat /\ born[poll.rows[j]] \in Nat /\ born[poll.rows[k]] \in Nat
  BY <1>2, Types
<1> QED
  BY <1>1, <1>3 DEF Before

\* The positions that pass the filter are finitely many.
LEMMA LeftIsFinite ==
    ASSUME TriggerAssumption, TypeOK
    PROVE  /\ IsFiniteSet(Left) /\ Cardinality(Left) \in Nat /\ Left \subseteq DOMAIN poll.rows
           /\ IsFiniteSet(1..Cardinality(Left))
           /\ Cardinality(1..Cardinality(Left)) = Cardinality(Left)
<1>1. Left \subseteq DOMAIN poll.rows /\ DOMAIN poll.rows = 1..Len(poll.rows)
      /\ Len(poll.rows) \in Nat
  BY Types DEF Left
<1>2. IsFiniteSet(1..Len(poll.rows))
  BY <1>1, FS_Interval
<1>3. IsFiniteSet(Left)
  BY <1>1, <1>2, FS_Subset
<1>4. Cardinality(Left) \in Nat
  BY <1>3, FS_CardinalityType
<1>5. IsFiniteSet(1..Cardinality(Left)) /\ Cardinality(1..Cardinality(Left)) = Cardinality(Left)
  BY <1>4, FS_Interval
<1> QED
  BY <1>1, <1>3, <1>4, <1>5

\* The position before another has the lower place.
LEMMA PlaceGrows ==
    ASSUME TriggerAssumption, TypeOK, NEW i \in Left, NEW j \in Left, Before(i, j)
    PROVE  Place(i) < Place(j)
<1> DEFINE upto(k) == {h \in Left : h = k \/ Before(h, k)}
<1>1. Left \subseteq DOMAIN poll.rows /\ IsFiniteSet(Left)
  BY LeftIsFinite
<1>2. upto(i) \subseteq upto(j)
  <2> SUFFICES ASSUME NEW h \in upto(i) PROVE Before(h, j)
    OBVIOUS
  <2>1. CASE h = i
    BY <2>1
  <2>2. CASE Before(h, i)
    <3>1. h \in DOMAIN poll.rows /\ i \in DOMAIN poll.rows /\ j \in DOMAIN poll.rows
      BY <1>1
    <3> QED
      BY <2>2, <3>1, BeforeIsTotal
  <2> QED
    BY <2>1, <2>2
<1>3. j \in upto(j) /\ j \notin upto(i)
  <2>1. ~Before(j, i) /\ ~Before(i, i) /\ ~Before(j, j)
    BY <1>1, BeforeIsTotal
  <2> QED
    BY <2>1
<1>4. IsFiniteSet(upto(i)) /\ IsFiniteSet(upto(j))
  BY <1>1, FS_Subset
<1>5. Cardinality(upto(i)) <= Cardinality(upto(j)) /\ Cardinality(upto(i)) # Cardinality(upto(j))
  BY <1>2, <1>3, <1>4, FS_Subset
<1>6. Cardinality(upto(i)) \in Nat /\ Cardinality(upto(j)) \in Nat
  BY <1>4, FS_CardinalityType
<1> HIDE DEF upto
<1>7. Cardinality(upto(i)) < Cardinality(upto(j))
  BY <1>5, <1>6
<1> QED
  BY <1>7 DEF Place, upto

\* The places are numbered from 1 to the number of rows that are left.
LEMMA PlacesAreNumbered ==
    ASSUME TriggerAssumption, TypeOK
    PROVE  /\ \A i \in Left : Place(i) \in 1..Cardinality(Left)
           /\ \A i, j \in Left : Place(i) = Place(j) => i = j
           /\ \A k \in 1..Cardinality(Left) : \E i \in Left : Place(i) = k
<1>1. /\ IsFiniteSet(Left) /\ Cardinality(Left) \in Nat /\ Left \subseteq DOMAIN poll.rows
      /\ IsFiniteSet(1..Cardinality(Left))
      /\ Cardinality(1..Cardinality(Left)) = Cardinality(Left)
  BY LeftIsFinite
<1>2. \A i \in Left : Place(i) \in 1..Cardinality(Left)
  <2> TAKE i \in Left
  <2> DEFINE upto == {h \in Left : h = i \/ Before(h, i)}
  <2>1. IsFiniteSet(upto) /\ Cardinality(upto) <= Cardinality(Left) /\ upto # {}
    BY <1>1, FS_Subset
  <2>2. Cardinality(upto) \in Nat /\ Cardinality(upto) # 0
    BY <2>1, FS_CardinalityType, FS_EmptySet
  <2>3. Place(i) = Cardinality(upto)
    BY DEF Place
  <2> HIDE DEF upto
  <2> QED
    BY <1>1, <2>1, <2>2, <2>3
<1>3. \A i, j \in Left : Place(i) = Place(j) => i = j
  <2> SUFFICES ASSUME NEW i \in Left, NEW j \in Left, i # j PROVE Place(i) # Place(j)
    OBVIOUS
  <2>1. Before(i, j) \/ Before(j, i)
    BY <1>1, BeforeIsTotal
  <2>2. Place(i) < Place(j) \/ Place(j) < Place(i)
    BY <2>1, PlaceGrows
  <2>3. Place(i) \in Nat /\ Place(j) \in Nat
    BY <1>1, <1>2
  <2> QED
    BY <2>2, <2>3
<1>4. \A k \in 1..Cardinality(Left) : \E i \in Left : Place(i) = k
  <2> DEFINE place == [i \in Left |-> Place(i)]
  <2>1. place \in [Left -> 1..Cardinality(Left)]
    BY <1>2
  <2>2. \A i, j \in Left : place[i] = place[j] => i = j
    BY <1>3
  <2>3. place \in Injection(Left, 1..Cardinality(Left))
    <3> HIDE DEF place
    <3> QED
      BY <2>1, <2>2 DEF Injection, IsInjective
  <2>4. place \in Surjection(Left, 1..Cardinality(Left))
    <3> HIDE DEF place
    <3> QED
      BY <1>1, <2>3, FS_Injection
  <2>5. \A k \in 1..Cardinality(Left) : \E i \in Left : place[i] = k
    <3> HIDE DEF place
    <3> QED
      BY <2>4 DEF Surjection
  <2> QED
    BY <2>5
<1> QED
  BY <1>2, <1>3, <1>4

\* The sort loses and repeats no position, and orders the records by time.
LEMMA FreshIsSorted ==
    ASSUME TriggerAssumption, TypeOK
    PROVE  /\ Fresh \in Seq(Records) /\ Len(Fresh) \in Nat /\ DOMAIN Fresh = 1..Len(Fresh)
           /\ \A h, k \in DOMAIN Fresh : h < k => born[Fresh[h]] <= born[Fresh[k]]
           /\ \E at \in [DOMAIN Fresh -> Left] :
                 /\ \A k \in DOMAIN Fresh : Fresh[k] = poll.rows[at[k]]
                 /\ \A h, k \in DOMAIN Fresh : at[h] = at[k] => h = k
                 /\ \A i \in Left : \E k \in DOMAIN Fresh : at[k] = i
<1>1. Cardinality(Left) \in Nat /\ Left \subseteq DOMAIN poll.rows
  BY LeftIsFinite
<1>2. \A i \in DOMAIN poll.rows : poll.rows[i] \in Records
  BY Types
<1> DEFINE at == [k \in 1..Cardinality(Left) |-> CHOOSE i \in Left : Place(i) = k]
<1>3. at \in [1..Cardinality(Left) -> Left] /\ \A k \in 1..Cardinality(Left) : Place(at[k]) = k
  <2>1. \A k \in 1..Cardinality(Left) :
           /\ (CHOOSE i \in Left : Place(i) = k) \in Left
           /\ Place(CHOOSE i \in Left : Place(i) = k) = k
    BY PlacesAreNumbered
  <2> QED
    BY <2>1
<1>4. Fresh = [k \in 1..Cardinality(Left) |-> poll.rows[at[k]]]
  BY DEF Fresh
<1> HIDE DEF at
<1>5. Fresh \in [1..Cardinality(Left) -> Records]
  BY <1>1, <1>2, <1>3, <1>4
<1>6. /\ Fresh \in Seq(Records) /\ Len(Fresh) = Cardinality(Left)
      /\ DOMAIN Fresh = 1..Cardinality(Left)
  BY <1>1, <1>5
<1>7. \A h, k \in DOMAIN Fresh : h < k => born[Fresh[h]] <= born[Fresh[k]]
  <2> SUFFICES ASSUME NEW h \in DOMAIN Fresh, NEW k \in DOMAIN Fresh, h < k
               PROVE  born[Fresh[h]] <= born[Fresh[k]]
    OBVIOUS
  <2>1. at[h] \in Left /\ at[k] \in Left /\ Place(at[h]) = h /\ Place(at[k]) = k
    BY <1>3, <1>6
  <2>2. ~Before(at[k], at[h])
    <3>1. h \in Nat /\ k \in Nat
      BY <1>1, <1>6
    <3>2. Before(at[k], at[h]) => k < h
      BY <2>1, PlaceGrows
    <3> QED
      BY <3>1, <3>2
  <2>3. at[h] # at[k]
    BY <1>1, <1>6, <2>1
  <2>4. Before(at[h], at[k])
    BY <1>1, <2>1, <2>2, <2>3, BeforeIsTotal
  <2>5. born[poll.rows[at[h]]] <= born[poll.rows[at[k]]]
    BY <1>1, <2>1, <2>4, BeforeIsTotal
  <2> QED
    BY <1>4, <1>6, <2>5
<1>8. \A i \in Left : \E k \in DOMAIN Fresh : at[k] = i
  <2> TAKE i \in Left
  <2>1. Place(i) \in DOMAIN Fresh
    BY <1>6, PlacesAreNumbered
  <2>2. at[Place(i)] \in Left /\ Place(at[Place(i)]) = Place(i)
    BY <1>3, <1>6, <2>1
  <2>3. at[Place(i)] = i
    BY <2>2, PlacesAreNumbered
  <2> QED
    BY <2>1, <2>3
<1>9. \A h, k \in DOMAIN Fresh : at[h] = at[k] => h = k
  BY <1>3, <1>6
<1>10. at \in [DOMAIN Fresh -> Left] /\ \A k \in DOMAIN Fresh : Fresh[k] = poll.rows[at[k]]
  BY <1>3, <1>4, <1>6
<1> QED
  BY <1>1, <1>6, <1>7, <1>8, <1>9, <1>10

---------------------------------------------------------------------------
(* How often a sequence repeats an element                                 *)

\* A selection repeats nothing more often.
LEMMA AtMostSelected ==
    ASSUME NEW n, NEW s, NEW t, AtMost(n, s), NEW f \in [DOMAIN t -> DOMAIN s],
           \A i \in DOMAIN t : t[i] = s[f[i]],
           \A i, j \in DOMAIN t : f[i] = f[j] => i = j
    PROVE  AtMost(n, t)
<1>1. PICK copy \in [DOMAIN s -> 1..n] :
         \A i, j \in DOMAIN s : s[i] = s[j] /\ copy[i] = copy[j] => i = j
  BY DEF AtMost
<1> DEFINE part == [i \in DOMAIN t |-> copy[f[i]]]
<1>2. part \in [DOMAIN t -> 1..n]
  OBVIOUS
<1>3. \A i, j \in DOMAIN t : t[i] = t[j] /\ part[i] = part[j] => i = j
  BY <1>1
<1> QED
  BY <1>2, <1>3 DEF AtMost

\* Nor does a stretch of it.
LEMMA AtMostStretch ==
    ASSUME NEW n, NEW R, NEW s \in Seq(R), NEW m \in Nat \ {0}, NEW k \in Nat, k <= Len(s),
           AtMost(n, s)
    PROVE  AtMost(n, SubSeq(s, m, k))
<1>1. Len(s) \in Nat /\ DOMAIN s = 1..Len(s) /\ \A i \in 1..Len(s) : s[i] \in R
  BY LenProperties, ElementOfSeq
<1> DEFINE t == SubSeq(s, m, k)
           f == [i \in DOMAIN t |-> m + i - 1]
<1>2. \A i \in m..k : s[i] \in R
  BY <1>1
<1>3. /\ t \in Seq(R)
      /\ Len(t) = IF m <= k THEN k - m + 1 ELSE 0
      /\ \A i \in 1..(k - m + 1) : t[i] = s[m + i - 1]
  BY <1>2, SubSeqProperties
<1>4. DOMAIN t = 1..Len(t)
  BY <1>3, LenProperties
<1>5. \A i \in DOMAIN t : i \in Nat /\ m + i - 1 \in 1..Len(s) /\ t[i] = s[m + i - 1]
  <2> HIDE DEF t
  <2> TAKE i \in DOMAIN t
  <2>1. CASE m <= k
    <3>1. Len(t) = k - m + 1
      BY <1>3, <2>1
    <3> QED
      BY <1>1, <1>3, <1>4, <3>1
  <2>2. CASE ~(m <= k)
    <3>1. Len(t) = 0
      BY <1>3, <2>2
    <3> QED
      BY <1>4, <3>1
  <2> QED
    BY <2>1, <2>2
<1> HIDE DEF t
<1>6. f \in [DOMAIN t -> DOMAIN s]
  BY <1>1, <1>5
<1>7. \A i \in DOMAIN t : t[i] = s[f[i]]
  BY <1>5
<1>8. \A i, j \in DOMAIN t : f[i] = f[j] => i = j
  BY <1>5
<1> HIDE DEF f
<1>9. AtMost(n, t)
  BY <1>6, <1>7, <1>8, AtMostSelected
<1> QED
  BY <1>9 DEF t

\* One number does for distinct elements.
LEMMA AtMostDistinct ==
    ASSUME NEW n \in Nat \ {0}, NEW s, \A i, j \in DOMAIN s : s[i] = s[j] => i = j
    PROVE  AtMost(n, s)
<1> DEFINE copy == [i \in DOMAIN s |-> 1]
<1>1. copy \in [DOMAIN s -> 1..n]
  OBVIOUS
<1> QED
  BY <1>1 DEF AtMost

\* A short sequence is numbered by position.
LEMMA AtMostShort ==
    ASSUME NEW n \in Nat, NEW s, DOMAIN s \subseteq 1..n
    PROVE  AtMost(n, s)
<1> DEFINE copy == [i \in DOMAIN s |-> i]
<1>1. copy \in [DOMAIN s -> 1..n]
  OBVIOUS
<1>2. \A i, j \in DOMAIN s : s[i] = s[j] /\ copy[i] = copy[j] => i = j
  OBVIOUS
<1> QED
  BY <1>1, <1>2 DEF AtMost

\* Sequences without a common element can use the same numbers.
LEMMA AtMostConcat ==
    ASSUME NEW n, NEW R, NEW s \in Seq(R), NEW t \in Seq(R), AtMost(n, s), AtMost(n, t),
           \A i \in DOMAIN s, j \in DOMAIN t : s[i] # t[j]
    PROVE  AtMost(n, s \o t)
<1>1. PICK c \in [DOMAIN s -> 1..n] :
         \A i, j \in DOMAIN s : s[i] = s[j] /\ c[i] = c[j] => i = j
  BY DEF AtMost
<1>2. PICK d \in [DOMAIN t -> 1..n] :
         \A i, j \in DOMAIN t : t[i] = t[j] /\ d[i] = d[j] => i = j
  BY DEF AtMost
<1> DEFINE u == s \o t
           copy == [i \in DOMAIN u |-> IF i <= Len(s) THEN c[i] ELSE d[i - Len(s)]]
<1>3. /\ Len(s) \in Nat /\ DOMAIN s = 1..Len(s) /\ Len(t) \in Nat /\ DOMAIN t = 1..Len(t)
      /\ u \in Seq(R) /\ Len(u) = Len(s) + Len(t)
      /\ \A i \in 1..(Len(s) + Len(t)) : u[i] = IF i <= Len(s) THEN s[i] ELSE t[i - Len(s)]
  BY LenProperties, ConcatProperties
<1>4. DOMAIN u = 1..(Len(s) + Len(t))
  BY <1>3, LenProperties
<1> HIDE DEF u
<1>5. \A i \in DOMAIN u :
         /\ i <= Len(s) => i \in DOMAIN s /\ u[i] = s[i] /\ copy[i] = c[i]
         /\ ~(i <= Len(s)) => /\ i - Len(s) \in DOMAIN t /\ u[i] = t[i - Len(s)]
                              /\ copy[i] = d[i - Len(s)]
  BY <1>3, <1>4
<1>6. copy \in [DOMAIN u -> 1..n]
  BY <1>1, <1>2, <1>5
<1> HIDE DEF copy
<1>7. \A i, j \in DOMAIN u : u[i] = u[j] /\ copy[i] = copy[j] => i = j
  <2> SUFFICES ASSUME NEW i \in DOMAIN u, NEW j \in DOMAIN u, u[i] = u[j], copy[i] = copy[j]
               PROVE  i = j
    OBVIOUS
  <2>1. i \in Nat /\ j \in Nat
    BY <1>4
  <2>2. CASE i <= Len(s) /\ j <= Len(s)
    BY <1>1, <1>5, <2>2
  <2>3. CASE ~(i <= Len(s)) /\ ~(j <= Len(s))
    <3>1. i - Len(s) = j - Len(s)
      BY <1>2, <1>5, <2>3
    <3> QED
      BY <1>3, <2>1, <3>1
  <2>4. CASE i <= Len(s) /\ ~(j <= Len(s))
    BY <1>5, <2>4
  <2>5. CASE ~(i <= Len(s)) /\ j <= Len(s)
    BY <1>5, <2>5
  <2> QED
    BY <2>2, <2>3, <2>4, <2>5
<1>8. AtMost(n, u)
  BY <1>6, <1>7 DEF AtMost
<1> QED
  BY <1>8 DEF u

\* As many positions as elements and numbers allow.
LEMMA AtMostBound ==
    ASSUME NEW n \in Nat, NEW s, AtMost(n, s), NEW S, IsFiniteSet(S),
           NEW I \in SUBSET DOMAIN s, \A i \in I : s[i] \in S
    PROVE  Cardinality(I) <= Cardinality(S) * n
<1>1. PICK copy \in [DOMAIN s -> 1..n] :
         \A i, j \in DOMAIN s : s[i] = s[j] /\ copy[i] = copy[j] => i = j
  BY DEF AtMost
<1> DEFINE slot == [i \in I |-> <<s[i], copy[i]>>]
<1>2. slot \in [I -> S \X (1..n)]
  OBVIOUS
<1>3. \A i, j \in I : slot[i] = slot[j] => i = j
  BY <1>1
<1>4. slot \in Injection(I, S \X (1..n))
  <2> HIDE DEF slot
  <2> QED
    BY <1>2, <1>3 DEF Injection, IsInjective
<1>5. IsFiniteSet(1..n) /\ Cardinality(1..n) = n
  BY FS_Interval
<1>6. IsFiniteSet(S \X (1..n)) /\ Cardinality(S \X (1..n)) = Cardinality(S) * n
  BY <1>5, FS_Product
<1> HIDE DEF slot
<1>7. Cardinality(I) <= Cardinality(S \X (1..n))
  BY <1>4, <1>6, FS_Injection
<1> QED
  BY <1>6, <1>7

\* More numbers do as well.
LEMMA AtMostMore ==
    ASSUME NEW m \in Nat, NEW n \in Nat, m <= n, NEW s, AtMost(m, s)
    PROVE  AtMost(n, s)
<1>1. PICK copy \in [DOMAIN s -> 1..m] :
         \A i, j \in DOMAIN s : s[i] = s[j] /\ copy[i] = copy[j] => i = j
  BY DEF AtMost
<1>2. copy \in [DOMAIN s -> 1..n]
  BY <1>1
<1> QED
  BY <1>1, <1>2 DEF AtMost

---------------------------------------------------------------------------
(* What a poll emits                                                       *)

\* The first rows of the sorted list: by time, pending, not remembered; what
\* the cap leaves out is not older.
LEMMA EmittedBatch ==
    ASSUME TriggerAssumption, TypeOK
    PROVE  /\ Emitted \in Seq(Records) /\ Len(Emitted) \in 0..MAX_EVENTS_PER_POLL
           /\ DOMAIN Emitted = 1..Len(Emitted)
           /\ \A i \in DOMAIN Emitted : Emitted[i] \in Records
           /\ \A h, k \in DOMAIN Emitted : h < k => born[Emitted[h]] <= born[Emitted[k]]
           /\ \A r \in Keys(Emitted) :
                 r \in Pending /\ r \in Keys(poll.rows) /\ r \notin Keys(cursor.seen)
           /\ \A r \in Keys(poll.rows) :
                 r \in Pending /\ r \notin Keys(cursor.seen) /\ r \notin Keys(Emitted) =>
                    Len(Emitted) > 0 /\ born[Emitted[Len(Emitted)]] <= born[r]
           /\ Len(Emitted) <= Len(Fresh) /\ \A i \in DOMAIN Emitted : Emitted[i] = Fresh[i]
<1>1. /\ Fresh \in Seq(Records) /\ Len(Fresh) \in Nat /\ DOMAIN Fresh = 1..Len(Fresh)
      /\ \A h, k \in DOMAIN Fresh : h < k => born[Fresh[h]] <= born[Fresh[k]]
  BY FreshIsSorted
<1>2. PICK at \in [DOMAIN Fresh -> Left] :
         /\ \A k \in DOMAIN Fresh : Fresh[k] = poll.rows[at[k]]
         /\ \A h, k \in DOMAIN Fresh : at[h] = at[k] => h = k
         /\ \A i \in Left : \E k \in DOMAIN Fresh : at[k] = i
  BY FreshIsSorted
<1> MAX_EVENTS_PER_POLL \in Nat \ {0}
  BY DEF TriggerAssumption
<1>3. PICK m \in Nat : m = Upto(MAX_EVENTS_PER_POLL, Len(Fresh))
  BY <1>1 DEF Upto
<1>4. m <= MAX_EVENTS_PER_POLL /\ m <= Len(Fresh) /\ (m < Len(Fresh) => m > 0)
  <2>1. CASE MAX_EVENTS_PER_POLL < Len(Fresh)
    <3>1. m = MAX_EVENTS_PER_POLL
      BY <1>3, <2>1 DEF Upto
    <3> QED
      BY <1>1, <2>1, <3>1
  <2>2. CASE ~(MAX_EVENTS_PER_POLL < Len(Fresh))
    <3>1. m = Len(Fresh)
      BY <1>3, <2>2 DEF Upto
    <3> QED
      BY <1>1, <2>2, <3>1
  <2> QED
    BY <2>1, <2>2
<1>5. \A i \in 1..Len(Fresh) : Fresh[i] \in Records
  BY <1>1, ElementOfSeq
<1>6. /\ Emitted \in Seq(Records) /\ Len(Emitted) = m
      /\ \A i \in 1..m : Emitted[i] = Fresh[i]
  <2>1. Emitted = SubSeq(Fresh, 1, m)
    BY <1>3 DEF Emitted
  <2>2. \A i \in 1..m : Fresh[i] \in Records
    BY <1>1, <1>4, <1>5
  <2>3. /\ SubSeq(Fresh, 1, m) \in Seq(Records)
        /\ Len(SubSeq(Fresh, 1, m)) = IF 1 <= m THEN m - 1 + 1 ELSE 0
        /\ \A i \in 1..(m - 1 + 1) : SubSeq(Fresh, 1, m)[i] = Fresh[1 + i - 1]
    BY <2>2, SubSeqProperties
  <2>4. \A i \in 1..m : i \in 1..(m - 1 + 1) /\ 1 + i - 1 = i
    OBVIOUS
  <2> QED
    BY <2>1, <2>3, <2>4
<1>7. DOMAIN Emitted = 1..m
  BY <1>6, LenProperties
<1>8. \A h, k \in DOMAIN Emitted : h < k => born[Emitted[h]] <= born[Emitted[k]]
  BY <1>1, <1>4, <1>6, <1>7
<1>9. ASSUME NEW r \in Keys(Emitted)
      PROVE  r \in Pending /\ r \in Keys(poll.rows) /\ r \notin Keys(cursor.seen)
  <2>1. PICK i \in 1..m : r = Fresh[i]
    BY <1>6, <1>7 DEF Keys
  <2>2. at[i] \in Left /\ r = poll.rows[at[i]]
    BY <1>1, <1>2, <1>4, <2>1
  <2> QED
    BY <2>2 DEF Left, Keys
<1>10. ASSUME NEW r \in Keys(poll.rows), r \in Pending, r \notin Keys(cursor.seen),
              r \notin Keys(Emitted)
       PROVE  m > 0 /\ born[Emitted[m]] <= born[r]
  <2>1. PICK i \in DOMAIN poll.rows : r = poll.rows[i]
    BY DEF Keys
  <2>2. i \in Left
    BY <1>10, <2>1 DEF Left
  <2>3. PICK k \in DOMAIN Fresh : at[k] = i
    BY <1>2, <2>2
  <2>4. Fresh[k] = r
    BY <1>2, <2>1, <2>3
  <2>5. k > m
    <3>1. k \in 1..m => r \in Keys(Emitted)
      BY <1>6, <1>7, <2>4 DEF Keys
    <3> QED
      BY <1>1, <1>10, <3>1
  <2>6. m > 0 /\ m \in DOMAIN Fresh /\ m \in 1..m
    BY <1>1, <1>4, <2>5
  <2>7. born[Fresh[m]] <= born[Fresh[k]]
    BY <1>1, <2>5, <2>6
  <2> QED
    BY <1>6, <2>4, <2>6, <2>7
<1>11. \A i \in DOMAIN Emitted : Emitted[i] \in Records
  BY <1>6, <1>7, ElementOfSeq
<1>12. m \in 0..MAX_EVENTS_PER_POLL
  BY <1>4
<1> QED
  BY <1>4, <1>6, <1>7, <1>8, <1>9, <1>10, <1>11, <1>12

\* A batch repeats a record no more often than the listing's pages.
LEMMA EmittedCopies ==
    ASSUME TriggerAssumption, TypeOK, cursor # NoCursor, BornInv, RowsInv
    PROVE  AtMost(Copies(listing), Emitted)
<1>1. /\ Emitted \in Seq(Records) /\ Len(Emitted) \in 0..MAX_EVENTS_PER_POLL
      /\ DOMAIN Emitted = 1..Len(Emitted)
      /\ Len(Emitted) <= Len(Fresh) /\ \A i \in DOMAIN Emitted : Emitted[i] = Fresh[i]
  BY EmittedBatch
<1>2. PICK at \in [DOMAIN Fresh -> Left] :
         /\ \A k \in DOMAIN Fresh : Fresh[k] = poll.rows[at[k]]
         /\ \A h, k \in DOMAIN Fresh : at[h] = at[k] => h = k
  BY FreshIsSorted
<1>3. DOMAIN Fresh = 1..Len(Fresh) /\ Len(Fresh) \in Nat
  BY FreshIsSorted
<1>4. DOMAIN Emitted \subseteq DOMAIN Fresh
  BY <1>1, <1>3
<1> DEFINE f == [i \in DOMAIN Emitted |-> at[i]]
<1>5. /\ f \in [DOMAIN Emitted -> DOMAIN poll.rows]
      /\ \A i \in DOMAIN Emitted : Emitted[i] = poll.rows[f[i]]
      /\ \A i, j \in DOMAIN Emitted : f[i] = f[j] => i = j
  BY <1>1, <1>2, <1>4 DEF Left
<1> HIDE DEF f
<1>6. /\ MAX_EVENTS_PER_POLL \in Nat \ {0} /\ poll.pages \in Nat /\ listing.pages \in Nat \ {0}
      /\ poll.pages <= listing.pages
  <2>1. listing.pages \in Nat \ {0} /\ poll.pages \in Nat
    BY Types
  <2>2. poll.pages \in 0..listing.pages
    BY DEF TypeOK
  <2> QED
    BY <2>1, <2>2 DEF TriggerAssumption
<1>7. CASE listing.order = "oldest"
  <2>1. Copies(listing) = 1
    BY <1>7 DEF Copies
  <2>2. \A i, j \in DOMAIN Emitted : Emitted[i] = Emitted[j] => i = j
    <3> SUFFICES ASSUME NEW i \in DOMAIN Emitted, NEW j \in DOMAIN Emitted,
                        Emitted[i] = Emitted[j]
                 PROVE  f[i] = f[j]
      BY <1>5
    <3>1. PICK c \in Nat : c = Len(born) - Cardinality(Pending)
      <4>1. Len(born) \in Nat /\ Cardinality(Pending) \in 0..Len(born)
        BY Types, PendingAreYoungest
      <4> QED
        BY <4>1
    <3>2. Emitted[i] = c + f[i] /\ Emitted[j] = c + f[j]
      BY <1>5, <1>7, <3>1 DEF RowsInv
    <3>3. f[i] \in Nat /\ f[j] \in Nat
      <4>1. DOMAIN poll.rows = 1..Len(poll.rows) /\ Len(poll.rows) \in Nat
        BY Types
      <4> QED
        BY <1>5, <4>1
    <3>4. c + f[i] = c + f[j]
      BY <3>2
    <3> QED
      BY <3>1, <3>3, <3>4
  <2>3. AtMost(1, Emitted)
    BY <2>2, AtMostDistinct
  <2> QED
    BY <2>1, <2>3
<1>9. CASE listing.order = "forms"
  <2>1. Copies(listing) = 1
    BY <1>9 DEF Copies
  <2>2. \A i, j \in DOMAIN Emitted : Emitted[i] = Emitted[j] => i = j
    BY <1>5, <1>9 DEF RowsInv, FormsInv
  <2>3. AtMost(1, Emitted)
    BY <2>2, AtMostDistinct
  <2> QED
    BY <2>1, <2>3
<1>8. CASE listing.order \notin {"oldest", "forms"}
  <2>1. listing.order = "newest"
    BY <1>8 DEF TypeOK
  <2>2. CASE listing.pages < MAX_EVENTS_PER_POLL
    <3>1. Copies(listing) = listing.pages
      BY <2>1, <2>2 DEF Copies, Upto
    <3>2. AtMost(poll.pages, poll.rows)
      BY <2>1 DEF RowsInv
    <3>3. AtMost(listing.pages, poll.rows)
      BY <1>6, <3>2, AtMostMore
    <3>4. AtMost(listing.pages, Emitted)
      BY <1>5, <3>3, AtMostSelected
    <3> QED
      BY <3>1, <3>4
  <2>3. CASE ~(listing.pages < MAX_EVENTS_PER_POLL)
    <3>1. Copies(listing) = MAX_EVENTS_PER_POLL
      BY <2>1, <2>3 DEF Copies, Upto
    <3>2. DOMAIN Emitted \subseteq 1..MAX_EVENTS_PER_POLL
      BY <1>1, <1>6
    <3> QED
      BY <1>6, <3>1, <3>2, AtMostShort
  <2> QED
    BY <2>2, <2>3
<1> QED
  BY <1>7, <1>8, <1>9

\* The cursor never moves back, nor past what was emitted.
LEMMA SinceMoves ==
    ASSUME TriggerAssumption, IInv, cursor # NoCursor
    PROVE  /\ Since(Emitted) \in 0..MaxTime
           /\ cursor.since <= Since(Emitted) /\ Since(Emitted) <= clock
           /\ \A r \in Keys(Emitted) : cursor.since <= born[r] /\ born[r] <= Since(Emitted)
           /\ Emitted = <<>> => Since(Emitted) = cursor.since
           /\ Emitted # <<>> => Since(Emitted) = born[Emitted[Len(Emitted)]]
           /\ Emitted = <<>> <=> Len(Emitted) = 0
<1> USE DEF IInv
<1>1. /\ Emitted \in Seq(Records) /\ Len(Emitted) \in Nat /\ DOMAIN Emitted = 1..Len(Emitted)
      /\ \A i \in DOMAIN Emitted : Emitted[i] \in Records
      /\ \A h, k \in DOMAIN Emitted : h < k => born[Emitted[h]] <= born[Emitted[k]]
      /\ \A r \in Keys(Emitted) : r \in Pending
  BY EmittedBatch
<1>2. /\ cursor.since \in 0..MaxTime /\ \A r \in Records : born[r] \in 0..MaxTime
      /\ cursor.since <= clock /\ \A r \in Records : born[r] <= clock
  BY Types DEF CursorInv, BornInv
<1>3. Emitted = <<>> <=> Len(Emitted) = 0
  BY <1>1, EmptySeq
<1>4. CASE Emitted = <<>>
  <2>1. Keys(Emitted) = {} /\ Since(Emitted) = cursor.since
    BY <1>1, <1>3, <1>4 DEF Keys, Since
  <2> QED
    BY <1>2, <1>3, <1>4, <2>1
<1>5. CASE Emitted # <<>>
  <2>1. Since(Emitted) = born[Emitted[Len(Emitted)]] /\ Len(Emitted) \in DOMAIN Emitted
    BY <1>1, <1>3, <1>5 DEF Since
  <2>2. Emitted[Len(Emitted)] \in Pending
    BY <1>1, <2>1 DEF Keys
  <2>3. \A r \in Pending : cursor.since <= born[r]
    BY <1>2 DEF Pending
  <2>4. \A r \in Keys(Emitted) : born[r] <= born[Emitted[Len(Emitted)]]
    <3> SUFFICES ASSUME NEW i \in DOMAIN Emitted
                 PROVE  born[Emitted[i]] <= born[Emitted[Len(Emitted)]]
      BY DEF Keys
    <3>1. i < Len(Emitted) \/ i = Len(Emitted)
      BY <1>1
    <3>2. born[Emitted[i]] \in Nat
      BY <1>1, <1>2
    <3> QED
      BY <1>1, <2>1, <3>1, <3>2
  <2>5. Emitted[Len(Emitted)] \in Records
    BY <1>1, <2>1
  <2> QED
    BY <1>1, <1>2, <1>3, <1>5, <2>1, <2>2, <2>3, <2>4, <2>5
<1> QED
  BY <1>4, <1>5

\* A pending record that is older than the next cursor is remembered or
\* emitted, unless the listing is overrun.
LEMMA NothingLeftBehind ==
    ASSUME TriggerAssumption, IInv, cursor # NoCursor, poll.ended, ~Overruns, ~overrun,
           NEW r \in Pending, born[r] < Since(Emitted), r \notin Keys(cursor.seen)
    PROVE  r \in Keys(Emitted)
<1> USE DEF IInv
<1> DEFINE last == Emitted[Len(Emitted)]
<1>1. /\ Records = 1..Len(born) /\ Len(born) \in Nat /\ cursor.since \in Nat
      /\ \A s \in Records : born[s] \in Nat
  BY Types
<1>2. r \in Records /\ born[r] >= cursor.since
  BY DEF Pending
<1>3. Emitted # <<>> /\ Since(Emitted) = born[last] /\ Len(Emitted) \in DOMAIN Emitted
  <2>1. Emitted # <<>>
    BY <1>1, <1>2, SinceMoves
  <2>2. Len(Emitted) # 0 /\ Since(Emitted) = born[last]
    BY <2>1, SinceMoves
  <2>3. Len(Emitted) \in Nat /\ DOMAIN Emitted = 1..Len(Emitted)
    BY EmittedBatch
  <2> QED
    BY <2>1, <2>2, <2>3
<1>4. last \in Keys(Emitted)
  BY <1>3 DEF Keys
<1>5. last \in Pending /\ last \in Keys(poll.rows) /\ last \in Records
  <2>1. last \in Pending /\ last \in Keys(poll.rows)
    BY <1>4, EmittedBatch
  <2> QED
    BY <2>1 DEF Pending
<1> HIDE DEF last
<1>6. r <= last
  <2>1. last <= r => born[last] <= born[r]
    BY <1>2, <1>5 DEF BornInv
  <2> QED
    BY <1>1, <1>2, <1>3, <1>5, <2>1
<1>7. /\ Cardinality(Pending) \in 0..Len(born)
      /\ r > Len(born) - Cardinality(Pending)
  BY <1>2, PendingAreYoungest
<1>8. r \in Keys(poll.rows)
  <2>1. CASE listing.order = "oldest"
    <3>1. PICK i \in DOMAIN poll.rows : last = poll.rows[i]
      BY <1>5 DEF Keys
    <3>2. last = Len(born) - Cardinality(Pending) + i
      BY <2>1, <3>1 DEF RowsInv
    <3>3. PICK j \in Nat : r = Len(born) - Cardinality(Pending) + j /\ j > 0 /\ j <= i
      <4>1. DOMAIN poll.rows = 1..Len(poll.rows) /\ Len(poll.rows) \in Nat
        BY Types
      <4>2. i \in Nat /\ r \in Nat /\ last \in Nat /\ Cardinality(Pending) \in Nat
        BY <1>1, <1>2, <1>5, <1>7, <4>1
      <4>3. PICK c \in Nat : c = Len(born) - Cardinality(Pending)
        BY <1>1, <1>7
      <4>4. r > c /\ last = c + i
        BY <1>7, <3>2, <4>3
      <4>5. r - c \in Nat /\ r = c + (r - c) /\ r - c > 0 /\ r - c <= i
        BY <1>6, <4>2, <4>4
      <4> QED
        BY <4>3, <4>5
    <3>4. j \in DOMAIN poll.rows
      <4>1. DOMAIN poll.rows = 1..Len(poll.rows) /\ Len(poll.rows) \in Nat
        BY Types
      <4> QED
        BY <3>1, <3>3, <4>1
    <3>5. poll.rows[j] = r
      BY <2>1, <3>3, <3>4 DEF RowsInv
    <3> QED
      BY <3>4, <3>5 DEF Keys
  <2>3. CASE listing.order = "forms"
    <3>1. listing.form[r] \in 1..listing.pages
      BY <1>2, <2>3, FormTyped
    <3>2. Cardinality(Form(listing.form[r])) <= listing.size
      <4>1. ~(Cardinality(Form(listing.form[r])) > listing.size)
        BY <2>3, <3>1 DEF Overruns
      <4> QED
        BY <4>1, FormsAreFinite, Types
    <3>3. poll.pages = listing.pages
      BY <2>3 DEF RowsInv, FormsInv
    <3> QED
      BY <1>5, <1>6, <2>3, <3>1, <3>2, <3>3 DEF RowsInv, FormsInv
  <2>2. CASE listing.order \notin {"oldest", "forms"}
    <3>1. listing.order = "newest"
      BY <2>2 DEF TypeOK
    <3>2. listing.pages \in Nat /\ listing.size \in Nat /\ poll.pages \in 0..listing.pages
      BY Types DEF TypeOK
    <3>3. CASE poll.pages < listing.pages
      <4>1. RowsComplete
        BY <3>1, <3>3 DEF RowsInv
      <4> QED
        BY <1>5, <1>6, <4>1 DEF RowsComplete
    <3>4. CASE ~(poll.pages < listing.pages)
      <4>1. poll.pages = listing.pages
        BY <3>2, <3>4
      <4>2. PICK all \in Nat : all = poll.pages * listing.size
        BY <3>2
      <4>3. Cardinality(Pending) <= all
        <5>1. listing.size * listing.pages = all
          BY <3>2, <4>1, <4>2
        <5> QED
          BY <1>1, <1>7, <3>1, <4>2, <5>1 DEF Overruns
      <4>4. r + all > Len(born)
        BY <1>1, <1>2, <1>7, <4>2, <4>3
      <4>5. r + poll.pages * listing.size > Len(born)
        BY <4>2, <4>4
      <4> QED
        BY <1>2, <1>5, <1>6, <3>1, <4>5 DEF RowsInv
    <3> QED
      BY <3>3, <3>4
  <2> QED
    BY <2>1, <2>2, <2>3
<1>9. r \notin Keys(Emitted) => born[last] <= born[r]
  BY <1>8, EmittedBatch DEF last
<1> QED
  BY <1>1, <1>2, <1>3, <1>5, <1>9

\* The keys of all polls so far, in the order of their times.
LEMMA KeysInOrder ==
    ASSUME TriggerAssumption, IInv, cursor # NoCursor,
           NEW keys, keys = cursor.seen \o Emitted
    PROVE  /\ keys \in Seq(Records) /\ Len(keys) \in Nat /\ DOMAIN keys = 1..Len(keys)
           /\ \A i \in DOMAIN keys : keys[i] \in Records /\ born[keys[i]] <= Since(Emitted)
           /\ \A i \in DOMAIN keys : keys[i] \in Keys(Emitted) \/ told[keys[i]] > 0
           /\ \A i, j \in DOMAIN keys : i < j => born[keys[i]] <= born[keys[j]]
           /\ Keys(cursor.seen) \cup Keys(Emitted) \subseteq Keys(keys)
           /\ AtMost(Copies(listing), keys)
<1> USE DEF IInv
<1> DEFINE n == Len(cursor.seen)
           m == Len(Emitted)
<1>1. /\ cursor.seen \in Seq(Records) /\ n \in Nat /\ DOMAIN cursor.seen = 1..n
      /\ \A i \in 1..n : cursor.seen[i] \in Records
      /\ cursor.since \in Nat /\ \A r \in Records : born[r] \in Nat
  BY Types
<1>2. /\ Emitted \in Seq(Records) /\ m \in Nat /\ DOMAIN Emitted = 1..m
      /\ \A i \in 1..m : Emitted[i] \in Records
      /\ \A h, k \in DOMAIN Emitted : h < k => born[Emitted[h]] <= born[Emitted[k]]
      /\ \A r \in Keys(Emitted) : r \notin Keys(cursor.seen)
  BY EmittedBatch
<1>3. /\ keys \in Seq(Records) /\ Len(keys) = n + m
      /\ \A i \in 1..(n + m) : keys[i] = IF i <= n THEN cursor.seen[i] ELSE Emitted[i - n]
  BY <1>1, <1>2, ConcatProperties
<1>4. DOMAIN keys = 1..(n + m)
  BY <1>3, LenProperties
<1> HIDE DEF n, m
<1>5. \A i \in DOMAIN keys :
         \/ i <= n /\ i \in 1..n /\ keys[i] = cursor.seen[i]
         \/ i > n /\ i - n \in 1..m /\ keys[i] = Emitted[i - n]
  BY <1>1, <1>2, <1>3, <1>4 DEF n, m
<1>6. /\ cursor.since <= Since(Emitted) /\ Since(Emitted) \in Nat
      /\ \A r \in Keys(Emitted) : cursor.since <= born[r] /\ born[r] <= Since(Emitted)
  BY SinceMoves
<1>7. \A i \in 1..n :
         /\ told[cursor.seen[i]] > 0 /\ born[cursor.seen[i]] <= cursor.since
         /\ \A j \in 1..n : i < j => born[cursor.seen[i]] <= born[cursor.seen[j]]
  <2> TAKE i \in 1..n
  <2>1. told[cursor.seen[i]] > 0 /\ cursor.seen[i] \in Records
    BY <1>1 DEF CursorInv, n
  <2>2. born[cursor.seen[i]] <= cursor.since
    BY <2>1 DEF CursorInv
  <2>3. \A j \in 1..n : i < j => born[cursor.seen[i]] <= born[cursor.seen[j]]
    BY <1>1 DEF CursorInv, n
  <2> QED
    BY <2>1, <2>2, <2>3
<1>8. \A i \in 1..m : Emitted[i] \in Keys(Emitted)
  BY <1>2 DEF Keys, m
<1>9. \A i \in DOMAIN keys : keys[i] \in Records /\ born[keys[i]] <= Since(Emitted)
  <2> TAKE i \in DOMAIN keys
  <2>1. CASE i <= n /\ i \in 1..n /\ keys[i] = cursor.seen[i]
    BY <1>1, <1>6, <1>7, <2>1 DEF n
  <2>2. CASE i > n /\ i - n \in 1..m /\ keys[i] = Emitted[i - n]
    BY <1>2, <1>6, <1>8, <2>2 DEF m
  <2> QED
    BY <1>5, <2>1, <2>2
<1>10. \A i \in DOMAIN keys : keys[i] \in Keys(Emitted) \/ told[keys[i]] > 0
  BY <1>5, <1>7, <1>8
<1>11. \A i, j \in DOMAIN keys : i < j => born[keys[i]] <= born[keys[j]]
  <2> SUFFICES ASSUME NEW i \in DOMAIN keys, NEW j \in DOMAIN keys, i < j
               PROVE  born[keys[i]] <= born[keys[j]]
    OBVIOUS
  <2>1. i \in Nat /\ j \in Nat /\ n \in Nat
    BY <1>1, <1>2, <1>4 DEF n, m
  <2>2. CASE i <= n /\ j <= n
    BY <1>5, <1>7, <2>1, <2>2
  <2>3. CASE i <= n /\ j > n
    <3>1. i \in 1..n /\ keys[i] = cursor.seen[i] /\ j - n \in 1..m /\ keys[j] = Emitted[j - n]
      BY <1>5, <2>1, <2>3
    <3>2. born[keys[i]] <= cursor.since /\ cursor.since <= born[keys[j]]
      BY <1>6, <1>7, <1>8, <3>1
    <3>3. born[keys[i]] \in Nat /\ born[keys[j]] \in Nat
      BY <1>1, <1>9
    <3>4. cursor.since \in Nat
      BY <1>1
    <3> QED
      BY <3>2, <3>3, <3>4
  <2>4. CASE i > n /\ j > n
    <3>1. i - n \in 1..m /\ keys[i] = Emitted[i - n] /\ j - n \in 1..m /\ keys[j] = Emitted[j - n]
      BY <1>5, <2>1, <2>4
    <3>2. i - n < j - n
      BY <2>1
    <3> QED
      BY <1>2, <3>1, <3>2 DEF m
  <2> QED
    BY <2>1, <2>2, <2>3, <2>4
<1>12. Keys(cursor.seen) \cup Keys(Emitted) \subseteq Keys(keys)
  <2>1. ASSUME NEW i \in 1..n PROVE cursor.seen[i] \in Keys(keys)
    <3>1. i \in 1..(n + m) /\ i <= n
      BY <1>1, <1>2 DEF n, m
    <3>2. keys[i] = cursor.seen[i]
      BY <1>3, <3>1 DEF n, m
    <3> QED
      BY <1>4, <3>1, <3>2 DEF Keys
  <2>2. ASSUME NEW i \in 1..m PROVE Emitted[i] \in Keys(keys)
    <3>1. n + i \in 1..(n + m) /\ ~(n + i <= n) /\ (n + i) - n = i
      BY <1>1, <1>2 DEF n, m
    <3>2. keys[n + i] = Emitted[i]
      BY <1>3, <3>1 DEF n, m
    <3> QED
      BY <1>4, <3>1, <3>2 DEF Keys
  <2> QED
    BY <1>1, <1>2, <2>1, <2>2 DEF Keys, n, m
<1>13. AtMost(Copies(listing), keys)
  <2>1. AtMost(Copies(listing), cursor.seen)
    BY DEF CursorInv
  <2>2. AtMost(Copies(listing), Emitted)
    BY EmittedCopies
  <2>3. \A i \in DOMAIN cursor.seen, j \in DOMAIN Emitted : cursor.seen[i] # Emitted[j]
    BY <1>2 DEF Keys
  <2> QED
    BY <1>1, <1>2, <2>1, <2>2, <2>3, AtMostConcat
<1>14. n + m \in Nat
  BY <1>1, <1>2 DEF n, m
<1> QED
  BY <1>3, <1>4, <1>9, <1>10, <1>11, <1>12, <1>13, <1>14 DEF n, m

\* The last keys hold every key that has the cursor's time: a burst fits.
LEMMA SeenRemembers ==
    ASSUME TriggerAssumption, IInv, cursor # NoCursor
    PROVE  /\ Seen(Emitted) \in Seq(Records) /\ Len(Seen(Emitted)) <= SEEN_KEYS
           /\ DOMAIN Seen(Emitted) = 1..Len(Seen(Emitted))
           /\ \A i \in DOMAIN Seen(Emitted) :
                 /\ Seen(Emitted)[i] \in Records
                 /\ Seen(Emitted)[i] \in Keys(Emitted) \/ told[Seen(Emitted)[i]] > 0
                 /\ \A j \in DOMAIN Seen(Emitted) :
                       i < j => born[Seen(Emitted)[i]] <= born[Seen(Emitted)[j]]
           /\ \A r \in Keys(cursor.seen) \cup Keys(Emitted) :
                 born[r] = Since(Emitted) => r \in Keys(Seen(Emitted))
           /\ AtMost(Copies(listing), Seen(Emitted))
<1> USE DEF IInv
<1>1. PICK keys : keys = cursor.seen \o Emitted
  OBVIOUS
<1>2. /\ keys \in Seq(Records) /\ Len(keys) \in Nat /\ DOMAIN keys = 1..Len(keys)
      /\ \A i \in DOMAIN keys : keys[i] \in Records /\ born[keys[i]] <= Since(Emitted)
      /\ \A i \in DOMAIN keys : keys[i] \in Keys(Emitted) \/ told[keys[i]] > 0
      /\ \A i, j \in DOMAIN keys : i < j => born[keys[i]] <= born[keys[j]]
      /\ Keys(cursor.seen) \cup Keys(Emitted) \subseteq Keys(keys)
      /\ AtMost(Copies(listing), keys)
  BY <1>1, KeysInOrder
<1>3. SEEN_KEYS \in Nat /\ MaxPerTick \in Nat
  BY DEF TriggerAssumption
<1> Len(keys) \in Nat /\ SEEN_KEYS \in Nat
  BY <1>2, <1>3
<1>4. PICK d \in Nat : d = Len(keys) - Upto(Len(keys), SEEN_KEYS)
  <2>1. Upto(Len(keys), SEEN_KEYS) \in 0..Len(keys)
    BY DEF Upto
  <2>2. Len(keys) - Upto(Len(keys), SEEN_KEYS) \in Nat
    BY <2>1
  <2> QED
    BY <2>2
<1>5. /\ d <= Len(keys) /\ Len(keys) - d <= SEEN_KEYS
      /\ d > 0 => Len(keys) - d = SEEN_KEYS
  <2>1. CASE Len(keys) < SEEN_KEYS
    <3>1. d = Len(keys) - Len(keys)
      BY <1>4, <2>1 DEF Upto
    <3> QED
      BY <1>2, <1>3, <2>1, <3>1
  <2>2. CASE ~(Len(keys) < SEEN_KEYS)
    <3>1. d = Len(keys) - SEEN_KEYS
      BY <1>4, <2>2 DEF Upto
    <3> QED
      BY <1>2, <1>3, <2>2, <3>1
  <2> QED
    BY <2>1, <2>2
<1>6. PICK seen : seen = SubSeq(keys, d + 1, Len(keys))
  OBVIOUS
<1>7. Seen(Emitted) = seen
  BY <1>1, <1>4, <1>6 DEF Seen
<1>8. /\ seen \in Seq(Records) /\ Len(seen) = Len(keys) - d
      /\ \A i \in 1..(Len(keys) - d) : seen[i] = keys[d + i]
  <2>1. \A i \in (d + 1)..Len(keys) : keys[i] \in Records
    BY <1>2
  <2>2. /\ seen \in Seq(Records)
        /\ Len(seen) = IF d + 1 <= Len(keys) THEN Len(keys) - (d + 1) + 1 ELSE 0
        /\ \A i \in 1..(Len(keys) - (d + 1) + 1) : seen[i] = keys[(d + 1) + i - 1]
    BY <1>2, <1>6, <2>1, SubSeqProperties
  <2>3. Len(seen) = Len(keys) - d
    <3>1. CASE d + 1 <= Len(keys)
      BY <1>2, <2>2, <3>1
    <3>2. CASE ~(d + 1 <= Len(keys))
      <4>1. d <= Len(keys)
        BY <1>5
      <4>2. d = Len(keys)
        BY <3>2, <4>1
      <4>3. Len(seen) = 0
        BY <2>2, <3>2
      <4> QED
        BY <4>2, <4>3
    <3> QED
      BY <3>1, <3>2
  <2>4. \A i \in 1..(Len(keys) - d) :
           i \in 1..(Len(keys) - (d + 1) + 1) /\ (d + 1) + i - 1 = d + i
    BY <1>2
  <2> QED
    BY <2>2, <2>3, <2>4
<1>9. DOMAIN seen = 1..(Len(keys) - d)
  BY <1>8, LenProperties
<1>10. \A i \in DOMAIN seen : i \in Nat /\ d + i \in DOMAIN keys /\ seen[i] = keys[d + i]
  BY <1>2, <1>8, <1>9
<1>11. AtMost(Copies(listing), seen)
  <2>1. d + 1 \in Nat \ {0} /\ Len(keys) \in Nat /\ Len(keys) <= Len(keys)
    BY <1>2
  <2> QED
    BY <1>2, <1>6, <2>1, AtMostStretch
<1>12. ASSUME NEW r \in Keys(cursor.seen) \cup Keys(Emitted), born[r] = Since(Emitted)
       PROVE  r \in Keys(seen)
  <2>1. PICK i \in DOMAIN keys : keys[i] = r
    BY <1>2 DEF Keys
  <2>2. i \in Nat /\ i <= Len(keys) /\ i > 0
    BY <1>2, <2>1
  <2>3. ~(i <= d)
    <3> SUFFICES ASSUME i <= d PROVE FALSE
      OBVIOUS
    <3> DEFINE burst == {s \in Records : born[s] = Since(Emitted)}
    <3>1. \A j \in i..Len(keys) : j \in DOMAIN keys /\ keys[j] \in burst
      <4> TAKE j \in i..Len(keys)
      <4>1. j \in DOMAIN keys /\ (i < j \/ i = j)
        BY <1>2, <2>2
      <4>2. born[keys[i]] <= born[keys[j]]
        <5>1. born[keys[i]] \in Nat
          BY <1>2, Types
        <5> QED
          BY <1>2, <2>1, <4>1, <5>1
      <4>3. born[keys[j]] <= Since(Emitted) /\ keys[j] \in Records
        BY <1>2, <4>1
      <4>4. born[keys[j]] \in Nat /\ Since(Emitted) \in Nat
        BY <4>3, SinceMoves, Types
      <4>5. born[keys[i]] = Since(Emitted)
        BY <1>12, <2>1
      <4> QED
        BY <4>1, <4>2, <4>3, <4>4, <4>5
    <3>2. IsFiniteSet(burst)
      <4>1. IsFiniteSet(Records)
        BY Types, FS_Interval
      <4> QED
        BY <4>1, FS_Subset
    <3>3. Cardinality(burst) <= MaxPerTick /\ Cardinality(burst) \in Nat
      <4>1. Since(Emitted) \in 0..MaxTime
        BY SinceMoves
      <4>2. Cardinality(burst) <= MaxPerTick
        BY <4>1 DEF BornInv
      <4> QED
        BY <3>2, <4>2, FS_CardinalityType
    <3> HIDE DEF burst
    <3>4. Copies(listing) \in Nat /\ i..Len(keys) \in SUBSET DOMAIN keys
      BY <3>1, Types
    <3>5. Cardinality(i..Len(keys)) <= Cardinality(burst) * Copies(listing)
      BY <1>2, <3>1, <3>2, <3>4, AtMostBound
    <3>6. Cardinality(burst) * Copies(listing) <= MaxPerTick * Copies(listing)
      BY <1>3, <3>3, <3>4
    <3>7. MaxPerTick * Copies(listing) <= SEEN_KEYS
      BY DEF TriggerAssumption, TypeOK
    <3>8. Cardinality(i..Len(keys)) = Len(keys) + 1 - i
      <4>1. i <= Len(keys) + 1
        BY <1>2, <2>2
      <4> QED
        BY <1>2, <2>2, <4>1, IntervalSize
    <3>9. PICK a \in Nat, b \in Nat : /\ a = Cardinality(burst) * Copies(listing)
                                      /\ b = MaxPerTick * Copies(listing)
      BY <1>3, <3>3, <3>4
    <3>10. Len(keys) + 1 - i <= SEEN_KEYS
      <4>1. Len(keys) + 1 - i <= a /\ a <= b /\ b <= SEEN_KEYS
        BY <3>5, <3>6, <3>7, <3>8, <3>9
      <4>2. Len(keys) + 1 - i \in Nat
        BY <1>2, <2>2
      <4> QED
        BY <1>3, <3>9, <4>1, <4>2
    <3>11. Len(keys) - d = SEEN_KEYS
      BY <1>5, <2>2
    <3>12. i \in Nat /\ i <= d
      BY <2>2
    <3>13. Len(keys) - d <= Len(keys) - i
      BY <3>12
    <3> QED
      BY <3>10, <3>11, <3>12, <3>13
  <2>4. i - d \in DOMAIN seen /\ d + (i - d) = i
    BY <1>2, <1>9, <2>2, <2>3
  <2>5. seen[i - d] = r
    BY <1>10, <2>1, <2>4
  <2> QED
    BY <2>4, <2>5 DEF Keys
<1>13. \A i \in DOMAIN seen :
          /\ seen[i] \in Records
          /\ seen[i] \in Keys(Emitted) \/ told[seen[i]] > 0
          /\ \A j \in DOMAIN seen : i < j => born[seen[i]] <= born[seen[j]]
  <2> TAKE i \in DOMAIN seen
  <2>1. seen[i] \in Records /\ (seen[i] \in Keys(Emitted) \/ told[seen[i]] > 0)
    BY <1>2, <1>10
  <2>2. \A j \in DOMAIN seen : i < j => born[seen[i]] <= born[seen[j]]
    <3> SUFFICES ASSUME NEW j \in DOMAIN seen, i < j PROVE born[seen[i]] <= born[seen[j]]
      OBVIOUS
    <3>1. d + i < d + j
      BY <1>10
    <3> QED
      BY <1>2, <1>10, <3>1
  <2> QED
    BY <2>1, <2>2
<1>14. Len(seen) <= SEEN_KEYS /\ DOMAIN seen = 1..Len(seen)
  BY <1>5, <1>8, <1>9
<1> QED
  BY <1>7, <1>8, <1>11, <1>12, <1>13, <1>14

---------------------------------------------------------------------------
(* The steps                                                               *)

\* No copies are needed to number an empty sequence.
LEMMA AtMostEmpty ==
    ASSUME NEW n
    PROVE  AtMost(n, <<>>)
<1>1. DOMAIN <<>> = {}
  OBVIOUS
<1> DEFINE copy == [i \in DOMAIN <<>> |-> 1]
<1>2. copy \in [DOMAIN <<>> -> 1..n]
  BY <1>1
<1>3. \A i, j \in DOMAIN <<>> : <<>>[i] = <<>>[j] /\ copy[i] = copy[j] => i = j
  BY <1>1
<1> QED
  BY <1>2, <1>3 DEF AtMost

\* A poll that has read nothing is complete as far as it goes.
LEMMA NoPollRows ==
    ASSUME TriggerAssumption, TypeOK, poll = NoPoll
    PROVE  RowsInv /\ poll.pages < listing.pages /\ ~poll.ended
<1>1. poll.rows = <<>> /\ poll.pages = 0 /\ ~poll.ended
  BY DEF NoPoll
<1>2. listing.size \in Nat /\ listing.pages \in Nat \ {0}
  BY Types
<1>3. DOMAIN poll.rows = {} /\ Keys(poll.rows) = {} /\ Len(poll.rows) = 0
  BY <1>1 DEF Keys
<1>4. 0 * listing.size = 0
  BY <1>2
<1>5. AtMost(poll.pages, poll.rows)
  BY <1>1, AtMostEmpty
<1>6. FormsInv
  <2>1. 1..poll.pages = {}
    BY <1>1
  <2> QED
    BY <1>1, <1>3, <2>1 DEF FormsInv
<1> QED
  BY <1>1, <1>2, <1>3, <1>4, <1>5, <1>6 DEF RowsInv

\* At first nothing exists and nothing is told.
LEMMA InitHolds ==
    ASSUME TriggerAssumption, Init
    PROVE  IInv
<1>1. TypeOK
  <2>1. listing \in Listings /\ listing.order \in {"oldest", "newest", "forms"}
        /\ listing.pages \in Nat
    BY DEF Init, TriggerAssumption
  <2>2. poll.rows = <<>> /\ poll.pages = 0 /\ poll.ended = FALSE
    BY DEF Init, NoPoll
  <2>3. clock \in 0..MaxTime /\ baseline \in 0..MaxTime /\ failures \in 0..MaxFailures
    BY DEF Init, TriggerAssumption
  <2>4. born \in Seq(0..MaxTime) /\ poll.rows \in Seq(Records)
    BY <2>2 DEF Init
  <2>5. told \in [1..MaxRecords -> 0..2] /\ cursor = NoCursor
    BY DEF Init
  <2>6. poll.pages \in 0..listing.pages
    BY <2>1, <2>2
  <2>7. overrun \in BOOLEAN
    BY DEF Init
  <2>8. poll.ended \in BOOLEAN
    BY <2>2
  <2> QED
    BY <2>1, <2>3, <2>4, <2>5, <2>6, <2>7, <2>8 DEF TypeOK
<1>2. Records = {} /\ cursor = NoCursor /\ poll = NoPoll /\ \A r \in 1..MaxRecords : told[r] = 0
  BY DEF Init, Records
<1>3. BornInv
  <2>1. Len(born) = 0 /\ MaxRecords \in Nat /\ MaxPerTick \in Nat
    BY DEF Init, TriggerAssumption
  <2>2. \A t \in 0..MaxTime : Cardinality({r \in Records : born[r] = t}) = 0
    <3> TAKE t \in 0..MaxTime
    <3>1. {r \in Records : born[r] = t} = {}
      BY <1>2
    <3> QED
      BY <3>1, FS_EmptySet
  <2> QED
    BY <1>2, <2>1, <2>2 DEF BornInv
<1>4. CursorInv
  BY <1>2 DEF CursorInv
<1>5. ~poll.ended /\ poll.pages < listing.pages
  BY <1>1, <1>2, NoPollRows
<1>6. ToldOnce /\ NothingSkipped
  BY <1>2 DEF ToldOnce, NothingSkipped
<1> QED
  BY <1>1, <1>2, <1>3, <1>4, <1>5, <1>6 DEF IInv

\* Time passes.
LEMMA TickStep ==
    ASSUME TriggerAssumption, IInv, Tick
    PROVE  IInv'
<1> USE DEF IInv
<1>1. clock \in Nat /\ clock < MaxTime /\ clock' = clock + 1 /\ clock' \in 0..MaxTime
  BY DEF TypeOK, Tick, TriggerAssumption
<1>2. UNCHANGED <<listing, born, cursor, poll, told, baseline, overrun, failures>>
  BY DEF Tick
<1>3. Records' = Records /\ Pending' = Pending
  BY <1>2 DEF Records, Pending
<1>4. TypeOK'
  BY <1>1, <1>2, <1>3 DEF TypeOK, NoCursor
<1>5. BornInv'
  <2>1. \A r \in Records : born[r] <= clock'
    <3> TAKE r \in Records
    <3>1. born[r] <= clock /\ born[r] \in Nat
      BY Types DEF BornInv
    <3> QED
      BY <1>1, <3>1
  <2> QED
    BY <1>2, <1>3, <2>1 DEF BornInv
<1>6. CursorInv'
  <2>1. cursor # NoCursor => cursor.since <= clock'
    <3>1. cursor # NoCursor => cursor.since <= clock /\ cursor.since \in Nat
      BY Types DEF CursorInv
    <3> QED
      BY <1>1, <3>1
  <2> QED
    BY <1>2, <1>3, <2>1 DEF CursorInv, NoCursor, NoPoll, Keys
<1>7. (cursor # NoCursor => RowsInv)'
  <2>1. FormsInv => FormsInv'
    BY <1>2, <1>3 DEF FormsInv, Form, Keys
  <2> QED
    BY <1>2, <1>3, <2>1 DEF RowsInv, RowsComplete, NoCursor, Keys
<1>8. ToldOnce' /\ NothingSkipped'
  BY <1>2, <1>3 DEF ToldOnce, NothingSkipped, NoCursor
<1> QED
  BY <1>2, <1>3, <1>4, <1>5, <1>6, <1>7, <1>8

\* A poll is lost.
LEMMA PollFailsStep ==
    ASSUME TriggerAssumption, IInv, PollFails
    PROVE  IInv'
<1> USE DEF IInv
<1>1. /\ UNCHANGED <<listing, clock, born, cursor, told, baseline, overrun>>
      /\ poll' = NoPoll /\ failures' \in 0..MaxFailures
  BY DEF PollFails, TypeOK, TriggerAssumption
<1>2. Records' = Records
  BY <1>1 DEF Records
<1>3. TypeOK'
  <2>1. poll'.rows = <<>> /\ poll'.pages = 0 /\ poll'.ended = FALSE
    BY <1>1 DEF NoPoll
  <2>2. 0 \in 0..listing.pages
    BY Types
  <2>3. poll'.rows \in Seq(Records') /\ poll'.pages \in 0..listing'.pages
    BY <1>1, <2>1, <2>2
  <2>4. poll'.ended \in BOOLEAN
    BY <2>1
  <2> QED
    BY <1>1, <1>2, <2>3, <2>4 DEF TypeOK, NoCursor
<1>4. RowsInv' /\ (poll.pages < listing.pages)'
  <2>1. poll.rows' = <<>> /\ poll.pages' = 0 /\ ~poll.ended'
    BY <1>1 DEF NoPoll
  <2>2. listing.size \in Nat /\ listing.pages \in Nat \ {0}
    BY Types
  <2>3. DOMAIN poll.rows' = {} /\ Keys(poll.rows') = {} /\ Len(poll.rows') = 0
    BY <2>1 DEF Keys
  <2>4. 0 * listing.size = 0
    BY <2>2
  <2>5. AtMost(poll.pages', poll.rows')
    BY <2>1, AtMostEmpty
  <2>6. FormsInv'
    <3>1. 1..poll.pages' = {}
      BY <2>1
    <3> QED
      BY <2>1, <2>3, <3>1 DEF FormsInv
  <2> QED
    BY <1>1, <2>1, <2>2, <2>3, <2>4, <2>5, <2>6 DEF RowsInv
<1>5. BornInv'
  BY <1>1, <1>2 DEF BornInv
<1>6. CursorInv'
  BY <1>1, <1>2 DEF CursorInv, NoCursor, NoPoll, Keys
<1>7. ToldOnce' /\ NothingSkipped'
  BY <1>1, <1>2 DEF ToldOnce, NothingSkipped, NoCursor
<1> QED
  BY <1>1, <1>2, <1>3, <1>4, <1>5, <1>6, <1>7

\* The first poll only records where to start.
LEMMA BaselineStep ==
    ASSUME TriggerAssumption, IInv, Baseline
    PROVE  IInv'
<1> USE DEF IInv
<1>1. /\ cursor = NoCursor /\ cursor' = [since |-> clock, seen |-> <<>>] /\ baseline' = clock
      /\ UNCHANGED <<listing, clock, born, poll, told, overrun, failures>>
  BY DEF Baseline
<1>2. poll = NoPoll /\ poll' = NoPoll /\ \A r \in 1..MaxRecords : told[r] = 0
  BY <1>1 DEF CursorInv
<1>3. Records' = Records
  BY <1>1 DEF Records
<1>4. cursor'.since = clock /\ cursor'.seen = <<>> /\ clock \in 0..MaxTime
  BY <1>1 DEF TypeOK
<1>5. cursor' # NoCursor
  <2>1. "seen" \in DOMAIN cursor' /\ "seen" \notin DOMAIN NoCursor
    BY <1>1 DEF NoCursor
  <2> QED
    BY <2>1
<1>6. TypeOK'
  <2>1. <<>> \in Seq(Records) /\ Len(<<>>) = 0 /\ 0 <= SEEN_KEYS
    BY DEF TriggerAssumption
  <2>2. cursor'.since \in 0..MaxTime /\ cursor'.seen \in Seq(Records')
        /\ Len(cursor'.seen) <= SEEN_KEYS /\ baseline' \in 0..MaxTime
    BY <1>1, <1>3, <1>4, <2>1
  <2> QED
    BY <1>1, <1>3, <2>2 DEF TypeOK
<1>7. BornInv'
  BY <1>1, <1>3 DEF BornInv
<1>8. CursorInv'
  <2>1. DOMAIN cursor'.seen = {} /\ Keys(cursor'.seen) = {}
    BY <1>4 DEF Keys
  <2>2. AtMost(Copies(listing'), cursor'.seen)
    BY <1>4, AtMostEmpty
  <2>3. \A r \in Records : r \in 1..MaxRecords
    BY Types DEF BornInv, TriggerAssumption
  <2>4. \A r \in Records' : ~(told'[r] > 0)
    <3>1. \A r \in Records' : told'[r] = 0
      BY <1>1, <1>2, <1>3, <2>3
    <3> QED
      BY <3>1
  <2>5. baseline' <= cursor'.since /\ cursor'.since <= clock'
    BY <1>1, <1>4, Types
  <2> QED
    BY <1>5, <2>1, <2>2, <2>4, <2>5 DEF CursorInv
<1>9. RowsInv' /\ (poll.pages < listing.pages)'
  <2>1. poll.rows' = <<>> /\ poll.pages' = 0 /\ ~poll.ended'
    BY <1>2 DEF NoPoll
  <2>2. listing.size \in Nat /\ listing.pages \in Nat \ {0}
    BY Types
  <2>3. DOMAIN poll.rows' = {} /\ Keys(poll.rows') = {} /\ Len(poll.rows') = 0
    BY <2>1 DEF Keys
  <2>4. 0 * listing.size = 0
    BY <2>2
  <2>5. AtMost(poll.pages', poll.rows')
    BY <2>1, AtMostEmpty
  <2>6. FormsInv'
    <3>1. 1..poll.pages' = {}
      BY <2>1
    <3> QED
      BY <2>1, <2>3, <3>1 DEF FormsInv
  <2> QED
    BY <1>1, <2>1, <2>2, <2>3, <2>4, <2>5, <2>6 DEF RowsInv
<1>10. ToldOnce'
  BY <1>1, <1>3 DEF ToldOnce
<1>11. NothingSkipped'
  <2>1. \A r \in Records : told[r] = 0 /\ born[r] <= clock /\ born[r] \in Nat
    BY <1>2, Types DEF BornInv, TriggerAssumption
  <2>2. clock \in Nat
    BY <1>4
  <2>3. \A r \in Records : ~(baseline' <= born[r] /\ born[r] < cursor'.since)
    BY <1>1, <1>4, <2>1, <2>2
  <2> QED
    BY <1>1, <1>3, <2>1, <2>3 DEF NothingSkipped
<1>12. (\A r \in 1..MaxRecords : r \notin Records => told[r] = 0)'
  BY <1>1, <1>3
<1> QED
  BY <1>6, <1>7, <1>8, <1>9, <1>10, <1>11, <1>12

\* A record is created; nothing has told it.
LEMMA CreateStep ==
    ASSUME TriggerAssumption, IInv, Create
    PROVE  IInv'
<1> USE DEF IInv
<1> DEFINE new == Len(born) + 1
<1>1. /\ Len(born) < MaxRecords /\ born' = Append(born, clock)
      /\ Cardinality({r \in Records : born[r] = clock}) < MaxPerTick
      /\ overrun' = (overrun \/ Passed(listing.form[new]))
      /\ UNCHANGED <<listing, clock, cursor, poll, told, baseline, failures>>
  BY DEF Create
<1>2. /\ Records = 1..Len(born) /\ Len(born) \in Nat /\ \A r \in Records : born[r] \in 0..MaxTime
      /\ born \in Seq(0..MaxTime) /\ clock \in 0..MaxTime /\ MaxRecords \in Nat
  BY Types DEF TypeOK, TriggerAssumption
<1>3. /\ born' \in Seq(0..MaxTime) /\ Len(born') = new
      /\ \A r \in Records : born'[r] = born[r]
      /\ born'[new] = clock
  BY <1>1, <1>2, AppendProperties
<1>4. Records' = Records \cup {new} /\ new \notin Records /\ new \in 1..MaxRecords
      /\ \A r \in Records : r < new
  <2>1. DOMAIN born' = 1..Len(born')
    BY <1>3, LenProperties
  <2>2. Records' = 1..new
    BY <1>3, <2>1 DEF Records
  <2> QED
    BY <1>1, <1>2, <2>2
<1> HIDE DEF new
<1>5. told[new] = 0
  BY <1>4
<1>6. TypeOK'
  <2>1. Records \subseteq Records'
    BY <1>4
  <2>2. poll.rows \in Seq(Records)
    BY Types
  <2>3. poll.rows \in Seq(Records')
    BY <2>1, <2>2, SeqMonotonic
  <2>4. ASSUME cursor # NoCursor PROVE cursor.seen \in Seq(Records')
    <3>1. cursor.seen \in Seq(Records)
      BY <2>4, Types
    <3> QED
      BY <2>1, <3>1, SeqMonotonic
  <2> QED
    BY <1>1, <1>2, <1>3, <2>3, <2>4 DEF TypeOK, NoCursor, Passed
<1>7. BornInv'
  <2>1. Len(born') <= MaxRecords
    <3>1. Len(born') = Len(born) + 1
      BY <1>3 DEF new
    <3> QED
      BY <1>1, <1>2, <3>1
  <2>2. \A r \in Records' : born'[r] <= clock'
    <3>1. \A r \in Records : born[r] <= clock
      BY DEF BornInv
    <3> QED
      BY <1>1, <1>2, <1>3, <1>4, <3>1
  <2>3. \A r, s \in Records' : r <= s => born'[r] <= born'[s]
    <3> SUFFICES ASSUME NEW r \in Records', NEW s \in Records', r <= s
                 PROVE  born'[r] <= born'[s]
      OBVIOUS
    <3>1. CASE s = new
      BY <1>1, <1>3, <2>2, <3>1
    <3>2. CASE s # new
      <4>1. s \in Records /\ r \in Records
        <5>1. s \in Records /\ s < new /\ (r \in Records \/ r = new)
          BY <1>4, <3>2
        <5> QED
          BY <1>2, <5>1 DEF new
      <4> QED
        BY <1>3, <4>1 DEF BornInv
    <3> QED
      BY <3>1, <3>2
  <2>4. \A t \in 0..MaxTime : Cardinality({r \in Records' : born'[r] = t}) <= MaxPerTick
    <3> TAKE t \in 0..MaxTime
    <3> DEFINE at == {r \in Records : born[r] = t}
    <3>1. IsFiniteSet(at)
      <4>1. IsFiniteSet(Records)
        BY <1>2, FS_Interval
      <4> QED
        BY <4>1, FS_Subset
    <3>2. Cardinality(at) \in Nat /\ Cardinality(at) <= MaxPerTick /\ MaxPerTick \in Nat
      BY <3>1, FS_CardinalityType DEF BornInv, TriggerAssumption
    <3>3. CASE t # clock
      <4>1. {r \in Records' : born'[r] = t} = at
        BY <1>3, <1>4, <3>3
      <4> QED
        BY <3>2, <4>1
    <3>4. CASE t = clock
      <4>1. {r \in Records' : born'[r] = t} = at \cup {new} /\ new \notin at
        BY <1>3, <1>4, <3>4
      <4>2. Cardinality(at \cup {new}) = Cardinality(at) + 1
        BY <3>1, <4>1, FS_AddElement
      <4>3. Cardinality(at) < MaxPerTick
        BY <1>1, <3>4
      <4>4. Cardinality(at) + 1 <= MaxPerTick
        <5> HIDE DEF at
        <5> QED
          BY <3>2, <4>3
      <4> QED
        BY <4>1, <4>2, <4>4
    <3> QED
      BY <3>3, <3>4
  <2> QED
    BY <1>1, <2>1, <2>2, <2>3, <2>4 DEF BornInv
<1>8. CursorInv'
  <2>1. cursor = NoCursor => poll = NoPoll /\ \A r \in 1..MaxRecords : told[r] = 0
    BY DEF CursorInv
  <2>2. ASSUME cursor # NoCursor
        PROVE  /\ baseline <= cursor.since /\ cursor.since <= clock
               /\ \A i \in DOMAIN cursor.seen :
                     /\ told[cursor.seen[i]] > 0
                     /\ \A j \in DOMAIN cursor.seen :
                           i < j => born'[cursor.seen[i]] <= born'[cursor.seen[j]]
               /\ \A r \in Records' : told[r] > 0 =>
                     /\ born'[r] <= cursor.since
                     /\ born'[r] = cursor.since => r \in Keys(cursor.seen)
               /\ AtMost(Copies(listing), cursor.seen)
    <3>1. \A i \in DOMAIN cursor.seen : cursor.seen[i] \in Records
      BY <2>2, Types
    <3>2. ~(told[new] > 0)
      BY <1>5
    <3> QED
      BY <1>3, <1>4, <2>2, <3>1, <3>2 DEF CursorInv
  <2>3. cursor' = cursor /\ poll' = poll /\ told' = told /\ baseline' = baseline
        /\ listing' = listing /\ clock' = clock
    BY <1>1
  <2> QED
    BY <2>1, <2>2, <2>3 DEF CursorInv, NoCursor, NoPoll, Keys
<1>9. ASSUME cursor # NoCursor PROVE RowsInv'
  <2>1. cursor.since <= clock /\ cursor.since \in Nat
    BY <1>9, Types DEF CursorInv
  <2>2. Pending' = Pending \cup {new} /\ new \notin Pending
    BY <1>1, <1>2, <1>3, <1>4, <2>1 DEF Pending
  <2>3. IsFiniteSet(Pending) /\ Cardinality(Pending) \in 0..Len(born)
    BY <1>9, PendingAreYoungest
  <2>4. Cardinality(Pending') = Cardinality(Pending) + 1
    BY <2>2, <2>3, FS_AddElement
  <2>5. Len(born') - Cardinality(Pending') = Len(born) - Cardinality(Pending)
    <3>1. Len(born') = Len(born) + 1
      BY <1>3 DEF new
    <3> QED
      BY <1>2, <2>3, <2>4, <3>1
  <2>6. \A k \in Keys(poll.rows) : k \in Records /\ k < new
    <3>1. \A i \in DOMAIN poll.rows : poll.rows[i] \in Records
      BY Types
    <3> QED
      BY <1>4, <3>1 DEF Keys
  <2>7. ~(\E k \in Keys(poll.rows) : new <= k)
    <3>1. new \in Nat /\ \A k \in Records : k \in Nat
      BY <1>2 DEF new
    <3> QED
      BY <2>6, <3>1
  <2>8. RowsComplete => RowsComplete'
    BY <1>1, <2>2, <2>7 DEF RowsComplete, Keys
  <2>9. listing.size \in Nat /\ poll.pages \in Nat
    BY Types
  <2>10. PICK depth \in Nat : depth = poll.pages * listing.size
    BY <2>9
  <2>11. \A r \in Records : r + depth > Len(born') => r + depth > Len(born)
    <3>1. Len(born') = Len(born) + 1
      BY <1>3 DEF new
    <3> QED
      BY <1>2, <3>1
  <2>12. listing.order = "newest" =>
            \A r \in Records' : r + poll.pages * listing.size > Len(born')
                                   /\ (\E k \in Keys(poll.rows) : r <= k) => r \in Keys(poll.rows)
    BY <1>4, <1>9, <2>7, <2>10, <2>11 DEF RowsInv
  <2>13. listing.order = "newest" =>
            /\ poll.ended /\ poll.pages < listing.pages => RowsComplete'
            /\ AtMost(poll.pages, poll.rows)
    BY <1>9, <2>8 DEF RowsInv
  <2>14. listing.order = "oldest" =>
            /\ \A i \in DOMAIN poll.rows : poll.rows[i] = Len(born') - Cardinality(Pending') + i
            /\ ~poll.ended => Len(poll.rows) = poll.pages * listing.size
    BY <1>9, <2>5 DEF RowsInv
  <2>15. poll' = poll /\ listing' = listing
    BY <1>1
  <2>16. ASSUME listing.order = "forms" PROVE FormsInv'
    <3>1. FormsInv
      BY <1>9, <2>16 DEF RowsInv
    <3>2. \A i, j \in DOMAIN poll.rows : poll.rows[i] = poll.rows[j] => i = j
      BY <3>1 DEF FormsInv
    <3>3. \A i \in DOMAIN poll.rows : listing.form[poll.rows[i]] \in 1..poll.pages
      BY <3>1 DEF FormsInv
    <3>4. \A f : Cardinality(Form(f)) \in Nat /\ Cardinality(Form(f)') \in Nat
                 /\ Cardinality(Form(f)) <= Cardinality(Form(f)')
      <4> TAKE f
      <4>1. IsFiniteSet(Form(f)) /\ Cardinality(Form(f)) \in Nat
        BY <1>9, FormsAreFinite
      <4>2. Form(f)' = {r \in Pending' : listing.form[r] = f}
        BY <1>1 DEF Form
      <4>3. Form(f) \subseteq Form(f)' /\ Form(f)' \subseteq Form(f) \cup {new}
        BY <2>2, <4>2 DEF Form
      <4>4. IsFiniteSet(Form(f) \cup {new})
        BY <4>1, FS_AddElement
      <4>5. IsFiniteSet(Form(f)')
        BY <4>3, <4>4, FS_Subset
      <4> QED
        BY <4>1, <4>3, <4>5, FS_Subset, FS_CardinalityType
    <3>5. ASSUME ~overrun', NEW r \in Pending', listing.form[r] \in 1..poll.pages,
                 Cardinality(Form(listing.form[r])') <= listing.size,
                 poll.ended => \E k \in Keys(poll.rows) : r <= k
          PROVE  r \in Keys(poll.rows)
      <4>1. ~overrun /\ ~Passed(listing.form[new])
        BY <1>1, <3>5
      <4>2. r # new
        <5>1. CASE poll.ended
          BY <2>7, <3>5, <5>1
        <5>2. CASE ~poll.ended
          <6>1. ~(listing.form[new] <= poll.pages)
            BY <2>16, <4>1, <5>2 DEF Passed
          <6>2. r = new => listing.form[new] <= poll.pages
            BY <2>9, <3>5
          <6> QED
            BY <6>1, <6>2
        <5> QED
          BY <5>1, <5>2
      <4>3. r \in Pending
        BY <2>2, <3>5, <4>2
      <4>4. PICK f : f = listing.form[r]
        OBVIOUS
      <4>5. Cardinality(Form(listing.form[r])) <= listing.size
        <5>1. Form(listing.form[r])' = Form(f)'
          BY <2>15, <4>4 DEF Form
        <5>2. Cardinality(Form(f)') <= listing.size
          BY <3>5, <5>1
        <5>3. Cardinality(Form(f)) <= listing.size
          BY <2>9, <3>4, <5>2
        <5> QED
          BY <4>4, <5>3
      <4> QED
        BY <3>1, <3>5, <4>1, <4>3, <4>5 DEF FormsInv
    <3>6. poll.ended => poll.pages = listing.pages
      BY <3>1 DEF FormsInv
    <3>7. (\A i, j \in DOMAIN poll.rows : poll.rows[i] = poll.rows[j] => i = j)'
          /\ (\A i \in DOMAIN poll.rows : listing.form[poll.rows[i]] \in 1..poll.pages)'
          /\ (poll.ended => poll.pages = listing.pages)'
      BY <2>15, <3>2, <3>3, <3>6
    <3>8. (~overrun => \A r \in Pending :
             /\ listing.form[r] \in 1..poll.pages
             /\ Cardinality(Form(listing.form[r])) <= listing.size
             /\ poll.ended => \E k \in Keys(poll.rows) : r <= k
             => r \in Keys(poll.rows))'
      <4>1. Keys(poll.rows)' = Keys(poll.rows)
        BY <2>15 DEF Keys
      <4>2. \A r : Form(listing.form[r])' = {s \in Pending' : listing.form[s] = listing.form[r]}
        BY <2>15 DEF Form
      <4>3. \A f : Form(f)' = {s \in Pending' : listing.form[s] = f}
        BY <2>15 DEF Form
      <4> QED
        BY <2>15, <3>5, <4>1, <4>2, <4>3
    <3> QED
      BY <3>7, <3>8 DEF FormsInv
  <2> QED
    BY <2>12, <2>13, <2>14, <2>15, <2>16 DEF RowsInv
<1>10. ToldOnce' /\ NothingSkipped'
  <2>1. \A r \in Records' : r \in Records \/ r = new
    BY <1>4
  <2>2. ToldOnce'
    <3>1. \A r \in Records' : told[r] <= 1
      BY <1>5, <2>1 DEF ToldOnce
    <3> QED
      BY <1>1, <3>1 DEF ToldOnce
  <2>3. ~(born'[new] < cursor.since) \/ cursor = NoCursor
    <3>1. cursor # NoCursor => cursor.since <= clock /\ cursor.since \in Nat
      BY Types DEF CursorInv
    <3> QED
      BY <1>2, <1>3, <3>1
  <2>4. cursor = NoCursor => ~(born'[new] < cursor.since)
    <3>1. cursor = NoCursor => cursor.since = 0
      BY DEF NoCursor
    <3> QED
      BY <1>2, <1>3, <3>1
  <2>5. NothingSkipped'
    <3>1. \A r \in Records' :
             /\ baseline <= born'[r] /\ born'[r] < cursor.since /\ ~overrun => told[r] > 0
             /\ cursor = NoCursor \/ born'[r] < baseline => told[r] = 0
      BY <1>3, <1>5, <2>1, <2>3, <2>4 DEF NothingSkipped
    <3> QED
      BY <1>1, <3>1 DEF NothingSkipped, NoCursor
  <2> QED
    BY <2>2, <2>5
<1>11. (\A r \in 1..MaxRecords : r \notin Records => told[r] = 0)'
  BY <1>1, <1>4
<1>12. (~poll.ended => poll.pages < listing.pages)' /\ (cursor # NoCursor => RowsInv)'
  BY <1>1, <1>9 DEF NoCursor
<1> QED
  BY <1>6, <1>7, <1>8, <1>10, <1>11, <1>12

\* The rows of the next page, by the order of the listing; a short page is
\* the last one.
LEMMA PageRows ==
    ASSUME TriggerAssumption, IInv, cursor # NoCursor,
           NEW depth \in Nat, depth = poll.pages * listing.size
    PROVE  /\ NextPage \in Seq(Records) /\ Len(NextPage) \in 0..listing.size
           /\ DOMAIN NextPage = 1..Len(NextPage)
           /\ \A i \in DOMAIN NextPage : NextPage[i] \in Records
           /\ listing.order = "oldest" => \A i \in DOMAIN NextPage :
                 NextPage[i] = Len(born) - Cardinality(Pending) + (depth + i)
           /\ listing.order = "newest" =>
                 /\ \A i \in DOMAIN NextPage : NextPage[i] = Len(born) + 1 - (depth + i)
                 /\ Len(NextPage) < listing.size => depth + Len(NextPage) >= Len(born)
<1> USE DEF IInv
<1>1. /\ listing.size \in Nat \ {0} /\ poll.pages \in Nat
      /\ Records = 1..Len(born) /\ Len(born) \in Nat
  BY Types
<1>2. Cardinality(Pending) \in 0..Len(born)
  BY PendingAreYoungest
<1>3. PICK n \in Nat : n = Len(Listed) /\ DOMAIN Listed = 1..n /\ \A i \in 1..n :
         /\ Listed[i] \in Records
         /\ listing.order = "oldest" => Listed[i] = Len(born) - Cardinality(Pending) + i
         /\ listing.order = "newest" => Listed[i] = Len(born) + 1 - i /\ n = Len(born)
  <2>1. CASE listing.order = "newest"
    <3>1. Listed = [i \in 1..Len(born) |-> Len(born) + 1 - i]
      BY <1>1, <2>1 DEF Listed
    <3>2. Len(Listed) = Len(born) /\ DOMAIN Listed = 1..Len(born)
      BY <1>1, <3>1
    <3>3. \A i \in 1..Len(born) : Listed[i] = Len(born) + 1 - i /\ Listed[i] \in Records
      BY <1>1, <3>1
    <3> QED
      BY <1>1, <2>1, <3>2, <3>3
  <2>2. CASE listing.order # "newest"
    <3>1. PICK c \in Nat : c = Cardinality(Pending) /\ c <= Len(born)
      BY <1>1, <1>2
    <3>2. Listed = [i \in 1..c |-> Len(born) - c + i]
      BY <2>2, <3>1 DEF Listed
    <3>3. Len(Listed) = c /\ DOMAIN Listed = 1..c
      BY <3>2
    <3>4. \A i \in 1..c : Listed[i] = Len(born) - c + i /\ Listed[i] \in Records
      BY <1>1, <3>1, <3>2
    <3> QED
      BY <2>2, <3>1, <3>3, <3>4
  <2> QED
    BY <2>1, <2>2
<1>4. (poll.pages + 1) * listing.size = depth + listing.size
  BY <1>1
<1>5. PICK k \in Nat : k = Upto(depth + listing.size, n)
  BY <1>1 DEF Upto
<1>6. k <= n /\ k <= depth + listing.size /\ (k = n \/ k = depth + listing.size)
  <2>1. CASE depth + listing.size < n
    BY <1>1, <1>5, <2>1 DEF Upto
  <2>2. CASE ~(depth + listing.size < n)
    BY <1>1, <1>5, <2>2 DEF Upto
  <2> QED
    BY <2>1, <2>2
<1>7. NextPage = SubSeq(Listed, depth + 1, k)
  BY <1>3, <1>4, <1>5 DEF NextPage
<1>8. \A i \in (depth + 1)..k : i \in 1..n
  BY <1>6
<1>9. \A i \in (depth + 1)..k : Listed[i] \in Records
  BY <1>3, <1>8
<1>10. /\ NextPage \in Seq(Records)
       /\ Len(NextPage) = IF depth + 1 <= k THEN k - (depth + 1) + 1 ELSE 0
       /\ \A i \in 1..(k - (depth + 1) + 1) : NextPage[i] = Listed[(depth + 1) + i - 1]
  BY <1>7, <1>9, SubSeqProperties
<1>11. DOMAIN NextPage = 1..Len(NextPage) /\ Len(NextPage) \in Nat
  BY <1>10, LenProperties
<1>12. /\ Len(NextPage) <= listing.size
       /\ Len(NextPage) < listing.size => depth + Len(NextPage) >= n
       /\ \A i \in DOMAIN NextPage : depth + i \in 1..n /\ NextPage[i] = Listed[depth + i]
  <2>1. CASE depth + 1 <= k
    <3>1. Len(NextPage) = k - depth
      BY <1>10, <2>1
    <3>2. \A i \in DOMAIN NextPage :
             /\ i \in 1..(k - (depth + 1) + 1) /\ (depth + 1) + i - 1 = depth + i
             /\ depth + i \in 1..n
      BY <1>6, <1>11, <3>1
    <3>3. \A i \in DOMAIN NextPage : NextPage[i] = Listed[depth + i]
      BY <1>10, <3>2
    <3>4. k - depth <= listing.size /\ (k - depth < listing.size => depth + (k - depth) >= n)
      BY <1>1, <1>6, <2>1
    <3> QED
      BY <3>1, <3>2, <3>3, <3>4
  <2>2. CASE ~(depth + 1 <= k)
    <3>1. Len(NextPage) = 0
      BY <1>10, <2>2
    <3>2. DOMAIN NextPage = {}
      BY <1>11, <3>1
    <3>3. k = n /\ depth >= n
      BY <1>1, <1>6, <2>2
    <3> QED
      BY <1>1, <3>1, <3>2, <3>3
  <2> QED
    BY <2>1, <2>2
<1>13. \A i \in DOMAIN NextPage : NextPage[i] \in Records
  BY <1>3, <1>12
<1>14. listing.order = "oldest" => \A i \in DOMAIN NextPage :
          NextPage[i] = Len(born) - Cardinality(Pending) + (depth + i)
  BY <1>3, <1>12
<1>15. listing.order = "newest" =>
          /\ \A i \in DOMAIN NextPage : NextPage[i] = Len(born) + 1 - (depth + i)
          /\ Len(NextPage) < listing.size => depth + Len(NextPage) >= Len(born)
  <2> SUFFICES ASSUME listing.order = "newest"
               PROVE  /\ \A i \in DOMAIN NextPage : NextPage[i] = Len(born) + 1 - (depth + i)
                      /\ Len(NextPage) < listing.size => depth + Len(NextPage) >= Len(born)
    OBVIOUS
  <2>1. \A i \in DOMAIN NextPage : NextPage[i] = Len(born) + 1 - (depth + i)
    BY <1>3, <1>12
  <2>2. CASE n = Len(born)
    BY <1>12, <2>1, <2>2
  <2>3. CASE n # Len(born)
    <3>1. n = 0
      BY <1>3, <2>3
    <3>2. Listed = [i \in Records |-> Len(born) + 1 - i]
      BY DEF Listed
    <3>3. DOMAIN Listed = 1..Len(born) /\ DOMAIN Listed = {}
      BY <1>1, <1>3, <3>1, <3>2
    <3>4. 1 \notin 1..Len(born)
      BY <3>3
    <3>5. Len(born) = 0
      BY <1>1, <3>4
    <3> QED
      BY <2>3, <3>1, <3>5
  <2> QED
    BY <2>2, <2>3
<1>16. Len(NextPage) \in 0..listing.size
  BY <1>1, <1>11, <1>12
<1> QED
  BY <1>10, <1>11, <1>13, <1>14, <1>15, <1>16

\* The page of a form: pending records of the form, none of them twice; all of
\* them, when they are not more than a page.
LEMMA FormPageRows ==
    ASSUME TriggerAssumption, IInv, cursor # NoCursor, NEW f, NEW page \in FormPages(f)
    PROVE  /\ page \in Seq(Records) /\ Len(page) \in 0..listing.size
           /\ DOMAIN page = 1..Len(page)
           /\ \A i \in DOMAIN page : page[i] \in Form(f)
           /\ \A i, j \in DOMAIN page : page[i] = page[j] => i = j
           /\ Cardinality(Form(f)) <= listing.size =>
                 \A r \in Form(f) : \E i \in DOMAIN page : page[i] = r
<1> USE DEF IInv
<1>1. listing.size \in Nat \ {0}
  BY Types
<1>2. IsFiniteSet(Form(f)) /\ Cardinality(Form(f)) \in Nat
  BY FormsAreFinite
<1>3. PICK c \in Nat : c = Cardinality(Form(f))
  BY <1>2
<1>4. PICK n \in Nat : n = Upto(listing.size, c) /\ n <= c /\ n <= listing.size
                       /\ (c <= listing.size => n = c)
  <2>1. CASE listing.size < c
    BY <1>1, <2>1 DEF Upto
  <2>2. CASE ~(listing.size < c)
    BY <1>1, <2>2 DEF Upto
  <2> QED
    BY <2>1, <2>2
<1>5. page \in [1..n -> Form(f)] /\ \A i, j \in DOMAIN page : page[i] = page[j] => i = j
  BY <1>3, <1>4 DEF FormPages
<1>6. Form(f) \subseteq Records
  BY DEF Form, Pending
<1>7. page \in Seq(Form(f)) /\ Len(page) = n /\ DOMAIN page = 1..n
  BY <1>5
<1>8. page \in Seq(Records)
  BY <1>6, <1>7, SeqMonotonic
<1>9. ASSUME Cardinality(Form(f)) <= listing.size, NEW r \in Form(f)
      PROVE  \E i \in DOMAIN page : page[i] = r
  <2>1. n = c /\ Cardinality(1..n) = n /\ IsFiniteSet(1..n)
    <3>1. n = c
      BY <1>3, <1>4, <1>9
    <3>2. 1 \in Nat /\ 1 <= n + 1
      OBVIOUS
    <3>3. IsFiniteSet(1..n) /\ Cardinality(1..n) = n + 1 - 1
      BY <3>2, IntervalSize
    <3> QED
      BY <3>1, <3>3
  <2>2. page \in Injection(1..n, Form(f))
    BY <1>5 DEF Injection, IsInjective
  <2>3. page \in Surjection(1..n, Form(f))
    BY <1>2, <1>3, <2>1, <2>2, FS_Injection
  <2> QED
    BY <1>7, <2>3 DEF Surjection
<1> QED
  BY <1>1, <1>4, <1>5, <1>7, <1>8, <1>9

\* One more page: the list still has no gap.
LEMMA ReadPageStep ==
    ASSUME TriggerAssumption, IInv, ReadPage
    PROVE  IInv'
<1> USE DEF IInv
<1>1. /\ cursor # NoCursor /\ ~poll.ended
      /\ UNCHANGED <<listing, clock, born, cursor, told, baseline, overrun, failures>>
  BY DEF ReadPage
<1>2. PICK page \in NextPages :
         poll' = [rows |-> poll.rows \o page,
                  pages |-> poll.pages + 1,
                  ended |-> \/ poll.pages + 1 = listing.pages
                            \/ /\ listing.order # "forms"
                               /\ \/ Len(page) < listing.size
                                  \/ born[page[Len(page)]] < cursor.since]
  BY DEF ReadPage
<1>3. /\ poll'.rows = poll.rows \o page /\ poll'.pages = poll.pages + 1
      /\ poll'.ended = (\/ poll.pages + 1 = listing.pages
                        \/ /\ listing.order # "forms"
                           /\ \/ Len(page) < listing.size
                              \/ born[page[Len(page)]] < cursor.since)
  BY <1>2
<1>4. /\ listing.size \in Nat \ {0} /\ poll.pages \in Nat /\ listing.pages \in Nat
      /\ poll.pages < listing.pages
      /\ Records = 1..Len(born) /\ Len(born) \in Nat /\ \A r \in Records : born[r] \in Nat
      /\ cursor.since \in Nat
  BY <1>1, Types
<1>5. /\ poll.rows \in Seq(Records) /\ Len(poll.rows) \in Nat
      /\ DOMAIN poll.rows = 1..Len(poll.rows)
      /\ \A i \in DOMAIN poll.rows : poll.rows[i] \in Records
  BY Types
<1>6. Records' = Records /\ Pending' = Pending
  BY <1>1 DEF Records, Pending
<1>7. PICK depth \in Nat : depth = poll.pages * listing.size
  BY <1>4
<1>8. PICK form \in Nat : form = poll.pages + 1
  BY <1>4
<1>9. listing.order = "forms" =>
          /\ page \in Seq(Records) /\ Len(page) \in 0..listing.size
          /\ DOMAIN page = 1..Len(page)
          /\ \A i \in DOMAIN page : page[i] \in Form(form)
          /\ \A i, j \in DOMAIN page : page[i] = page[j] => i = j
          /\ Cardinality(Form(form)) <= listing.size =>
                \A r \in Form(form) : \E i \in DOMAIN page : page[i] = r
  <2> SUFFICES ASSUME listing.order = "forms"
               PROVE  page \in FormPages(form)
    BY <1>1, FormPageRows
  <2> QED
    BY <1>8 DEF NextPages
<1>10. listing.order # "forms" => page = NextPage
  BY DEF NextPages
<1>11. listing.order # "forms" =>
      /\ page \in Seq(Records) /\ Len(page) \in 0..listing.size
      /\ DOMAIN page = 1..Len(page)
      /\ \A i \in DOMAIN page : page[i] \in Records
      /\ listing.order = "oldest" => \A i \in DOMAIN page :
            page[i] = Len(born) - Cardinality(Pending) + (depth + i)
      /\ listing.order = "newest" =>
            /\ \A i \in DOMAIN page : page[i] = Len(born) + 1 - (depth + i)
            /\ Len(page) < listing.size => depth + Len(page) >= Len(born)
  BY <1>1, <1>7, <1>10, PageRows
<1>12. \A f : Form(f) \subseteq Pending /\ Pending \subseteq Records
  BY DEF Form, Pending
<1>13. /\ page \in Seq(Records) /\ Len(page) \in 0..listing.size
       /\ DOMAIN page = 1..Len(page)
       /\ \A i \in DOMAIN page : page[i] \in Records
       /\ listing.order = "oldest" => \A i \in DOMAIN page :
             page[i] = Len(born) - Cardinality(Pending) + (depth + i)
       /\ listing.order = "newest" =>
             /\ \A i \in DOMAIN page : page[i] = Len(born) + 1 - (depth + i)
             /\ Len(page) < listing.size => depth + Len(page) >= Len(born)
  BY <1>9, <1>11, <1>12
<1> listing.size \in Nat /\ poll.pages \in Nat /\ listing.pages \in Nat /\ Len(born) \in Nat
  BY <1>4
<1>14. PICK n \in Nat, m \in Nat : n = Len(poll.rows) /\ m = Len(page) /\ m <= listing.size
  <2>1. Len(poll.rows) \in Nat
    BY <1>5
  <2>2. Len(page) \in Nat /\ Len(page) <= listing.size
    BY <1>13
  <2> QED
    BY <2>1, <2>2
<1>15. PICK rows : rows = poll.rows \o page
  OBVIOUS
<1>16. /\ rows \in Seq(Records) /\ Len(rows) = n + m
       /\ \A i \in 1..(n + m) : rows[i] = IF i <= n THEN poll.rows[i] ELSE page[i - n]
  BY <1>5, <1>13, <1>14, <1>15, ConcatProperties
<1>17. DOMAIN rows = 1..(n + m)
  BY <1>16, LenProperties
<1>18. \A i \in DOMAIN rows :
          \/ i <= n /\ i \in DOMAIN poll.rows /\ rows[i] = poll.rows[i]
          \/ i > n /\ i - n \in DOMAIN page /\ rows[i] = page[i - n]
  <2> TAKE i \in DOMAIN rows
  <2>1. DOMAIN poll.rows = 1..n /\ DOMAIN page = 1..m
    BY <1>5, <1>13, <1>14
  <2>2. CASE i <= n
    BY <1>16, <1>17, <2>1, <2>2
  <2>3. CASE ~(i <= n)
    <3>1. i > n /\ i - n \in 1..m
      BY <1>17, <2>3
    <3> QED
      BY <1>16, <1>17, <2>1, <2>3, <3>1
  <2> QED
    BY <2>2, <2>3
<1>19. poll'.rows = rows
  BY <1>3, <1>15
<1>20. Keys(rows) = Keys(poll.rows) \cup Keys(page)
  <2>1. \A i \in DOMAIN poll.rows : i \in DOMAIN rows /\ rows[i] = poll.rows[i]
    BY <1>5, <1>14, <1>16, <1>17
  <2>2. \A i \in DOMAIN page : n + i \in DOMAIN rows /\ rows[n + i] = page[i]
    <3> TAKE i \in DOMAIN page
    <3>1. n + i \in 1..(n + m) /\ ~(n + i <= n) /\ (n + i) - n = i
      BY <1>13, <1>14
    <3> QED
      BY <1>16, <1>17, <3>1
  <2> QED
    BY <1>18, <2>1, <2>2 DEF Keys
<1>21. (poll.pages + 1) * listing.size = depth + listing.size
  <2>1. \A p, s \in Nat : (p + 1) * s = p * s + s
    OBVIOUS
  <2>2. (poll.pages + 1) * listing.size = poll.pages * listing.size + listing.size
    BY <2>1
  <2> QED
    BY <1>7, <2>2
<1>22. TypeOK'
  <2>1. poll'.pages \in 0..listing'.pages
    BY <1>1, <1>4, <1>3
  <2>2. poll'.rows \in Seq(Records')
    BY <1>6, <1>16, <1>19
  <2>3. poll'.ended \in BOOLEAN
    BY <1>3
  <2> QED
    BY <1>1, <1>6, <2>1, <2>2, <2>3 DEF TypeOK, NoCursor
<1>23. (~poll.ended => poll.pages < listing.pages)'
  <2>1. ~poll'.ended => poll.pages + 1 # listing.pages
    BY <1>3
  <2> QED
    BY <1>1, <1>4, <1>3, <2>1
<1>24. ASSUME listing.order = "oldest"
       PROVE  /\ \A i \in DOMAIN rows : rows[i] = Len(born) - Cardinality(Pending) + i
              /\ ~poll'.ended => Len(rows) = depth + listing.size
  <2>1. n = depth
    BY <1>1, <1>7, <1>14, <1>24 DEF RowsInv
  <2>2. \A i \in DOMAIN rows : rows[i] = Len(born) - Cardinality(Pending) + i
    <3> TAKE i \in DOMAIN rows
    <3>1. CASE i <= n /\ i \in DOMAIN poll.rows /\ rows[i] = poll.rows[i]
      BY <1>1, <1>24, <3>1 DEF RowsInv
    <3>2. CASE i > n /\ i - n \in DOMAIN page /\ rows[i] = page[i - n]
      <4>1. rows[i] = Len(born) - Cardinality(Pending) + (depth + (i - n))
        BY <1>13, <1>24, <3>2
      <4>2. depth + (i - n) = i
        BY <1>17, <2>1
      <4> QED
        BY <4>1, <4>2
    <3> QED
      BY <1>18, <3>1, <3>2
  <2>3. ~poll'.ended => ~(m < listing.size)
    BY <1>3, <1>14, <1>24
  <2>4. ~poll'.ended => n + m = depth + listing.size
    BY <1>14, <2>1, <2>3
  <2> QED
    BY <1>16, <2>2, <2>4
<1>25. ASSUME listing.order = "newest"
       PROVE  /\ \A r \in Records : r + (depth + listing.size) > Len(born)
                    /\ (\E k \in Keys(rows) : r <= k) => r \in Keys(rows)
              /\ poll'.ended /\ poll.pages + 1 < listing.pages =>
                    \A r \in Pending : (\E k \in Keys(rows) : r <= k) => r \in Keys(rows)
              /\ AtMost(poll.pages + 1, rows)
  <2>1. \A i \in DOMAIN page : page[i] = Len(born) + 1 - (depth + i)
    BY <1>13, <1>25
  <2>2. m < listing.size => depth + m >= Len(born)
    BY <1>13, <1>14, <1>25
  <2>3. ASSUME NEW r \in Records, r + (depth + listing.size) > Len(born),
               NEW k \in Keys(rows), r <= k
        PROVE  r \in Keys(rows)
    <3>1. CASE r + depth > Len(born)
      <4>1. k \in Keys(poll.rows)
        <5>1. ASSUME NEW i \in DOMAIN page PROVE page[i] # k
          <6>1. page[i] = Len(born) + 1 - (depth + i) /\ i \in Nat /\ i >= 1
            BY <1>13, <1>14, <2>1
          <6>2. r \in Nat /\ page[i] < r
            BY <1>4, <3>1, <6>1
          <6> QED
            BY <1>4, <1>13, <2>3, <6>2
        <5> QED
          BY <1>20, <5>1 DEF Keys
      <4>2. r + poll.pages * listing.size > Len(born)
        BY <1>7, <3>1
      <4> QED
        BY <1>1, <1>20, <1>25, <2>3, <4>1, <4>2 DEF RowsInv
    <3>2. CASE ~(r + depth > Len(born))
      <4>1. r \in Nat
        BY <1>4
      <4>2. PICK i \in Nat : i = Len(born) + 1 - (depth + r)
        <5>1. Len(born) + 1 - (depth + r) \in Nat
          BY <3>2, <4>1
        <5> QED
          BY <5>1
      <4>3. i >= 1 /\ i <= listing.size /\ r = Len(born) + 1 - (depth + i)
        BY <2>3, <3>2, <4>1, <4>2
      <4>4. i <= m
        <5>1. CASE m < listing.size
          <6>1. r \in Nat /\ r >= 1
            BY <1>4
          <6> QED
            BY <1>14, <2>2, <4>2, <4>3, <5>1, <6>1
        <5>2. CASE ~(m < listing.size)
          BY <1>14, <4>3, <5>2
        <5> QED
          BY <5>1, <5>2
      <4>5. i \in DOMAIN page /\ page[i] = r
        BY <1>13, <1>14, <2>1, <4>3, <4>4
      <4> QED
        BY <1>20, <4>5 DEF Keys
    <3> QED
      BY <3>1, <3>2
  <2>4. ASSUME poll'.ended, poll.pages + 1 < listing.pages, NEW r \in Pending
        PROVE  r + (depth + listing.size) > Len(born)
    <3>1. r \in Records /\ born[r] >= cursor.since /\ r \in Nat /\ r >= 1
      BY <1>4 DEF Pending
    <3>2. m < listing.size \/ born[page[m]] < cursor.since
      <4>1. poll.pages + 1 # listing.pages
        BY <1>4, <2>4
      <4> QED
        BY <1>3, <1>14, <2>4, <4>1
    <3>3. CASE m < listing.size
      BY <1>4, <1>14, <2>2, <3>1, <3>3
    <3>4. CASE ~(m < listing.size) /\ born[page[m]] < cursor.since
      <4>1. m = listing.size /\ m \in DOMAIN page
        BY <1>4, <1>13, <1>14, <3>4
      <4>2. page[m] \in Records /\ page[m] = Len(born) + 1 - (depth + m)
        BY <1>13, <2>1, <4>1
      <4>3. ~(r <= page[m])
        <5>1. r <= page[m] => born[r] <= born[page[m]]
          BY <3>1, <4>2 DEF BornInv
        <5>2. born[r] \in Nat /\ born[page[m]] \in Nat
          BY <1>4, <3>1, <4>2
        <5>3. cursor.since \in Nat
          BY <1>4
        <5> QED
          BY <3>1, <3>4, <5>1, <5>2, <5>3
      <4> QED
        BY <1>4, <3>1, <4>1, <4>2, <4>3
    <3> QED
      BY <3>2, <3>3, <3>4
  <2>5. AtMost(poll.pages + 1, rows)
    <3>1. PICK c \in [DOMAIN poll.rows -> 1..poll.pages] :
             \A i, j \in DOMAIN poll.rows : poll.rows[i] = poll.rows[j] /\ c[i] = c[j] => i = j
      BY <1>1, <1>25 DEF RowsInv, AtMost
    <3> DEFINE copy == [i \in DOMAIN rows |-> IF i <= n THEN c[i] ELSE poll.pages + 1]
    <3>2. \A i \in DOMAIN poll.rows : c[i] \in Nat /\ c[i] <= poll.pages /\ c[i] >= 1
      BY <1>4, <3>1
    <3>3. copy \in [DOMAIN rows -> 1..(poll.pages + 1)]
      <4>1. \A i \in DOMAIN rows : i <= n => i \in DOMAIN poll.rows
        BY <1>5, <1>14, <1>17
      <4>2. \A i \in DOMAIN poll.rows : c[i] \in 1..(poll.pages + 1)
        BY <1>4, <3>2
      <4>3. poll.pages + 1 \in 1..(poll.pages + 1)
        BY <1>4
      <4> QED
        BY <4>1, <4>2, <4>3
    <3>4. \A i, j \in DOMAIN page : page[i] = page[j] => i = j
      <4> SUFFICES ASSUME NEW i \in DOMAIN page, NEW j \in DOMAIN page, page[i] = page[j]
                   PROVE  i = j
        OBVIOUS
      <4>1. i \in Nat /\ j \in Nat
        BY <1>13
      <4>2. Len(born) + 1 - (depth + i) = Len(born) + 1 - (depth + j)
        BY <2>1
      <4> QED
        BY <1>4, <4>1, <4>2
    <3>5. \A i, j \in DOMAIN rows : rows[i] = rows[j] /\ copy[i] = copy[j] => i = j
      <4> SUFFICES ASSUME NEW i \in DOMAIN rows, NEW j \in DOMAIN rows, rows[i] = rows[j],
                          copy[i] = copy[j]
                   PROVE  i = j
        OBVIOUS
      <4>1. i \in Nat /\ j \in Nat
        BY <1>17
      <4>2. \A h \in DOMAIN rows : h <= n => h \in DOMAIN poll.rows /\ copy[h] # poll.pages + 1
        BY <1>4, <1>5, <1>14, <1>17, <3>2
      <4>3. CASE i <= n /\ j <= n
        <5>1. i \in DOMAIN poll.rows /\ j \in DOMAIN poll.rows
          BY <4>2, <4>3
        <5>2. poll.rows[i] = poll.rows[j]
          BY <1>18, <4>1, <4>3
        <5>3. c[i] = c[j]
          BY <4>3
        <5> QED
          BY <3>1, <5>1, <5>2, <5>3
      <4>4. CASE i <= n /\ ~(j <= n)
        BY <4>2, <4>4
      <4>5. CASE ~(i <= n) /\ j <= n
        BY <4>2, <4>5
      <4>6. CASE ~(i <= n) /\ ~(j <= n)
        <5>1. i - n \in DOMAIN page /\ j - n \in DOMAIN page /\ page[i - n] = page[j - n]
          BY <1>18, <4>6
        <5>2. i - n = j - n
          BY <3>4, <5>1
        <5> QED
          BY <4>1, <5>2
      <4> QED
        BY <4>3, <4>4, <4>5, <4>6
    <3> HIDE DEF copy
    <3> QED
      BY <3>3, <3>5 DEF AtMost
  <2>6. Pending \subseteq Records
    BY DEF Pending
  <2> QED
    BY <2>3, <2>4, <2>5, <2>6
<1>26. ASSUME listing.order = "forms"
       PROVE  /\ \A i, j \in DOMAIN rows : rows[i] = rows[j] => i = j
              /\ \A i \in DOMAIN rows : listing.form[rows[i]] \in 1..form
              /\ ~overrun => \A r \in Pending :
                    /\ listing.form[r] \in 1..form
                    /\ Cardinality(Form(listing.form[r])) <= listing.size
                    => r \in Keys(rows)
              /\ poll'.ended => form = listing.pages
  <2>1. FormsInv
    BY <1>1, <1>26 DEF RowsInv
  <2>2. \A i \in DOMAIN poll.rows : listing.form[poll.rows[i]] \in 1..poll.pages
    BY <2>1 DEF FormsInv
  <2>3. \A i \in DOMAIN page : page[i] \in Form(form) /\ listing.form[page[i]] = form
    BY <1>9, <1>26 DEF Form
  <2>4. \A i \in DOMAIN rows : IF i <= n
                                THEN i \in DOMAIN poll.rows /\ rows[i] = poll.rows[i]
                                     /\ listing.form[rows[i]] \in 1..poll.pages
                                ELSE i - n \in DOMAIN page /\ rows[i] = page[i - n]
                                     /\ listing.form[rows[i]] = form
    <3> TAKE i \in DOMAIN rows
    <3>1. i \in Nat
      BY <1>17
    <3>2. CASE i <= n
      BY <1>18, <2>2, <3>1, <3>2
    <3>3. CASE ~(i <= n)
      BY <1>18, <2>3, <3>1, <3>3
    <3> QED
      BY <3>2, <3>3
  <2>5. form \notin 1..poll.pages /\ 1..poll.pages \subseteq 1..form
        /\ 1..form = 1..poll.pages \cup {form}
    BY <1>4, <1>8
  <2>6. \A i, j \in DOMAIN rows : rows[i] = rows[j] => i = j
    <3> SUFFICES ASSUME NEW i \in DOMAIN rows, NEW j \in DOMAIN rows, rows[i] = rows[j]
                 PROVE  i = j
      OBVIOUS
    <3>1. i \in Nat /\ j \in Nat
      BY <1>17
    <3>2. CASE i <= n /\ j <= n
      BY <2>1, <2>4, <3>2 DEF FormsInv
    <3>3. CASE i <= n /\ ~(j <= n)
      BY <2>4, <2>5, <3>3
    <3>4. CASE ~(i <= n) /\ j <= n
      BY <2>4, <2>5, <3>4
    <3>5. CASE ~(i <= n) /\ ~(j <= n)
      <4>1. i - n = j - n
        BY <1>9, <1>26, <2>4, <3>5
      <4> QED
        BY <3>1, <4>1
    <3> QED
      BY <3>2, <3>3, <3>4, <3>5
  <2>7. \A i \in DOMAIN rows : listing.form[rows[i]] \in 1..form
    <3> TAKE i \in DOMAIN rows
    <3>1. CASE i <= n
      BY <2>4, <2>5, <3>1
    <3>2. CASE ~(i <= n)
      BY <2>4, <2>5, <3>2
    <3> QED
      BY <3>1, <3>2
  <2>8. ASSUME ~overrun, NEW r \in Pending, listing.form[r] \in 1..form,
               Cardinality(Form(listing.form[r])) <= listing.size
        PROVE  r \in Keys(rows)
    <3>1. CASE listing.form[r] = form
      <4>1. r \in Form(form) /\ Cardinality(Form(form)) <= listing.size
        BY <2>8, <3>1 DEF Form
      <4>2. PICK i \in DOMAIN page : page[i] = r
        BY <1>9, <1>26, <4>1
      <4> QED
        BY <1>20, <4>2 DEF Keys
    <3>2. CASE listing.form[r] # form
      <4>1. listing.form[r] \in 1..poll.pages
        BY <2>5, <2>8, <3>2
      <4> QED
        BY <1>1, <1>20, <2>1, <2>8, <4>1 DEF FormsInv
    <3> QED
      BY <3>1, <3>2
  <2>9. poll'.ended => form = listing.pages
    BY <1>3, <1>8, <1>26
  <2> QED
    BY <2>6, <2>7, <2>8, <2>9
<1>27. \A f : Form(f)' = Form(f)
  BY <1>1, <1>6 DEF Form
<1>28. listing.order = "forms" => FormsInv'
  <2> SUFFICES ASSUME listing.order = "forms" PROVE FormsInv'
    OBVIOUS
  <2>1. (\A i, j \in DOMAIN poll.rows : poll.rows[i] = poll.rows[j] => i = j)'
    BY <1>19, <1>26
  <2>2. (\A i \in DOMAIN poll.rows : listing.form[poll.rows[i]] \in 1..poll.pages)'
    BY <1>1, <1>3, <1>8, <1>19, <1>26
  <2>3. (poll.ended => poll.pages = listing.pages)'
    BY <1>1, <1>3, <1>8, <1>26
  <2>4. (~overrun => \A r \in Pending :
           /\ listing.form[r] \in 1..poll.pages
           /\ Cardinality(Form(listing.form[r])) <= listing.size
           /\ poll.ended => \E k \in Keys(poll.rows) : r <= k
           => r \in Keys(poll.rows))'
    <3>1. Keys(poll.rows)' = Keys(rows)
      BY <1>19 DEF Keys
    <3>2. \A r : Form(listing.form[r])' = Form(listing.form[r])
      BY <1>1, <1>6 DEF Form
    <3> QED
      BY <1>1, <1>6, <1>3, <1>8, <1>26, <3>1, <3>2
  <2> QED
    BY <2>1, <2>2, <2>3, <2>4 DEF FormsInv
<1>29. RowsInv'
  <2>1. poll'.pages * listing'.size = depth + listing.size
    BY <1>1, <1>3, <1>21
  <2> QED
    BY <1>1, <1>6, <1>3, <1>19, <1>24, <1>25, <1>28, <2>1 DEF RowsInv, RowsComplete
<1>30. BornInv'
  BY <1>1, <1>6 DEF BornInv
<1>31. CursorInv'
  BY <1>1, <1>6 DEF CursorInv, NoCursor, Keys
<1>32. ToldOnce' /\ NothingSkipped'
  BY <1>1, <1>6 DEF ToldOnce, NothingSkipped, NoCursor
<1>33. (\A r \in 1..MaxRecords : r \notin Records => told[r] = 0)'
  BY <1>1, <1>6
<1> QED
  BY <1>22, <1>23, <1>29, <1>30, <1>31, <1>32, <1>33

\* The poll ends: what it emits is pending and was not told before, and the
\* next cursor stands behind nothing that was not told.
LEMMA EmitStep ==
    ASSUME TriggerAssumption, IInv, Emit
    PROVE  IInv'
<1> USE DEF IInv
<1>1. PICK batch : batch = Emitted
  OBVIOUS
<1>2. /\ poll.ended /\ poll' = NoPoll /\ overrun' = (overrun \/ Overruns)
      /\ told' = [r \in 1..MaxRecords |->
                    IF r \in Keys(batch) THEN Upto(told[r] + 1, 2) ELSE told[r]]
      /\ cursor' = [since |-> Since(batch), seen |-> Seen(batch)]
      /\ UNCHANGED <<listing, clock, born, baseline, failures>>
  BY <1>1 DEF Emit
<1>3. cursor # NoCursor
  BY <1>2 DEF CursorInv, NoPoll
<1>4. PICK since, seen : since = Since(batch) /\ seen = Seen(batch)
  OBVIOUS
<1>5. cursor'.since = since /\ cursor'.seen = seen /\ cursor' # NoCursor
  <2>1. cursor' = [since |-> since, seen |-> seen]
    BY <1>2, <1>4
  <2>2. "seen" \in DOMAIN cursor' /\ "seen" \notin DOMAIN NoCursor
    BY <2>1 DEF NoCursor
  <2> QED
    BY <2>1, <2>2
<1>6. Records' = Records
  BY <1>2 DEF Records
<1>7. /\ cursor.since \in Nat /\ \A r \in Records : born[r] \in Nat
      /\ \A r \in Records : r \in 1..MaxRecords
      /\ told \in [1..MaxRecords -> 0..2]
      /\ clock \in Nat /\ baseline \in Nat
  <2>1. told \in [1..MaxRecords -> 0..2] /\ clock \in Nat /\ baseline \in Nat
    BY DEF TypeOK
  <2>2. cursor.since \in Nat /\ \A r \in Records : born[r] \in Nat
    BY <1>3, Types
  <2>3. \A r \in Records : r \in 1..MaxRecords
    BY Types DEF BornInv, TriggerAssumption
  <2> QED
    BY <2>1, <2>2, <2>3
<1>8. /\ since \in 0..MaxTime /\ since \in Nat /\ cursor.since <= since /\ since <= clock
      /\ \A r \in Keys(batch) : cursor.since <= born[r] /\ born[r] <= since
  <2>1. /\ since \in 0..MaxTime /\ cursor.since <= since /\ since <= clock
        /\ \A r \in Keys(batch) : cursor.since <= born[r] /\ born[r] <= since
    BY <1>1, <1>3, <1>4, SinceMoves
  <2> QED
    BY <2>1
<1>9. /\ seen \in Seq(Records) /\ Len(seen) <= SEEN_KEYS
      /\ \A i \in DOMAIN seen :
            /\ seen[i] \in Records
            /\ seen[i] \in Keys(batch) \/ told[seen[i]] > 0
            /\ \A j \in DOMAIN seen : i < j => born[seen[i]] <= born[seen[j]]
      /\ \A r \in Keys(cursor.seen) \cup Keys(batch) : born[r] = since => r \in Keys(seen)
      /\ AtMost(Copies(listing), seen)
  BY <1>1, <1>3, <1>4, SeenRemembers
<1>10. \A r \in Keys(batch) : r \in Pending /\ r \in Records /\ r \notin Keys(cursor.seen)
  <2>1. \A r \in Keys(batch) : r \in Pending /\ r \notin Keys(cursor.seen)
    BY <1>1, EmittedBatch
  <2> QED
    BY <2>1 DEF Pending
<1>11. ASSUME NEW r \in Keys(batch)
       PROVE  told[r] = 0 /\ told'[r] = 1
  <2>1. r \in Records /\ cursor.since <= born[r] /\ r \notin Keys(cursor.seen)
    BY <1>8, <1>10
  <2>2. told[r] \in 0..2
    BY <1>7, <2>1
  <2>3. ~(told[r] > 0)
    <3> SUFFICES ASSUME told[r] > 0 PROVE FALSE
      OBVIOUS
    <3>1. born[r] <= cursor.since /\ (born[r] = cursor.since => r \in Keys(cursor.seen))
      BY <1>3, <2>1 DEF CursorInv
    <3>2. born[r] \in Nat
      BY <1>7, <2>1
    <3>3. cursor.since \in Nat
      BY <1>7
    <3> QED
      BY <2>1, <3>1, <3>2, <3>3
  <2>4. told[r] = 0
    BY <2>2, <2>3
  <2>5. Upto(told[r] + 1, 2) = 1
    BY <2>4 DEF Upto
  <2>6. told'[r] = Upto(told[r] + 1, 2)
    BY <1>2, <1>7, <2>1
  <2> QED
    BY <2>4, <2>5, <2>6
<1>12. \A r \in 1..MaxRecords : r \notin Keys(batch) => told'[r] = told[r]
  BY <1>2
<1>13. told' \in [1..MaxRecords -> 0..2]
  <2>1. \A r \in 1..MaxRecords : told'[r] \in 0..2
    <3> TAKE r \in 1..MaxRecords
    <3>1. CASE r \in Keys(batch)
      BY <1>11, <3>1
    <3>2. CASE r \notin Keys(batch)
      BY <1>7, <1>12, <3>2
    <3> QED
      BY <3>1, <3>2
  <2>2. DOMAIN told' = 1..MaxRecords /\ told' = [r \in 1..MaxRecords |-> told'[r]]
    BY <1>2
  <2> QED
    BY <2>1, <2>2
<1>14. poll'.rows = <<>> /\ poll'.pages = 0 /\ ~poll'.ended
  BY <1>2 DEF NoPoll
<1>15. /\ listing.size \in Nat /\ listing.pages \in Nat /\ 0 < listing.pages
       /\ 0 \in 0..listing.pages
  <2>1. listing.size \in Nat /\ listing.pages \in Nat \ {0}
    BY Types
  <2> QED
    BY <2>1
<1>16. TypeOK'
  <2>1. poll'.rows \in Seq(Records') /\ poll'.pages \in 0..listing'.pages
    BY <1>2, <1>6, <1>14, <1>15
  <2>2. poll'.ended \in BOOLEAN
    BY <1>2 DEF NoPoll
  <2>3. overrun' \in BOOLEAN
    BY <1>2
  <2>4. /\ cursor'.since \in 0..MaxTime /\ cursor'.seen \in Seq(Records')
        /\ Len(cursor'.seen) <= SEEN_KEYS
    BY <1>5, <1>6, <1>8, <1>9
  <2>5. /\ listing' = listing /\ clock' = clock /\ born' = born /\ baseline' = baseline
        /\ failures' = failures
    BY <1>2
  <2> QED
    BY <1>13, <2>1, <2>2, <2>3, <2>4, <2>5 DEF TypeOK
<1>17. RowsInv' /\ (poll.pages < listing.pages)'
  <2>1. DOMAIN poll'.rows = {} /\ Keys(poll'.rows) = {} /\ Len(poll'.rows) = 0
    BY <1>14 DEF Keys
  <2>2. 0 * listing.size = 0
    BY <1>15
  <2>3. AtMost(poll'.pages, poll'.rows)
    BY <1>14, AtMostEmpty
  <2>4. FormsInv'
    <3>1. 1..poll'.pages = {}
      BY <1>14
    <3> QED
      BY <1>14, <2>1, <3>1 DEF FormsInv
  <2> QED
    BY <1>2, <1>14, <1>15, <2>1, <2>2, <2>3, <2>4 DEF RowsInv
<1>18. BornInv'
  BY <1>2, <1>6 DEF BornInv
<1>19. CursorInv'
  <2>1. baseline' <= since /\ since <= clock'
    <3>1. baseline <= cursor.since
      BY <1>3 DEF CursorInv
    <3>2. baseline \in Nat /\ cursor.since \in Nat
      BY <1>7
    <3> QED
      BY <1>2, <1>8, <3>1, <3>2
  <2>2. \A i \in DOMAIN seen : told'[seen[i]] > 0
    <3> TAKE i \in DOMAIN seen
    <3>1. CASE seen[i] \in Keys(batch)
      BY <1>11, <3>1
    <3>2. CASE seen[i] \notin Keys(batch)
      <4>1. told[seen[i]] > 0 /\ seen[i] \in 1..MaxRecords
        BY <1>7, <1>9, <3>2
      <4> QED
        BY <1>12, <3>2, <4>1
    <3> QED
      BY <3>1, <3>2
  <2>3. ASSUME NEW r \in Records, told'[r] > 0
        PROVE  born[r] <= since /\ (born[r] = since => r \in Keys(seen))
    <3>1. CASE r \in Keys(batch)
      BY <1>8, <1>9, <3>1
    <3>2. CASE r \notin Keys(batch)
      <4>1. told[r] > 0
        BY <1>7, <1>12, <2>3, <3>2
      <4>2. born[r] <= cursor.since /\ (born[r] = cursor.since => r \in Keys(cursor.seen))
        BY <1>3, <4>1 DEF CursorInv
      <4>3. born[r] \in Nat
        BY <1>7
      <4>4. cursor.since \in Nat /\ since \in Nat /\ cursor.since <= since
        BY <1>7, <1>8
      <4>5. born[r] = since => born[r] = cursor.since
        BY <4>2, <4>3, <4>4
      <4> QED
        BY <1>9, <4>2, <4>3, <4>4, <4>5
    <3> QED
      BY <3>1, <3>2
  <2>4. AtMost(Copies(listing'), seen)
    BY <1>2, <1>9
  <2>5. \A i \in DOMAIN seen : \A j \in DOMAIN seen : i < j => born'[seen[i]] <= born'[seen[j]]
    BY <1>2, <1>9
  <2>6. born' = born
    BY <1>2
  <2> QED
    BY <1>5, <1>6, <2>1, <2>2, <2>3, <2>4, <2>5, <2>6 DEF CursorInv
<1>20. ToldOnce'
  <2>1. \A r \in Records : told'[r] <= 1
    <3> TAKE r \in Records
    <3>1. CASE r \in Keys(batch)
      BY <1>11, <3>1
    <3>2. CASE r \notin Keys(batch)
      BY <1>7, <1>12, <3>2 DEF ToldOnce
    <3> QED
      BY <3>1, <3>2
  <2> QED
    BY <1>6, <2>1 DEF ToldOnce
<1>21. NothingSkipped'
  <2>1. ASSUME NEW r \in Records, baseline <= born[r], born[r] < since, ~overrun'
        PROVE  told'[r] > 0
    <3>1. CASE r \in Keys(batch)
      BY <1>11, <3>1
    <3>2. CASE r \notin Keys(batch)
      <4>1. told'[r] = told[r] /\ told[r] \in 0..2
        BY <1>7, <1>12, <3>2
      <4>2. CASE born[r] < cursor.since
        <5>1. told[r] > 0
          BY <1>2, <2>1, <4>2 DEF NothingSkipped
        <5> QED
          BY <4>1, <5>1
      <4>3. CASE ~(born[r] < cursor.since)
        <5>1. r \in Pending
          <6>1. born[r] \in Nat
            BY <1>7
          <6>2. cursor.since \in Nat
            BY <1>7
          <6>3. born[r] >= cursor.since
            BY <4>3, <6>1, <6>2
          <6> QED
            BY <6>3 DEF Pending
        <5>2. r \in Keys(cursor.seen)
          BY <1>1, <1>2, <1>3, <1>4, <2>1, <3>2, <5>1, NothingLeftBehind
        <5>3. told[r] > 0
          BY <1>3, <5>2 DEF CursorInv, Keys
        <5> QED
          BY <4>1, <5>3
      <4> QED
        BY <4>2, <4>3
    <3> QED
      BY <3>1, <3>2
  <2>2. ASSUME NEW r \in Records, born[r] < baseline
        PROVE  told'[r] = 0
    <3>1. r \notin Keys(batch)
      <4>1. baseline <= cursor.since
        BY <1>3 DEF CursorInv
      <4>2. born[r] \in Nat
        BY <1>7
      <4>3. baseline \in Nat /\ cursor.since \in Nat
        BY <1>7
      <4>4. ~(cursor.since <= born[r])
        BY <2>2, <4>1, <4>2, <4>3
      <4> QED
        BY <1>8, <4>4
    <3>2. told[r] = 0
      BY <2>2 DEF NothingSkipped
    <3> QED
      BY <1>7, <1>12, <3>1, <3>2
  <2>3. born' = born /\ baseline' = baseline
    BY <1>2
  <2> QED
    BY <1>5, <1>6, <2>1, <2>2, <2>3 DEF NothingSkipped
<1>22. (\A r \in 1..MaxRecords : r \notin Records => told[r] = 0)'
  BY <1>6, <1>10, <1>12
<1> QED
  BY <1>14, <1>16, <1>17, <1>18, <1>19, <1>20, <1>21, <1>22

---------------------------------------------------------------------------
(* The theorems                                                            *)

\* Every step keeps the invariant.
LEMMA NextHolds ==
    ASSUME TriggerAssumption, IInv, [Next]_vars
    PROVE  IInv'
<1>1. CASE UNCHANGED vars
  <2>1. /\ UNCHANGED <<listing, clock, born, cursor, poll, told, baseline, overrun, failures>>
        /\ Records' = Records /\ Pending' = Pending
    BY <1>1 DEF vars, Records, Pending
  <2>2. TypeOK' /\ BornInv' /\ CursorInv'
    BY <2>1 DEF IInv, TypeOK, BornInv, CursorInv, NoCursor, NoPoll, Keys
  <2>3. FormsInv => FormsInv'
    BY <2>1 DEF FormsInv, Form, Keys
  <2>4. (cursor # NoCursor => RowsInv)' /\ ToldOnce' /\ NothingSkipped'
    BY <2>1, <2>3 DEF IInv, RowsInv, RowsComplete, ToldOnce, NothingSkipped, NoCursor, Keys
  <2> QED
    BY <2>1, <2>2, <2>4 DEF IInv
<1>2. CASE Tick
  BY <1>2, TickStep
<1>3. CASE Create
  BY <1>3, CreateStep
<1>4. CASE Baseline
  BY <1>4, BaselineStep
<1>5. CASE ReadPage
  BY <1>5, ReadPageStep
<1>6. CASE Emit
  BY <1>6, EmitStep
<1>7. CASE PollFails
  BY <1>7, PollFailsStep
<1> QED
  BY <1>1, <1>2, <1>3, <1>4, <1>5, <1>6, <1>7 DEF Next

\* The invariant holds for every listing, as long as the remembered keys hold
\* the copies of a burst.
THEOREM TriggerInvariant ==
    ASSUME TriggerAssumption
    PROVE  Spec => []IInv
<1>1. Init => IInv
  BY InitHolds
<1>2. IInv /\ [Next]_vars => IInv'
  BY NextHolds
<1> QED
  BY <1>1, <1>2, PTL DEF Spec

\* The types hold.
THEOREM TriggerTypes ==
    ASSUME TriggerAssumption
    PROVE  Spec => []TypeOK
<1>1. IInv => TypeOK
  BY DEF IInv
<1>2. Spec => []IInv
  BY TriggerInvariant
<1> QED
  BY <1>1, <1>2, PTL

\* No record is emitted by two polls, though the cursor's time stands still
\* within a burst and all but the last keys are forgotten.
THEOREM NoneToldTwice ==
    ASSUME TriggerAssumption
    PROVE  Spec => []ToldOnce
<1>1. IInv => ToldOnce
  BY DEF IInv
<1>2. Spec => []IInv
  BY TriggerInvariant
<1> QED
  BY <1>1, <1>2, PTL

\* No record is passed over by the cursor unless the listing was overrun (more
\* was pending than a newest-first one or the page of a form holds, or a record
\* came to a form after it was read), and none that is older than the first
\* cursor is emitted.
THEOREM NonePassedOver ==
    ASSUME TriggerAssumption
    PROVE  Spec => []NothingSkipped
<1>1. IInv => NothingSkipped
  BY DEF IInv
<1>2. Spec => []IInv
  BY TriggerInvariant
<1> QED
  BY <1>1, <1>2, PTL
=============================================================================
