----------------------- MODULE PartitionMonitorProofs -----------------------
(* Proofs about PartitionMonitor, for every window size, every timeout, every *)
(* threshold and every history of offsets.                                    *)
EXTENDS PartitionMonitor, FiniteSetTheorems, SequenceTheorems, TLAPS

-----------------------------------------------------------------------------
(* Operators *)

\* The greater of two numbers.
LEMMA MaxOfTwo ==
    ASSUME NEW x \in Int, NEW y \in Int
    PROVE  Max({x, y}) = IF x >= y THEN x ELSE y
BY DEF Max

\* The smaller of two numbers.
LEMMA MinOfTwo ==
    ASSUME NEW x \in Int, NEW y \in Int
    PROVE  Min({x, y}) = IF x <= y THEN x ELSE y
BY DEF Min

\* What a consumer commits is an offset.
LEMMA CommitType ==
    ASSUME NEW offset \in Nat, NEW by \in Int, NEW watermark \in Nat
    PROVE  Commit(offset, by, watermark) \in Nat
<1> DEFINE high == Max({watermark, offset})
           low == Min({offset + by, high})
<1>1. high \in Int
  BY MaxOfTwo
<1> HIDE DEF high
<1>2. low \in Int
  BY <1>1, MinOfTwo
<1> HIDE DEF low
<1>3. Commit(offset, by, watermark) = Max({0, low})
  BY DEF Commit, high, low
<1> QED BY <1>2, <1>3, MaxOfTwo

\* The lag of a record is never negative.
LEMMA NewRecordType ==
    ASSUME NEW offset \in Nat, NEW watermark \in Nat, NEW t \in Nat
    PROVE  /\ NewRecord(offset, watermark, t) \in Record
           /\ NewRecord(offset, watermark, t).offset = offset
           /\ NewRecord(offset, watermark, t).time = t
BY DEF NewRecord, Record

\* The fields of the records of a window.
LEMMA RecordFields ==
    /\ \A r \in Record : r.time \in Nat /\ r.offset \in Nat /\ r.lag \in Nat
    /\ \A w \in Seq(Record) : \A i \in 1..Len(w) :
          w[i].time \in Nat /\ w[i].offset \in Nat /\ w[i].lag \in Nat
<1>1. \A r \in Record : r.time \in Nat /\ r.offset \in Nat /\ r.lag \in Nat
  BY DEF Record
<1>2. \A w \in Seq(Record) : \A i \in 1..Len(w) : w[i] \in Record
  OBVIOUS
<1> QED BY <1>1, <1>2

\* addToWindow appends, and shifts by one when the window is full.
LEMMA AddToWindowFacts ==
    ASSUME NEW w \in Seq(Record), NEW r \in Record, Len(w) <= WindowSize
    PROVE  LET x == AddToWindow(w, r)
               drop == IF Len(w) = WindowSize THEN 1 ELSE 0
           IN  /\ x \in Seq(Record)
               /\ Len(x) = Len(w) + 1 - drop
               /\ x[Len(x)] = r
               /\ \A i \in 1..Len(x) : i < Len(x) => i + drop \in 1..Len(w) /\ x[i] = w[i + drop]
<1> DEFINE longer == Append(w, r)
<1>1. /\ longer \in Seq(Record) /\ Len(longer) = Len(w) + 1 /\ longer[Len(w) + 1] = r
      /\ \A i \in 1..Len(w) : longer[i] = w[i]
  OBVIOUS
<1>2. CASE Len(w) = WindowSize
  <2>1. Len(w) > 0 /\ Len(longer) > WindowSize
    BY <1>1, <1>2, MonitorAssumption
  <2>2. AddToWindow(w, r) = Tail(longer)
    BY <2>1 DEF AddToWindow
  <2>3. Tail(longer) \in Seq(Record) /\ Len(Tail(longer)) = Len(w)
    BY <1>1, <2>1
  <2>4. \A i \in 1..Len(w) : Tail(longer)[i] = longer[i + 1]
    BY <1>1, <2>1
  <2> HIDE DEF longer
  <2> QED BY <1>1, <1>2, <2>1, <2>2, <2>3, <2>4
<1>3. CASE Len(w) # WindowSize
  <2>1. ~(Len(longer) > WindowSize)
    BY <1>1, <1>3, MonitorAssumption
  <2>2. AddToWindow(w, r) = longer
    BY <2>1 DEF AddToWindow
  <2> HIDE DEF longer
  <2> QED BY <1>1, <1>3, <2>2
<1> QED BY <1>2, <1>3

\* The time of k checks grows by one interval with each.
LEMMA IntervalFacts ==
    /\ CheckInterval \in Nat \ {0}
    /\ Intervals(0) = 0
    /\ \A k \in Int : Intervals(k) \in Int /\ Intervals(k + 1) = Intervals(k) + CheckInterval
    /\ \A k, m \in Int : k <= m => Intervals(k) <= Intervals(m)
<1>1. CheckInterval \in Nat \ {0}
  BY MonitorAssumption
<1>2. \A k \in Int : Intervals(k) \in Int /\ Intervals(k + 1) = Intervals(k) + CheckInterval
  BY <1>1 DEF Intervals
<1>3. Intervals(0) = 0
  BY <1>1 DEF Intervals
<1>4. ASSUME NEW k \in Int, NEW m \in Int, k <= m PROVE Intervals(k) <= Intervals(m)
  <2>1. \A d \in Nat, c \in Nat : d * c >= 0
    OBVIOUS
  <2>2. (m - k) * CheckInterval >= 0
    BY <1>1, <1>4, <2>1
  <2>3. (m - k) * CheckInterval = m * CheckInterval - k * CheckInterval
    BY <1>1
  <2> QED BY <1>1, <2>2, <2>3 DEF Intervals
<1> QED BY <1>1, <1>2, <1>3, <1>4

-----------------------------------------------------------------------------
(* What the window remembers *)

\* The window after a check: the new record, and before it the old ones, one further back each.
LEMMA Shifted ==
    ASSUME NEW w \in Seq(Record), Len(w) <= WindowSize, NEW r \in Record
    PROVE  \E x \in Seq(Record), n \in Nat, m \in Nat :
             /\ x = AddToWindow(w, r) /\ n = Len(w) /\ m = Len(x)
             /\ m > 0 /\ m <= WindowSize /\ m \in {n, n + 1} /\ (m = n => n = WindowSize)
             /\ x[m] = r
             /\ \A i \in 1..m : i < m => n + i - m + 1 \in 1..n /\ x[i] = w[n + i - m + 1]
<1> DEFINE x == AddToWindow(w, r)
           drop == IF Len(w) = WindowSize THEN 1 ELSE 0
<1>1. /\ x \in Seq(Record) /\ Len(x) = Len(w) + 1 - drop /\ x[Len(x)] = r
      /\ \A i \in 1..Len(x) : i < Len(x) => i + drop \in 1..Len(w) /\ x[i] = w[i + drop]
  BY AddToWindowFacts
<1>2. WindowSize \in Nat \ {0} /\ Len(w) \in Nat /\ Len(x) \in Nat /\ drop \in {0, 1}
  BY <1>1, MonitorAssumption
<1>3. drop = 1 <=> Len(w) = WindowSize
  OBVIOUS
<1> HIDE DEF x, drop
<1>4. \A i \in 1..Len(x) : Len(w) + i - Len(x) + 1 = i + drop
  BY <1>1, <1>2
<1>5. /\ Len(x) > 0 /\ Len(x) <= WindowSize /\ Len(x) \in {Len(w), Len(w) + 1}
      /\ Len(x) = Len(w) => Len(w) = WindowSize
  BY <1>1, <1>2, <1>3
<1>6. \A i \in 1..Len(x) : i < Len(x) =>
        Len(w) + i - Len(x) + 1 \in 1..Len(w) /\ x[i] = w[Len(w) + i - Len(x) + 1]
  BY <1>1, <1>4
<1> QED BY <1>1, <1>2, <1>5, <1>6 DEF x

\* The times of the records stay a check apart, whatever the offset.
LEMMA StaysSpaced ==
    ASSUME NEW w \in Seq(Record), Len(w) <= WindowSize, NEW t \in Nat, Spaced(w, t),
           NEW r \in Record, NEW later \in Nat, r.time = later, later >= t + CheckInterval
    PROVE  Spaced(AddToWindow(w, r), later)
<1>1. PICK x \in Seq(Record), n \in Nat, m \in Nat :
             /\ x = AddToWindow(w, r) /\ n = Len(w) /\ m = Len(x)
             /\ m > 0 /\ m <= WindowSize /\ m \in {n, n + 1} /\ (m = n => n = WindowSize)
             /\ x[m] = r
             /\ \A i \in 1..m : i < m => n + i - m + 1 \in 1..n /\ x[i] = w[n + i - m + 1]
  BY Shifted
<1>2. ASSUME NEW i \in 1..m PROVE later - x[i].time >= Intervals(m - i)
  <2>1. CASE i = m
    <3>1. m - i = 0 /\ x[i].time = later
      BY <1>1, <2>1
    <3> QED BY <3>1, IntervalFacts
  <2>2. CASE i # m
    <3>0. n + i - m + 1 \in 1..n /\ x[i] = w[n + i - m + 1]
      <4>1. i < m
        BY <2>2
      <4> QED BY <1>1, <4>1
    <3>1. PICK j \in 1..n : j = n + i - m + 1 /\ x[i] = w[j]
      BY <3>0
    <3>2. PICK k \in Int : k = n - j
      OBVIOUS
    <3>3. m - i = k + 1
      BY <3>1, <3>2
    <3>4. PICK old \in Nat : old = w[j].time
      BY <1>1, RecordFields
    <3>5. t - old >= Intervals(k)
      BY <1>1, <3>2, <3>4 DEF Spaced
    <3>6. Intervals(k) \in Int /\ Intervals(k + 1) = Intervals(k) + CheckInterval /\ CheckInterval \in Nat
      BY IntervalFacts
    <3>7. later - old >= Intervals(k + 1)
      BY <3>5, <3>6
    <3> QED BY <3>1, <3>3, <3>4, <3>7
  <2> QED BY <2>1, <2>2
<1> QED BY <1>1, <1>2 DEF Spaced

\* A check that sees the offset again, in a window that may be full.
LEMMA RemembersAgain ==
    ASSUME NEW w \in Seq(Record), NEW offset \in Nat, NEW t \in Nat, NEW since \in Nat,
           NEW seen \in Nat, Remembers(w, offset, t, since, seen), Len(w) > 0,
           NEW r \in Record, r.offset = offset,
           NEW later \in Nat, r.time = later, later >= t + CheckInterval
    PROVE  Remembers(AddToWindow(w, r), offset, later, since, seen + 1)
<1>1. Len(w) <= WindowSize
  BY DEF Remembers
<1>2. PICK x \in Seq(Record), n \in Nat, m \in Nat :
             /\ x = AddToWindow(w, r) /\ n = Len(w) /\ m = Len(x)
             /\ m > 0 /\ m <= WindowSize /\ m \in {n, n + 1} /\ (m = n => n = WindowSize)
             /\ x[m] = r
             /\ \A i \in 1..m : i < m => n + i - m + 1 \in 1..n /\ x[i] = w[n + i - m + 1]
  BY <1>1, Shifted
<1>3. n > 0 /\ seen > 0
  BY <1>2 DEF Remembers
<1>4. \A i \in 1..m : i > m - (seen + 1) => x[i].offset = offset
  <2>1. \A i \in 1..n : i > n - seen => w[i].offset = offset
    BY <1>2 DEF Remembers
  <2> TAKE i \in 1..m
  <2> HAVE i > m - (seen + 1)
  <2>2. CASE i = m
    BY <1>2, <2>2
  <2>3. CASE i # m
    <3>0. n + i - m + 1 \in 1..n /\ x[i] = w[n + i - m + 1]
      <4>1. i < m
        BY <2>3
      <4> QED BY <1>2, <4>1
    <3>1. PICK j \in 1..n : j = n + i - m + 1 /\ x[i] = w[j]
      BY <3>0
    <3>2. j > n - seen
      <4>1. PICK d \in Int : d = i - m
        OBVIOUS
      <4>2. d > 0 - (seen + 1) /\ j = n + d + 1
        BY <3>1, <4>1
      <4> QED BY <4>2
    <3> QED BY <2>1, <3>1, <3>2
  <2> QED BY <2>2, <2>3
<1>5. seen + 1 < m => x[m - (seen + 1)].offset # offset
  <2> HAVE seen + 1 < m
  <2>1. seen < n
    <3>1. m <= n + 1
      BY <1>2
    <3> QED BY <3>1
  <2>2. w[n - seen].offset # offset
    BY <1>2, <2>1 DEF Remembers
  <2>3. PICK i \in 1..m : i = m - (seen + 1) /\ i < m
    OBVIOUS
  <2>4. n + i - m + 1 = n - seen
    BY <2>3
  <2> QED BY <1>2, <2>2, <2>3, <2>4
<1>6. seen + 1 \in 1..m => x[m - (seen + 1) + 1].time = since
  <2> HAVE seen + 1 \in 1..m
  <2>1. seen \in 1..n
    BY <1>2, <1>3
  <2>2. w[n - seen + 1].time = since
    BY <1>2, <2>1 DEF Remembers
  <2>3. PICK i \in 1..m : i = m - (seen + 1) + 1 /\ i < m
    BY <1>3
  <2>4. n + i - m + 1 = n - seen + 1
    BY <2>3
  <2> QED BY <1>2, <2>2, <2>3, <2>4
<1>7. seen + 1 > m => m = WindowSize
  <2>1. seen > n => n = WindowSize
    BY <1>2 DEF Remembers
  <2> QED BY <1>2, <2>1
<1>8. later - since >= Intervals(seen + 1 - 1)
  <2>1. t - since >= Intervals(seen - 1)
    BY <1>3 DEF Remembers
  <2>2. PICK k \in Int : k = seen - 1
    OBVIOUS
  <2>3. Intervals(k) \in Int /\ Intervals(k + 1) = Intervals(k) + CheckInterval /\ CheckInterval \in Nat
    BY IntervalFacts
  <2>4. seen + 1 - 1 = k + 1
    BY <2>2
  <2>5. t - since >= Intervals(k)
    BY <2>1, <2>2
  <2>6. later - since >= Intervals(k + 1)
    BY <2>3, <2>5
  <2> QED BY <2>4, <2>6
<1>9. Spaced(x, later)
  <2>1. Spaced(w, t)
    BY DEF Remembers
  <2> QED BY <1>1, <1>2, <2>1, StaysSpaced
<1> QED BY <1>2, <1>4, <1>5, <1>6, <1>7, <1>8, <1>9 DEF Remembers

\* A check that sees another offset, or the first one.
LEMMA RemembersMove ==
    ASSUME NEW w \in Seq(Record), NEW old \in Nat, NEW offset \in Nat, NEW t \in Nat,
           NEW since \in Nat, NEW seen \in Nat, Remembers(w, old, t, since, seen),
           Len(w) = 0 \/ offset # old,
           NEW r \in Record, r.offset = offset,
           NEW later \in Nat, r.time = later, later >= t + CheckInterval
    PROVE  Remembers(AddToWindow(w, r), offset, later, later, 1)
<1>1. Len(w) <= WindowSize
  BY DEF Remembers
<1>2. PICK x \in Seq(Record), n \in Nat, m \in Nat :
             /\ x = AddToWindow(w, r) /\ n = Len(w) /\ m = Len(x)
             /\ m > 0 /\ m <= WindowSize /\ m \in {n, n + 1} /\ (m = n => n = WindowSize)
             /\ x[m] = r
             /\ \A i \in 1..m : i < m => n + i - m + 1 \in 1..n /\ x[i] = w[n + i - m + 1]
  BY <1>1, Shifted
<1>3. \A i \in 1..m : i > m - 1 => x[i].offset = offset
  <2> TAKE i \in 1..m
  <2> HAVE i > m - 1
  <2>1. i = m
    OBVIOUS
  <2> QED BY <1>2, <2>1
<1>4. 1 < m => x[m - 1].offset # offset
  <2> HAVE 1 < m
  <2>1. n > 0 /\ seen > 0
    BY <1>2 DEF Remembers
  <2>2. n > n - seen /\ n \in 1..n
    BY <2>1
  <2>3. w[n].offset = old
    BY <1>2, <2>2 DEF Remembers
  <2>4. PICK i \in 1..m : i = m - 1 /\ i < m
    OBVIOUS
  <2>5. n + i - m + 1 = n
    BY <2>4
  <2>6. x[i] = w[n]
    BY <1>2, <2>4, <2>5
  <2> QED BY <1>2, <2>1, <2>3, <2>4, <2>6
<1>5. x[m - 1 + 1].time = later
  <2>1. m - 1 + 1 = m
    OBVIOUS
  <2> QED BY <1>2, <2>1
<1>6. later - later >= Intervals(1 - 1)
  <2>1. later - later = 0 /\ 1 - 1 = 0
    OBVIOUS
  <2> QED BY <2>1, IntervalFacts
<1>7. Spaced(x, later)
  <2>1. Spaced(w, t)
    BY DEF Remembers
  <2> QED BY <1>1, <1>2, <2>1, StaysSpaced
<1> QED BY <1>2, <1>3, <1>4, <1>5, <1>6, <1>7 DEF Remembers

-----------------------------------------------------------------------------
(* What the evaluator says of such a window *)

\* A set with two different members has more than one.
LEMMA TwoMembers ==
    ASSUME NEW S, IsFiniteSet(S), NEW x \in S, NEW y \in S, x # y
    PROVE  Cardinality(S) > 1
<1>1. Cardinality(S) \in Nat
  BY FS_CardinalityType
<1>2. Cardinality(S) # 0
  BY FS_EmptySet
<1>3. Cardinality(S) # 1
  BY FS_Singleton
<1> QED BY <1>1, <1>2, <1>3

\* isConsumerActive compares offsets only; with the history it says that the present offset has
\* not been there for all of the last five records.
LEMMA ActiveMeans ==
    ASSUME NEW w \in Seq(Record), NEW offset \in Nat, NEW t \in Nat, NEW since \in Nat,
           NEW seen \in Nat, Remembers(w, offset, t, since, seen), Len(w) >= 2
    PROVE  IsConsumerActive(w) <=> seen < Min({RecentRecords, Len(w)})
<1>1. PICK n \in Nat : n = Len(w)
  OBVIOUS
<1>2. PICK recent \in 2..n : recent = IF n < RecentRecords THEN n ELSE RecentRecords
  BY <1>1 DEF RecentRecords
<1>3. Min({RecentRecords, Len(w)}) = recent
  BY <1>1, <1>2, MinOfTwo DEF RecentRecords
<1> DEFINE I == (n - recent + 1)..n
           S == {w[i].offset : i \in I}
<1>4. IsConsumerActive(w) <=> Cardinality(S) > 1
  BY <1>1, <1>2 DEF IsConsumerActive
<1>5. IsFiniteSet(S)
  <2> DEFINE f == [i \in I |-> w[i].offset]
  <2>1. IsFiniteSet(I)
    BY FS_Interval
  <2>2. f \in Surjection(I, S)
    BY DEF Surjection
  <2> HIDE DEF I, S, f
  <2> QED BY <2>1, <2>2, FS_Surjection
<1>6. seen > 0 /\ n \in I /\ I \subseteq 1..n
  BY <1>1, <1>2 DEF Remembers
<1>7. CASE seen >= recent
  <2>1. \A i \in I : i \in 1..n /\ i > n - seen
    BY <1>2, <1>7
  <2>2. \A i \in I : w[i].offset = offset
    BY <1>1, <2>1 DEF Remembers
  <2>3. S = {offset}
    BY <1>6, <2>2
  <2>4. Cardinality(S) = 1
    BY <2>3, FS_Singleton
  <2> HIDE DEF S
  <2> QED BY <1>3, <1>4, <1>7, <2>4
<1>8. CASE seen < recent
  <2>1. n \in 1..n /\ n > n - seen /\ seen < n
    BY <1>2, <1>6, <1>8
  <2>2. w[n].offset = offset /\ w[n - seen].offset # offset
    BY <1>1, <2>1 DEF Remembers
  <2>3. n - seen \in I
    BY <1>2, <1>6, <1>8
  <2>4. w[n].offset \in S /\ w[n - seen].offset \in S
    BY <1>6, <2>3
  <2> HIDE DEF I, S
  <2>5. Cardinality(S) > 1
    BY <1>5, <2>2, <2>4, TwoMembers
  <2> QED BY <1>3, <1>4, <1>8, <2>5
<1> QED BY <1>2, <1>7, <1>8

\* timeSinceLastOffsetChange is exact, or the window spans the timeout and both are above it.
LEMMA SinceMeans ==
    ASSUME NEW w \in Seq(Record), NEW offset \in Nat, NEW t \in Nat, NEW since \in Nat,
           NEW seen \in Nat, Remembers(w, offset, t, since, seen), Len(w) > 0
    PROVE  /\ TimeSinceLastOffsetChange(w) \in Int
           /\ WindowSpansTimeout /\ Len(w) >= 2 =>
                (TimeSinceLastOffsetChange(w) > InactivityTimeout <=> t - since > InactivityTimeout)
<1>1. PICK n \in Nat : n = Len(w) /\ n > 0
  OBVIOUS
<1>2. seen > 0 /\ n <= WindowSize /\ w[n].time = t
  BY <1>1 DEF Remembers
<1>3. Latest(w).offset = offset /\ Latest(w).time = t
  <2>1. n \in 1..n /\ n > n - seen
    BY <1>1, <1>2
  <2>2. w[n].offset = offset
    BY <1>1, <2>1 DEF Remembers
  <2> QED BY <1>1, <1>2, <2>2 DEF Latest
<1> DEFINE changed == {i \in 1..n : w[i].offset # offset}
           from == IF changed = {} THEN 1 ELSE Max(changed) + 1
<1>4. TimeSinceLastOffsetChange(w) = IF n < 2 THEN 0 ELSE t - w[from].time
  BY <1>1, <1>3 DEF TimeSinceLastOffsetChange
<1>5. \A i \in 1..n : i > n - seen => w[i].offset = offset
  BY <1>1 DEF Remembers
<1>6. CASE seen < n
  <2>1. n - seen \in changed
    BY <1>1, <1>2, <1>6 DEF Remembers
  <2>2. \A i \in changed : i <= n - seen
    BY <1>5
  <2>3. Max(changed) = n - seen
    <3>1. \A i \in changed : i \in Int
      OBVIOUS
    <3> HIDE DEF changed
    <3>2. \E x \in changed : \A y \in changed : x >= y
      BY <2>1, <2>2, <3>1
    <3>3. Max(changed) \in changed /\ \A y \in changed : Max(changed) >= y
      BY <3>2 DEF Max
    <3> QED BY <2>1, <2>2, <3>1, <3>3
  <2>4. from = n - seen + 1
    <3> HIDE DEF changed
    <3> QED BY <2>1, <2>3
  <2>5. w[n - seen + 1].time = since
    <3>1. seen \in 1..n
      BY <1>2, <1>6
    <3> QED BY <1>1, <3>1 DEF Remembers
  <2> HIDE DEF from
  <2> QED BY <1>1, <1>4, <2>4, <2>5
<1>7. CASE seen = n
  <2>1. from = 1
    BY <1>5, <1>7
  <2>2. w[1].time = since
    <3>1. seen \in 1..n /\ n - seen + 1 = 1
      BY <1>1, <1>7
    <3> QED BY <1>1, <3>1 DEF Remembers
  <2> HIDE DEF from
  <2> QED BY <1>1, <1>4, <2>1, <2>2
<1>8. CASE seen > n
  <2>1. from = 1
    BY <1>5, <1>8
  <2>2. n = WindowSize /\ t - since >= Intervals(seen - 1) /\ Spaced(w, t)
    BY <1>1, <1>2, <1>8 DEF Remembers
  <2>3. PICK k \in Int : k = n - 1
    OBVIOUS
  <2>4. Intervals(k) \in Int /\ Intervals(seen - 1) \in Int /\ Intervals(k) <= Intervals(seen - 1)
    <3>1. PICK s \in Int : s = seen - 1
      OBVIOUS
    <3>2. k <= s
      BY <1>8, <2>3, <3>1
    <3> QED BY <3>1, <3>2, IntervalFacts
  <2>5. t - w[1].time >= Intervals(k)
    BY <1>1, <2>2, <2>3 DEF Spaced
  <2>6. w[1].time \in Nat
    BY <1>1, RecordFields
  <2> HIDE DEF from
  <2>7. ASSUME WindowSpansTimeout
        PROVE  t - since > InactivityTimeout /\ t - w[1].time > InactivityTimeout
    <3>1. Intervals(k) > InactivityTimeout /\ InactivityTimeout \in Nat
      BY <2>2, <2>3, <2>7, EvaluatorAssumption DEF WindowSpansTimeout, Intervals
    <3>2. t - since > InactivityTimeout
      BY <2>2, <2>4, <3>1
    <3>3. t - w[1].time > InactivityTimeout
      BY <2>4, <2>5, <2>6, <3>1
    <3> QED BY <3>2, <3>3
  <2> QED BY <1>1, <1>4, <2>1, <2>6, <2>7
<1> QED BY <1>6, <1>7, <1>8

\* determineStatus: STOPPED is said exactly of a window whose recent offsets are all the same, with
\* lag, for too long, and ACTIVE or LAGGING only of one where they differ, with lag.
LEMMA StatusMeans ==
    ASSUME NEW w \in Seq(Record), Len(w) > 0, TimeSinceLastOffsetChange(w) \in Int
    PROVE  /\ DetermineStatus(w) = "STOPPED" <=>
                /\ ~IsConsumerActive(w) /\ Latest(w).lag > 0
                /\ TimeSinceLastOffsetChange(w) > InactivityTimeout
           /\ DetermineStatus(w) \in {"ACTIVE", "LAGGING"} => IsConsumerActive(w) /\ Latest(w).lag > 0
<1>1. PICK lag \in Nat : lag = Latest(w).lag
  <2>1. Len(w) \in 1..Len(w)
    OBVIOUS
  <2> QED BY <2>1, RecordFields DEF Latest
<1>2. PICK since \in Int : since = TimeSinceLastOffsetChange(w)
  OBVIOUS
<1>3. InactivityTimeout \in Int
  BY EvaluatorAssumption
<1> QED BY <1>1, <1>2, <1>3 DEF DetermineStatus

-----------------------------------------------------------------------------
(* The monitored partition *)

\* Before the first check the window is empty.
LEMMA MonitorInit == Init => TypeOK /\ HistoryInv
<1> SUFFICES ASSUME Init PROVE TypeOK /\ HistoryInv
  OBVIOUS
<1>1. window = <<>> /\ Len(window) = 0 /\ window \in Seq(Record)
  BY DEF Init
<1>2. TypeOK
  BY <1>1 DEF Init, TypeOK, Never
<1>3. Spaced(window, now)
  BY <1>1 DEF Spaced
<1>4. HistoryInv
  BY <1>1, <1>3, MonitorAssumption DEF Init, HistoryInv, Remembers
<1> QED BY <1>2, <1>4

\* Each check leaves a window that remembers the present offset.
LEMMA MonitorStep == TypeOK /\ HistoryInv /\ [Next]_vars => TypeOK' /\ HistoryInv'
<1> SUFFICES ASSUME TypeOK, HistoryInv, [Next]_vars PROVE TypeOK' /\ HistoryInv'
  OBVIOUS
<1>1. CASE UNCHANGED vars
  BY <1>1 DEF vars, TypeOK, HistoryInv
<1>2. ASSUME NEW gap \in Gaps, NEW made \in Produced, NEW took \in Consumed, Check(gap, made, took)
      PROVE  TypeOK' /\ HistoryInv'
  <2>1. PICK t \in Nat : t = now + gap * CheckInterval /\ t >= now + CheckInterval
    <3>1. gap \in Nat \ {0} /\ CheckInterval \in Nat \ {0} /\ now \in Nat
      BY MonitorAssumption DEF TypeOK
    <3>2. ASSUME NEW g \in Nat \ {0}, NEW c \in Nat \ {0} PROVE g * c \in Nat /\ g * c >= c
      OBVIOUS
    <3>3. gap * CheckInterval \in Nat /\ gap * CheckInterval >= CheckInterval
      BY <3>1, <3>2
    <3> QED BY <3>1, <3>3
  <2>2. PICK watermark \in Nat : watermark = Max({0, highWatermark + made})
    <3>1. highWatermark + made \in Int
      BY MonitorAssumption DEF TypeOK
    <3> QED BY <3>1, MaxOfTwo
  <2>3. PICK offset \in Nat : offset = Commit(committed, took, watermark)
    <3>1. committed \in Nat /\ took \in Int
      BY MonitorAssumption DEF TypeOK
    <3> QED BY <3>1, CommitType
  <2>4. PICK r \in Record : r = NewRecord(offset, watermark, t) /\ r.offset = offset /\ r.time = t
    BY NewRecordType
  <2>5. /\ now' = t /\ highWatermark' = watermark /\ committed' = offset
        /\ window' = AddToWindow(window, r) /\ verdict' = EvaluatePartitionConsumer(window')
        /\ DetectAndPublishEvents(verdict', window', t)
        /\ lastMove' = IF window = <<>> \/ offset # committed THEN t ELSE lastMove
        /\ sightings' = IF window = <<>> \/ offset # committed THEN 1 ELSE sightings + 1
    BY <1>2, <2>1, <2>2, <2>3, <2>4 DEF Check
  <2>6. window \in Seq(Record) /\ Len(window) <= WindowSize
    BY DEF TypeOK, HistoryInv, Remembers
  <2>7. window' \in Seq(Record)
    BY <2>5, <2>6, AddToWindowFacts
  <2>8. lastEventTime' \in Nat \cup {Never}
    BY <2>5 DEF DetectAndPublishEvents, TypeOK
  <2>9. lastMove' \in Nat /\ sightings' \in Nat
    BY <2>5 DEF TypeOK
  <2>10. TypeOK'
    BY <2>5, <2>7, <2>8, <2>9 DEF TypeOK
  <2>11. CASE window = <<>> \/ offset # committed
    <3>1. Len(window) = 0 \/ offset # committed
      BY <2>6, <2>11
    <3>2. Remembers(window', offset, t, t, 1)
      BY <2>1, <2>4, <2>5, <2>6, <3>1, RemembersMove DEF TypeOK, HistoryInv
    <3> QED BY <2>5, <2>10, <2>11, <3>2 DEF HistoryInv
  <2>12. CASE ~(window = <<>> \/ offset # committed)
    <3>1. Len(window) > 0 /\ offset = committed
      BY <2>6, <2>12
    <3>2. Remembers(window', offset, t, lastMove, sightings + 1)
      BY <2>1, <2>4, <2>5, <2>6, <3>1, RemembersAgain DEF TypeOK, HistoryInv
    <3> QED BY <2>5, <2>10, <2>12, <3>2 DEF HistoryInv
  <2> QED BY <2>11, <2>12
<1> QED BY <1>1, <1>2 DEF Next

\* determineStatus (evaluator.go:73), which sees only a sliding window, says STOPPED exactly when
\* the whole history has the consumer stand still with lag for longer than the timeout.
THEOREM StoppedSaysWhatHappened == Spec => []StoppedIsExact
<1>1. TypeOK /\ HistoryInv => StoppedIsExact
  <2> SUFFICES ASSUME TypeOK, HistoryInv, WindowSpansTimeout, ~Insufficient(window), Len(window) >= 2
               PROVE  verdict.status = "STOPPED" <=>
                        /\ verdict.lag > 0
                        /\ now - lastMove > InactivityTimeout
                        /\ sightings >= Min({RecentRecords, Len(window)})
    BY DEF StoppedIsExact
  <2>1. window \in Seq(Record) /\ Len(window) > 0
    BY DEF TypeOK
  <2>2. verdict.status = DetermineStatus(window) /\ verdict.lag = Latest(window).lag
    BY DEF TypeOK, EvaluatePartitionConsumer
  <2>3. IsConsumerActive(window) <=> sightings < Min({RecentRecords, Len(window)})
    BY ActiveMeans DEF TypeOK, HistoryInv
  <2>4. /\ TimeSinceLastOffsetChange(window) \in Int
        /\ TimeSinceLastOffsetChange(window) > InactivityTimeout <=> now - lastMove > InactivityTimeout
    BY <2>1, SinceMeans DEF TypeOK, HistoryInv
  <2>5. DetermineStatus(window) = "STOPPED" <=>
                /\ ~IsConsumerActive(window) /\ Latest(window).lag > 0
                /\ TimeSinceLastOffsetChange(window) > InactivityTimeout
    BY <2>1, <2>4, StatusMeans
  <2>6. Min({RecentRecords, Len(window)}) \in Int /\ sightings \in Int
    BY <2>1, MinOfTwo DEF RecentRecords, TypeOK
  <2> QED BY <2>2, <2>3, <2>4, <2>5, <2>6
<1> QED BY <1>1, MonitorInit, MonitorStep, PTL DEF Spec

\* determineStatus (evaluator.go:73) never calls a consumer ACTIVE or LAGGING that has caught up or
\* stands still, however the lag moves.
THEOREM MovingConsumersMove == Spec => []MovingIsReal
<1>1. TypeOK /\ HistoryInv => MovingIsReal
  <2> SUFFICES ASSUME TypeOK, HistoryInv, verdict.status \in {"ACTIVE", "LAGGING"}
               PROVE  verdict.lag > 0 /\ sightings < Min({RecentRecords, Len(window)})
    BY DEF MovingIsReal
  <2>1. window \in Seq(Record) /\ Len(window) > 0 /\ ~Insufficient(window)
    BY DEF TypeOK, EvaluatePartitionConsumer, Insufficient
  <2>2. verdict.status = DetermineStatus(window) /\ verdict.lag = Latest(window).lag
    BY <2>1 DEF TypeOK, EvaluatePartitionConsumer
  <2>3. TimeSinceLastOffsetChange(window) \in Int
    BY <2>1, SinceMeans DEF TypeOK, HistoryInv
  <2>4. IsConsumerActive(window) /\ Latest(window).lag > 0
    BY <2>1, <2>2, <2>3, StatusMeans
  <2>5. Len(window) >= 2
    BY <2>4 DEF IsConsumerActive
  <2>6. sightings < Min({RecentRecords, Len(window)})
    BY <2>4, <2>5, ActiveMeans DEF TypeOK, HistoryInv
  <2> QED BY <2>2, <2>4, <2>6
<1> QED BY <1>1, MonitorInit, MonitorStep, PTL DEF Spec

-----------------------------------------------------------------------------
(* Events *)

\* The log `new` is the log `old` with events of this check, all of them in `published`.
Extends(new, old, published, t) ==
    /\ new \in Seq(Event)
    /\ Len(new) >= Len(old)
    /\ \A i \in 1..Len(old) : new[i] = old[i]
    /\ \A i \in 1..Len(new) : i > Len(old) => new[i].time = t /\ new[i].type \in published

\* One publication, successful or not, extends the log.
LEMMA ExtendsByOne ==
    ASSUME NEW old \in Seq(Event), NEW new, NEW published \in SUBSET EventType, NEW t \in Nat,
           Extends(new, old, published, t), NEW e
    PROVE  Extends(new \o (IF e \in published THEN <<[type |-> e, time |-> t]>> ELSE <<>>),
                   old, published, t)
<1>1. new \in Seq(Event)
  BY DEF Extends
<1>2. CASE e \in published
  <2>0. e \in EventType
    BY <1>2
  <2>1. PICK ev \in Event : ev = [type |-> e, time |-> t] /\ ev.type = e /\ ev.time = t
    <3> DEFINE made == [type |-> e, time |-> t]
    <3>1. made \in Event
      BY <2>0 DEF Event
    <3>2. made.type = e /\ made.time = t
      OBVIOUS
    <3> HIDE DEF made
    <3>3. \E ev \in Event : ev = made /\ ev.type = e /\ ev.time = t
      BY <3>1, <3>2
    <3> QED BY <3>3 DEF made
  <2>2. PICK x \in Seq(Event) : x = new \o <<ev>>
    <3>1. <<ev>> \in Seq(Event)
      OBVIOUS
    <3>2. new \o <<ev>> \in Seq(Event)
      BY <1>1, <3>1
    <3> QED BY <3>2
  <2>3. /\ Len(x) = Len(new) + 1 /\ x[Len(new) + 1] = ev
        /\ \A i \in 1..Len(new) : x[i] = new[i]
    BY <1>1, <2>2
  <2>4. Extends(x, old, published, t)
    <3>1. PICK n \in Nat, m \in Nat : n = Len(new) /\ m = Len(old) /\ m <= n
      BY <1>1 DEF Extends
    <3>2. \A i \in 1..m : i \in 1..n /\ x[i] = old[i]
      BY <2>3, <3>1 DEF Extends
    <3>3. \A i \in 1..Len(x) : i > m => x[i].time = t /\ x[i].type \in published
      <4> TAKE i \in 1..Len(x)
      <4> HAVE i > m
      <4>1. CASE i = n + 1
        BY <1>2, <2>1, <2>3, <3>1, <4>1
      <4>2. CASE i # n + 1
        <5>1. i \in 1..n
          BY <2>3, <3>1, <4>2
        <5> QED BY <2>3, <3>1, <5>1 DEF Extends
      <4> QED BY <4>1, <4>2
    <3> QED BY <2>3, <3>1, <3>2, <3>3 DEF Extends
  <2> QED BY <1>2, <2>1, <2>2, <2>4
<1>3. CASE e \notin published
  <2>1. new \o <<>> = new
    BY <1>1, ConcatEmptySeq
  <2> QED BY <1>3, <2>1
<1> QED BY <1>2, <1>3

\* The log of a check is the old one, with events of its own.
LEMMA CheckExtends ==
    ASSUME TypeOK, EventInv, NEW v, NEW w, NEW t \in Nat, ~CoolingDown(t),
           DetectAndPublishEvents(v, w, t)
    PROVE  \E published \in SUBSET EventType :
             /\ Extends(events', events, published, t)
             /\ lastEventTime' = IF published \ {"lag_cleared"} # {} THEN t ELSE lastEventTime
<1> DEFINE change == StatusChangeEvent(previousStatus, v.status)
           Only(S, e) == IF e \in S THEN <<[type |-> e, time |-> t]>> ELSE <<>>
<1>1. PICK published \in Outcomes(Wanted(v, w)) :
        /\ events' = events \o Only(published, change) \o Only(published, "rapid_lag_increase")
                            \o Only(published, "lag_cleared")
        /\ lastEventTime' = IF published \ {"lag_cleared"} # {} THEN t ELSE lastEventTime
  BY DEF DetectAndPublishEvents
<1>2. published \in SUBSET EventType
  <2>1. change \in EventType \cup {NoEvent}
    BY DEF StatusChangeEvent, EventType
  <2>2. "rapid_lag_increase" \in EventType /\ "lag_cleared" \in EventType
    BY DEF EventType
  <2>3. Wanted(v, w) \subseteq EventType
    BY <2>1, <2>2 DEF Wanted
  <2> QED BY <1>1, <2>3 DEF Outcomes
<1>3. events \in Seq(Event)
  BY DEF EventInv
<1>4. Extends(events, events, published, t)
  BY <1>3 DEF Extends
<1> HIDE DEF change
<1>5. Extends(events \o Only(published, change), events, published, t)
  BY <1>2, <1>3, <1>4, ExtendsByOne
<1> DEFINE one == events \o Only(published, change)
           two == one \o Only(published, "rapid_lag_increase")
           three == two \o Only(published, "lag_cleared")
<1> HIDE DEF one
<1>6. Extends(two, events, published, t)
  BY <1>2, <1>3, <1>5, ExtendsByOne DEF one
<1> HIDE DEF two
<1>7. Extends(three, events, published, t)
  BY <1>2, <1>3, <1>6, ExtendsByOne
<1>8. events' = three
  BY <1>1 DEF one, two
<1> QED BY <1>1, <1>2, <1>7, <1>8

\* Before the first check there is no event.
LEMMA EventInit == Init => EventInv
<1> SUFFICES ASSUME Init PROVE EventInv
  OBVIOUS
<1>1. events \in Seq(Event) /\ Len(events) = 0
  BY DEF Init
<1> QED BY <1>1 DEF Init, EventInv, EventsSpaced, Never

\* A check that publishes is Cooldown later than every event that counts.
LEMMA EventStep == TypeOK /\ EventInv /\ [Next]_vars => EventInv'
<1> SUFFICES ASSUME TypeOK, EventInv, [Next]_vars PROVE EventInv'
  OBVIOUS
<1>1. CASE UNCHANGED vars
  BY <1>1 DEF vars, EventInv, EventsSpaced
<1>2. ASSUME NEW gap \in Gaps, NEW made \in Produced, NEW took \in Consumed, Check(gap, made, took)
      PROVE  EventInv'
  <2>1. PICK t \in Nat : t = now + gap * CheckInterval /\ t > now
    <3>1. gap \in Nat \ {0} /\ CheckInterval \in Nat \ {0} /\ now \in Nat
      BY MonitorAssumption DEF TypeOK
    <3>2. ASSUME NEW g \in Nat \ {0}, NEW c \in Nat \ {0} PROVE g * c \in Nat /\ g * c > 0
      OBVIOUS
    <3>3. gap * CheckInterval \in Nat /\ gap * CheckInterval > 0
      BY <3>1, <3>2
    <3> QED BY <3>1, <3>3
  <2>2. now' = t /\ DetectAndPublishEvents(verdict', window', t)
    BY <1>2, <2>1 DEF Check
  <2>3. now \in Nat /\ lastEventTime \in Int /\ Cooldown \in Nat /\ Never \in Int
    BY MonitorAssumption DEF TypeOK, Never
  <2>4. CASE CoolingDown(t)
    <3>1. UNCHANGED <<lastEventTime, events>>
      BY <2>2, <2>4 DEF DetectAndPublishEvents
    <3>2. EventsSpaced'
      BY <3>1 DEF EventInv, EventsSpaced
    <3>3. lastEventTime' <= now'
      BY <2>1, <2>2, <2>3, <3>1 DEF EventInv
    <3> QED BY <3>1, <3>2, <3>3 DEF EventInv
  <2>5. CASE ~CoolingDown(t)
    <3>1. PICK published \in SUBSET EventType :
             /\ Extends(events', events, published, t)
             /\ lastEventTime' = IF published \ {"lag_cleared"} # {} THEN t ELSE lastEventTime
      BY <2>2, <2>5, CheckExtends
    <3>2. PICK n \in Nat, m \in Nat : n = Len(events) /\ m = Len(events')
      BY <3>1 DEF EventInv, Extends
    <3>3. events' \in Seq(Event)
      BY <3>1 DEF Extends
    <3>4. \A i \in 1..m : \/ i \in 1..n /\ events'[i] = events[i]
                          \/ i > n /\ events'[i].time = t /\ events'[i].type \in published
      BY <3>1, <3>2 DEF Extends
    <3>5. \A i \in 1..n : events[i].time \in Nat /\
             (events[i].type # "lag_cleared" => lastEventTime # Never /\ events[i].time <= lastEventTime)
      <4>1. \A e \in Event : e.time \in Nat
        BY DEF Event
      <4>2. \A i \in 1..n : events[i] \in Event
        BY <3>2 DEF EventInv
      <4>3. \A i \in 1..n : events[i].type # "lag_cleared" =>
               lastEventTime # Never /\ events[i].time <= lastEventTime
        BY <3>2 DEF EventInv
      <4> QED BY <4>1, <4>2, <4>3
    <3>6. lastEventTime # Never => t - lastEventTime >= Cooldown
      BY <2>3, <2>5 DEF CoolingDown
    <3>7. lastEventTime <= now
      BY DEF EventInv
    <3>8. lastEventTime' <= now'
      BY <2>1, <2>2, <2>3, <3>1, <3>7
    <3>9. \A i \in 1..m : events'[i].type # "lag_cleared" =>
             lastEventTime' # Never /\ events'[i].time <= lastEventTime'
      <4> TAKE i \in 1..m
      <4> HAVE events'[i].type # "lag_cleared"
      <4>0. t # Never
        BY DEF Never
      <4>1. CASE i > n /\ events'[i].time = t /\ events'[i].type \in published
        BY <3>1, <4>0, <4>1
      <4>2. CASE i \in 1..n /\ events'[i] = events[i]
        <5>1. lastEventTime # Never /\ events[i].time <= lastEventTime /\ events[i].time \in Nat
          BY <3>5, <4>2
        <5>2. lastEventTime' = lastEventTime \/ lastEventTime' = t
          BY <3>1
        <5>3. lastEventTime' # Never /\ events[i].time <= lastEventTime'
          BY <2>1, <2>3, <3>7, <4>0, <5>1, <5>2
        <5> QED BY <4>2, <5>3
      <4> QED BY <3>4, <4>1, <4>2
    <3>10. ASSUME NEW i \in 1..m, NEW j \in 1..m, i < j,
                  events'[i].type # "lag_cleared", events'[j].type # "lag_cleared"
           PROVE  events'[i].time = events'[j].time \/ events'[j].time - events'[i].time >= Cooldown
      <4>1. CASE j \in 1..n /\ events'[j] = events[j]
        <5>1. i \in 1..n /\ j \in 1..n
          BY <3>10, <4>1
        <5>2. events'[i] = events[i]
          BY <3>4, <5>1
        <5>3. events[i].time = events[j].time \/ events[j].time - events[i].time >= Cooldown
          BY <3>2, <3>10, <4>1, <5>1, <5>2 DEF EventInv, EventsSpaced
        <5> QED BY <4>1, <5>2, <5>3
      <4>2. CASE j > n /\ events'[j].time = t /\ i > n /\ events'[i].time = t
        BY <4>2
      <4>3. CASE j > n /\ events'[j].time = t /\ i \in 1..n /\ events'[i] = events[i]
        <5>1. lastEventTime # Never /\ events[i].time <= lastEventTime /\ events[i].time \in Nat
          BY <3>5, <3>10, <4>3
        <5>2. t - events[i].time >= Cooldown
          BY <2>3, <3>6, <5>1
        <5> QED BY <4>3, <5>2
      <4> QED BY <3>4, <4>1, <4>2, <4>3
    <3>11. EventsSpaced'
      BY <3>2, <3>10 DEF EventsSpaced
    <3> QED BY <3>2, <3>3, <3>8, <3>9, <3>11 DEF EventInv
  <2> QED BY <2>4, <2>5
<1> QED BY <1>1, <1>2 DEF Next

\* The five minutes of detectAndPublishEvents (analyzer.go:54) hold between any two events of a
\* partition that set lastEventTime, whichever publications fail.
THEOREM CooldownHolds == Spec => []EventsSpaced
<1>1. EventInv => EventsSpaced
  BY DEF EventInv
<1> QED BY <1>1, MonitorInit, MonitorStep, EventInit, EventStep, PTL DEF Spec

-----------------------------------------------------------------------------
(* Trends *)

\* Induction over Nat, for a set instead of a predicate: were m outside of a set that has 0 and every
\* successor of its elements, adding 1 would map the part of it below m into itself without the 0.
LEMMA InductiveSet ==
    ASSUME NEW T \in SUBSET Nat, 0 \in T, \A n \in T : n + 1 \in T
    PROVE  T = Nat
<1> SUFFICES ASSUME NEW m \in Nat, m \notin T PROVE FALSE
  OBVIOUS
<1> DEFINE A == T \cap 0..m
           B == A \ {0}
           next == [n \in A |-> n + 1]
<1>1. IsFiniteSet(A)
  <2>1. IsFiniteSet(0..m)
    BY FS_Interval
  <2> QED BY <2>1, FS_Subset
<1>2. 0 \in A
  OBVIOUS
<1>3. IsFiniteSet(B) /\ Cardinality(B) = Cardinality(A) - 1 /\ Cardinality(A) \in Nat
  BY <1>1, <1>2, FS_RemoveElement, FS_CardinalityType
<1>4. next \in [A -> B]
  OBVIOUS
<1>5. \A i, j \in A : next[i] = next[j] => i = j
  OBVIOUS
<1> HIDE DEF A, B, next
<1>6. \E i, j \in A : i # j /\ next[i] = next[j]
  BY <1>1, <1>3, <1>4, FS_PigeonHole
<1> QED BY <1>5, <1>6

\* f[n] is the sum of the lags of the first n records of w.
Sums(f, w, m) == f = [n \in 0..m |-> IF n = 0 THEN 0 ELSE f[n - 1] + w[n].lag]

\* The recursive definition of the sum has a solution for windows of every length.
LEMMA SumsExist ==
    ASSUME NEW w, NEW m \in Nat
    PROVE  \E f : Sums(f, w, m)
<1> DEFINE T == {n \in Nat : \E f : Sums(f, w, n)}
<1>1. 0 \in T
  <2> DEFINE f == [n \in 0..0 |-> 0]
  <2>1. f = [n \in 0..0 |-> IF n = 0 THEN 0 ELSE f[n - 1] + w[n].lag]
    OBVIOUS
  <2>2. \E g : Sums(g, w, 0)
    BY <2>1 DEF Sums
  <2> QED BY <2>2
<1>2. ASSUME NEW n \in T PROVE n + 1 \in T
  <2>1. PICK f : Sums(f, w, n)
    OBVIOUS
  <2> DEFINE g == [i \in 0..(n + 1) |-> IF i = 0 THEN 0 ELSE f[i - 1] + w[i].lag]
  <2>2. \A i \in 0..n : g[i] = f[i]
    BY <2>1 DEF Sums
  <2>3. ASSUME NEW i \in 0..(n + 1), i # 0 PROVE g[i - 1] = f[i - 1]
    <3>1. i - 1 \in 0..n
      BY <2>3
    <3> HIDE DEF g
    <3> QED BY <2>2, <3>1
  <2>4. g = [i \in 0..(n + 1) |-> IF i = 0 THEN 0 ELSE g[i - 1] + w[i].lag]
    BY <2>3
  <2>5. \E h : Sums(h, w, n + 1)
    BY <2>4 DEF Sums
  <2> QED BY <2>5
<1> HIDE DEF T
<1>3. T = Nat
  <2>1. T \in SUBSET Nat
    BY DEF T
  <2> QED BY <1>1, <1>2, <2>1, InductiveSet
<1>4. m \in T
  BY <1>3
<1> QED BY <1>4 DEF T

\* SumLag is the sum of the lags of all records.
LEMMA SumLagIs ==
    ASSUME NEW w \in Seq(Record)
    PROVE  \E f : f[0] = 0 /\ (\A n \in 1..Len(w) : f[n] = f[n - 1] + w[n].lag) /\ SumLag(w) = f[Len(w)]
<1>1. PICK n \in Nat : n = Len(w)
  OBVIOUS
<1> DEFINE f == CHOOSE g : Sums(g, w, n)
<1>2. Sums(f, w, n)
  BY SumsExist
<1>3. SumLag(w) = f[n]
  BY <1>1 DEF SumLag, Sums
<1> HIDE DEF f
<1>4. f[0] = 0 /\ \A i \in 1..n : f[i] = f[i - 1] + w[i].lag
  BY <1>2 DEF Sums
<1> QED BY <1>1, <1>3, <1>4

\* No record of u has more lag than its counterpart in v.
LagsBelow(u, v) == Len(u) = Len(v) /\ \A i \in 1..Len(u) : u[i].lag <= v[i].lag

\* Of two windows of one length, the one whose lags are nowhere smaller has the greater sum.
LEMMA SumLagMonotone ==
    ASSUME NEW u \in Seq(Record), NEW v \in Seq(Record), LagsBelow(u, v)
    PROVE  SumLag(u) \in Nat /\ SumLag(v) \in Nat /\ SumLag(u) <= SumLag(v)
<1>0. \A a, b, c, d \in Nat : a <= b /\ c <= d => a + c \in Nat /\ b + d \in Nat /\ a + c <= b + d
  OBVIOUS
<1>1. PICK m \in Nat : m = Len(u) /\ m = Len(v)
  BY DEF LagsBelow
<1>2. PICK f : f[0] = 0 /\ (\A n \in 1..m : f[n] = f[n - 1] + u[n].lag) /\ SumLag(u) = f[m]
  BY <1>1, SumLagIs
<1>3. PICK g : g[0] = 0 /\ (\A n \in 1..m : g[n] = g[n - 1] + v[n].lag) /\ SumLag(v) = g[m]
  BY <1>1, SumLagIs
<1>4. \A n \in 1..m : u[n].lag \in Nat /\ v[n].lag \in Nat /\ u[n].lag <= v[n].lag
  <2>1. \A r \in Record : r.lag \in Nat
    BY DEF Record
  <2> QED BY <1>1, <2>1 DEF LagsBelow
<1> DEFINE T == {n \in Nat : n <= m => f[n] \in Nat /\ g[n] \in Nat /\ f[n] <= g[n]}
<1>5. 0 \in T
  BY <1>2, <1>3
<1>6. ASSUME NEW n \in T PROVE n + 1 \in T
  <2>1. CASE n + 1 <= m
    <3>1. n + 1 \in 1..m /\ n \in Nat /\ n <= m
      BY <2>1
    <3>2. f[n + 1] = f[n] + u[n + 1].lag /\ g[n + 1] = g[n] + v[n + 1].lag
      BY <1>2, <1>3, <3>1
    <3>3. f[n] \in Nat /\ g[n] \in Nat /\ f[n] <= g[n]
      BY <3>1
    <3>4. u[n + 1].lag \in Nat /\ v[n + 1].lag \in Nat /\ u[n + 1].lag <= v[n + 1].lag
      BY <1>4, <3>1
    <3>5. f[n + 1] \in Nat /\ g[n + 1] \in Nat /\ f[n + 1] <= g[n + 1]
      <4>1. PICK a \in Nat, b \in Nat : a = f[n] /\ b = g[n] /\ a <= b
        BY <3>3
      <4>2. PICK c \in Nat, d \in Nat : c = u[n + 1].lag /\ d = v[n + 1].lag /\ c <= d
        BY <3>4
      <4>3. a + c \in Nat /\ b + d \in Nat /\ a + c <= b + d
        BY <1>0, <4>1, <4>2
      <4> QED BY <3>2, <4>1, <4>2, <4>3
    <3>6. PICK k \in Nat : k = n + 1
      BY <3>1
    <3>7. f[k] \in Nat /\ g[k] \in Nat /\ f[k] <= g[k]
      BY <3>5, <3>6
    <3>8. k \in T
      BY <3>7
    <3> QED BY <3>6, <3>8
  <2>2. CASE ~(n + 1 <= m)
    BY <2>2
  <2> QED BY <2>1, <2>2
<1> HIDE DEF T
<1>7. T = Nat
  <2>1. T \in SUBSET Nat
    BY DEF T
  <2> QED BY <1>5, <1>6, <2>1, InductiveSet
<1>8. m \in T
  BY <1>7
<1>9. f[m] \in Nat /\ g[m] \in Nat /\ f[m] <= g[m]
  BY <1>8 DEF T
<1> QED BY <1>2, <1>3, <1>9

\* The thirds of a window that CalculateLagTrend compares.
FirstThird(w) == SubSeq(w, 1, Len(w) \div 3)
LastThird(w) == SubSeq(w, Len(w) - Len(w) \div 3 + 1, Len(w))

\* The lag of a window never falls, or never rises.
Rises(w) == \A i \in 1..(Len(w) - 1) : w[i].lag <= w[i + 1].lag
Falls(w) == \A i \in 1..(Len(w) - 1) : w[i].lag >= w[i + 1].lag

\* The thirds are windows of one length, and where their records are.
LEMMA Thirds ==
    ASSUME NEW w \in Seq(Record)
    PROVE  \E n \in Nat, k \in Nat :
             /\ n = Len(w) /\ 3 * k <= n
             /\ FirstThird(w) \in Seq(Record) /\ Len(FirstThird(w)) = k
             /\ LastThird(w) \in Seq(Record) /\ Len(LastThird(w)) = k
             /\ \A i \in 1..k : FirstThird(w)[i] = w[i] /\ LastThird(w)[i] = w[i + (n - k)]
<1>1. PICK n \in Nat : n = Len(w)
  OBVIOUS
<1>2. PICK k \in Nat : k = n \div 3 /\ 3 * k <= n
  OBVIOUS
<1>3. FirstThird(w) = SubSeq(w, 1, k) /\ LastThird(w) = SubSeq(w, n - k + 1, n)
  BY <1>1, <1>2 DEF FirstThird, LastThird
<1>4. /\ SubSeq(w, 1, k) \in Seq(Record) /\ Len(SubSeq(w, 1, k)) = k
      /\ \A i \in 1..k : SubSeq(w, 1, k)[i] = w[i]
  <2>1. \A i \in 1..k : w[i] \in Record
    <3>1. \A i \in 1..k : i \in 1..Len(w)
      BY <1>1, <1>2
    <3> QED BY <3>1
  <2>2. /\ SubSeq(w, 1, k) \in Seq(Record)
        /\ Len(SubSeq(w, 1, k)) = IF 1 <= k THEN k - 1 + 1 ELSE 0
        /\ \A i \in 1..(k - 1 + 1) : SubSeq(w, 1, k)[i] = w[1 + i - 1]
    BY <2>1, SubSeqProperties
  <2> QED BY <2>2
<1>5. /\ SubSeq(w, n - k + 1, n) \in Seq(Record) /\ Len(SubSeq(w, n - k + 1, n)) = k
      /\ \A i \in 1..k : SubSeq(w, n - k + 1, n)[i] = w[i + (n - k)]
  <2>1. PICK low \in Int : low = n - k + 1 /\ 1 <= low /\ low <= n + 1 /\ n - low + 1 = k
    BY <1>2
  <2>2. \A i \in low..n : w[i] \in Record
    <3>1. \A i \in low..n : i \in 1..Len(w)
      BY <1>1, <2>1
    <3> QED BY <3>1
  <2>3. \A i \in 1..k : low + i - 1 = i + (n - k)
    BY <2>1
  <2>4. /\ SubSeq(w, low, n) \in Seq(Record)
        /\ Len(SubSeq(w, low, n)) = IF low <= n THEN n - low + 1 ELSE 0
        /\ \A i \in 1..(n - low + 1) : SubSeq(w, low, n)[i] = w[low + i - 1]
    BY <2>2, SubSeqProperties
  <2>5. Len(SubSeq(w, low, n)) = k
    BY <1>2, <2>1, <2>4
  <2> QED BY <2>1, <2>3, <2>4, <2>5
<1>6. /\ FirstThird(w) \in Seq(Record) /\ Len(FirstThird(w)) = k
      /\ LastThird(w) \in Seq(Record) /\ Len(LastThird(w)) = k
  BY <1>3, <1>4, <1>5
<1>7. \A i \in 1..k : FirstThird(w)[i] = w[i] /\ LastThird(w)[i] = w[i + (n - k)]
  BY <1>3, <1>4, <1>5
<1> QED BY <1>1, <1>2, <1>6, <1>7

\* A sequence of numbers that never falls from one to the next never falls.
Ascends(f, n) == \A i \in 1..(n - 1) : f[i] <= f[i + 1]

LEMMA AscendsThroughout ==
    ASSUME NEW n \in Nat, NEW f \in [1..n -> Int], Ascends(f, n)
    PROVE  \A i, j \in 1..n : i <= j => f[i] <= f[j]
<1>0. \A a, b, c \in Int : a <= b /\ b <= c => a <= c
  OBVIOUS
<1>1. \A i \in 1..n : f[i] \in Int
  OBVIOUS
<1> DEFINE T == {d \in Nat : \A i \in 1..n : i + d <= n => f[i] <= f[i + d]}
<1>2. 0 \in T
  BY <1>1
<1>3. ASSUME NEW d \in T PROVE d + 1 \in T
  <2>1. d \in Nat /\ \A i \in 1..n : i + d <= n => f[i] <= f[i + d]
    OBVIOUS
  <2>2. ASSUME NEW i \in 1..n, i + (d + 1) <= n PROVE f[i] <= f[i + (d + 1)]
    <3>1. PICK j \in 1..(n - 1) : j = i + d /\ j + 1 = i + (d + 1) /\ j \in 1..n /\ j + 1 \in 1..n
      BY <2>1, <2>2
    <3>2. f[j] <= f[j + 1]
      BY <3>1 DEF Ascends
    <3>3. f[i] <= f[j]
      BY <2>1, <3>1
    <3>4. f[i] <= f[j + 1]
      BY <1>0, <1>1, <3>1, <3>2, <3>3
    <3> QED BY <3>1, <3>4
  <2>3. d + 1 \in Nat
    BY <2>1
  <2> QED BY <2>2, <2>3
<1> HIDE DEF T
<1>4. T = Nat
  <2>1. T \in SUBSET Nat
    BY DEF T
  <2> QED BY <1>2, <1>3, <2>1, InductiveSet
<1>5. ASSUME NEW i \in 1..n, NEW j \in 1..n, i <= j PROVE f[i] <= f[j]
  <2>1. PICK d \in Nat : i + d = j
    BY <1>5
  <2>2. d \in T /\ i + d <= n
    BY <1>4, <2>1
  <2>3. \A l \in 1..n : l + d <= n => f[l] <= f[l + d]
    BY <2>2 DEF T
  <2>4. f[i] <= f[i + d]
    BY <2>2, <2>3
  <2> QED BY <2>1, <2>4
<1> QED BY <1>5

\* The thirds of a window in which the lag never falls, or never rises.
LEMMA ThirdsOrdered ==
    ASSUME NEW w \in Seq(Record)
    PROVE  /\ Rises(w) => LagsBelow(FirstThird(w), LastThird(w))
           /\ Falls(w) => LagsBelow(LastThird(w), FirstThird(w))
<1>1. PICK n \in Nat, k \in Nat :
        /\ n = Len(w) /\ 3 * k <= n
        /\ Len(FirstThird(w)) = k /\ Len(LastThird(w)) = k
        /\ \A i \in 1..k : FirstThird(w)[i] = w[i] /\ LastThird(w)[i] = w[i + (n - k)]
  BY Thirds
<1>2. \A i \in 1..n : w[i].lag \in Int /\ -w[i].lag \in Int
  <2>1. \A r \in Record : r.lag \in Int /\ -r.lag \in Int
    BY DEF Record
  <2> QED BY <1>1, <2>1
<1>3. \A i \in 1..k : i \in 1..n /\ i + (n - k) \in 1..n /\ i <= i + (n - k)
  BY <1>1
<1>4. ASSUME Rises(w) PROVE \A i \in 1..k : w[i].lag <= w[i + (n - k)].lag
  <2> DEFINE f == [i \in 1..n |-> w[i].lag]
  <2>1. f \in [1..n -> Int]
    BY <1>2
  <2>2. Ascends(f, n)
    <3>1. ASSUME NEW i \in 1..(n - 1) PROVE f[i] <= f[i + 1]
      <4>1. i \in 1..n /\ i + 1 \in 1..n
        OBVIOUS
      <4>2. w[i].lag <= w[i + 1].lag
        BY <1>1, <1>4 DEF Rises
      <4>3. f[i] = w[i].lag /\ f[i + 1] = w[i + 1].lag
        BY <4>1
      <4> QED BY <4>2, <4>3
    <3> HIDE DEF f
    <3> QED BY <3>1 DEF Ascends
  <2>3. \A i \in 1..n : f[i] = w[i].lag
    OBVIOUS
  <2> HIDE DEF f
  <2>4. \A i, j \in 1..n : i <= j => f[i] <= f[j]
    BY <2>1, <2>2, AscendsThroughout
  <2> QED BY <1>3, <2>3, <2>4
<1>5. ASSUME Falls(w) PROVE \A i \in 1..k : w[i + (n - k)].lag <= w[i].lag
  <2> DEFINE f == [i \in 1..n |-> -w[i].lag]
  <2>0. \A a, b \in Int : a >= b <=> -a <= -b
    OBVIOUS
  <2>1. f \in [1..n -> Int]
    BY <1>2
  <2>2. Ascends(f, n)
    <3>1. ASSUME NEW i \in 1..(n - 1) PROVE f[i] <= f[i + 1]
      <4>1. i \in 1..n /\ i + 1 \in 1..n
        OBVIOUS
      <4>2. w[i].lag >= w[i + 1].lag
        BY <1>1, <1>5 DEF Falls
      <4>3. f[i] = -w[i].lag /\ f[i + 1] = -w[i + 1].lag
        BY <4>1
      <4>4. -w[i].lag <= -w[i + 1].lag
        BY <1>2, <2>0, <4>1, <4>2
      <4> QED BY <4>3, <4>4
    <3> HIDE DEF f
    <3> QED BY <3>1 DEF Ascends
  <2>3. \A i \in 1..n : f[i] = -w[i].lag
    OBVIOUS
  <2> HIDE DEF f
  <2>4. \A i, j \in 1..n : i <= j => f[i] <= f[j]
    BY <2>1, <2>2, AscendsThroughout
  <2>5. ASSUME NEW i \in 1..k PROVE w[i + (n - k)].lag <= w[i].lag
    <3>1. -w[i].lag <= -w[i + (n - k)].lag
      BY <1>3, <2>3, <2>4
    <3>2. w[i].lag >= w[i + (n - k)].lag
      BY <1>2, <1>3, <2>0, <3>1
    <3> QED BY <1>2, <1>3, <3>2
  <2> QED BY <2>5
<1> QED BY <1>1, <1>4, <1>5 DEF LagsBelow

\* What each verdict says of the sums, the boundary of a threshold of 0 included.
LEMMA TrendMeans ==
    ASSUME NEW w, NEW first \in Nat, NEW last \in Nat,
           first = SumLag(FirstThird(w)), last = SumLag(LastThird(w))
    PROVE  /\ CalculateLagTrend(w) = "INCREASING" => last > first
           /\ CalculateLagTrend(w) = "DECREASING" =>
                 first > 0 /\ (last < first \/ (last = first /\ TrendThreshold[1] = 0))
<1> DEFINE change == last - first
           size == <<IF change < 0 THEN -change ELSE change, first>>
<1>1. CalculateLagTrend(w) =
        CASE first = 0 -> IF last > 0 THEN "INCREASING" ELSE "STABLE"
          [] first > 0 /\ Less(size, TrendThreshold) -> "STABLE"
          [] first > 0 /\ ~Less(size, TrendThreshold) /\ change > 0 -> "INCREASING"
          [] OTHER -> "DECREASING"
  BY DEF CalculateLagTrend, FirstThird, LastThird
<1>2. CASE first = 0
  <2>1. CalculateLagTrend(w) = IF last > 0 THEN "INCREASING" ELSE "STABLE"
    BY <1>1, <1>2
  <2> QED BY <1>2, <2>1
<1>3. CASE first > 0 /\ Less(size, TrendThreshold)
  <2>1. CalculateLagTrend(w) = "STABLE"
    BY <1>1, <1>3
  <2> QED BY <2>1
<1>4. CASE first > 0 /\ ~Less(size, TrendThreshold) /\ change > 0
  <2>1. CalculateLagTrend(w) = "INCREASING"
    BY <1>1, <1>4
  <2> QED BY <1>4, <2>1
<1>5. CASE first > 0 /\ ~Less(size, TrendThreshold) /\ ~(change > 0)
  <2>1. CalculateLagTrend(w) = "DECREASING"
    BY <1>1, <1>5
  <2>2. ASSUME last = first, TrendThreshold[1] # 0 PROVE FALSE
    <3>1. PICK p \in Nat, q \in Nat : TrendThreshold[1] = p /\ TrendThreshold[2] = q /\ p > 0
      BY <2>2, EvaluatorAssumption DEF Fraction
    <3>2. size[1] = 0 /\ size[2] = first
      BY <2>2
    <3>3. ~(0 * q < p * first)
      BY <1>5, <3>1, <3>2 DEF Less
    <3>4. \A a, b \in Nat : a > 0 /\ b > 0 => a * b > 0
      OBVIOUS
    <3>5. p * first > 0 /\ 0 * q = 0
      BY <1>5, <3>1, <3>4
    <3> QED BY <3>3, <3>5
  <2> QED BY <1>5, <2>1, <2>2
<1> QED BY <1>2, <1>3, <1>4, <1>5

\* The verdict on a window, once there are enough records for one, is that of CalculateLagTrend.
LEMMA TrendOfVerdict ==
    ASSUME NEW w
    PROVE  EvaluatePartitionConsumer(w).trend \in {"UNKNOWN", CalculateLagTrend(w)}
BY DEF EvaluatePartitionConsumer, DetermineTrend

\* TrendFollowsLag for any window.
LEMMA TrendOfWindow ==
    ASSUME NEW w \in Seq(Record)
    PROVE  /\ Rises(w) /\ TrendThreshold[1] # 0 => CalculateLagTrend(w) # "DECREASING"
           /\ Falls(w) => CalculateLagTrend(w) # "INCREASING"
<1>1. FirstThird(w) \in Seq(Record) /\ LastThird(w) \in Seq(Record)
  BY Thirds
<1>2. PICK first \in Nat, last \in Nat : first = SumLag(FirstThird(w)) /\ last = SumLag(LastThird(w))
  <2>1. \A u \in Seq(Record) : LagsBelow(u, u)
    BY RecordFields DEF LagsBelow
  <2> QED BY <1>1, <2>1, SumLagMonotone
<1>3. Rises(w) => first <= last
  BY <1>1, <1>2, ThirdsOrdered, SumLagMonotone
<1>4. Falls(w) => last <= first
  BY <1>1, <1>2, ThirdsOrdered, SumLagMonotone
<1>5. /\ CalculateLagTrend(w) = "INCREASING" => last > first
      /\ CalculateLagTrend(w) = "DECREASING" => last < first \/ TrendThreshold[1] = 0
  BY <1>2, TrendMeans
<1> QED BY <1>3, <1>4, <1>5

\* A lag that only grew is never called decreasing, nor one that only shrank increasing
\* (evaluator.go:231), for windows of any size and every threshold but 0.
THEOREM TrendsFollowLag ==
    ASSUME TrendThreshold[1] # 0
    PROVE  Spec => []TrendFollowsLag
<1>1. TypeOK => TrendFollowsLag
  <2> SUFFICES ASSUME TypeOK PROVE TrendFollowsLag
    OBVIOUS
  <2>1. window \in Seq(Record) /\ verdict.trend \in {"UNKNOWN", CalculateLagTrend(window)}
    BY TrendOfVerdict DEF TypeOK
  <2>2. /\ Rises(window) => CalculateLagTrend(window) # "DECREASING"
        /\ Falls(window) => CalculateLagTrend(window) # "INCREASING"
    BY <2>1, TrendOfWindow
  <2> QED BY <2>1, <2>2 DEF TrendFollowsLag, Rises, Falls
<1> QED BY <1>1, MonitorInit, MonitorStep, PTL DEF Spec

\* The sum is positive as soon as the first record has lag.
LEMMA SumLagPositive ==
    ASSUME NEW w \in Seq(Record), Len(w) > 0, w[1].lag > 0
    PROVE  SumLag(w) > 0
<1>1. PICK n \in Nat : n = Len(w) /\ n > 0
  OBVIOUS
<1>2. PICK f : f[0] = 0 /\ (\A i \in 1..n : f[i] = f[i - 1] + w[i].lag) /\ SumLag(w) = f[n]
  BY <1>1, SumLagIs
<1>3. \A i \in 1..n : w[i].lag \in Nat
  BY <1>1, RecordFields
<1> DEFINE T == {i \in Nat : i + 1 <= n => f[i + 1] \in Nat /\ f[i + 1] > 0}
<1>4. 0 \in T
  <2>1. f[1] = f[0] + w[1].lag /\ w[1].lag \in Nat
    BY <1>1, <1>2, <1>3
  <2> QED BY <1>2, <2>1
<1>5. ASSUME NEW i \in T PROVE i + 1 \in T
  <2>1. PICK j \in Nat : j = i + 1
    OBVIOUS
  <2>2. CASE j + 1 <= n
    <3>1. j \in 1..n /\ j + 1 \in 1..n
      BY <2>1, <2>2
    <3>2. PICK a \in Nat : a = f[j] /\ a > 0
      BY <2>1, <3>1
    <3>3. PICK b \in Nat : b = w[j + 1].lag
      BY <1>3, <3>1
    <3>4. f[j + 1] = a + b
      BY <1>2, <3>1, <3>2, <3>3
    <3> QED BY <2>1, <3>2, <3>4
  <2>3. CASE ~(j + 1 <= n)
    BY <2>1, <2>3
  <2> QED BY <2>2, <2>3
<1> HIDE DEF T
<1>6. T = Nat
  <2>1. T \in SUBSET Nat
    BY DEF T
  <2> QED BY <1>4, <1>5, <2>1, InductiveSet
<1>7. n - 1 \in T /\ (n - 1) + 1 = n
  BY <1>1, <1>6
<1>8. f[n] > 0
  BY <1>7 DEF T
<1> QED BY <1>2, <1>8

\* The boundary TrendsFollowLag leaves out: with a threshold of 0, which is what a configuration file
\* without lag_trend_threshold gives (main.go:122), a lag that does not change is called decreasing
\* (evaluator.go:264: nothing is less than 0).
THEOREM ZeroThresholdFalls ==
    ASSUME TrendThreshold[1] = 0,
           NEW w \in Seq(Record), Len(w) >= 3, Rises(w), Falls(w), w[1].lag > 0
    PROVE  DetermineTrend(w) = "DECREASING"
<1>1. FirstThird(w) \in Seq(Record) /\ LastThird(w) \in Seq(Record)
  BY Thirds
<1>2. PICK first \in Nat, last \in Nat :
        first = SumLag(FirstThird(w)) /\ last = SumLag(LastThird(w)) /\ last = first
  BY <1>1, ThirdsOrdered, SumLagMonotone
<1>3. first > 0
  <2>1. PICK k \in Nat : /\ k = Len(w) \div 3 /\ k > 0
    OBVIOUS
  <2>2. \A i \in 1..k : i \in 1..Len(w)
    BY <2>1
  <2>3. FirstThird(w) = SubSeq(w, 1, k)
    BY <2>1 DEF FirstThird
  <2>4. Len(FirstThird(w)) = k /\ \A i \in 1..k : FirstThird(w)[i] = w[1 + i - 1]
    BY <2>1, <2>2, <2>3, SubSeqProperties
  <2>5. Len(FirstThird(w)) > 0 /\ FirstThird(w)[1] = w[1]
    BY <2>1, <2>4
  <2> QED BY <1>1, <1>2, <2>5, SumLagPositive
<1>4. CalculateLagTrend(w) = "DECREASING"
  <2> DEFINE change == last - first
             size == <<IF change < 0 THEN -change ELSE change, first>>
  <2>1. CalculateLagTrend(w) =
          CASE first = 0 -> IF last > 0 THEN "INCREASING" ELSE "STABLE"
            [] first > 0 /\ Less(size, TrendThreshold) -> "STABLE"
            [] first > 0 /\ ~Less(size, TrendThreshold) /\ change > 0 -> "INCREASING"
            [] OTHER -> "DECREASING"
    BY <1>2 DEF CalculateLagTrend, FirstThird, LastThird
  <2>2. change = 0 /\ size = <<0, first>>
    BY <1>2
  <2>3. ~Less(size, TrendThreshold)
    <3>1. PICK q \in Nat : TrendThreshold[2] = q
      BY EvaluatorAssumption DEF Fraction
    <3>2. ~(0 * q < 0 * first)
      OBVIOUS
    <3> QED BY <2>2, <3>1, <3>2 DEF Less
  <2> HIDE DEF size
  <2> QED BY <1>3, <2>1, <2>2, <2>3
<1> QED BY <1>4 DEF DetermineTrend
=============================================================================
