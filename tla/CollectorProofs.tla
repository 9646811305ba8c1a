---------------------------- MODULE CollectorProofs ----------------------------
(***************************************************************************)
(* The collector for every size of its history and every buffer, and       *)
(* however many pages: the history has no gaps, no rate exceeds the        *)
(* traffic, and what a page shows is in order and complete.                *)
(***************************************************************************)
EXTENDS Collector, SequenceTheorems, TLAPS

USE CollectorAssumption

Counters == Nat \cup {None}
Samples == [time : Nat, counter : Counters]
Points == [t : Int, dt : Int, bytes : Counters]

(* What is sampled and kept, and that the counter has not grown by more    *)
(* than what passed since the last sample.                                 *)
SampleInv ==
  /\ now \in Nat /\ passed \in Nat
  /\ counter \in Counters
  /\ last \in Samples \cup {None}
  /\ history \in Seq(Points)
  /\ last \in Samples /\ last.counter # None /\ counter # None =>
       counter - last.counter <= passed

LEMMA NoneIsNoSample == None \notin Samples
BY DEF Samples, Counters

LEMMA SampleIsSample ==
  ASSUME SampleInv
  PROVE  /\ Sample \in Samples
         /\ \A a \in Samples : Delta(a, Sample) \in Points
BY DEF SampleInv, Sample, Samples, Points, Counters, Delta, Sub

Ordered(points) == \A i \in 1 .. Len(points) - 1 : points[i].t < points[i + 1].t
Spaced(points) == \A i \in 1 .. Len(points) : points[i].dt > 0
Before(points, sample) ==
  \A i \in 1 .. Len(points) : sample # None /\ points[i].t <= sample.time

(* Of a list in order, or of a chain, so is what is left from any place.   *)
LEMMA Suffix ==
  ASSUME NEW points \in Seq(Points), NEW n \in 0 .. Len(points)
  PROVE  LET left == SubSeq(points, n + 1, Len(points)) IN
         /\ left \in Seq(Points)
         /\ Ordered(points) => Ordered(left)
         /\ Chained(points) => Chained(left)
         /\ Spaced(points) => Spaced(left)
         /\ \A sample : Before(points, sample) => Before(left, sample)
         /\ left # <<>> => points # <<>> /\ Last(left) = Last(points)
<1> DEFINE left == SubSeq(points, n + 1, Len(points))
           k == Len(points) - n
<1>1. left \in Seq(Points) /\ k \in Nat /\ Len(left) = k
  OBVIOUS
<1>2. \A i \in 1 .. k : left[i] = points[n + i]
  OBVIOUS
<1> HIDE DEF left
<1>3. \A i \in 1 .. k - 1 : /\ n + i \in 1 .. Len(points) - 1
                            /\ left[i] = points[n + i]
                            /\ left[i + 1] = points[(n + i) + 1]
  BY <1>1, <1>2
<1>4. Ordered(points) => Ordered(left)
  BY <1>1, <1>3 DEF Ordered
<1>5. Chained(points) => Chained(left)
  BY <1>1, <1>3 DEF Chained, Follows
<1>6. Spaced(points) => Spaced(left)
  BY <1>1, <1>2 DEF Spaced
<1>7. ASSUME NEW sample, Before(points, sample) PROVE Before(left, sample)
  <2> SUFFICES ASSUME NEW i \in 1 .. k PROVE sample # None /\ left[i].t <= sample.time
    BY <1>1 DEF Before
  <2>1. n + i \in 1 .. Len(points) /\ left[i] = points[n + i]
    BY <1>2
  <2> QED
    BY <1>7, <2>1 DEF Before
<1>8. left # <<>> => points # <<>> /\ Last(left) = Last(points)
  BY <1>1, <1>2 DEF Last
<1> QED
  BY <1>1, <1>4, <1>5, <1>6, <1>7, <1>8 DEF left

(* Trimming keeps the end, and a chain a chain.                            *)
LEMMA TrimmedChain ==
  ASSUME NEW points \in Seq(Points)
  PROVE  /\ Trimmed(points) \in Seq(Points)
         /\ Chained(points) => Chained(Trimmed(points))
         /\ Spaced(points) => Spaced(Trimmed(points))
         /\ \A sample : Before(points, sample) => Before(Trimmed(points), sample)
         /\ points # <<>> => Trimmed(points) # <<>> /\ Last(Trimmed(points)) = Last(points)
<1>1. CASE Len(points) <= Size
  BY <1>1 DEF Trimmed
<1>2. CASE Len(points) > Size
  <2> DEFINE n == Len(points) - Size
             kept == SubSeq(points, n + 1, Len(points))
  <2>1. n \in 0 .. Len(points) /\ Len(kept) = Size /\ kept # <<>>
    <3>1. n \in 0 .. Len(points)
      BY <1>2
    <3>2. Len(kept) = Size
      BY <1>2
    <3> QED
      BY <3>1, <3>2
  <2>2. Trimmed(points) = kept
    BY <1>2 DEF Trimmed
  <2> HIDE DEF n
  <2> QED
    BY <2>1, <2>2, Suffix
<1> QED
  BY <1>1, <1>2

LEMMA LastPoint ==
  ASSUME NEW points \in Seq(Points), points # <<>>
  PROVE  Last(points) \in Points
BY DEF Last

LEMMA AppendedChain ==
  ASSUME NEW points \in Seq(Points), Chained(points), NEW p \in Points,
         points # <<>> => Follows(Last(points), p)
  PROVE  Chained(Append(points, p)) /\ Last(Append(points, p)) = p
BY DEF Chained, Last

LEMMA SampleStep ==
  ASSUME SampleInv, [CollectorNext]_collectorVars
  PROVE  SampleInv'
<1> USE DEF SampleInv
<1>1. CASE Transfer BY <1>1 DEF Transfer, Counters, Samples
<1>2. CASE Recreate BY <1>2 DEF Recreate, Counters, Samples
<1>3. CASE Tock
  <2>1. last' \in Samples /\ last'.counter = counter'
    BY <1>3, SampleIsSample DEF Tock, Sample
  <2>2. history' \in Seq(Points)
    <3>1. CASE last = None
      BY <1>3, <3>1 DEF Tock
    <3>2. CASE last # None
      <4>1. Append(history, Delta(last, Sample)) \in Seq(Points)
        BY <3>2, SampleIsSample
      <4> QED
        BY <1>3, <3>2, <4>1, TrimmedChain DEF Tock
    <3> QED
      BY <3>1, <3>2
  <2> QED
    BY <1>3, <2>1, <2>2 DEF Tock, Counters
<1>4. CASE ReadFails BY <1>4 DEF ReadFails
<1>5. ASSUME NEW g \in Pages,
             Load(g) \/ Subscribe(g) \/ Receive(g) \/ Unsubscribe(g) \/ Close(g)
      PROVE  UNCHANGED <<now, counter, passed, last, history>>
  BY <1>5 DEF Load, Subscribe, Receive, Unsubscribe, Close
<1>6. CASE UNCHANGED collectorVars BY <1>6 DEF collectorVars
<1> QED
  BY <1>1, <1>2, <1>3, <1>4, <1>5, <1>6 DEF CollectorNext

LEMMA ChainStep ==
  ASSUME SampleInv, HistoryChained, [CollectorNext]_collectorVars
  PROVE  HistoryChained'
<1>1. CASE Tock
  <2>1. CASE last = None
    BY <1>1, <2>1 DEF Tock, HistoryChained
  <2>2. CASE last # None
    <3> DEFINE p == Delta(last, Sample)
               longer == Append(history, p)
    <3>1. last \in Samples /\ p \in Points /\ history \in Seq(Points)
      BY <2>2, SampleIsSample DEF SampleInv
    <3>2. history # <<>> => Follows(Last(history), p)
      BY <3>1 DEF HistoryChained, Follows, Delta, Sample, SampleInv, Samples
    <3>3. longer \in Seq(Points) /\ longer # <<>> /\ Chained(longer) /\ Last(longer) = p
      <4>1. longer \in Seq(Points) /\ longer # <<>>
        BY <3>1, AppendProperties
      <4>2. Chained(history)
        BY DEF HistoryChained
      <4> HIDE DEF p
      <4>3. Chained(longer) /\ Last(longer) = p
        BY <3>1, <3>2, <4>2, AppendedChain
      <4> QED
        BY <4>1, <4>3
    <3>4. history' = Trimmed(longer) /\ last' = Sample
      BY <1>1, <2>2 DEF Tock
    <3>5. Chained(history') /\ Last(history') = p
      BY <3>3, <3>4, TrimmedChain
    <3>6. last' # None /\ p.t = last'.time
      BY <3>4, SampleIsSample, NoneIsNoSample DEF Delta
    <3> QED
      BY <3>5, <3>6 DEF HistoryChained, Chained, Follows
  <2> QED
    BY <2>1, <2>2
<1>2. CASE ~Tock
  <2>1. UNCHANGED <<history, last>>
    BY <1>2 DEF CollectorNext, Transfer, Recreate, ReadFails, Load, Subscribe, Receive,
       Unsubscribe, Close, collectorVars
  <2> QED
    BY <2>1 DEF HistoryChained, Chained, Follows
<1> QED
  BY <1>1, <1>2

LEMMA InitInv == CollectorInit => SampleInv /\ HistoryChained
BY NoneIsNoSample DEF CollectorInit, SampleInv, Counters, HistoryChained, Chained

(* No rate exceeds the traffic there was, whatever becomes of the          *)
(* interface and whichever reads fail.                                     *)
THEOREM RatesAreReal == CollectorSpec => NoSpikes
<1>1. SampleInv /\ [CollectorNext]_collectorVars =>
        [history' # history =>
           LET p == Last(history') IN p.bytes # None => p.bytes <= passed]_collectorVars
  <2> SUFFICES ASSUME SampleInv, [CollectorNext]_collectorVars, history' # history,
                      Last(history').bytes # None
               PROVE  Last(history').bytes <= passed
    OBVIOUS
  <2>1. Tock /\ last # None
    BY DEF CollectorNext, Transfer, Recreate, ReadFails, Load, Subscribe, Receive,
       Unsubscribe, Close, collectorVars, Tock
  <2>2. last \in Samples /\ Delta(last, Sample) \in Points
    BY <2>1, SampleIsSample DEF SampleInv
  <2>3. history' = Trimmed(Append(history, Delta(last, Sample)))
    BY <2>1 DEF Tock
  <2>4. Last(history') = Delta(last, Sample)
    <3> DEFINE longer == Append(history, Delta(last, Sample))
    <3>1. longer \in Seq(Points) /\ longer # <<>> /\ Last(longer) = Delta(last, Sample)
      BY <2>2 DEF SampleInv, Last
    <3> QED
      BY <2>3, <3>1, TrimmedChain
  <2>5. last.counter # None /\ counter # None
    BY <2>4 DEF Delta, Sample
  <2> QED
    BY <2>2, <2>4, <2>5 DEF Delta, Sample, Sub, SampleInv, Samples, Counters
<1>2. SampleInv /\ [CollectorNext]_collectorVars => SampleInv'
  BY SampleStep
<1> QED
  BY <1>1, <1>2, InitInv, PTL DEF CollectorSpec, NoSpikes

(* The history covers the time up to the last sample without a gap.        *)
THEOREM HistoryHasNoGaps == CollectorSpec => []HistoryChained
<1>1. SampleInv /\ HistoryChained /\ [CollectorNext]_collectorVars =>
        SampleInv' /\ HistoryChained'
  BY SampleStep, ChainStep
<1> QED
  BY <1>1, InitInv, PTL DEF CollectorSpec

-----------------------------------------------------------------------------
(* What a page has and will be sent, and how it relates to the samples.    *)

Has(g) ==
  IF page[g] = None THEN <<>> ELSE IF queue[g] = None THEN page[g] ELSE page[g] \o queue[g]

(* A list of points that ends no later than the sample, and if nothing is  *)
(* missed is a chain that ends with it.                                    *)
UpTo(points, sample, miss) ==
  /\ Ordered(points)
  /\ Before(points, sample)
  /\ ~miss => Chained(points) /\ (points # <<>> => Last(points).t = sample.time)

PageTypes ==
  /\ page \in [Pages -> Seq(Points) \cup {None}]
  /\ queue \in [Pages -> Seq(Points) \cup {None}]
  /\ missed \in [Pages -> BOOLEAN]

PageInv(g) ==
  /\ queue[g] # None => page[g] # None /\ Len(queue[g]) <= Buffer
  /\ UpTo(Has(g), last, missed[g])

TimeInv ==
  (last # None => last.time <= now) /\ Spaced(history) /\ Before(history, last)

CollectorInv ==
  SampleInv /\ HistoryChained /\ TimeInv /\ PageTypes /\ \A g \in Pages : PageInv(g)

LEMMA NoneIsNoList == None \notin Seq(Points)
<1> DEFINE wide == [t : Int, dt : Int, bytes : Int \cup {None}]
<1>1. Points \subseteq wide
  BY DEF Points, Counters
<1> HIDE DEF wide
<1>2. \A s \in Seq(Points) : s \in Seq(wide)
  BY <1>1, SeqMonotonic
<1> QED
  BY <1>2 DEF wide

LEMMA AppendedOrder ==
  ASSUME NEW points \in Seq(Points), Ordered(points), NEW p \in Points,
         points # <<>> => Last(points).t < p.t
  PROVE  Ordered(Append(points, p))
BY DEF Ordered, Last

(* A point goes from the stream to the page, or the end of the stream      *)
(* grows: what there is in all stays, or grows at the end.                 *)
LEMMA Regroup ==
  ASSUME NEW s \in Seq(Points), NEW q \in Seq(Points)
  PROVE  /\ \A p \in Points : s \o Append(q, p) = Append(s \o q, p)
         /\ s \o <<>> = s
         /\ q # <<>> => Append(s, Head(q)) \o Tail(q) = s \o q
<1>1. ASSUME NEW p \in Points PROVE s \o Append(q, p) = Append(s \o q, p)
  <2>1. <<p>> \in Seq(Points) /\ s \o q \in Seq(Points)
    BY ConcatProperties
  <2>2. Append(q, p) = q \o <<p>> /\ Append(s \o q, p) = (s \o q) \o <<p>>
    BY <2>1, AppendIsConcat
  <2> QED
    BY <2>1, <2>2, ConcatAssociative
<1>2. s \o <<>> = s
  BY ConcatEmptySeq
<1>3. ASSUME q # <<>> PROVE Append(s, Head(q)) \o Tail(q) = s \o q
  <2>1. Head(q) \in Points /\ Tail(q) \in Seq(Points) /\ <<Head(q)>> \in Seq(Points)
    BY <1>3, HeadTailProperties
  <2>2. Append(s, Head(q)) = s \o <<Head(q)>>
    BY <2>1, AppendIsConcat
  <2>3. <<Head(q)>> \o Tail(q) = q
    BY <1>3
  <2> QED
    BY <2>1, <2>2, <2>3, ConcatAssociative
<1> QED
  BY <1>1, <1>2, <1>3

LEMMA ConcatPoints ==
  \A a, b \in Seq(Points) :
    /\ a \o b \in Seq(Points)
    /\ Len(a \o b) = Len(a) + Len(b)
    /\ \A i \in 1 .. Len(a) + Len(b) :
         (a \o b)[i] = IF i <= Len(a) THEN a[i] ELSE b[i - Len(a)]
BY ConcatProperties

LEMMA SuffixPoints ==
  ASSUME NEW points \in Seq(Points), NEW n \in 0 .. Len(points)
  PROVE  /\ SubSeq(points, n + 1, Len(points)) \in Seq(Points)
         /\ Len(SubSeq(points, n + 1, Len(points))) = Len(points) - n
         /\ \A i \in 1 .. Len(points) - n :
              SubSeq(points, n + 1, Len(points))[i] = points[n + i]
OBVIOUS

LEMMA SuffixOfBoth ==
  ASSUME NEW s \in Seq(Points), NEW q \in Seq(Points), NEW n \in 0 .. Len(s)
  PROVE  SubSeq(s, n + 1, Len(s)) \o q = SubSeq(s \o q, n + 1, Len(s \o q))
<1> DEFINE part == SubSeq(s, n + 1, Len(s))
           both == s \o q
           rest == SubSeq(both, n + 1, Len(both))
           joined == part \o q
           m == Len(s)
           l == Len(q)
           k == m + l - n
<1>0. m \in Nat /\ l \in Nat /\ n \in Nat /\ n <= m /\ k \in Nat
  BY LenProperties
<1>1. both \in Seq(Points) /\ Len(both) = m + l
      /\ \A i \in 1 .. m + l : both[i] = IF i <= m THEN s[i] ELSE q[i - m]
  BY ConcatProperties
<1>2. part \in Seq(Points) /\ Len(part) = m - n /\ \A i \in 1 .. m - n : part[i] = s[n + i]
  OBVIOUS
<1> HIDE DEF part, both
<1>3. rest \in Seq(Points) /\ Len(rest) = k /\ \A i \in 1 .. k : rest[i] = both[n + i]
  <2>1. n \in 0 .. Len(both) /\ Len(both) - n = k
    BY <1>0, <1>1
  <2>2. both \in Seq(Points)
    BY <1>1
  <2>3. /\ rest \in Seq(Points) /\ Len(rest) = Len(both) - n
        /\ \A i \in 1 .. Len(both) - n : rest[i] = both[n + i]
    BY <2>1, <2>2, SuffixPoints
  <2> QED
    BY <2>1, <2>3
<1>4. joined \in Seq(Points) /\ Len(joined) = k
      /\ \A i \in 1 .. k : joined[i] = IF i <= m - n THEN part[i] ELSE q[i - (m - n)]
  <2>1. joined \in Seq(Points) /\ Len(joined) = Len(part) + Len(q)
        /\ \A i \in 1 .. Len(part) + Len(q) :
             joined[i] = IF i <= Len(part) THEN part[i] ELSE q[i - Len(part)]
    BY <1>2, ConcatPoints
  <2>2. Len(part) + Len(q) = k
    BY <1>0, <1>2
  <2> QED
    BY <1>2, <2>1, <2>2
<1> HIDE DEF rest, joined, m, l
<1>5. ASSUME NEW i \in 1 .. k PROVE joined[i] = rest[i]
  <2>1. n + i \in 1 .. m + l /\ (i <= m - n <=> n + i <= m)
    BY <1>0
  <2>2. CASE i <= m - n
    <3>1. i \in 1 .. m - n
      BY <1>0, <2>2
    <3> QED
      BY <1>1, <1>2, <1>3, <1>4, <2>1, <2>2, <3>1
  <2>3. CASE ~(i <= m - n)
    <3>1. i - (m - n) = (n + i) - m
      BY <1>0
    <3>2. joined[i] = q[i - (m - n)]
      BY <1>4, <2>3
    <3>3. rest[i] = q[(n + i) - m]
      BY <1>1, <1>3, <2>1, <2>3
    <3> QED
      BY <3>1, <3>2, <3>3
  <2> QED
    BY <2>2, <2>3
<1>6. joined = rest
  BY <1>3, <1>4, <1>5, SeqEqual
<1> QED
  BY <1>6 DEF part, both, rest, joined

LEMMA EmptyUpTo == ASSUME NEW sample, NEW miss PROVE UpTo(<<>>, sample, miss)
BY DEF UpTo, Ordered, Chained, Before

LEMMA SuffixUpTo ==
  ASSUME NEW points \in Seq(Points), NEW n \in 0 .. Len(points), NEW sample, NEW miss,
         UpTo(points, sample, miss)
  PROVE  UpTo(SubSeq(points, n + 1, Len(points)), sample, miss)
<1> DEFINE left == SubSeq(points, n + 1, Len(points))
<1>1. /\ Ordered(points) => Ordered(left)
      /\ Chained(points) => Chained(left)
      /\ Before(points, sample) => Before(left, sample)
      /\ left # <<>> => points # <<>> /\ Last(left) = Last(points)
  BY Suffix
<1> HIDE DEF left
<1> QED
  BY <1>1 DEF UpTo, left

(* What a page has got is in order whatever it was still to be sent.       *)
LEMMA FrontUpTo ==
  ASSUME NEW s \in Seq(Points), NEW q \in Seq(Points), SampleInv, NEW miss,
         UpTo(s \o q, last, miss)
  PROVE  UpTo(s, last, TRUE)
<1> DEFINE both == s \o q
<1>1. both \in Seq(Points) /\ Len(both) = Len(s) + Len(q) /\ Len(s) \in Nat /\ Len(q) \in Nat
      /\ \A i \in 1 .. Len(s) : both[i] = s[i]
  BY ConcatPoints
<1>2. Ordered(both)
  BY DEF UpTo
<1>3. Before(both, last)
  BY DEF UpTo
<1> HIDE DEF both
<1>4. Ordered(s)
  <2> SUFFICES ASSUME NEW i \in 1 .. Len(s) - 1 PROVE s[i].t < s[i + 1].t
    BY DEF Ordered
  <2>1. i \in 1 .. Len(both) - 1 /\ i \in 1 .. Len(s) /\ i + 1 \in 1 .. Len(s)
    BY <1>1
  <2> QED
    BY <1>1, <1>2, <2>1 DEF Ordered
<1>5. Before(s, last)
  <2> SUFFICES ASSUME NEW i \in 1 .. Len(s) PROVE last # None /\ s[i].t <= last.time
    BY DEF Before
  <2>1. i \in 1 .. Len(both)
    BY <1>1
  <2> QED
    BY <1>1, <1>3, <2>1 DEF Before
<1> QED
  BY <1>4, <1>5 DEF UpTo

LEMMA LaterBefore ==
  ASSUME NEW points \in Seq(Points), Before(points, last), SampleInv,
         last # None => last.time <= now
  PROVE  Before(points, Sample)
<1>1. Sample # None /\ Sample.time = now + 1 /\ now \in Nat
  BY SampleIsSample, NoneIsNoSample DEF Sample, SampleInv
<1>2. ASSUME NEW i \in 1 .. Len(points) PROVE points[i].t <= now + 1
  <2>1. last \in Samples /\ points[i].t <= last.time /\ last.time <= now
    BY <1>2 DEF Before, SampleInv
  <2>2. points[i] \in Points
    BY <1>2, ElementOfSeq
  <2> QED
    BY <1>1, <2>1, <2>2 DEF Samples, Points
<1> QED
  BY <1>1, <1>2 DEF Before

LEMMA LaterUpTo ==
  ASSUME NEW points \in Seq(Points), UpTo(points, last, TRUE), SampleInv, TimeInv
  PROVE  UpTo(points, Sample, TRUE)
BY LaterBefore DEF UpTo, TimeInv

LEMMA AppendedBefore ==
  ASSUME NEW points \in Seq(Points), NEW p \in Points, NEW sample, sample # None,
         Before(points, sample), p.t = sample.time
  PROVE  Before(Append(points, p), sample)
<1>1. p.t <= sample.time
  BY DEF Points
<1> QED
  BY <1>1, AppendProperties DEF Before

LEMMA AppendedUpTo ==
  ASSUME NEW points \in Seq(Points), NEW miss, UpTo(points, last, miss),
         SampleInv, TimeInv, last # None
  PROVE  UpTo(Append(points, Delta(last, Sample)), Sample, miss)
<1> DEFINE p == Delta(last, Sample)
           longer == Append(points, p)
<1>1. last \in Samples /\ p \in Points /\ Sample # None
  BY SampleIsSample, NoneIsNoSample DEF SampleInv
<1>2. p.t = Sample.time /\ p.t - p.dt = last.time /\ last.time < p.t
  BY <1>1 DEF Delta, Sample, SampleInv, TimeInv, Samples
<1>3. longer # <<>> /\ longer \in Seq(Points) /\ Last(longer) = p
  BY <1>1, AppendProperties DEF Last
<1>4. ASSUME points # <<>>
      PROVE  Last(points).t <= last.time /\ Last(points) \in Points
  <2>1. Len(points) \in 1 .. Len(points)
    BY <1>4
  <2>2. Last(points).t <= last.time
    BY <2>1 DEF UpTo, Before, Last
  <2> QED
    BY <1>4, <2>2, LastPoint
<1> HIDE DEF p
<1>5. Ordered(longer)
  <2>1. points # <<>> => Last(points).t < p.t
    BY <1>1, <1>2, <1>4 DEF Samples, Points
  <2> QED
    BY <1>1, <2>1, AppendedOrder DEF UpTo
<1>6. ASSUME ~miss PROVE Chained(longer)
  <2>1. Chained(points) /\ (points # <<>> => Follows(Last(points), p))
    BY <1>2, <1>6 DEF UpTo, Follows
  <2> QED
    BY <1>1, <2>1, AppendedChain
<1> HIDE DEF longer
<1>7. UpTo(longer, Sample, miss)
  <2>1. Before(longer, Sample)
    BY <1>1, <1>2, LaterBefore, AppendedBefore DEF UpTo, TimeInv, longer
  <2> QED
    BY <1>1, <1>2, <1>3, <1>5, <1>6, <2>1 DEF UpTo
<1> QED
  BY <1>7 DEF longer, p

-----------------------------------------------------------------------------
(* The steps                                                               *)

LEMMA TimeStep ==
  ASSUME SampleInv, TimeInv, [CollectorNext]_collectorVars
  PROVE  TimeInv'
<1>1. CASE Tock
  <2>1. last' = Sample /\ now' = now + 1 /\ last'.time = now'
    BY <1>1 DEF Tock, Sample
  <2>2. CASE last = None
    <3>1. history' = history /\ \A i \in 1 .. Len(history) : FALSE
      BY <1>1, <2>2 DEF Tock, TimeInv, Before
    <3> QED
      BY <2>1, <3>1 DEF TimeInv, Spaced, Before, SampleInv
  <2>3. CASE last # None
    <3> DEFINE p == Delta(last, Sample)
               longer == Append(history, p)
    <3>1. last \in Samples /\ p \in Points /\ history \in Seq(Points)
      BY <2>3, SampleIsSample DEF SampleInv
    <3>2. p.dt > 0
      <4>1. p.dt = (now + 1) - last.time
        BY DEF Delta, Sample
      <4>2. last.time \in Nat /\ now \in Nat /\ last.time <= now
        BY <2>3, <3>1 DEF SampleInv, TimeInv, Samples
      <4> HIDE DEF p
      <4> QED
        BY <4>1, <4>2
    <3>3. history' = Trimmed(longer)
      BY <1>1, <2>3 DEF Tock
    <3> HIDE DEF p
    <3>4. longer \in Seq(Points) /\ Spaced(longer)
      BY <3>1, <3>2, AppendProperties DEF Spaced, TimeInv
    <3>0. Before(longer, Sample)
      <4>1. Before(history, Sample)
        BY <3>1, LaterBefore DEF TimeInv
      <4>2. Sample # None
        BY SampleIsSample, NoneIsNoSample
      <4>3. p.t = Sample.time
        BY DEF Delta, p
      <4> QED
        BY <3>1, <4>1, <4>2, <4>3, AppendedBefore
    <3> HIDE DEF longer
    <3>5. Spaced(history') /\ Before(history', last')
      BY <2>1, <3>0, <3>3, <3>4, TrimmedChain
    <3> QED
      BY <2>1, <3>5 DEF TimeInv, SampleInv
  <2> QED
    BY <2>2, <2>3
<1>2. CASE ~Tock
  <2>1. UNCHANGED <<history, last>> /\ now' \in {now, now + 1}
    BY <1>2 DEF CollectorNext, Transfer, Recreate, ReadFails, Load, Subscribe, Receive,
       Unsubscribe, Close, collectorVars
  <2>2. last # None => last.time \in Nat
    BY DEF SampleInv, Samples
  <2> QED
    BY <2>1, <2>2 DEF TimeInv, Spaced, Before, SampleInv
<1> QED
  BY <1>1, <1>2

(* What there is changes for one page at a time, or for all with a sample. *)
LEMMA HasFacts ==
  ASSUME PageTypes, NEW g \in Pages
  PROVE  /\ page[g] = None \/ page[g] \in Seq(Points)
         /\ queue[g] = None \/ queue[g] \in Seq(Points)
         /\ Has(g) \in Seq(Points)
         /\ missed[g] \in BOOLEAN
BY ConcatPoints DEF PageTypes, Has

LEMMA TockTypes ==
  ASSUME SampleInv, PageTypes, Tock
  PROVE  PageTypes'
<1>1. CASE last = None
  BY <1>1 DEF Tock, PageTypes
<1>2. CASE last # None
  <2> DEFINE p == Delta(last, Sample)
  <2>1. p \in Points
    BY <1>2, SampleIsSample DEF SampleInv
  <2>2. page' = page
        /\ queue' = [g \in Pages |-> IF HasRoom(g) THEN Append(queue[g], p) ELSE queue[g]]
        /\ missed' = [g \in Pages |-> missed[g] \/ queue[g] = None \/ Len(queue[g]) = Buffer]
    BY <1>2 DEF Tock
  <2> HIDE DEF p
  <2>3. ASSUME NEW g \in Pages
        PROVE  (IF HasRoom(g) THEN Append(queue[g], p) ELSE queue[g]) \in Seq(Points) \cup {None}
    BY <2>1, HasFacts, AppendProperties DEF HasRoom
  <2>4. ASSUME NEW g \in Pages
        PROVE  (missed[g] \/ queue[g] = None \/ Len(queue[g]) = Buffer) \in BOOLEAN
    OBVIOUS
  <2> QED
    BY <2>2, <2>3, <2>4 DEF PageTypes
<1> QED
  BY <1>1, <1>2

LEMMA TockPages ==
  ASSUME CollectorInv, Tock, NEW g \in Pages
  PROVE  PageInv(g)'
<1> USE DEF CollectorInv
<1>1. last' = Sample /\ Sample # None /\ page' = page
  BY SampleIsSample, NoneIsNoSample DEF Tock
<1>2. PageInv(g) /\ Has(g) \in Seq(Points) /\ (queue[g] = None \/ queue[g] \in Seq(Points))
  BY HasFacts
<1>3. CASE last = None
  <2>1. queue' = queue /\ missed' = missed
    BY <1>3 DEF Tock
  <2>2. Has(g) = <<>>
    <3>1. Len(Has(g)) \in Nat /\ ~(1 \in 1 .. Len(Has(g)))
      BY <1>2, <1>3 DEF PageInv, UpTo, Before
    <3> QED
      BY <1>2, <3>1
  <2>3. Has(g)' = <<>>
    BY <1>1, <2>1, <2>2 DEF Has
  <2> QED
    BY <1>1, <1>2, <2>1, <2>3, EmptyUpTo DEF PageInv
<1>4. CASE last # None
  <2> DEFINE p == Delta(last, Sample)
  <2>1. p \in Points
    BY <1>4, SampleIsSample DEF SampleInv
  <2>2. queue'[g] = (IF HasRoom(g) THEN Append(queue[g], p) ELSE queue[g])
        /\ missed'[g] = (missed[g] \/ queue[g] = None \/ Len(queue[g]) = Buffer)
    BY <1>4 DEF Tock
  <2>3. CASE HasRoom(g)
    <3>1. page[g] \in Seq(Points) /\ page[g] # None /\ queue[g] # None
          /\ queue[g] \in Seq(Points) /\ Len(queue[g]) < Buffer
      BY <1>2, <2>3, HasFacts DEF HasRoom, PageInv
    <3>2. missed'[g] = missed[g]
      BY <2>2, <3>1, HasFacts
    <3> HIDE DEF p
    <3>3. queue'[g] = Append(queue[g], p) /\ queue'[g] \in Seq(Points)
          /\ Len(queue'[g]) = Len(queue[g]) + 1
      BY <2>1, <2>2, <2>3, <3>1, AppendProperties
    <3>4. queue'[g] # None /\ page'[g] # None
      BY <1>1, <3>1, <3>3, NoneIsNoList
    <3>5. Has(g)' = Append(Has(g), p)
      <4>1. Has(g)' = page[g] \o Append(queue[g], p)
        BY <1>1, <3>3, <3>4 DEF Has
      <4>2. Has(g) = page[g] \o queue[g]
        BY <3>1 DEF Has
      <4>3. page[g] \o Append(queue[g], p) = Append(page[g] \o queue[g], p)
        BY <2>1, <3>1, Regroup
      <4> QED
        BY <4>1, <4>2, <4>3
    <3>6. UpTo(Append(Has(g), p), Sample, missed[g])
      BY <1>2, <1>4, AppendedUpTo DEF PageInv, p
    <3>7. Len(queue'[g]) <= Buffer
      BY <3>1, <3>3
    <3> QED
      BY <1>1, <3>2, <3>4, <3>5, <3>6, <3>7 DEF PageInv
  <2>4. CASE ~HasRoom(g)
    <3>1. queue'[g] = queue[g] /\ missed'[g] = TRUE
      <4>1. queue[g] = None \/ Len(queue[g]) = Buffer
        <5>1. CASE queue[g] \in Seq(Points) /\ queue[g] # None
          <6>1. Len(queue[g]) \in Nat /\ Len(queue[g]) <= Buffer /\ ~(Len(queue[g]) < Buffer)
            BY <1>2, <2>4, <5>1 DEF HasRoom, PageInv
          <6> QED
            BY <6>1
        <5> QED
          BY <1>2, <5>1
      <4> HIDE DEF p
      <4> QED
        BY <2>2, <2>4, <4>1
    <3>2. Has(g)' = Has(g)
      BY <1>1, <3>1 DEF Has
    <3>3. UpTo(Has(g), last, TRUE)
      BY <1>2 DEF PageInv, UpTo
    <3>4. UpTo(Has(g), Sample, TRUE)
      BY <1>2, <3>3, LaterUpTo
    <3> QED
      BY <1>1, <1>2, <3>1, <3>2, <3>4 DEF PageInv
  <2> QED
    BY <2>3, <2>4
<1> QED
  BY <1>3, <1>4

OfPage(g) == Load(g) \/ Subscribe(g) \/ Receive(g) \/ Unsubscribe(g) \/ Close(g)

(* What a page sees of its history when it is opened.                      *)
LEMMA HistoryUpTo ==
  ASSUME SampleInv, HistoryChained, TimeInv
  PROVE  UpTo(history, last, FALSE)
<1>1. history \in Seq(Points) /\ Chained(history) /\ Spaced(history)
  BY DEF SampleInv, HistoryChained, TimeInv
<1>2. Ordered(history)
  <2> SUFFICES ASSUME NEW i \in 1 .. Len(history) - 1
               PROVE  history[i].t < history[i + 1].t
    BY DEF Ordered
  <2>1. i \in 1 .. Len(history) /\ i + 1 \in 1 .. Len(history)
    BY <1>1
  <2>2. history[i] \in Points /\ history[i + 1] \in Points
    BY <1>1, <2>1, ElementOfSeq
  <2>3. history[i + 1].t - history[i + 1].dt = history[i].t /\ history[i + 1].dt > 0
    BY <1>1, <2>1 DEF Chained, Follows, Spaced
  <2> QED
    BY <2>2, <2>3 DEF Points
<1> QED
  BY <1>1, <1>2 DEF UpTo, TimeInv, HistoryChained

LEMMA LoadPage ==
  ASSUME CollectorInv, NEW g \in Pages, Load(g)
  PROVE  PageTypes' /\ PageInv(g)'
<1> USE DEF CollectorInv
<1>1. /\ page' = [page EXCEPT ![g] = history] /\ missed' = [missed EXCEPT ![g] = FALSE]
      /\ queue' = queue /\ last' = last /\ queue[g] = None
  BY DEF Load, PageInv
<1>2. history \in Seq(Points) /\ history # None
  BY NoneIsNoList DEF SampleInv
<1>3. PageTypes'
  BY <1>1, <1>2 DEF PageTypes
<1>4. page'[g] = history /\ missed'[g] = FALSE /\ queue'[g] = None
  BY <1>1 DEF PageTypes
<1>5. Has(g)' = history
  BY <1>2, <1>4 DEF Has
<1> QED
  BY <1>1, <1>3, <1>4, <1>5, HistoryUpTo DEF PageInv

LEMMA SubscribePage ==
  ASSUME CollectorInv, NEW g \in Pages, Subscribe(g)
  PROVE  PageTypes' /\ PageInv(g)'
<1> USE DEF CollectorInv
<1>1. /\ queue' = [queue EXCEPT ![g] = <<>>] /\ queue[g] = None /\ page[g] # None
      /\ page' = page /\ missed' = missed /\ last' = last
  BY DEF Subscribe
<1>2. <<>> \in Seq(Points) /\ <<>> # None
  BY NoneIsNoList, EmptySeq
<1>3. PageTypes'
  BY <1>1, <1>2 DEF PageTypes
<1>4. queue'[g] = <<>>
  BY <1>1 DEF PageTypes
<1>5. page[g] \in Seq(Points) /\ page[g] \o <<>> = page[g]
  BY <1>1, HasFacts, Regroup
<1>6. Has(g)' = Has(g)
  BY <1>1, <1>2, <1>4, <1>5 DEF Has
<1>7. Len(queue'[g]) <= Buffer
  BY <1>4
<1> QED
  BY <1>1, <1>3, <1>6, <1>7 DEF PageInv

LEMMA ReceivePage ==
  ASSUME CollectorInv, NEW g \in Pages, Receive(g)
  PROVE  PageTypes' /\ PageInv(g)'
<1> USE DEF CollectorInv
<1> DEFINE points == Append(page[g], Head(queue[g]))
<1>1. page[g] # None /\ page[g] \in Seq(Points) /\ queue[g] \in Seq(Points)
      /\ queue[g] # <<>> /\ queue[g] # None /\ Len(queue[g]) <= Buffer
  BY HasFacts DEF Receive, PageInv
<1>2. Head(queue[g]) \in Points /\ Tail(queue[g]) \in Seq(Points)
      /\ Len(Tail(queue[g])) = Len(queue[g]) - 1
  BY <1>1, HeadTailProperties
<1>3. points \in Seq(Points)
  BY <1>1, <1>2, AppendProperties
<1>4. PICK n \in 0 .. Len(points) :
        page' = [page EXCEPT ![g] = SubSeq(points, n + 1, Len(points))]
  BY DEF Receive
<1> DEFINE left == SubSeq(points, n + 1, Len(points))
<1>5. queue' = [queue EXCEPT ![g] = Tail(@)] /\ missed' = missed /\ last' = last
  BY DEF Receive
<1>6. left \in Seq(Points) /\ left # None /\ Tail(queue[g]) # None
  BY <1>2, <1>3, Suffix, NoneIsNoList
<1>7. page'[g] = left /\ queue'[g] = Tail(queue[g])
  BY <1>4, <1>5 DEF PageTypes
<1>8. PageTypes'
  BY <1>2, <1>4, <1>5, <1>6 DEF PageTypes
<1>9. Has(g) = points \o Tail(queue[g])
  BY <1>1, Regroup DEF Has
<1>10. Has(g)' = left \o Tail(queue[g])
  BY <1>6, <1>7 DEF Has
<1> HIDE DEF points
<1>11. left \o Tail(queue[g]) = SubSeq(Has(g), n + 1, Len(Has(g)))
  BY <1>2, <1>3, <1>9, SuffixOfBoth
<1>12. Has(g) \in Seq(Points) /\ n \in 0 .. Len(Has(g))
  <2>1. Len(Has(g)) = Len(points) + Len(Tail(queue[g])) /\ Has(g) \in Seq(Points)
    BY <1>2, <1>3, <1>9, ConcatPoints
  <2>2. Len(points) \in Nat /\ Len(Tail(queue[g])) \in Nat
    BY <1>2, <1>3
  <2> QED
    BY <2>1, <2>2
<1>13. UpTo(Has(g)', last, missed[g])
  <2>1. UpTo(Has(g), last, missed[g])
    BY DEF PageInv
  <2> QED
    BY <1>10, <1>11, <1>12, <2>1, SuffixUpTo
<1>14. Len(queue'[g]) <= Buffer
  BY <1>1, <1>2, <1>7
<1> QED
  BY <1>5, <1>6, <1>7, <1>8, <1>13, <1>14 DEF PageInv

LEMMA UnsubscribePage ==
  ASSUME CollectorInv, NEW g \in Pages, Unsubscribe(g)
  PROVE  PageTypes' /\ PageInv(g)'
<1> USE DEF CollectorInv
<1>1. /\ queue' = [queue EXCEPT ![g] = None] /\ queue[g] # None /\ page[g] # None
      /\ missed' = [missed EXCEPT ![g] = @ \/ queue[g] # <<>>]
      /\ page' = page /\ last' = last
  BY DEF Unsubscribe, PageInv
<1>2. queue'[g] = None /\ missed'[g] = (missed[g] \/ queue[g] # <<>>)
  BY <1>1 DEF PageTypes
<1>3. PageTypes'
  BY <1>1 DEF PageTypes
<1>4. page[g] \in Seq(Points) /\ queue[g] \in Seq(Points) /\ missed[g] \in BOOLEAN
  BY <1>1, HasFacts
<1>5. Has(g) = page[g] \o queue[g] /\ Has(g)' = page[g] /\ UpTo(Has(g), last, missed[g])
  BY <1>1, <1>2 DEF Has, PageInv
<1>6. CASE queue[g] = <<>>
  <2>1. Has(g)' = Has(g) /\ missed'[g] = missed[g]
    BY <1>2, <1>4, <1>5, <1>6, Regroup
  <2> QED
    BY <1>1, <1>2, <1>3, <1>5, <2>1 DEF PageInv
<1>7. CASE queue[g] # <<>>
  <2>1. missed'[g] = TRUE
    BY <1>2, <1>7
  <2>2. UpTo(page[g] \o queue[g], last, missed[g])
    BY <1>5
  <2>3. UpTo(page[g], last, TRUE)
    BY <1>4, <2>2, FrontUpTo
  <2> QED
    BY <1>1, <1>2, <1>3, <1>5, <2>1, <2>3 DEF PageInv
<1> QED
  BY <1>6, <1>7

LEMMA ClosePage ==
  ASSUME CollectorInv, NEW g \in Pages, Close(g)
  PROVE  PageTypes' /\ PageInv(g)'
<1> USE DEF CollectorInv
<1>1. page'[g] = None /\ queue'[g] = None
  BY DEF Close, PageTypes
<1>2. PageTypes'
  BY DEF Close, PageTypes
<1>3. Has(g)' = <<>>
  BY <1>1 DEF Has
<1> QED
  BY <1>1, <1>2, <1>3, EmptyUpTo DEF PageInv

LEMMA OnePage ==
  ASSUME CollectorInv, NEW h \in Pages, OfPage(h)
  PROVE  PageTypes' /\ \A g \in Pages : PageInv(g)'
<1>1. PageTypes' /\ PageInv(h)'
  BY LoadPage, SubscribePage, ReceivePage, UnsubscribePage, ClosePage DEF OfPage
<1>2. ASSUME NEW g \in Pages, g # h PROVE PageInv(g)'
  <2>1. page'[g] = page[g] /\ queue'[g] = queue[g] /\ missed'[g] = missed[g] /\ last' = last
    BY <1>2 DEF CollectorInv, PageTypes, OfPage, Load, Subscribe, Receive, Unsubscribe, Close
  <2>2. PageInv(g)
    BY DEF CollectorInv
  <2> QED
    BY <2>1, <2>2 DEF PageInv, Has
<1> QED
  BY <1>1, <1>2

LEMMA PagesStep ==
  ASSUME CollectorInv, [CollectorNext]_collectorVars
  PROVE  PageTypes' /\ \A g \in Pages : PageInv(g)'
<1>1. CASE Tock
  BY <1>1, TockTypes, TockPages DEF CollectorInv
<1>2. CASE Transfer \/ Recreate \/ ReadFails \/ UNCHANGED collectorVars
  <2>1. UNCHANGED <<last, queue, page, missed>>
    BY <1>2 DEF Transfer, Recreate, ReadFails, collectorVars
  <2> QED
    BY <2>1 DEF CollectorInv, PageTypes, PageInv, Has
<1>3. CASE \E h \in Pages : OfPage(h)
  BY <1>3, OnePage
<1> QED
  BY <1>1, <1>2, <1>3 DEF CollectorNext, OfPage

LEMMA InvStep ==
  ASSUME CollectorInv, [CollectorNext]_collectorVars
  PROVE  CollectorInv'
BY SampleStep, ChainStep, TimeStep, PagesStep DEF CollectorInv

LEMMA InvInit == CollectorInit => CollectorInv
<1> SUFFICES ASSUME CollectorInit PROVE CollectorInv
  OBVIOUS
<1>1. TimeInv
  BY DEF CollectorInit, TimeInv, Spaced, Before
<1>2. PageTypes
  BY DEF CollectorInit, PageTypes
<1>3. ASSUME NEW g \in Pages PROVE PageInv(g)
  <2>1. page[g] = None /\ queue[g] = None
    BY DEF CollectorInit
  <2> QED
    BY <2>1, EmptyUpTo DEF PageInv, Has
<1> QED
  BY <1>1, <1>2, <1>3, InitInv DEF CollectorInv

(* However streams break and pages are closed and opened, a page has and   *)
(* is sent its points in order, and none twice.                            *)
THEOREM GraphsAreInOrder == CollectorSpec => []PagesInOrder
<1>1. CollectorInv => PagesInOrder
  <2> SUFFICES ASSUME CollectorInv, NEW g \in Pages, page[g] # None, queue[g] # None
               PROVE  Ordered(page[g] \o queue[g])
    BY DEF PagesInOrder, Ordered
  <2> QED
    BY DEF CollectorInv, PageInv, UpTo, Has
<1> QED
  BY <1>1, InvInit, InvStep, PTL DEF CollectorSpec

(* A page that was sent every point made since it was opened has, with the *)
(* points on their way to it, an unbroken graph that ends with the last    *)
(* sample, for every buffer and window and whatever streams of other pages *)
(* break (stats.go:79, app.js).                                            *)
THEOREM GraphsHaveNoGaps == CollectorSpec => []PagesWithoutGaps
<1>1. CollectorInv => PagesWithoutGaps
  BY DEF CollectorInv, PageInv, UpTo, Has, PagesWithoutGaps
<1> QED
  BY <1>1, InvInit, InvStep, PTL DEF CollectorSpec
=============================================================================
