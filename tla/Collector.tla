------------------------------ MODULE Collector ------------------------------
(***************************************************************************)
(* The statistics collector (stats/stats.go): samples of the counters of   *)
(* an interface, the history of the rates between them, and the dashboards *)
(* of the web interface that new points are sent to.  A point is the time   *)
(* and the interval and the bytes that its rate is computed from.          *)
(***************************************************************************)
EXTENDS Integers, FiniteSets, SequencesExt

CONSTANTS
  Size,       \* points kept
  Buffer,     \* points that wait for one stream, 16 in the code
  Window,     \* what a page keeps, in ticks
  Pages,      \* dashboards that are open in some browser
  Word,       \* 2^64
  MaxTime,    \* bound: ticks of a behaviour
  MaxBytes,   \* bound: bytes on the counter, and between two samples
  None

ASSUME CollectorAssumption ==
  /\ Size \in Nat \ {0} /\ Buffer \in Nat \ {0} /\ Window \in Nat
  /\ MaxTime \in Nat /\ MaxBytes \in Nat
  /\ Word \in Nat /\ MaxBytes < Word
  /\ None \notin Int /\ None \notin [time : Int, counter : Int \cup {None}]
  /\ None \notin Seq([t : Int, dt : Int, bytes : Int \cup {None}])

VARIABLES
  now,
  counter,    \* of the interface, None while there is no such interface
  passed,     \* history: bytes that passed since the last sample
  last,       \* the last sample, None before the first
  lastErr,    \* the last read failed
  history,
  queue,      \* of each page's stream, None while it is not connected
  page,       \* points each page has, None while it is not open
  missed      \* history: a point was made that the page has not been sent

collectorVars == <<now, counter, passed, last, lastErr, history, queue, page, missed>>

CollectorInit ==
  /\ now = 0 /\ counter = 0 /\ passed = 0
  /\ last = None /\ lastErr = FALSE
  /\ history = <<>>
  /\ queue = [g \in Pages |-> None]
  /\ page = [g \in Pages |-> None]
  /\ missed = [g \in Pages |-> FALSE]

-----------------------------------------------------------------------------
(* The interface                                                           *)

Transfer ==
  /\ counter # None /\ counter < MaxBytes /\ passed < MaxBytes
  /\ counter' = counter + 1
  /\ passed' = passed + 1
  /\ UNCHANGED <<now, last, lastErr, history, queue, page, missed>>

(* A clone that is destroyed takes its counters with it; one that is       *)
(* created starts at zero.                                                 *)
Recreate ==
  /\ counter' = IF counter = None THEN 0 ELSE None
  /\ UNCHANGED <<now, passed, last, lastErr, history, queue, page, missed>>

-----------------------------------------------------------------------------
(* Sampling                                                                *)

(* Mutant: unsigned subtraction.                                           *)
SubWraps(a, b) == (a - b) % Word

(* sub                                                                     *)
Sub(a, b) == IF a < b THEN 0 ELSE a - b

(* Delta; an interface that one of the samples lacks has no rate.          *)
Delta(a, b) ==
  [t |-> b.time,
   dt |-> b.time - a.time,
   bytes |-> IF None \in {a.counter, b.counter} THEN None ELSE Sub(b.counter, a.counter)]

Sample == [time |-> now + 1, counter |-> counter]

Trimmed(points) ==
  IF Len(points) > Size THEN SubSeq(points, Len(points) - Size + 1, Len(points)) ELSE points

(* Mutant: a stream that has something waiting is passed over.             *)
HasRoomIfEmpty(g) == queue[g] = <<>>

HasRoom(g) == queue[g] # None /\ Len(queue[g]) < Buffer

(* tick, with a sample: the first only serves as a start.                  *)
Tock ==
  /\ now < MaxTime
  /\ now' = now + 1
  /\ last' = Sample /\ lastErr' = FALSE
  /\ passed' = 0
  /\ IF last = None THEN UNCHANGED <<history, queue, missed>>
     ELSE LET p == Delta(last, Sample) IN
          /\ history' = Trimmed(Append(history, p))
          /\ queue' = [g \in Pages |-> IF HasRoom(g) THEN Append(queue[g], p) ELSE queue[g]]
          /\ missed' = [g \in Pages |-> \/ missed[g]
                                       \/ queue[g] = None
                                       \/ Len(queue[g]) = Buffer]
  /\ UNCHANGED <<counter, page>>

(* Mutant: the last sample is dropped.                                     *)
ReadFailsForgets ==
  /\ now < MaxTime
  /\ now' = now + 1
  /\ lastErr' = TRUE
  /\ last' = None
  /\ UNCHANGED <<counter, passed, history, queue, page, missed>>

(* tick, without.                                                          *)
ReadFails ==
  /\ now < MaxTime
  /\ now' = now + 1
  /\ lastErr' = TRUE
  /\ UNCHANGED <<counter, passed, last, history, queue, page, missed>>

-----------------------------------------------------------------------------
(* The dashboard (static/app.js) and its stream (server.go)                *)

(* startApp: History.                                                      *)
Load(g) ==
  /\ page[g] = None
  /\ page' = [page EXCEPT ![g] = history]
  /\ missed' = [missed EXCEPT ![g] = FALSE]
  /\ UNCHANGED <<now, counter, passed, last, lastErr, history, queue>>

(* Mutant: a new stream starts with what the collector has.                *)
SubscribeReplays(g) ==
  /\ page[g] # None /\ queue[g] = None
  /\ queue' = [queue EXCEPT ![g] = history]
  /\ UNCHANGED <<now, counter, passed, last, lastErr, history, page, missed>>

(* startStream; the browser comes here again by itself after an error.     *)
Subscribe(g) ==
  /\ page[g] # None /\ queue[g] = None
  /\ queue' = [queue EXCEPT ![g] = <<>>]
  /\ UNCHANGED <<now, counter, passed, last, lastErr, history, page, missed>>

(* onmessage: the point is added, and points are taken from the front as   *)
(* long as they are too old.                                               *)
Receive(g) ==
  /\ queue[g] \notin {None, <<>>}
  /\ LET points == Append(page[g], Head(queue[g]))
         old(i) == points[i].t < Head(queue[g]).t - Window
     IN
     \E n \in 0 .. Len(points) :
       /\ \A i \in 1 .. n : old(i)
       /\ n < Len(points) => ~old(n + 1)
       /\ page' = [page EXCEPT ![g] = SubSeq(points, n + 1, Len(points))]
  /\ queue' = [queue EXCEPT ![g] = Tail(@)]
  /\ UNCHANGED <<now, counter, passed, last, lastErr, history, missed>>

(* The connection breaks.                                                  *)
Unsubscribe(g) ==
  /\ queue[g] # None
  /\ queue' = [queue EXCEPT ![g] = None]
  /\ missed' = [missed EXCEPT ![g] = @ \/ queue[g] # <<>>]
  /\ UNCHANGED <<now, counter, passed, last, lastErr, history, page>>

(* The page is left, or shows the login.                                   *)
Close(g) ==
  /\ page[g] # None
  /\ page' = [page EXCEPT ![g] = None]
  /\ queue' = [queue EXCEPT ![g] = None]
  /\ UNCHANGED <<now, counter, passed, last, lastErr, history, missed>>

CollectorNext ==
  \/ Transfer \/ Recreate \/ Tock \/ ReadFails
  \/ \E g \in Pages : Load(g) \/ Subscribe(g) \/ Receive(g) \/ Unsubscribe(g) \/ Close(g)

CollectorSpec == CollectorInit /\ [][CollectorNext]_collectorVars

-----------------------------------------------------------------------------
(* Properties                                                              *)

(* q's interval begins where p was taken.                                  *)
Follows(p, q) == q.t - q.dt = p.t

Chained(points) == \A i \in 1 .. Len(points) - 1 : Follows(points[i], points[i + 1])

(* The history covers the time up to the last sample without a gap: the    *)
(* point after some reads that failed stands for the whole time since the  *)
(* one before, and what falls out of the history is the oldest.            *)
HistoryChained ==
  /\ Chained(history)
  /\ history # <<>> => last # None /\ Last(history).t = last.time

(* No rate exceeds the traffic there was, also when an interface was       *)
(* destroyed and created again between two samples ("sub handles counter   *)
(* resets (e.g. an interface recreated) gracefully").                      *)
NoSpikes ==
  [][history' # history =>
       LET p == Last(history') IN p.bytes # None => p.bytes <= passed]_collectorVars

(* What a page has and what it will still be sent is in order and without  *)
(* repetition, also over broken connections: the history is fetched only   *)
(* once, and before the stream begins.                                     *)
PagesInOrder ==
  \A g \in Pages : page[g] # None /\ queue[g] # None =>
    LET points == page[g] \o queue[g] IN
    \A i \in 1 .. Len(points) - 1 : points[i].t < points[i + 1].t

(* A graph reaches the last sample without a gap, as far as the points     *)
(* that are on their way have arrived, and unless a point was made while   *)
(* the page was not connected or had Buffer points waiting for it ("slow   *)
(* consumer: drop the point").                                             *)
PagesWithoutGaps ==
  \A g \in Pages : page[g] # None /\ queue[g] # None /\ ~missed[g] =>
    LET points == page[g] \o queue[g] IN
    Chained(points) /\ (points # <<>> => Last(points).t = last.time)
=============================================================================
