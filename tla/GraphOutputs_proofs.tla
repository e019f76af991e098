------------------------ MODULE GraphOutputs_proofs -------------------------
(***************************************************************************)
(* An observer and a poller get every packet of an output stream once and  *)
(* in order, for any packets, bounds, closing packets and number of runs,  *)
(* whether callbacks fail or not, and however writers, readers and the     *)
(* clean-up are interleaved.                                               *)
(*                                                                         *)
(* The argument: what was emitted is, in order, what a reader has got,     *)
(* what the thread that notifies has in hand, what is in the queue of the  *)
(* mirror, and what a writer is still to add (PolledSoFar, ObservedSoFar). *)
(* That the parts are in order rests on the bounds: the queue comes before *)
(* the bound of its mirror and what is still to be added after it          *)
(* (InOrder), though two threads may be writing (Writers, BoundsSent).     *)
(*                                                                         *)
(* That nothing is left in the queue of the observer needs more than that. *)
(* The thread that notifies looks again before it leaves, but compares     *)
(* only a timestamp, and a writer whose packet comes meanwhile quits at    *)
(* once.  So the packet must change the timestamp (NothingMissed), and it  *)
(* does unless Close() of the node sends a packet at the very timestamp of *)
(* a bound that the node sent before: the hypothesis of PacketsObserved.   *)
(* Without it the property is false.                                       *)
(***************************************************************************)
EXTENDS GraphOutputs, SequenceTheorems, FiniteSetTheorems, TLAPS

-----------------------------------------------------------------------------
(* The inductive invariant. *)

Time == MinTime .. MaxTime
\* What a timestamp bound may be, and how much a thread may have yet to write.
Marks == {PreStream, OneOverPostStream, Done} \cup Time
Writes == {<<>>} \cup {<<p>> : p \in Time}
Looks == [empty : BOOLEAN, timestamp : Timestamp]
Streams ==
  [queue : Seq(Time), next_timestamp_bound_ : Marks, last_select_timestamp_ : Timestamp,
   used : BOOLEAN, closed_ : BOOLEAN, enable_timestamps_ : {TRUE}]
Loop == {"look", "report", "recheck", "pop", "callback", "error"}

Typed ==
  /\ observe_timestamp_bounds \in BOOLEAN
  /\ stream \in [{Observer, Poller} -> Streams]
  /\ next_timestamp_bound_ \in Marks
  /\ pc \in [Threads -> Labels] /\ after \in [Threads -> {"bound", "next"}]
  /\ i \in [Threads -> {1, 2}] /\ packets \in [Threads -> Writes]
  /\ bound \in [Threads -> Marks \cup {Unset}] /\ seen \in [Threads -> Looks]
  /\ notifying_ \in BOOLEAN /\ last_processed_ts_ \in Timestamp
  /\ graph_has_error_ \in BOOLEAN /\ output_timestamp_ \in Timestamp
  /\ poll \in {"out", "test", "asleep", "pop", "ended"} /\ wanted \in Looks
  /\ state_ \in {"RUNNING", "TERMINATED", "FINISHED"}
  /\ observed_output_signal_ \in BOOLEAN /\ waiting_for_observed_output_ \in BOOLEAN
  /\ wait \in {"out", "test", "asleep", "ok", "done"}
  /\ has_error_ \in BOOLEAN /\ runs \in Nat \ {0}
  /\ emitted \in Seq(Time) /\ observed \in Seq(Time) /\ polled \in Seq(Time)
  /\ reported \in Timestamp

\* A thread that writes to the mirror number k has not added its packet yet.
Unsent(t, k) == i[t] < k \/ (i[t] = k /\ pc[t] = "add")
Number(m) == IF m = Observer THEN 1 ELSE 2
PendingOf(t, k) == IF Unsent(t, k) THEN packets[t] ELSE <<>>
Pending(k) == PendingOf(Worker, k) \o PendingOf(Closer, k)

BoundUnsent(t) == i[t] = 1 /\ (pc[t] \in {"add", "bound"} \/ after[t] = "bound")

\* Who writes, when, and what.
Writers ==
  /\ \A t \in Threads :
       /\ pc[t] = "idle" => i[t] = 1 /\ packets[t] = <<>> /\ bound[t] = Unset
       /\ pc[t] # "idle" => bound[t] \in Marks
       /\ pc[t] \in {"idle", "add", "bound", "next"} => after[t] = "next"
       /\ pc[t] \in Loop => i[t] = 1
  /\ state_ # "RUNNING" => pc[Worker] = "idle" /\ pc[Closer] = "idle"
  /\ pc[App] # "idle" => state_ = "TERMINATED"
  /\ packets[App] = <<>>
  /\ packets[Worker] # <<>> => pc[Closer] = "idle"
  /\ wait = "done" => state_ = "TERMINATED"
  /\ state_ = "FINISHED" => next_timestamp_bound_ = Done

\* The bound that a thread sends, next to that of the output stream and to the packets.
BoundsSent ==
  /\ pc[Worker] # "idle" => bound[Worker] # Done /\ bound[Worker] <= next_timestamp_bound_
  /\ \A t \in {Closer, App} :
       pc[t] # "idle" => bound[t] = Done /\ next_timestamp_bound_ = Done
  /\ \A t \in Threads : packets[t] # <<>> => packets[t][1] < bound[t]
  /\ packets[Worker] # <<>> => bound[Worker] = NextAllowedInStream(packets[Worker][1])
  /\ packets[Closer] # <<>> /\ pc[Worker] # "idle" => bound[Worker] <= packets[Closer][1]

\* The packets of a mirror come in order, before its bound, and those that are still to
\* be added after it.
InOrder(m) ==
  /\ \A a, b \in DOMAIN stream[m].queue : a < b => stream[m].queue[a] < stream[m].queue[b]
  /\ \A a \in DOMAIN stream[m].queue :
       stream[m].queue[a] < stream[m].next_timestamp_bound_
  /\ stream[m].next_timestamp_bound_ <= next_timestamp_bound_
  /\ stream[m].closed_ => state_ = "FINISHED"
  /\ \A t \in Threads :
       PendingOf(t, Number(m)) # <<>> =>
         stream[m].next_timestamp_bound_ <= PendingOf(t, Number(m))[1]

\* What was emitted was polled, is in the queue of the poller or is to be added to it.
PolledSoFar ==
  /\ emitted = polled \o stream[Poller].queue \o Pending(2)
  /\ poll = "pop" =>
       ~IsEmpty(stream[Poller]) /\ wanted.timestamp = Head(stream[Poller].queue)

\* One thread is in the loop of Notify.
OneNotifies ==
  /\ \A t \in Threads : pc[t] \in Loop => notifying_
  /\ \A t, u \in Threads : pc[t] \in Loop /\ pc[u] \in Loop => t = u

\* What was emitted was observed, is in the hands of the thread that notifies (or was
\* when a callback failed), is in the queue of the observer or is to be added to it.
InHand(gap) ==
  /\ emitted = observed \o gap \o stream[Observer].queue \o Pending(1)
  /\ Len(gap) <= 1
  /\ gap # <<>> => notifying_ /\ (\A t \in Threads : pc[t] \in Loop => pc[t] \in {"callback", "error"})
  /\ gap # <<>> => gap[1] > reported
  /\ \A a \in DOMAIN gap, b \in DOMAIN stream[Observer].queue : gap[a] < stream[Observer].queue[b]
  /\ gap # <<>> => gap[1] < stream[Observer].next_timestamp_bound_
  /\ \A t \in Threads : pc[t] = "callback" => gap = <<seen[t].timestamp>>
ObservedSoFar ==
  /\ \E gap \in Seq(Time) : InHand(gap)
  /\ reported < stream[Observer].next_timestamp_bound_
  /\ \A a \in DOMAIN stream[Observer].queue : reported < stream[Observer].queue[a]
  /\ \A t \in Threads : pc[t] = "pop" =>
       ~IsEmpty(stream[Observer]) /\ seen[t].timestamp = Head(stream[Observer].queue)
  /\ \A t \in Threads : pc[t] \in {"report", "recheck"} =>
       /\ seen[t].timestamp \in Marks
       /\ seen[t].timestamp <= stream[Observer].next_timestamp_bound_
       /\ \A a \in DOMAIN stream[Observer].queue : seen[t].timestamp <= stream[Observer].queue[a]

IInv ==
  Typed /\ Writers /\ BoundsSent /\ InOrder(Observer) /\ InOrder(Poller) /\ PolledSoFar
  /\ OneNotifies /\ ObservedSoFar

\* What the worker sends is the bound of the output stream until the node is closed.
WorkerBound ==
  /\ pc[Worker] # "idle" /\ next_timestamp_bound_ # Done => bound[Worker] = next_timestamp_bound_
  /\ pc[Worker] # "idle" /\ packets[Worker] = <<>> => bound[Worker] \in Bounds
  /\ packets[Worker] # <<>> /\ ~Unsent(Worker, 1) =>
       bound[Worker] <= stream[Observer].next_timestamp_bound_

\* When the closing packets are none of the bounds that the worker sends: a queue that
\* is not empty has a thread that attends to it or is about to, ...
Attention == notifying_ \/ \E t \in {Worker, Closer} : pc[t] = "notify" /\ i[t] = 1
Attended == ~IsEmpty(stream[Observer]) => Attention

\* ... because a packet that comes while a thread is in the loop changes the timestamp
\* that the thread compares, ...
NothingMissed ==
  /\ packets[Closer] # <<>> /\ pc[Worker] # "idle" => bound[Worker] < packets[Closer][1]
  /\ PendingOf(Closer, 1) # <<>> /\ pc[Worker] # "idle" =>
       stream[Observer].next_timestamp_bound_ < packets[Closer][1]
  /\ \A t \in Threads : pc[t] \in {"report", "recheck"} =>
       \A a \in DOMAIN stream[Observer].queue : seen[t].timestamp < stream[Observer].queue[a]

\* ... the bound of the output stream gets to the observer ...
BoundArrives ==
  next_timestamp_bound_ # Done =>
    \/ has_error_ \/ stream[Observer].next_timestamp_bound_ = next_timestamp_bound_
    \/ pc[Worker] # "idle" /\ BoundUnsent(Worker)

\* ... and is reported, in the first run.
BoundReported ==
  observe_timestamp_bounds /\ runs = 1 /\ next_timestamp_bound_ # Done /\ ~has_error_ =>
    /\ last_processed_ts_ = reported
    /\ \/ Attention
       \/ reported >= PreviousAllowedInStream(stream[Observer].next_timestamp_bound_)
    /\ pc[Worker] \in {"report", "recheck"} =>
         seen[Worker].timestamp = stream[Observer].next_timestamp_bound_
    /\ pc[Worker] = "recheck" => reported >= Settled(seen[Worker].timestamp)

Complete == WorkerBound /\ Attended /\ NothingMissed /\ BoundArrives /\ BoundReported

-----------------------------------------------------------------------------
LEMMA Arithmetic ==
  /\ MaxTimestamp \in Nat /\ Time = 0 .. MaxTimestamp /\ Marks \subseteq Timestamp /\ Timestamp \subseteq Int
  /\ \A p \in Time : NextAllowedInStream(p) \in Marks /\ p < NextAllowedInStream(p)
                     /\ NextAllowedInStream(p) # Done
  /\ \A p \in Time, b \in Marks : p < b => NextAllowedInStream(p) <= b
  /\ \A p \in Time, b \in Marks : b <= p => PreviousAllowedInStream(b) < p
  /\ \A b \in Marks : PreviousAllowedInStream(b) < b /\ PreviousAllowedInStream(b) \in Timestamp
  /\ \A p \in Time : IsAllowedInStream(p) /\ p # PostStream /\ p < Done
  /\ \A b \in Marks : b # PostStream /\ b <= Done
  BY MaxTimestampAssumption DEF Time, Marks, Timestamp, NextAllowedInStream, PreviousAllowedInStream,
     Plus, MinTime, MaxTime, PreStream, PostStream, OneOverPostStream, Done, Unset, Unstarted, IsAllowedInStream


\* One packet at most is sent at a time.
LEMMA AddAtMostOne ==
  ASSUME NEW s, NEW ps, NEW k \in {0, 1}, Len(ps) = k
  PROVE  AddPackets(s, ps) =
           IF s.closed_ \/ k = 0 THEN [stream |-> s, ok |-> TRUE]
           ELSE IF RefusesPacket(s, ps[1]) THEN [stream |-> s, ok |-> FALSE]
           ELSE [stream |-> Accept(s, ps[1]), ok |-> TRUE]
<1> DEFINE First == [stream |-> s, ok |-> TRUE]
           Second == IF RefusesPacket(s, ps[1]) THEN [stream |-> s, ok |-> FALSE]
                     ELSE [stream |-> Accept(s, ps[1]), ok |-> TRUE]
           Then(before, p) ==
             IF ~before.ok \/ RefusesPacket(before.stream, p) THEN [stream |-> before.stream, ok |-> FALSE]
             ELSE [stream |-> Accept(before.stream, p), ok |-> TRUE]
           F(f) == [n \in 0 .. Len(ps) |->
                     IF n = 0 THEN First ELSE Then(f[n - 1], ps[n])]
           Added == CHOOSE f : f = F(f)
           W == [n \in 0 .. k |-> IF n = 0 THEN First ELSE Second]
<1>1. Then(First, ps[1]) = Second
  OBVIOUS
<1> HIDE DEF First, Second, Then
<1>2. W = F(W)
  <2>1. F(W) = [n \in 0 .. k |-> IF n = 0 THEN First ELSE Then(W[n - 1], ps[n])]
    OBVIOUS
  <2>2. ASSUME NEW n \in 0 .. k
        PROVE W[n] = IF n = 0 THEN First ELSE Then(W[n - 1], ps[n])
    <3>1. n = 0 \/ n = 1
      OBVIOUS
    <3>2. CASE n = 0
      BY <3>2
    <3>3. CASE n = 1
      <4>1. W[n - 1] = First
        BY <3>3
      <4> QED
        BY <4>1, <3>3, <1>1
    <3> QED
      BY <3>1, <3>2, <3>3
  <2> QED
    BY <2>1, <2>2
<1>3. Added = F(Added)
  BY <1>2
<1> HIDE DEF Added
<1>4. Added[0] = First
  BY <1>3
<1>5. k = 1 => Added[1] = Second
  <2>1. k = 1 => Added[1] = Then(Added[0], ps[1])
    BY <1>3
  <2> QED
    BY <2>1, <1>1, <1>4
<1>6. AddPackets(s, ps) = IF s.closed_ THEN First ELSE Added[Len(ps)]
  BY DEF AddPackets, Added, Then, First
<1> QED
  BY <1>4, <1>5, <1>6 DEF First, Second

LEMMA NewStreamFields ==
  /\ NewStream(TRUE) \in Streams
  /\ NewStream(TRUE).queue = <<>> /\ NewStream(TRUE).next_timestamp_bound_ = PreStream
  /\ NewStream(TRUE).closed_ = FALSE
  BY MaxTimestampAssumption DEF NewStream, Streams, Marks, Timestamp, Unstarted, Unset, Done

LEMMA AcceptFields ==
  ASSUME NEW s \in Streams, NEW p \in Time, s.next_timestamp_bound_ <= p
  PROVE  /\ ~RefusesPacket(s, p)
         /\ Accept(s, p) \in Streams
         /\ Accept(s, p).queue = Append(s.queue, p)
         /\ Accept(s, p).next_timestamp_bound_ = NextAllowedInStream(p)
         /\ Accept(s, p).closed_ = s.closed_
<1>1. /\ NextAllowedInStream(p) \in Marks /\ Append(s.queue, p) \in Seq(Time)
      /\ IsAllowedInStream(p) /\ p # PostStream /\ p \in Int
  BY Arithmetic DEF Streams
<1>2. s.next_timestamp_bound_ \in Int
  BY Arithmetic DEF Streams
<1>3. ~RefusesPacket(s, p)
  BY <1>1, <1>2 DEF RefusesPacket
<1> QED
  BY <1>1, <1>3 DEF Accept, Streams

LEMMA SetFields ==
  ASSUME NEW s \in Streams, NEW b \in Marks
  PROVE  LET set == SetNextTimestampBound(s, b) IN
         /\ set \in Streams /\ set.queue = s.queue /\ set.closed_ = s.closed_
         /\ set.next_timestamp_bound_ = (IF s.closed_ \/ b <= s.next_timestamp_bound_
                                         THEN s.next_timestamp_bound_ ELSE b)
         /\ set # s <=> ~s.closed_ /\ s.next_timestamp_bound_ < b
<1> DEFINE other == [s EXCEPT !.next_timestamp_bound_ = b]
<1>1. b \in Int /\ s.next_timestamp_bound_ \in Int
  BY Arithmetic DEF Streams
<1>2. /\ other \in Streams /\ other.queue = s.queue /\ other.closed_ = s.closed_
      /\ other.next_timestamp_bound_ = b
  BY DEF Streams
<1> HIDE DEF other
<1>3. other = s => b = s.next_timestamp_bound_
  BY <1>2
<1>4. SetNextTimestampBound(s, b) = IF s.closed_ \/ b <= s.next_timestamp_bound_ THEN s ELSE other
  BY DEF SetNextTimestampBound, other
<1>5. s.closed_ \in BOOLEAN
  BY DEF Streams
<1> QED
  BY <1>1, <1>2, <1>3, <1>4, <1>5

LEMMA CloseFields ==
  ASSUME NEW s \in Streams
  PROVE  /\ Close(s) \in Streams /\ Close(s).queue = s.queue
         /\ Close(s).next_timestamp_bound_ = Done /\ Close(s).closed_
<1>1. Done \in Marks /\ Done \in Timestamp
  BY Arithmetic DEF Marks
<1> QED
  BY <1>1 DEF Close, Streams

\* The head of a queue in order is the only packet that is popped with its timestamp.
LEMMA PopFields ==
  ASSUME NEW s \in Streams, s.queue # <<>>,
         \A a, b \in DOMAIN s.queue : a < b => s.queue[a] < s.queue[b],
         \A a \in DOMAIN s.queue : s.queue[a] < s.next_timestamp_bound_
  PROVE  LET t == Head(s.queue)
             pop == PopPacketAtTimestamp(s, t)
         IN /\ pop \in Streams /\ pop.queue = Tail(s.queue) /\ pop.closed_ = s.closed_
            /\ pop.next_timestamp_bound_ = s.next_timestamp_bound_
            /\ ~DropsPackets(s, t)
<1> DEFINE q == s.queue
           t == Head(q)
           Before(n) == /\ \A j \in 1 .. n : q[j] < t + 1
                        /\ n < Len(q) => q[n + 1] >= t + 1
<1>1. q \in Seq(Time) /\ Len(q) \in Nat /\ Len(q) >= 1 /\ t = q[1] /\ t \in Time /\ DOMAIN q = 1 .. Len(q)
  BY DEF Streams
<1>2. \A a \in 1 .. Len(q) : q[a] \in Int /\ (a > 1 => q[a] > t)
  BY <1>1, Arithmetic
<1>3. t \in Int
  BY <1>1, Arithmetic
<1>4. Before(1)
  BY <1>1, <1>2, <1>3
<1>5. ASSUME NEW n \in 0 .. Len(q), Before(n)
      PROVE  n = 1
  <2>1. CASE n = 0
    BY <2>1, <1>1, <1>2, <1>3, <1>5
  <2>2. CASE n >= 2
    <3>1. 2 \in 1 .. n /\ 2 \in 1 .. Len(q)
      BY <2>2, <1>1
    <3>2. q[2] < t + 1 /\ q[2] > t /\ q[2] \in Int
      BY <3>1, <1>5, <1>2
    <3> QED
      BY <3>2, <1>3
  <2> QED
    BY <2>1, <2>2
<1>6. CountBefore(q, t + 1) = 1
  <2>1. CountBefore(q, t + 1) = CHOOSE n \in 0 .. Len(q) : Before(n)
    BY DEF CountBefore
  <2>2. 1 \in 0 .. Len(q)
    BY <1>1
  <2> HIDE DEF Before
  <2> QED
    BY <2>1, <2>2, <1>4, <1>5
<1>7. From(q, t + 1) = Tail(q)
  <2>1. From(q, t + 1) = SubSeq(q, 2, Len(q))
    BY SMTT(30), <1>6 DEF From
  <2>2. SubSeq(q, 2, Len(q)) = Tail(q)
    BY <1>1, TailIsSubSeq
  <2> QED
    BY <2>1, <2>2
<1>8. Tail(q) \in Seq(Time) /\ t \in Timestamp
  <2>1. Tail(q) \in Seq(Time)
    BY <1>1
  <2>2. Time \subseteq Timestamp
    BY MaxTimestampAssumption DEF Time, Timestamp, MinTime, MaxTime, Unset, Done
  <2> QED
    BY <1>1, <2>1, <2>2
<1>9. ~(s.next_timestamp_bound_ <= t)
  <2>1. s.next_timestamp_bound_ \in Int
    BY Arithmetic DEF Streams
  <2>2. 1 \in DOMAIN q
    BY <1>1
  <2>3. q[1] < s.next_timestamp_bound_
    BY <2>2
  <2> QED
    BY <1>1, <1>3, <2>1, <2>3
<1>10. ~DropsPackets(s, t)
  BY <1>6 DEF DropsPackets
<1> HIDE DEF q, t
<1> DEFINE b == IF s.next_timestamp_bound_ <= t THEN NextAllowedInStream(t)
                ELSE s.next_timestamp_bound_
           other == [[[s EXCEPT !.last_select_timestamp_ = t] EXCEPT !.queue = From(q, t + 1)]
                      EXCEPT !.next_timestamp_bound_ = b]
<1>11. b = s.next_timestamp_bound_
  BY <1>9
<1>12. PopPacketAtTimestamp(s, t) = other
  BY DEF PopPacketAtTimestamp, other, q
<1> HIDE DEF b
<1>13. b \in Marks
  BY <1>11 DEF Streams
<1>14. /\ other \in Streams /\ other.queue = Tail(q)
       /\ other.closed_ = s.closed_ /\ other.next_timestamp_bound_ = b
  BY <1>8, <1>7, <1>13 DEF Streams
<1> QED
  BY <1>10, <1>11, <1>12, <1>14 DEF t, q

-----------------------------------------------------------------------------
(* What the steps do to the mirrors. *)

LEMMA MirrorOf ==
  ASSUME Typed, NEW t \in Threads
  PROVE  /\ Mirrors[i[t]] \in {Observer, Poller} /\ i[t] = Number(Mirrors[i[t]])
         /\ Mirrors[i[t]] = Observer <=> i[t] = 1
         /\ Mirrors[i[t]] = Poller <=> i[t] = 2
         /\ Len(Mirrors) = 2
<1>1. i[t] \in {1, 2}
  BY DEF Typed
<1>2. Len(Mirrors) = 2 /\ Mirrors[1] = Observer /\ Mirrors[2] = Poller
  BY DEF Mirrors
<1>3. Observer # Poller
  BY DEF Observer, Poller
<1> QED
  BY <1>1, <1>2, <1>3 DEF Number

LEMMA MirrorFields ==
  ASSUME Typed, NEW m \in {Observer, Poller}
  PROVE  /\ stream[m] \in Streams /\ stream[m].queue \in Seq(Time)
         /\ stream[m].next_timestamp_bound_ \in Marks /\ stream[m].closed_ \in BOOLEAN
         /\ stream[m].enable_timestamps_
         /\ MinTimestampOrBound(stream[m]) \in Marks /\ Look(m) \in Looks
         /\ IsEmpty(stream[m]) => MinTimestampOrBound(stream[m]) = stream[m].next_timestamp_bound_
         /\ ~IsEmpty(stream[m]) => /\ MinTimestampOrBound(stream[m]) = Head(stream[m].queue)
                                   /\ Head(stream[m].queue) = stream[m].queue[1]
                                   /\ stream[m].queue[1] \in Time
                                   /\ Len(stream[m].queue) \in Nat \ {0}
<1>1. stream[m] \in Streams
  BY DEF Typed
<1>2. /\ stream[m].queue \in Seq(Time) /\ stream[m].next_timestamp_bound_ \in Marks
      /\ stream[m].closed_ \in BOOLEAN /\ stream[m].enable_timestamps_
  BY <1>1 DEF Streams
<1>3. ~IsEmpty(stream[m]) =>
        /\ Head(stream[m].queue) = stream[m].queue[1] /\ stream[m].queue[1] \in Time
        /\ Len(stream[m].queue) \in Nat \ {0}
  BY <1>2 DEF IsEmpty
<1>4. MinTimestampOrBound(stream[m]) \in Marks
  BY <1>2, <1>3 DEF MinTimestampOrBound, Marks
<1>5. Look(m) \in Looks
  <2>1. MinTimestampOrBound(stream[m]) \in Timestamp
    BY <1>4, Arithmetic
  <2>2. IsEmpty(stream[m]) \in BOOLEAN
    BY DEF IsEmpty
  <2> QED
    BY <2>1, <2>2 DEF Look, Looks
<1> QED
  BY <1>1, <1>2, <1>3, <1>4, <1>5 DEF MinTimestampOrBound

\* The packet of a thread.
LEMMA PacketOf ==
  ASSUME Typed, NEW t \in Threads
  PROVE  /\ packets[t] \in Seq(Time)
         /\ packets[t] # <<>> => /\ packets[t][1] \in Time /\ packets[t] = <<packets[t][1]>>
                                 /\ Len(packets[t]) = 1 /\ Last(packets[t]) = packets[t][1]
         /\ packets[t] = <<>> => Len(packets[t]) = 0
<1>1. packets[t] \in Writes
  BY DEF Typed
<1>2. CASE packets[t] = <<>>
  BY <1>2
<1>3. CASE packets[t] # <<>>
  <2>1. PICK p \in Time : packets[t] = <<p>>
    BY <1>1, <1>3 DEF Writes
  <2>2. packets[t][1] = p /\ Len(packets[t]) = 1 /\ packets[t] \in Seq(Time)
    BY <2>1
  <2> QED
    BY <2>1, <2>2, <1>3 DEF Last
<1> QED
  BY <1>2, <1>3

\* A packet is added where the thread is, and never refused.
LEMMA AddEffect ==
  ASSUME Typed, Writers, InOrder(Observer), InOrder(Poller), NEW t \in Threads, Add(t)
  PROVE  LET m == Mirrors[i[t]] IN
         /\ pc[t] = "add" /\ NoError
         /\ packets[t] = <<>> => stream' = stream
         /\ packets[t] # <<>> =>
              /\ stream[m].next_timestamp_bound_ <= packets[t][1]
              /\ ~stream[m].closed_
              /\ stream' = [stream EXCEPT ![m] = Accept(stream[m], packets[t][1])]
         /\ NotifyIf(t, packets[t] # <<>> /\ IsEmpty(stream[m]), "bound")
<1> DEFINE m == Mirrors[i[t]]
           s == stream[m]
           result == AddPackets(s, packets[t])
<1>1. m \in {Observer, Poller} /\ i[t] = Number(m)
  BY MirrorOf
<1>2. s \in Streams /\ s.closed_ \in BOOLEAN /\ s.next_timestamp_bound_ \in Marks
  BY <1>1, MirrorFields
<1>3. pc[t] = "add" /\ pc[t] # "idle"
  BY DEF Add
<1>4. ~s.closed_
  BY <1>1, <1>3 DEF InOrder, Writers, Threads, Worker, Closer, App, Observer, Poller
<1>5. PendingOf(t, Number(m)) = packets[t]
  BY <1>1, <1>3 DEF PendingOf, Unsent
<1>6. packets[t] # <<>> => s.next_timestamp_bound_ <= packets[t][1]
  BY <1>1, <1>5 DEF InOrder
<1>7. CASE packets[t] = <<>>
  <2>1. result = [stream |-> s, ok |-> TRUE]
    BY <1>7, PacketOf, AddAtMostOne
  <2>2. stream' = [stream EXCEPT ![m] = s]
    BY <2>1 DEF Add
  <2>3. stream' = stream
    BY <2>2, <1>1 DEF Typed
  <2>4. NoError /\ NotifyIf(t, packets[t] # <<>> /\ IsEmpty(s), "bound")
    BY <2>1, <1>7 DEF Add, NotifyIf
  <2> QED
    BY <2>3, <2>4, <1>7, <1>3
<1>8. CASE packets[t] # <<>>
  <2>1. ~RefusesPacket(s, packets[t][1])
    BY <1>2, <1>6, <1>8, PacketOf, AcceptFields
  <2>2. result = [stream |-> Accept(s, packets[t][1]), ok |-> TRUE]
    <3>1. Len(packets[t]) = 1
      BY <1>8, PacketOf
    <3>2. result = IF s.closed_ \/ 1 = 0 THEN [stream |-> s, ok |-> TRUE]
                   ELSE IF RefusesPacket(s, packets[t][1]) THEN [stream |-> s, ok |-> FALSE]
                   ELSE [stream |-> Accept(s, packets[t][1]), ok |-> TRUE]
      BY <3>1, AddAtMostOne
    <3> QED
      BY <3>2, <1>4, <2>1
  <2>3. result.ok = TRUE /\ result.stream = Accept(s, packets[t][1])
    BY <2>2
  <2>4. stream' = [stream EXCEPT ![m] = Accept(s, packets[t][1])]
    BY <2>3 DEF Add
  <2>5. NoError /\ NotifyIf(t, packets[t] # <<>> /\ IsEmpty(s), "bound")
    BY <2>3, <1>8, <1>4 DEF Add, NotifyIf
  <2> QED
    BY <2>4, <2>5, <1>8, <1>3, <1>6, <1>4
<1> QED
  BY <1>7, <1>8

LEMMA SetBoundEffect ==
  ASSUME Typed, Writers, NEW t \in Threads, SetBound(t)
  PROVE  LET m == Mirrors[i[t]]
             s == stream[m]
         IN \E set \in Streams :
              /\ pc[t] = "bound"
              /\ stream' = [stream EXCEPT ![m] = set]
              /\ set.queue = s.queue /\ set.closed_ = s.closed_
              /\ \/ set = s
                 \/ /\ SetsBound(t) /\ ~s.closed_
                    /\ s.next_timestamp_bound_ < bound[t]
                    /\ set.next_timestamp_bound_ = bound[t]
              /\ RecordError \/ NoError
              /\ \/ has_error_' \/ ~SetsBound(t) \/ s.closed_
                 \/ bound[t] <= set.next_timestamp_bound_
              /\ NotifyIf(t, set # s /\ IsEmpty(s), "next")
<1> DEFINE m == Mirrors[i[t]]
           s == stream[m]
           refused == SetsBound(t) /\ ~s.closed_ /\ RefusesBound(s, bound[t])
           set == IF SetsBound(t) /\ ~refused THEN SetNextTimestampBound(s, bound[t]) ELSE s
<1>1. m \in {Observer, Poller} /\ s \in Streams /\ s.next_timestamp_bound_ \in Int
  BY MirrorOf, MirrorFields, Arithmetic
<1>2. pc[t] = "bound" /\ bound[t] \in Marks /\ bound[t] \in Int
  BY Arithmetic DEF SetBound, Writers
<1>3. /\ set \in Streams /\ set.queue = s.queue /\ set.closed_ = s.closed_
      /\ \/ set = s
         \/ /\ SetsBound(t) /\ ~s.closed_ /\ s.next_timestamp_bound_ < bound[t]
            /\ set.next_timestamp_bound_ = bound[t]
  BY <1>1, <1>2, SetFields
<1>4. SetsBound(t) /\ ~refused /\ ~s.closed_ => bound[t] <= set.next_timestamp_bound_
  BY <1>1, <1>2, SetFields
<1>5. stream' = [stream EXCEPT ![m] = set] /\ NotifyIf(t, set # s /\ IsEmpty(set), "next")
  BY DEF SetBound
<1>6. IsEmpty(set) <=> IsEmpty(s)
  BY <1>3 DEF IsEmpty
<1>7. IF refused THEN RecordError ELSE NoError
  BY DEF SetBound
<1>8. NotifyIf(t, set # s /\ IsEmpty(s), "next")
  BY <1>5, <1>6 DEF NotifyIf
<1>9. CASE ~refused
  BY <1>2, <1>3, <1>4, <1>5, <1>7, <1>8, <1>9
<1>10. CASE refused
  <2>1. RecordError /\ has_error_'
    BY <1>7, <1>10 DEF RecordError
  <2> QED
    BY <1>2, <1>3, <1>4, <1>5, <1>8, <1>10, <2>1
<1> QED
  BY <1>9, <1>10

-----------------------------------------------------------------------------
(* The types. *)

\* Who begins to write, and what.
BeginsWith(t, ps, b) ==
  /\ Begin(t, ps, b)
  /\ next_timestamp_bound_ # Done /\ next_timestamp_bound_ <= b
  /\ ps # <<>> => next_timestamp_bound_ <= ps[1] /\ ps[1] < b
  /\ \/ /\ t = Worker /\ state_ = "RUNNING" /\ b # Done
        /\ ps # <<>> => pc[Closer] = "idle" /\ b = NextAllowedInStream(ps[1])
     \/ /\ t = Closer /\ state_ = "RUNNING" /\ b = Done
        /\ pc[Worker] # "idle" => packets[Worker] = <<>>
        /\ ps # <<>> => ps[1] \in ClosingPackets
     \/ /\ t = App /\ state_ = "TERMINATED" /\ b = Done /\ ps = <<>>
        /\ wait \in {"out", "ok", "done"}
  /\ t = Worker /\ ps = <<>> => b \in Bounds

LEMMA Begins ==
  ASSUME Typed, WorkerWrites \/ CloserWrites \/ CleanUpNode
  PROVE  \E t \in Threads, ps \in Writes, b \in Marks : BeginsWith(t, ps, b)
<1>1. next_timestamp_bound_ \in Marks /\ next_timestamp_bound_ \in Int
  BY Arithmetic DEF Typed
<1>2. Done \in Marks /\ Done \in Int /\ (\A b \in Marks : b <= Done) /\ (\A p \in Time : p \in Int)
  BY Arithmetic DEF Marks, Done
<1>3. /\ <<>> \in Writes
      /\ \A p \in Time : <<p>> \in Writes /\ <<p>> # <<>> /\ <<p>>[1] = p
  BY DEF Writes
<1>4. Worker # Closer /\ Worker # App /\ Closer # App /\ Threads = {Worker, Closer, App}
  BY DEF Threads, Worker, Closer, App
<1>5. CASE WorkerWrites
  <2>1. CASE \E p \in Packets : /\ pc[Closer] = "idle" /\ p >= next_timestamp_bound_
                                /\ Begin(Worker, <<p>>, NextAllowedInStream(p))
    <3>1. PICK p \in Packets : /\ pc[Closer] = "idle" /\ p >= next_timestamp_bound_
                               /\ Begin(Worker, <<p>>, NextAllowedInStream(p))
      BY <2>1
    <3>2. p \in Time
      BY GraphOutputsAssumption DEF Time
    <3>3. NextAllowedInStream(p) \in Marks /\ p < NextAllowedInStream(p) /\ NextAllowedInStream(p) # Done
          /\ NextAllowedInStream(p) \in Int
      BY <3>2, Arithmetic
    <3>4. BeginsWith(Worker, <<p>>, NextAllowedInStream(p))
      BY <1>1, <1>2, <1>3, <1>4, <1>5, <3>1, <3>2, <3>3 DEF BeginsWith, WorkerWrites
    <3> QED
      BY <1>3, <1>4, <3>2, <3>3, <3>4
  <2>2. CASE \E b \in Bounds : b > next_timestamp_bound_ /\ Begin(Worker, <<>>, b)
    <3>1. PICK b \in Bounds : b > next_timestamp_bound_ /\ Begin(Worker, <<>>, b)
      BY <2>2
    <3>2. b \in Time /\ b \in Marks /\ b # Done /\ b \in Int
      <4>1. b \in Time
        BY GraphOutputsAssumption DEF Time
      <4> QED
        BY <4>1, Arithmetic DEF Marks
    <3>3. BeginsWith(Worker, <<>>, b)
      BY <1>1, <1>2, <1>3, <1>4, <1>5, <3>1, <3>2 DEF BeginsWith, WorkerWrites
    <3> QED
      BY <1>3, <1>4, <3>2, <3>3
  <2> QED
    BY <1>5, <2>1, <2>2 DEF WorkerWrites
<1>6. CASE CloserWrites
  <2>1. PICK ps \in {<<>>} \cup {<<t>> : t \in {u \in ClosingPackets : u >= next_timestamp_bound_}} :
          Begin(Closer, ps, Done)
    BY <1>6 DEF CloserWrites
  <2>2. ps \in Writes /\ (ps # <<>> => ps[1] \in ClosingPackets /\ ps[1] \in Time /\ ps[1] >= next_timestamp_bound_)
    <3>1. CASE ps = <<>>
      BY <3>1, <1>3
    <3>2. CASE ps # <<>>
      <4>1. PICK p \in ClosingPackets : p >= next_timestamp_bound_ /\ ps = <<p>>
        BY <3>2
      <4>2. p \in Time
        BY GraphOutputsAssumption DEF Time
      <4> QED
        BY <4>1, <4>2, <1>3
    <3> QED
      BY <3>1, <3>2
  <2>3. ps # <<>> => ps[1] < Done
    BY <2>2, Arithmetic
  <2>4. BeginsWith(Closer, ps, Done)
    BY <1>1, <1>2, <1>4, <1>6, <2>1, <2>2, <2>3 DEF BeginsWith, CloserWrites
  <2> QED
    BY <1>2, <1>4, <2>2, <2>4
<1>7. CASE CleanUpNode
  <2>1. BeginsWith(App, <<>>, Done)
    BY <1>1, <1>2, <1>4, <1>7 DEF BeginsWith, CleanUpNode
  <2> QED
    BY <1>2, <1>3, <1>4, <2>1
<1> QED
  BY <1>5, <1>6, <1>7

LEMMA InitTyped == Init => Typed
<1> SUFFICES ASSUME Init PROVE Typed
  OBVIOUS
<1>1. PreStream \in Marks /\ MinTime \in Timestamp /\ Unset \in Timestamp /\ Unstarted \in Timestamp
  BY MaxTimestampAssumption DEF Marks, PreStream, MinTime, Timestamp, Unset, Done, Unstarted
<1>2. NothingSeen \in Looks
  BY <1>1 DEF NothingSeen, Looks
<1>3. NewStream(TRUE) \in Streams
  BY NewStreamFields
<1>4. stream \in [{Observer, Poller} -> Streams]
  BY <1>3 DEF Init
<1>5. pc \in [Threads -> Labels] /\ after \in [Threads -> {"bound", "next"}]
  BY DEF Init, Labels
<1>6. packets \in [Threads -> Writes] /\ bound \in [Threads -> Marks \cup {Unset}]
  BY DEF Init, Writes
<1>7. i \in [Threads -> {1, 2}] /\ seen \in [Threads -> Looks]
  BY <1>2 DEF Init
<1>8. /\ observe_timestamp_bounds \in BOOLEAN /\ notifying_ \in BOOLEAN /\ has_error_ \in BOOLEAN
      /\ graph_has_error_ \in BOOLEAN /\ observed_output_signal_ \in BOOLEAN
      /\ waiting_for_observed_output_ \in BOOLEAN
  BY Zenon DEF Init
<1>9. emitted \in Seq(Time) /\ observed \in Seq(Time) /\ polled \in Seq(Time) /\ runs \in Nat \ {0}
  BY DEF Init
<1>10. /\ next_timestamp_bound_ \in Marks /\ last_processed_ts_ \in Timestamp
       /\ output_timestamp_ \in Timestamp /\ reported \in Timestamp /\ wanted \in Looks
  BY <1>1, <1>2 DEF Init
<1>11. /\ poll \in {"out", "test", "asleep", "pop", "ended"}
       /\ state_ \in {"RUNNING", "TERMINATED", "FINISHED"}
       /\ wait \in {"out", "test", "asleep", "ok", "done"}
  BY DEF Init
<1> QED
  BY <1>4, <1>5, <1>6, <1>7, <1>8, <1>9, <1>10, <1>11 DEF Typed

LEMMA BeginTyped ==
  ASSUME Typed, NEW t \in Threads, NEW ps \in Writes, NEW b \in Marks, Begin(t, ps, b)
  PROVE  Typed'
<1>1. ps \in Seq(Time) /\ "add" \in Labels
  <2>1. <<>> \in Seq(Time) /\ \A p \in Time : <<p>> \in Seq(Time)
    OBVIOUS
  <2> QED
    BY <2>1 DEF Writes, Labels
<1>2. emitted' \in Seq(Time)
  BY <1>1 DEF Typed, Begin
<1> QED
  BY <1>1, <1>2 DEF Typed, Begin, GoTo, observerVars, pollerVars, schedulerVars, runVars

LEMMA AddTyped ==
  ASSUME Typed, Writers, InOrder(Observer), InOrder(Poller), NEW t \in Threads, Add(t)
  PROVE  Typed'
<1> DEFINE m == Mirrors[i[t]]
<1>1. stream' \in [{Observer, Poller} -> Streams]
  <2>1. CASE packets[t] = <<>>
    BY <2>1, AddEffect DEF Typed
  <2>2. CASE packets[t] # <<>>
    <3>1. /\ packets[t][1] \in Time /\ m \in {Observer, Poller} /\ stream[m] \in Streams
          /\ stream[m].next_timestamp_bound_ <= packets[t][1]
          /\ stream' = [stream EXCEPT ![m] = Accept(stream[m], packets[t][1])]
      BY <2>2, AddEffect, PacketOf, MirrorOf, MirrorFields
    <3>2. Accept(stream[m], packets[t][1]) \in Streams
      BY <3>1, AcceptFields
    <3> QED
      BY <3>1, <3>2 DEF Typed
  <2> QED
    BY <2>1, <2>2
<1>2. NoError
  BY AddEffect
<1>3. pc' \in [Threads -> Labels] /\ after' \in [Threads -> {"bound", "next"}]
  BY DEF Typed, Add, NotifyIf, GoTo, Labels
<1> QED
  BY <1>1, <1>2, <1>3 DEF Typed, Add, NoError, observerVars, pollerVars, schedulerVars, runVars

LEMMA SetBoundTyped ==
  ASSUME Typed, Writers, NEW t \in Threads, SetBound(t)
  PROVE  Typed'
<1> DEFINE m == Mirrors[i[t]]
<1>1. stream' \in [{Observer, Poller} -> Streams]
  <2>1. PICK set \in Streams : stream' = [stream EXCEPT ![m] = set]
    BY SetBoundEffect
  <2> QED
    BY <2>1, MirrorOf DEF Typed
<1>2. RecordError \/ NoError
  BY SetBoundEffect
<1>3. pc' \in [Threads -> Labels] /\ after' \in [Threads -> {"bound", "next"}]
  BY DEF Typed, SetBound, NotifyIf, GoTo, Labels
<1>4. has_error_' \in BOOLEAN /\ graph_has_error_' \in BOOLEAN
  BY <1>2 DEF Typed, RecordError, NoError
<1>5. poll' \in {"out", "test", "asleep", "pop", "ended"}
  BY <1>2 DEF Typed, RecordError, NoError, Woken
<1> QED
  BY <1>1, <1>3, <1>4, <1>5 DEF Typed, SetBound, observerVars, pollerVars, schedulerVars, runVars

LEMMA ReportTyped ==
  ASSUME Typed, ObservedSoFar, NEW t \in Threads, Report(t)
  PROVE  Typed'
<1>1. pc[t] = "report" /\ seen[t].timestamp \in Marks
  BY DEF Report, ObservedSoFar
<1>2. Settled(seen[t].timestamp) \in Timestamp
  BY <1>1, Arithmetic DEF Settled
<1>3. last_processed_ts_' \in Timestamp /\ reported' \in Timestamp
  BY <1>2 DEF Report, Typed
<1>4. pc' \in [Threads -> Labels]
  BY DEF Report, GoTo, Typed, Labels
<1> QED
  BY <1>3, <1>4 DEF Report, Typed, outputVars, pollerVars, schedulerVars, runVars

LEMMA PopObservedTyped ==
  ASSUME Typed, InOrder(Observer), ObservedSoFar, NEW t \in Threads, PopObserved(t)
  PROVE  /\ Typed'
         /\ pc[t] = "pop" /\ pc' = [pc EXCEPT ![t] = "callback"]
         /\ ~IsEmpty(stream[Observer]) /\ seen[t].timestamp = Head(stream[Observer].queue)
         /\ stream' = [stream EXCEPT ![Observer] = stream'[Observer]]
         /\ stream'[Observer].queue = Tail(stream[Observer].queue)
         /\ stream'[Observer].closed_ = stream[Observer].closed_
         /\ stream'[Observer].next_timestamp_bound_ = stream[Observer].next_timestamp_bound_
<1> DEFINE s == stream[Observer]
           pop == PopPacketAtTimestamp(s, Head(s.queue))
<1>1. pc[t] = "pop" /\ s.queue # <<>> /\ ~IsEmpty(s) /\ seen[t].timestamp = Head(s.queue)
  BY DEF PopObserved, ObservedSoFar, IsEmpty
<1>2. s \in Streams
  BY MirrorFields
<1>3. /\ pop \in Streams /\ pop.queue = Tail(s.queue) /\ pop.closed_ = s.closed_
      /\ pop.next_timestamp_bound_ = s.next_timestamp_bound_
      /\ ~DropsPackets(s, Head(s.queue))
  BY <1>1, <1>2, PopFields DEF InOrder
<1> HIDE DEF pop
<1>4. stream' = [stream EXCEPT ![Observer] = pop] /\ pc' = [pc EXCEPT ![t] = "callback"]
  BY <1>1, <1>3 DEF PopObserved, GoTo, pop
<1>5. stream'[Observer] = pop
  BY <1>4 DEF Typed
<1>6. stream' \in [{Observer, Poller} -> Streams] /\ pc' \in [Threads -> Labels]
  BY <1>3, <1>4 DEF Typed, Labels
<1>7. Typed'
  BY <1>6 DEF Typed, PopObserved, observerVars, pollerVars, schedulerVars, runVars
<1> QED
  BY <1>1, <1>3, <1>4, <1>5, <1>7

LEMMA CallbackTyped ==
  ASSUME Typed, ObservedSoFar, NEW t \in Threads, Callback(t)
  PROVE  /\ Typed'
         /\ seen[t].timestamp \in Time
<1>1. pc[t] = "callback"
  BY DEF Callback
<1>2. PICK gap \in Seq(Time) : InHand(gap)
  BY DEF ObservedSoFar
<1>3. gap = <<seen[t].timestamp>>
  BY <1>1, <1>2 DEF InHand
<1>4. seen[t].timestamp \in Time
  BY <1>3
<1>5. seen[t].timestamp \in Timestamp /\ NothingSeen \in Looks
  BY <1>4, MaxTimestampAssumption DEF Time, Timestamp, MinTime, MaxTime, Unset, Done, NothingSeen, Looks
<1>6. observed' \in Seq(Time)
  <2>1. observed \in Seq(Time) /\ Append(observed, seen[t].timestamp) \in Seq(Time)
    BY <1>4 DEF Typed
  <2> QED
    BY <2>1 DEF Callback
<1>7. pc' \in [Threads -> Labels] /\ seen' \in [Threads -> Looks]
  BY <1>5 DEF Callback, Typed, GoTo, Forget, Labels
<1> QED
  BY <1>4, <1>5, <1>6, <1>7 DEF Callback, Typed, outputVars, pollerVars, schedulerVars, runVars

LEMMA TestForOutputTyped ==
  ASSUME Typed, TestForOutput
  PROVE  Typed'
<1>1. Look(Poller) \in Looks /\ Look(Poller).timestamp \in Marks
  BY MirrorFields DEF Look
<1>2. PreviousAllowedInStream(Look(Poller).timestamp) \in Timestamp /\ Look(Poller).timestamp \in Timestamp
  BY <1>1, Arithmetic
<1>3. NothingSeen \in Looks
  BY MaxTimestampAssumption DEF NothingSeen, Looks, Timestamp, Unset, Done
<1>4. wanted' \in Looks
  BY <1>1, <1>3 DEF TestForOutput
<1>5. output_timestamp_' \in Timestamp
  BY <1>2 DEF TestForOutput, Typed
<1>6. poll' \in {"out", "test", "asleep", "pop", "ended"}
  BY DEF TestForOutput
<1> QED
  BY <1>4, <1>5, <1>6 DEF TestForOutput, Typed, outputVars, threadVars, observerVars, schedulerVars, runVars

LEMMA PopPolledTyped ==
  ASSUME Typed, InOrder(Poller), PolledSoFar, PopPolled
  PROVE  /\ Typed'
         /\ poll = "pop" /\ poll' = "out"
         /\ ~IsEmpty(stream[Poller]) /\ wanted.timestamp = Head(stream[Poller].queue)
         /\ ~DropsPackets(stream[Poller], wanted.timestamp)
         /\ stream' = [stream EXCEPT ![Poller] = stream'[Poller]]
         /\ stream'[Poller].queue = Tail(stream[Poller].queue)
         /\ stream'[Poller].closed_ = stream[Poller].closed_
         /\ stream'[Poller].next_timestamp_bound_ = stream[Poller].next_timestamp_bound_
<1> DEFINE s == stream[Poller]
           pop == PopPacketAtTimestamp(s, Head(s.queue))
<1>1. /\ poll = "pop" /\ poll' = "out" /\ s.queue # <<>> /\ ~IsEmpty(s)
      /\ wanted.timestamp = Head(s.queue)
  BY DEF PopPolled, PolledSoFar, IsEmpty
<1>2. s \in Streams /\ Head(s.queue) \in Time
  BY <1>1, MirrorFields
<1>3. /\ pop \in Streams /\ pop.queue = Tail(s.queue) /\ pop.closed_ = s.closed_
      /\ pop.next_timestamp_bound_ = s.next_timestamp_bound_
      /\ ~DropsPackets(s, Head(s.queue))
  BY <1>1, <1>2, PopFields DEF InOrder
<1> HIDE DEF pop
<1>4. stream' = [stream EXCEPT ![Poller] = pop]
  BY <1>1 DEF PopPolled, pop
<1>5. stream'[Poller] = pop
  BY <1>4 DEF Typed
<1>6. stream' \in [{Observer, Poller} -> Streams]
  BY <1>3, <1>4 DEF Typed
<1>7. polled' \in Seq(Time)
  <2>1. polled \in Seq(Time) /\ Append(polled, Head(s.queue)) \in Seq(Time)
    BY <1>2 DEF Typed
  <2> QED
    BY <2>1, <1>1 DEF PopPolled
<1>8. NothingSeen \in Looks
  BY MaxTimestampAssumption DEF NothingSeen, Looks, Timestamp, Unset, Done
<1>9. Typed'
  BY <1>1, <1>6, <1>7, <1>8 DEF Typed, PopPolled, threadVars, observerVars, schedulerVars, runVars
<1> QED
  BY <1>1, <1>3, <1>4, <1>5, <1>9

LEMMA WriterTyped ==
  ASSUME Typed, NEW t \in Threads,
         \/ NextMirror(t) \/ NotifyPoller(t) \/ EnterNotify(t) \/ LookAtStream(t)
         \/ Recheck(t) \/ NotifyFails(t) \/ EmittedObservedOutput(t)
  PROVE  Typed'
<1>1. NothingSeen \in Looks
  BY MaxTimestampAssumption DEF NothingSeen, Looks, Timestamp, Unset, Done
<1>2. CASE NextMirror(t)
  <2>1. <<>> \in Writes /\ Unset \in Marks \cup {Unset}
    BY DEF Writes
  <2>2. i' \in [Threads -> {1, 2}] /\ pc' \in [Threads -> Labels]
    <3>1. i \in [Threads -> {1, 2}] /\ i[t] \in {1, 2} /\ pc \in [Threads -> Labels]
          /\ Len(Mirrors) = 2
      BY MirrorOf DEF Typed
    <3>2. i[t] < 2 => i[t] + 1 \in {1, 2}
      BY <3>1
    <3>3. i' \in [Threads -> {1, 2}]
      BY <1>2, <3>1, <3>2 DEF NextMirror
    <3> QED
      BY <1>2, <3>1, <3>3 DEF NextMirror, GoTo, Labels
  <2>3. packets' \in [Threads -> Writes] /\ bound' \in [Threads -> Marks \cup {Unset}]
    BY <1>2, <2>1 DEF NextMirror, Typed
  <2> QED
    BY <1>2, <2>2, <2>3
       DEF NextMirror, Typed, outputVars, observerVars, pollerVars, schedulerVars, runVars
<1>3. CASE NotifyPoller(t)
  <2>1. poll' \in {"out", "test", "asleep", "pop", "ended"} /\ pc' \in [Threads -> Labels]
    BY <1>3 DEF NotifyPoller, Typed, Woken, GoTo, Labels
  <2> QED
    BY <1>3, <2>1 DEF NotifyPoller, Typed, outputVars, observerVars, schedulerVars, runVars
<1>4. CASE EnterNotify(t)
  <2>1. notifying_' \in BOOLEAN /\ pc' \in [Threads -> Labels]
    BY <1>4 DEF EnterNotify, Typed, GoTo, Labels
  <2> QED
    BY <1>4, <2>1 DEF EnterNotify, Typed, outputVars, pollerVars, schedulerVars, runVars
<1>5. CASE LookAtStream(t)
  <2>1. Look(Observer) \in Looks
    BY MirrorFields
  <2>2. seen' \in [Threads -> Looks] /\ pc' \in [Threads -> Labels]
    BY <1>5, <2>1 DEF LookAtStream, Typed, GoTo, Labels
  <2> QED
    BY <1>5, <2>2 DEF LookAtStream, Typed, outputVars, observerVars, pollerVars, schedulerVars, runVars
<1>6. CASE Recheck(t)
  <2>1. /\ notifying_' \in BOOLEAN /\ pc' \in [Threads -> Labels]
        /\ seen' \in [Threads -> Looks]
    BY <1>6, <1>1 DEF Recheck, Typed, GoTo, Labels, Forget
  <2> QED
    BY <1>6, <2>1 DEF Recheck, Typed, outputVars, pollerVars, schedulerVars, runVars
<1>7. CASE NotifyFails(t)
  <2>1. /\ poll' \in {"out", "test", "asleep", "pop", "ended"} /\ pc' \in [Threads -> Labels]
        /\ seen' \in [Threads -> Looks]
    BY <1>7, <1>1 DEF NotifyFails, RecordError, Typed, GoTo, Labels, Forget, Woken
  <2>2. has_error_' \in BOOLEAN /\ graph_has_error_' \in BOOLEAN
    BY <1>7, Zenon DEF NotifyFails, RecordError
  <2> QED
    BY <1>7, <2>1, <2>2 DEF NotifyFails, Typed, outputVars, observerVars, schedulerVars, runVars
<1>8. CASE EmittedObservedOutput(t)
  <2>1. wait' \in {"out", "test", "asleep", "ok", "done"}
    BY <1>8 DEF EmittedObservedOutput, Typed, Woken
  <2>2. pc' \in [Threads -> Labels] /\ after' \in [Threads -> {"bound", "next"}]
    BY <1>8 DEF EmittedObservedOutput, Typed, GoTo, Labels
  <2>3. observed_output_signal_' \in BOOLEAN
    BY <1>8, Zenon DEF EmittedObservedOutput
  <2> QED
    BY <1>8, <2>1, <2>2, <2>3
       DEF EmittedObservedOutput, Typed, outputVars, observerVars, pollerVars, runVars
<1> QED
  BY <1>2, <1>3, <1>4, <1>5, <1>6, <1>7, <1>8

LEMMA ApplicationTyped ==
  ASSUME Typed,
         CallNext \/ Terminate \/ CallWait \/ TestForSignal \/ CleanUpMirrors \/ StartRun
  PROVE  Typed'
<1>1. CASE CallNext
  BY <1>1 DEF CallNext, Typed, outputVars, threadVars, observerVars, schedulerVars, runVars
<1>2. CASE Terminate
  BY <1>2 DEF Terminate, Typed, Woken, outputVars, threadVars, observerVars, pollerVars, runVars
<1>3. CASE CallWait
  BY <1>3 DEF CallWait, Typed, outputVars, threadVars, observerVars, pollerVars, runVars
<1>4. CASE TestForSignal
  <2>1. observed_output_signal_' \in BOOLEAN /\ waiting_for_observed_output_' \in BOOLEAN
    BY <1>4, Zenon DEF TestForSignal
  <2>2. wait' \in {"out", "test", "asleep", "ok", "done"}
    BY <1>4 DEF TestForSignal
  <2> QED
    BY <1>4, <2>1, <2>2 DEF TestForSignal, Typed, outputVars, threadVars, observerVars, pollerVars, runVars
<1>5. CASE CleanUpMirrors
  <2>1. \A m \in {Observer, Poller} : Close(stream[m]) \in Streams
    BY MirrorFields, CloseFields
  <2>2. stream' \in [{Observer, Poller} -> Streams]
    BY <1>5, <2>1 DEF CleanUpMirrors, Typed
  <2>3. has_error_' \in BOOLEAN
    BY <1>5, Zenon DEF CleanUpMirrors
  <2> QED
    BY <1>5, <2>2, <2>3 DEF CleanUpMirrors, Typed, threadVars, observerVars, pollerVars
<1>6. CASE StartRun
  <2>1. stream' \in [{Observer, Poller} -> Streams]
    BY <1>6, NewStreamFields DEF StartRun, Typed
  <2>2. PreStream \in Marks /\ Unstarted \in Timestamp
    BY MaxTimestampAssumption DEF Marks, Timestamp, Unset, Unstarted, Done
  <2>3. graph_has_error_' \in BOOLEAN /\ observed_output_signal_' \in BOOLEAN
    BY <1>6, Zenon DEF StartRun
  <2>4. emitted' \in Seq(Time) /\ observed' \in Seq(Time) /\ polled' \in Seq(Time)
    BY <1>6 DEF StartRun
  <2>5. /\ runs' \in Nat \ {0} /\ next_timestamp_bound_' \in Marks /\ reported' \in Timestamp
        /\ poll' \in {"out", "test", "asleep", "pop", "ended"}
        /\ state_' \in {"RUNNING", "TERMINATED", "FINISHED"}
    BY <1>6, <2>2 DEF StartRun, Typed
  <2>6. UNCHANGED <<threadVars, notifying_, last_processed_ts_, output_timestamp_, wanted,
                    waiting_for_observed_output_, wait, observe_timestamp_bounds, has_error_>>
    BY <1>6 DEF StartRun
  <2> QED
    BY <2>1, <2>3, <2>4, <2>5, <2>6 DEF Typed, threadVars
<1> QED
  BY <1>1, <1>2, <1>3, <1>4, <1>5, <1>6

LEMMA TypedKept ==
  ASSUME IInv, [Next]_vars
  PROVE  Typed'
<1>1. /\ Typed /\ Writers /\ InOrder(Observer) /\ InOrder(Poller) /\ PolledSoFar /\ ObservedSoFar
  BY DEF IInv
<1>2. CASE WorkerWrites \/ CloserWrites \/ CleanUpNode
  BY <1>1, <1>2, Begins, BeginTyped DEF BeginsWith
<1>3. ASSUME NEW t \in Threads, WriterStep(t)
      PROVE  Typed'
  BY <1>1, <1>3, AddTyped, SetBoundTyped, ReportTyped, PopObservedTyped, CallbackTyped, WriterTyped
     DEF WriterStep
<1>4. CASE Poll
  BY <1>1, <1>4, ApplicationTyped, TestForOutputTyped, PopPolledTyped DEF Poll
<1>5. CASE Terminate \/ CallWait \/ TestForSignal \/ CleanUpMirrors \/ StartRun
  BY <1>1, <1>5, ApplicationTyped
<1>6. CASE UNCHANGED vars
  BY <1>1, <1>6 DEF Typed, vars, outputVars, threadVars, observerVars, pollerVars, schedulerVars, runVars
<1> QED
  BY <1>2, <1>3, <1>4, <1>5, <1>6 DEF Next, CleanUp

-----------------------------------------------------------------------------
(* Who writes, when and what. *)

LEMMA ThreadNames ==
  /\ Threads = {Worker, Closer, App} /\ Worker # Closer /\ Worker # App /\ Closer # App
  /\ Observer # Poller
  BY DEF Threads, Worker, Closer, App, Observer, Poller

\* What a thread does between the writes leaves the writers as they are.
Quiet(t) ==
  /\ UNCHANGED <<i, packets, bound, next_timestamp_bound_, state_, emitted>>
  /\ pc[t] \notin {"idle", "add"} /\ pc'[t] \notin {"idle", "add"}
  /\ pc' = [pc EXCEPT ![t] = pc'[t]]

LEMMA QuietSteps ==
  ASSUME Typed, InOrder(Observer), ObservedSoFar, NEW t \in Threads,
         \/ NotifyPoller(t) \/ EnterNotify(t) \/ LookAtStream(t) \/ Report(t) \/ Recheck(t)
         \/ PopObserved(t) \/ Callback(t) \/ NotifyFails(t)
  PROVE  Quiet(t) /\ UNCHANGED <<after, wait>>
<1>1. pc \in [Threads -> Labels]
  BY DEF Typed
<1>2. CASE PopObserved(t)
  BY <1>1, <1>2, PopObservedTyped
     DEF PopObserved, Quiet, observerVars, pollerVars, schedulerVars, runVars
<1>3. CASE NotifyPoller(t) \/ EnterNotify(t) \/ LookAtStream(t)
  BY <1>1, <1>3 DEF NotifyPoller, EnterNotify, LookAtStream, Quiet, GoTo,
                    outputVars, observerVars, pollerVars, schedulerVars, runVars
<1>4. CASE Report(t) \/ Recheck(t)
  BY <1>1, <1>4 DEF Report, Recheck, Quiet, GoTo,
                    outputVars, observerVars, pollerVars, schedulerVars, runVars
<1>5. CASE Callback(t) \/ NotifyFails(t)
  BY <1>1, <1>5 DEF Callback, NotifyFails, Quiet, GoTo,
                    outputVars, observerVars, pollerVars, schedulerVars, runVars
<1> QED
  BY <1>2, <1>3, <1>4, <1>5

\* The loop is entered where the mirror is the observer's, and left in it.
LEMMA LoopSteps ==
  ASSUME Typed, Writers, InOrder(Observer), ObservedSoFar, NEW t \in Threads,
         \/ NotifyPoller(t) \/ EnterNotify(t) \/ LookAtStream(t) \/ Report(t) \/ Recheck(t)
         \/ PopObserved(t) \/ Callback(t) \/ NotifyFails(t)
  PROVE  /\ pc'[t] \in Loop => i[t] = 1
         /\ pc'[t] \in Loop \cup {"emitted"} /\ pc[t] \in Loop \cup {"notify"}
<1>1. pc \in [Threads -> Labels]
  BY DEF Typed
<1>2. pc[t] \in Loop => i[t] = 1
  BY DEF Writers
<1>3. CASE PopObserved(t)
  BY <1>1, <1>2, <1>3, PopObservedTyped DEF Loop
<1>4. CASE NotifyPoller(t) \/ EnterNotify(t)
  BY <1>1, <1>4, MirrorOf DEF NotifyPoller, EnterNotify, GoTo, Loop
<1>5. CASE Report(t) \/ Recheck(t) \/ LookAtStream(t)
  BY <1>1, <1>2, <1>5 DEF Report, Recheck, LookAtStream, GoTo, Loop
<1>6. CASE Callback(t) \/ NotifyFails(t)
  BY <1>1, <1>2, <1>6 DEF Callback, NotifyFails, GoTo, Loop
<1> QED
  BY <1>3, <1>4, <1>5, <1>6

\* A thread that adds a packet or sends a bound goes on to notify or to what follows.
LEMMA WritesStay ==
  ASSUME Typed, Writers, InOrder(Observer), InOrder(Poller), NEW t \in Threads, Add(t) \/ SetBound(t)
  PROVE  /\ UNCHANGED <<i, packets, bound, next_timestamp_bound_, state_, wait, emitted,
                        observed, polled, reported, notifying_, seen, wanted,
                        last_processed_ts_, observe_timestamp_bounds, runs>>
         /\ pc[t] \in {"add", "bound"}
         /\ pc' = [pc EXCEPT ![t] = pc'[t]] /\ after' = [after EXCEPT ![t] = after'[t]]
         /\ \/ pc'[t] \in {"bound", "next"} /\ after'[t] = "next"
            \/ pc'[t] = "notify"
         /\ pc'[t] # "notify" => pc'[t] = IF pc[t] = "add" THEN "bound" ELSE "next"
         /\ pc'[t] = "notify" => after'[t] = IF pc[t] = "add" THEN "bound" ELSE "next"
<1>1. pc \in [Threads -> Labels] /\ after \in [Threads -> {"bound", "next"}]
  BY DEF Typed
<1>2. CASE Add(t)
  BY <1>1, <1>2 DEF Add, NotifyIf, GoTo, observerVars, schedulerVars
<1>3. CASE SetBound(t)
  BY <1>1, <1>3 DEF SetBound, NotifyIf, GoTo, observerVars, schedulerVars
<1> QED
  BY <1>2, <1>3

LEMMA WritersKept ==
  ASSUME IInv, [Next]_vars
  PROVE  Writers'
<1> USE ThreadNames
<1>1. /\ Typed /\ Writers /\ InOrder(Observer) /\ InOrder(Poller) /\ ObservedSoFar /\ BoundsSent
  BY DEF IInv
<1>2. /\ pc \in [Threads -> Labels] /\ after \in [Threads -> {"bound", "next"}]
      /\ i \in [Threads -> {1, 2}] /\ packets \in [Threads -> Writes]
      /\ bound \in [Threads -> Marks \cup {Unset}]
  BY <1>1 DEF Typed
<1>3. CASE WorkerWrites \/ CloserWrites \/ CleanUpNode
  <2>1. PICK t \in Threads, ps \in Writes, b \in Marks : BeginsWith(t, ps, b)
    BY <1>1, <1>3, Begins
  <2>2. /\ pc[t] = "idle" /\ pc' = [pc EXCEPT ![t] = "add"]
        /\ packets' = [packets EXCEPT ![t] = ps] /\ bound' = [bound EXCEPT ![t] = b]
        /\ next_timestamp_bound_' = b /\ UNCHANGED <<after, i, state_, wait>>
    BY <2>1 DEF BeginsWith, Begin, GoTo, schedulerVars
  <2>3. state_ = "FINISHED" => FALSE
    BY <2>1 DEF BeginsWith
  <2> QED
    BY <1>1, <1>2, <2>1, <2>2, <2>3 DEF BeginsWith, Writers, Loop
<1>4. ASSUME NEW t \in Threads, WriterStep(t)
      PROVE  Writers'
  <2>1. CASE Add(t) \/ SetBound(t)
    BY <1>1, <1>2, <2>1, WritesStay DEF Writers, Loop
  <2>2. CASE NextMirror(t)
    BY <1>1, <1>2, <2>2, MirrorOf DEF NextMirror, GoTo, Writers, Loop, outputVars, schedulerVars
  <2>3. CASE \/ NotifyPoller(t) \/ EnterNotify(t) \/ LookAtStream(t) \/ Report(t) \/ Recheck(t)
             \/ PopObserved(t) \/ Callback(t) \/ NotifyFails(t)
    BY <1>1, <1>2, <2>3, QuietSteps, LoopSteps DEF Quiet, Writers, Loop
  <2>4. CASE EmittedObservedOutput(t)
    BY <1>1, <1>2, <2>4 DEF EmittedObservedOutput, GoTo, Writers, Loop, Woken, outputVars
  <2> QED
    BY <1>4, <2>1, <2>2, <2>3, <2>4 DEF WriterStep
<1>5. CASE Poll
  BY <1>1, <1>5 DEF Poll, CallNext, TestForOutput, PopPolled, Writers,
                    outputVars, threadVars, schedulerVars
<1>6. CASE Terminate \/ CallWait \/ TestForSignal \/ CleanUpMirrors \/ StartRun
  <2>1. UNCHANGED threadVars
    BY <1>6 DEF Terminate, CallWait, TestForSignal, CleanUpMirrors, StartRun
  <2>2. CASE Terminate
    BY <1>1, <2>1, <2>2 DEF Terminate, Writing, Writers, outputVars, threadVars, Woken
  <2>3. CASE CallWait \/ TestForSignal
    BY <1>1, <2>1, <2>3 DEF CallWait, TestForSignal, Writers, outputVars, threadVars
  <2>4. CASE CleanUpMirrors
    BY <1>1, <2>1, <2>4 DEF CleanUpMirrors, Writers, threadVars
  <2>5. CASE StartRun
    BY <1>1, <2>1, <2>5 DEF StartRun, Writers, threadVars
  <2> QED
    BY <1>6, <2>2, <2>3, <2>4, <2>5
<1>7. CASE UNCHANGED vars
  BY <1>1, <1>7 DEF Writers, vars, outputVars, threadVars, schedulerVars
<1> QED
  BY <1>3, <1>4, <1>5, <1>6, <1>7 DEF Next, CleanUp

LEMMA BoundsSentKept ==
  ASSUME IInv, [Next]_vars
  PROVE  BoundsSent'
<1> USE ThreadNames
<1>1. /\ Typed /\ Writers /\ InOrder(Observer) /\ InOrder(Poller) /\ ObservedSoFar /\ BoundsSent
  BY DEF IInv
<1>2. /\ pc \in [Threads -> Labels] /\ packets \in [Threads -> Writes]
      /\ bound \in [Threads -> Marks \cup {Unset}] /\ next_timestamp_bound_ \in Marks
  BY <1>1 DEF Typed
<1>3. CASE WorkerWrites \/ CloserWrites \/ CleanUpNode
  <2>1. PICK t \in Threads, ps \in Writes, b \in Marks : BeginsWith(t, ps, b)
    BY <1>1, <1>3, Begins
  <2>2. /\ pc[t] = "idle" /\ pc' = [pc EXCEPT ![t] = "add"]
        /\ packets' = [packets EXCEPT ![t] = ps] /\ bound' = [bound EXCEPT ![t] = b]
        /\ next_timestamp_bound_' = b
    BY <2>1 DEF BeginsWith, Begin, GoTo
  <2>3. next_timestamp_bound_ \in Int /\ b \in Int
    BY <1>2, Arithmetic
  <2>4. \A u \in Threads : u # t => pc'[u] = pc[u] /\ packets'[u] = packets[u] /\ bound'[u] = bound[u]
    BY <1>2, <2>2
  <2>5. pc'[t] = "add" /\ packets'[t] = ps /\ bound'[t] = b
    BY <1>2, <2>2
  <2>6. next_timestamp_bound_ # Done /\ next_timestamp_bound_ <= b /\ (ps # <<>> => ps[1] < b)
        /\ (ps # <<>> => next_timestamp_bound_ <= ps[1])
    BY <2>1 DEF BeginsWith
  <2>7. pc[Closer] = "idle" /\ pc[App] = "idle" /\ packets[Closer] = <<>>
    BY <1>1, <2>6 DEF BoundsSent, Writers
  <2>8. pc[Worker] # "idle" => bound[Worker] \in Int /\ bound[Worker] <= next_timestamp_bound_
                               /\ bound[Worker] # Done
    BY <1>1, Arithmetic DEF BoundsSent, Writers
  <2>9. ps # <<>> => ps[1] \in Int
    <3>1. ps # <<>> => ps[1] \in Time
      BY DEF Writes
    <3> QED
      BY <3>1, Arithmetic
  <2>10. CASE t = Worker
    <3>1. b # Done /\ (ps # <<>> => b = NextAllowedInStream(ps[1]))
      BY <2>1, <2>10 DEF BeginsWith
    <3> QED
      BY <1>1, <2>2, <2>3, <2>4, <2>5, <2>6, <2>7, <2>10, <3>1 DEF BoundsSent
  <2>11. CASE t = Closer
    <3>1. b = Done
      BY <2>1, <2>11 DEF BeginsWith
    <3>2. pc[Worker] # "idle" => bound[Worker] <= b
      BY <2>3, <2>6, <2>8
    <3>3. pc[Worker] # "idle" /\ ps # <<>> => bound[Worker] <= ps[1]
      BY <2>3, <2>6, <2>8, <2>9
    <3> QED
      BY <1>1, <2>2, <2>4, <2>5, <2>6, <2>7, <2>8, <2>11, <3>1, <3>2, <3>3 DEF BoundsSent
  <2>12. CASE t = App
    <3>1. b = Done /\ ps = <<>>
      BY <2>1, <2>12 DEF BeginsWith
    <3>2. pc[Worker] # "idle" => bound[Worker] <= b
      BY <2>3, <2>6, <2>8
    <3> QED
      BY <1>1, <2>2, <2>4, <2>5, <2>6, <2>7, <2>8, <2>12, <3>1, <3>2 DEF BoundsSent
  <2> QED
    BY <2>10, <2>11, <2>12
<1>4. ASSUME NEW t \in Threads, WriterStep(t)
      PROVE  BoundsSent'
  <2>1. CASE NextMirror(t)
    BY <1>1, <1>2, <2>1, MirrorOf DEF NextMirror, GoTo, BoundsSent, outputVars
  <2>2. CASE Add(t) \/ SetBound(t)
    <3>1. \A u \in Threads : pc'[u] # "idle" => pc[u] # "idle"
      BY <1>1, <1>2, <2>2, WritesStay
    <3> QED
      BY <1>1, <2>2, <3>1, WritesStay DEF BoundsSent
  <2>3. CASE \/ NotifyPoller(t) \/ EnterNotify(t) \/ LookAtStream(t) \/ Report(t) \/ Recheck(t)
             \/ PopObserved(t) \/ Callback(t) \/ NotifyFails(t)
    <3>1. \A u \in Threads : pc'[u] # "idle" => pc[u] # "idle"
      BY <1>1, <1>2, <2>3, QuietSteps DEF Quiet
    <3> QED
      BY <1>1, <2>3, <3>1, QuietSteps DEF Quiet, BoundsSent
  <2>4. CASE EmittedObservedOutput(t)
    <3>1. \A u \in Threads : pc'[u] # "idle" => pc[u] # "idle"
      BY <1>2, <2>4 DEF EmittedObservedOutput, GoTo
    <3> QED
      BY <1>1, <2>4, <3>1 DEF EmittedObservedOutput, BoundsSent, outputVars
  <2> QED
    BY <1>4, <2>1, <2>2, <2>3, <2>4 DEF WriterStep
<1>5. CASE Poll
  BY <1>1, <1>5 DEF Poll, CallNext, TestForOutput, PopPolled, BoundsSent, outputVars, threadVars
<1>6. CASE Terminate \/ CallWait \/ TestForSignal \/ CleanUpMirrors
  BY <1>1, <1>6 DEF Terminate, CallWait, TestForSignal, CleanUpMirrors, BoundsSent,
                    outputVars, threadVars
<1>7. CASE StartRun
  <2>1. \A t \in Threads : pc[t] = "idle" /\ packets[t] = <<>>
    BY <1>1, <1>7 DEF StartRun, Writers
  <2> QED
    BY <2>1, <1>7 DEF StartRun, BoundsSent, threadVars
<1>8. CASE UNCHANGED vars
  BY <1>1, <1>8 DEF BoundsSent, vars, outputVars, threadVars
<1> QED
  BY <1>3, <1>4, <1>5, <1>6, <1>7, <1>8 DEF Next, CleanUp

-----------------------------------------------------------------------------
(* What is still to be written. *)

LEMMA PendingBegun ==
  ASSUME IInv, NEW t \in Threads, NEW ps \in Writes, NEW b \in Marks, BeginsWith(t, ps, b),
         NEW k \in {1, 2}
  PROVE  /\ PendingOf(t, k) = <<>> /\ PendingOf(t, k)' = ps
         /\ \A u \in Threads : u # t => PendingOf(u, k)' = PendingOf(u, k)
<1>1. pc[t] = "idle" /\ i[t] = 1 /\ packets[t] = <<>>
  BY DEF IInv, Writers, BeginsWith, Begin
<1>2. /\ pc' = [pc EXCEPT ![t] = "add"] /\ packets' = [packets EXCEPT ![t] = ps] /\ i' = i
      /\ pc \in [Threads -> Labels] /\ packets \in [Threads -> Writes]
  BY DEF IInv, Typed, BeginsWith, Begin, GoTo
<1> QED
  BY <1>1, <1>2 DEF PendingOf, Unsent

LEMMA PendingAdded ==
  ASSUME IInv, NEW t \in Threads, Add(t), NEW k \in {1, 2}
  PROVE  /\ k = i[t] => PendingOf(t, k) = packets[t] /\ PendingOf(t, k)' = <<>>
         /\ k # i[t] => PendingOf(t, k)' = PendingOf(t, k)
         /\ \A u \in Threads : u # t => PendingOf(u, k)' = PendingOf(u, k)
<1>1. pc[t] = "add"
  BY DEF Add
<1>2. /\ UNCHANGED <<i, packets>> /\ pc' = [pc EXCEPT ![t] = pc'[t]] /\ pc'[t] # "add"
      /\ pc \in [Threads -> Labels] /\ i[t] \in {1, 2}
  BY WritesStay DEF IInv, Typed
<1> QED
  BY <1>1, <1>2 DEF PendingOf, Unsent

\* Steps that change no queue of what is to be written.
LEMMA PendingSame ==
  ASSUME IInv, [Next]_vars, ~(WorkerWrites \/ CloserWrites \/ CleanUpNode),
         \A t \in Threads : ~Add(t),
         NEW u \in Threads, NEW k \in {1, 2}
  PROVE  PendingOf(u, k)' = PendingOf(u, k)
<1>1. /\ Typed /\ Writers /\ InOrder(Observer) /\ InOrder(Poller) /\ ObservedSoFar
  BY DEF IInv
<1>2. pc \in [Threads -> Labels] /\ i \in [Threads -> {1, 2}] /\ packets \in [Threads -> Writes]
  BY <1>1 DEF Typed
<1>3. ASSUME NEW t \in Threads, WriterStep(t)
      PROVE  PendingOf(u, k)' = PendingOf(u, k)
  <2>1. CASE NextMirror(t)
    <3>1. pc[t] = "next" /\ UNCHANGED emitted
      BY <2>1 DEF NextMirror, outputVars
    <3>2. CASE u = t
      <4>1. Len(Mirrors) = 2 /\ i[t] \in {1, 2}
        BY <1>1, <1>2, MirrorOf
      <4>2. CASE i[t] = 1
        <5>1. i'[t] = 2 /\ pc'[t] = "add" /\ packets' = packets
          BY <1>2, <2>1, <4>1, <4>2 DEF NextMirror, GoTo
        <5> QED
          BY <3>1, <3>2, <4>2, <5>1 DEF PendingOf, Unsent
      <4>3. CASE i[t] = 2
        <5>1. i'[t] = 1 /\ pc'[t] = "idle" /\ packets'[t] = <<>>
          BY <1>2, <2>1, <4>1, <4>3 DEF NextMirror, GoTo
        <5> QED
          BY <3>1, <3>2, <4>3, <5>1 DEF PendingOf, Unsent
      <4> QED
        BY <4>1, <4>2, <4>3
    <3>3. CASE u # t
      BY <1>2, <2>1, <3>1, <3>3, MirrorOf, <1>1 DEF NextMirror, GoTo, PendingOf, Unsent
    <3> QED
      BY <3>2, <3>3
  <2>2. CASE SetBound(t)
    BY <1>1, <1>2, <2>2, WritesStay DEF SetBound, PendingOf, Unsent
  <2>3. CASE \/ NotifyPoller(t) \/ EnterNotify(t) \/ LookAtStream(t) \/ Report(t) \/ Recheck(t)
             \/ PopObserved(t) \/ Callback(t) \/ NotifyFails(t)
    BY <1>1, <1>2, <2>3, QuietSteps DEF Quiet, PendingOf, Unsent
  <2>4. CASE EmittedObservedOutput(t)
    <3>1. after[t] # "add"
      BY <1>1 DEF Typed
    <3> QED
      BY <1>2, <2>4, <3>1 DEF EmittedObservedOutput, GoTo, PendingOf, Unsent
  <2> QED
    BY <1>3, <2>1, <2>2, <2>3, <2>4 DEF WriterStep
<1>4. CASE Poll \/ Terminate \/ CallWait \/ TestForSignal \/ CleanUpMirrors \/ StartRun \/ UNCHANGED vars
  <2>1. UNCHANGED threadVars
    BY <1>4 DEF Poll, CallNext, TestForOutput, PopPolled, Terminate, CallWait, TestForSignal,
                CleanUpMirrors, StartRun, vars
  <2> QED
    BY <2>1 DEF threadVars, PendingOf, Unsent
<1> QED
  BY <1>3, <1>4 DEF Next, CleanUp

-----------------------------------------------------------------------------
(* The order of the packets in a mirror. *)

LEMMA InOrderSame ==
  ASSUME IInv, NEW m \in {Observer, Poller}, InOrder(m),
         \/ stream'[m].queue = stream[m].queue
         \/ stream'[m].queue = Tail(stream[m].queue) /\ ~IsEmpty(stream[m]),
         stream'[m].next_timestamp_bound_ = stream[m].next_timestamp_bound_,
         stream'[m].closed_ = stream[m].closed_,
         state_' = state_ \/ state_ = "RUNNING",
         UNCHANGED next_timestamp_bound_,
         \A t \in Threads : PendingOf(t, Number(m))' = PendingOf(t, Number(m))
  PROVE  InOrder(m)'
<1> DEFINE q == stream[m].queue
           r == stream'[m].queue
<1>1. stream[m].queue \in Seq(Time)
  BY MirrorFields DEF IInv
<1>2. \E d \in {0, 1} : \A a \in DOMAIN r : a + d \in DOMAIN q /\ r[a] = q[a + d] /\ a \in Int
  <2>1. CASE r = q
    BY <1>1, <2>1
  <2>2. CASE r = Tail(q) /\ q # <<>>
    BY <1>1, <2>2
  <2> QED
    BY <2>1, <2>2 DEF IsEmpty
<1>3. PICK d \in {0, 1} : \A a \in DOMAIN r : a + d \in DOMAIN q /\ r[a] = q[a + d] /\ a \in Int
  BY <1>2
<1>4. \A a, b \in DOMAIN r : a < b => r[a] < r[b]
  <2> SUFFICES ASSUME NEW a \in DOMAIN r, NEW b \in DOMAIN r, a < b
               PROVE  r[a] < r[b]
    OBVIOUS
  <2>1. a + d \in DOMAIN q /\ b + d \in DOMAIN q /\ a + d < b + d /\ r[a] = q[a + d] /\ r[b] = q[b + d]
    BY <1>3
  <2> QED
    BY <2>1 DEF InOrder
<1>5. \A a \in DOMAIN r : r[a] < stream'[m].next_timestamp_bound_
  BY <1>3 DEF InOrder
<1>6. stream'[m].closed_ => state_' = "FINISHED"
  BY DEF InOrder
<1> QED
  BY <1>4, <1>5, <1>6 DEF InOrder

\* Whoever sends a packet or a bound, nobody else has an earlier packet to add.
LEMMA OthersWriteLater ==
  ASSUME IInv, NEW t \in Threads, NEW u \in Threads, t # u,
         pc[t] # "idle", packets[u] # <<>>, NEW k \in {1, 2}, PendingOf(u, k) # <<>>
  PROVE  /\ packets[t] = <<>> /\ bound[t] <= packets[u][1]
         /\ PendingOf(u, k) = packets[u]
<1>1. Typed /\ Writers /\ BoundsSent
  BY DEF IInv
<1>2. pc[u] # "idle" /\ PendingOf(u, k) = packets[u] /\ u # App
  BY <1>1 DEF Writers, PendingOf
<1>3. CASE u = Worker
  BY <1>1, <1>2, <1>3, ThreadNames DEF Writers
<1>4. CASE u = Closer
  BY <1>1, <1>2, <1>4, ThreadNames DEF Writers, BoundsSent
<1> QED
  BY <1>2, <1>3, <1>4, ThreadNames

LEMMA InOrderKept ==
  ASSUME IInv, [Next]_vars, NEW m \in {Observer, Poller}
  PROVE  InOrder(m)'
<1> USE ThreadNames
<1>1. /\ Typed /\ Writers /\ InOrder(Observer) /\ InOrder(Poller) /\ PolledSoFar /\ ObservedSoFar
      /\ BoundsSent /\ InOrder(m)
  BY DEF IInv
<1>2. /\ stream \in [{Observer, Poller} -> Streams] /\ Number(m) \in {1, 2}
      /\ stream[m].queue \in Seq(Time) /\ stream[m].next_timestamp_bound_ \in Int
      /\ next_timestamp_bound_ \in Int /\ next_timestamp_bound_ \in Marks
  BY <1>1, MirrorFields, Arithmetic DEF Typed, Number
<1>3. CASE WorkerWrites \/ CloserWrites \/ CleanUpNode
  <2>1. PICK t \in Threads, ps \in Writes, b \in Marks : BeginsWith(t, ps, b)
    BY <1>1, <1>3, Begins
  <2>2. /\ UNCHANGED <<stream, state_>> /\ next_timestamp_bound_' = b /\ b \in Int
        /\ next_timestamp_bound_ <= b /\ (ps # <<>> => next_timestamp_bound_ <= ps[1] /\ ps[1] \in Time)
    <3>1. /\ UNCHANGED <<stream, state_>> /\ next_timestamp_bound_' = b
          /\ next_timestamp_bound_ <= b /\ (ps # <<>> => next_timestamp_bound_ <= ps[1])
      BY <2>1 DEF BeginsWith, Begin, schedulerVars
    <3>2. b \in Int
      BY Arithmetic
    <3>3. ps # <<>> => ps[1] \in Time
      BY DEF Writes
    <3> QED
      BY <3>1, <3>2, <3>3
  <2>3. ps # <<>> => stream[m].next_timestamp_bound_ <= ps[1]
    BY <1>1, <1>2, <2>2, Arithmetic DEF InOrder
  <2>4. \A u \in Threads : PendingOf(u, Number(m))' # <<>> =>
          stream[m].next_timestamp_bound_ <= PendingOf(u, Number(m))'[1]
    BY <1>1, <1>2, <2>1, <2>3, PendingBegun DEF InOrder
  <2>5. stream[m].next_timestamp_bound_ <= b
    BY <1>1, <1>2, <2>2 DEF InOrder
  <2> QED
    BY <1>1, <2>2, <2>4, <2>5 DEF InOrder
<1>4. ASSUME NEW t \in Threads, Add(t)
      PROVE  InOrder(m)'
  <2>1. i[t] \in {1, 2} /\ pc[t] # "idle" /\ UNCHANGED <<i, packets, bound, next_timestamp_bound_, state_>>
    BY <1>1, <1>4, WritesStay DEF Typed
  <2>2. CASE packets[t] = <<>> \/ Mirrors[i[t]] # m
    <3>1. stream'[m] = stream[m]
      BY <1>1, <1>2, <1>4, <2>2, AddEffect
    <3>2. \A u \in Threads : PendingOf(u, Number(m))' = PendingOf(u, Number(m))
      BY <1>1, <1>2, <1>4, <2>1, <2>2, PendingAdded, MirrorOf DEF Number
    <3> QED
      BY <1>1, <2>1, <3>1, <3>2, InOrderSame
  <2>3. CASE packets[t] # <<>> /\ Mirrors[i[t]] = m
    <3> DEFINE p == packets[t][1]
               s == stream[m]
    <3>1. /\ p \in Time /\ p \in Int /\ s \in Streams /\ s.next_timestamp_bound_ <= p
          /\ stream'[m] = Accept(s, p)
      <4>1. p \in Time /\ p \in Int
        BY <1>1, <2>3, PacketOf, Arithmetic
      <4>2. s.next_timestamp_bound_ <= p /\ stream' = [stream EXCEPT ![m] = Accept(s, p)]
        BY <1>1, <1>4, <2>3, AddEffect
      <4> QED
        BY <1>2, <4>1, <4>2
    <3>2. /\ stream'[m].queue = Append(s.queue, p) /\ stream'[m].closed_ = s.closed_
          /\ stream'[m].next_timestamp_bound_ = NextAllowedInStream(p)
      BY <3>1, AcceptFields
    <3>3. NextAllowedInStream(p) \in Int /\ p < NextAllowedInStream(p)
      BY <3>1, Arithmetic
    <3>4. \A a \in DOMAIN s.queue : s.queue[a] < p /\ s.queue[a] \in Int
      <4>1. \A a \in DOMAIN s.queue : s.queue[a] \in Int /\ s.queue[a] < s.next_timestamp_bound_
        BY <1>1, <1>2, Arithmetic DEF InOrder
      <4> QED
        BY <4>1, <1>2, <3>1
    <3>5. \A a \in DOMAIN Append(s.queue, p) :
            \/ a \in DOMAIN s.queue /\ Append(s.queue, p)[a] = s.queue[a]
            \/ a = Len(s.queue) + 1 /\ Append(s.queue, p)[a] = p
      BY <1>2
    <3>6. \A a \in DOMAIN s.queue : a \in 1 .. Len(s.queue)
      BY <1>2
    <3>7. Len(s.queue) \in Nat
      BY <1>2
    <3>8. \A a, b \in DOMAIN Append(s.queue, p) :
            a < b => Append(s.queue, p)[a] < Append(s.queue, p)[b]
      BY <1>1, <3>4, <3>5, <3>6, <3>7 DEF InOrder
    <3>9. \A a \in DOMAIN Append(s.queue, p) : Append(s.queue, p)[a] < NextAllowedInStream(p)
      BY <3>1, <3>3, <3>4, <3>5
    <3>10. NextAllowedInStream(p) <= next_timestamp_bound_
      BY <1>1, <1>2, <2>1, <2>3, <3>1, Arithmetic DEF BoundsSent, Writers
    <3>11. ASSUME NEW u \in Threads, PendingOf(u, Number(m))' # <<>>
           PROVE  FALSE
      <4>1. u # t
        BY <1>1, <1>2, <1>4, <2>3, <3>11, PendingAdded, MirrorOf
      <4>2. PendingOf(u, Number(m)) # <<>>
        BY <1>2, <1>4, <4>1, <3>11, PendingAdded
      <4>3. packets[u] # <<>>
        BY <4>2 DEF PendingOf
      <4> QED
        BY <1>2, <2>1, <2>3, <4>1, <4>2, <4>3, OthersWriteLater
    <3>12. s.closed_ => state_' = "FINISHED"
      BY <1>1, <2>1 DEF InOrder
    <3> QED
      BY <2>1, <3>2, <3>8, <3>9, <3>10, <3>11, <3>12 DEF InOrder
  <2> QED
    BY <2>2, <2>3
<1>5. ASSUME NEW t \in Threads, SetBound(t)
      PROVE  InOrder(m)'
  <2>1. UNCHANGED <<i, packets, bound, next_timestamp_bound_, state_>> /\ pc[t] = "bound"
    BY <1>1, <1>5, WritesStay DEF SetBound
  <2>2. \A u \in Threads : PendingOf(u, Number(m))' = PendingOf(u, Number(m))
    <3>1. \A u \in Threads : pc'[u] = "add" <=> pc[u] = "add"
      BY <1>1, <1>5, <2>1, WritesStay DEF Typed
    <3> QED
      BY <2>1, <3>1 DEF PendingOf, Unsent
  <2>3. PICK set \in Streams :
          /\ stream' = [stream EXCEPT ![Mirrors[i[t]]] = set]
          /\ set.queue = stream[Mirrors[i[t]]].queue /\ set.closed_ = stream[Mirrors[i[t]]].closed_
          /\ \/ set = stream[Mirrors[i[t]]]
             \/ /\ stream[Mirrors[i[t]]].next_timestamp_bound_ < bound[t]
                /\ set.next_timestamp_bound_ = bound[t]
    BY <1>1, <1>5, SetBoundEffect
  <2>4. Mirrors[i[t]] \in {Observer, Poller}
    BY <1>1, MirrorOf
  <2>5. CASE stream'[m].next_timestamp_bound_ = stream[m].next_timestamp_bound_
    BY <1>1, <1>2, <2>1, <2>2, <2>3, <2>4, <2>5, InOrderSame
  <2>6. CASE stream'[m].next_timestamp_bound_ # stream[m].next_timestamp_bound_
    <3>1. /\ Mirrors[i[t]] = m /\ stream'[m] = set /\ set.queue = stream[m].queue
          /\ set.closed_ = stream[m].closed_
          /\ stream[m].next_timestamp_bound_ < bound[t]
          /\ set.next_timestamp_bound_ = bound[t]
      BY <1>2, <2>3, <2>4, <2>6
    <3>2. bound[t] \in Int
      BY <1>1, <2>1, Arithmetic DEF Writers
    <3>3. \A a \in DOMAIN stream[m].queue : stream[m].queue[a] < bound[t]
      <4>1. \A a \in DOMAIN stream[m].queue :
              stream[m].queue[a] \in Int /\ stream[m].queue[a] < stream[m].next_timestamp_bound_
        BY <1>1, <1>2, Arithmetic DEF InOrder
      <4> QED
        BY <4>1, <1>2, <3>1, <3>2
    <3>4. bound[t] <= next_timestamp_bound_
      BY <1>1, <1>2, <2>1, Arithmetic DEF BoundsSent
    <3>5. ASSUME NEW u \in Threads, PendingOf(u, Number(m)) # <<>>
          PROVE  bound[t] <= PendingOf(u, Number(m))[1]
      <4>1. packets[u] # <<>>
        BY <3>5 DEF PendingOf
      <4>2. u # t
        <5>1. i[t] = Number(m) /\ i[t] \in {1, 2}
          BY <1>1, <3>1, MirrorOf DEF Typed
        <5>2. PendingOf(t, Number(m)) = <<>>
          BY <5>1, <2>1 DEF PendingOf, Unsent
        <5> QED
          BY <5>2, <3>5
      <4> QED
        BY <1>2, <2>1, <4>1, <4>2, <3>5, OthersWriteLater
    <3>6. stream[m].closed_ => state_' = "FINISHED"
      BY <1>1, <2>1 DEF InOrder
    <3> QED
      BY <1>1, <2>1, <2>2, <3>1, <3>3, <3>4, <3>5, <3>6 DEF InOrder
  <2> QED
    BY <2>5, <2>6
<1>6. CASE CleanUpMirrors
  <2>1. stream'[m] = Close(stream[m]) /\ next_timestamp_bound_ = Done /\ UNCHANGED next_timestamp_bound_
        /\ state_' = "FINISHED" /\ state_ = "TERMINATED"
    BY <1>2, <1>6 DEF CleanUpMirrors
  <2>2. stream'[m].queue = stream[m].queue /\ stream'[m].next_timestamp_bound_ = Done
    BY <1>1, <2>1, MirrorFields, CloseFields
  <2>3. \A t \in Threads : PendingOf(t, Number(m))' = <<>>
    BY <1>1, <1>6, <2>1 DEF CleanUpMirrors, PendingOf, Writers, threadVars
  <2>4. \A a \in DOMAIN stream[m].queue : stream[m].queue[a] < Done
    BY <1>2, Arithmetic
  <2> QED
    BY <1>1, <2>1, <2>2, <2>3, <2>4, Arithmetic DEF InOrder, Done
<1>7. CASE StartRun
  <2>1. stream'[m] = NewStream(TRUE) /\ next_timestamp_bound_' = PreStream
    BY <1>2, <1>7 DEF StartRun
  <2>2. \A t \in Threads : PendingOf(t, Number(m))' = <<>>
    BY <1>1, <1>7 DEF StartRun, PendingOf, Writers, threadVars
  <2>3. /\ stream'[m].queue = <<>> /\ stream'[m].closed_ = FALSE
        /\ stream'[m].next_timestamp_bound_ = PreStream
    BY <2>1, NewStreamFields
  <2>5. PreStream <= PreStream
    BY DEF PreStream
  <2>4. \A a \in DOMAIN stream'[m].queue : FALSE
    BY <2>3, EmptySeq
  <2> QED
    BY <2>1, <2>2, <2>3, <2>4, <2>5 DEF InOrder
<1>8. CASE /\ ~(WorkerWrites \/ CloserWrites \/ CleanUpNode) /\ ~CleanUpMirrors /\ ~StartRun
           /\ \A t \in Threads : ~Add(t) /\ ~SetBound(t)
  <2>1. \A u \in Threads : PendingOf(u, Number(m))' = PendingOf(u, Number(m))
    BY <1>2, <1>8, PendingSame
  <2> DEFINE Taken == /\ UNCHANGED next_timestamp_bound_
                      /\ state_' = state_ \/ state_ = "RUNNING"
                      /\ \/ stream'[m].queue = stream[m].queue
                         \/ stream'[m].queue = Tail(stream[m].queue) /\ ~IsEmpty(stream[m])
                      /\ stream'[m].next_timestamp_bound_ = stream[m].next_timestamp_bound_
                      /\ stream'[m].closed_ = stream[m].closed_
  <2>2. Taken
    <3>1. ASSUME NEW t \in Threads, PopObserved(t)
          PROVE  Taken
      BY <1>1, <1>2, <3>1, PopObservedTyped DEF PopObserved, schedulerVars
    <3>5. CASE PopPolled
      BY <1>1, <1>2, <3>5, PopPolledTyped DEF PopPolled, schedulerVars
    <3>3. ASSUME NEW t \in Threads,
                 \/ NextMirror(t) \/ NotifyPoller(t) \/ EnterNotify(t) \/ LookAtStream(t)
                 \/ Report(t) \/ Recheck(t) \/ Callback(t) \/ NotifyFails(t)
                 \/ EmittedObservedOutput(t)
          PROVE  UNCHANGED <<stream, next_timestamp_bound_, state_>>
      BY <3>3 DEF NextMirror, NotifyPoller, EnterNotify, LookAtStream, Report, Recheck, Callback,
                  NotifyFails, EmittedObservedOutput, schedulerVars, outputVars
    <3>4. CASE CallNext \/ TestForOutput \/ Terminate \/ CallWait \/ TestForSignal \/ UNCHANGED vars
      BY <3>4 DEF CallNext, TestForOutput, Terminate, CallWait, TestForSignal, vars, schedulerVars, outputVars
    <3> QED
      BY <1>8, <3>1, <3>3, <3>4, <3>5 DEF Next, CleanUp, WriterStep, Poll
  <2> QED
    BY <1>1, <2>1, <2>2, InOrderSame DEF Taken
<1> QED
  BY <1>3, <1>4, <1>5, <1>6, <1>7, <1>8

-----------------------------------------------------------------------------
(* Everything that was emitted is somewhere on its way. *)

LEMMA PendingSeq ==
  ASSUME Typed, NEW k \in {1, 2}
  PROVE  /\ \A t \in Threads : PendingOf(t, k) \in Seq(Time)
         /\ Pending(k) \in Seq(Time)
<1>1. \A t \in Threads : PendingOf(t, k) \in Seq(Time)
  BY PacketOf, EmptySeq DEF PendingOf
<1> QED
  BY <1>1, ThreadNames DEF Pending

LEMMA PendingGrows ==
  ASSUME IInv, NEW t \in Threads, NEW ps \in Writes, NEW b \in Marks, BeginsWith(t, ps, b),
         NEW k \in {1, 2}
  PROVE  Pending(k)' = Pending(k) \o ps /\ ps \in Seq(Time)
<1> USE ThreadNames
<1>1. Typed /\ Writers
  BY DEF IInv
<1>2. ps \in Seq(Time)
  <2>1. <<>> \in Seq(Time) /\ \A p \in Time : <<p>> \in Seq(Time)
    OBVIOUS
  <2> QED
    BY <2>1 DEF Writes
<1>3. /\ PendingOf(Worker, k) \in Seq(Time) /\ PendingOf(Closer, k) \in Seq(Time)
      /\ Pending(k) = PendingOf(Worker, k) \o PendingOf(Closer, k)
      /\ Pending(k)' = PendingOf(Worker, k)' \o PendingOf(Closer, k)'
  BY <1>1, PendingSeq DEF Pending
<1>4. /\ PendingOf(t, k) = <<>> /\ PendingOf(t, k)' = ps
      /\ \A u \in Threads : u # t => PendingOf(u, k)' = PendingOf(u, k)
  BY PendingBegun
<1>5. CASE t = Closer
  <2>1. PendingOf(Worker, k) = <<>>
    BY <1>1, <1>5 DEF BeginsWith, PendingOf, Writers
  <2> QED
    BY <1>2, <1>3, <1>4, <1>5, <2>1
<1>6. CASE t = Worker
  <2>1. CASE ps = <<>>
    BY <1>2, <1>3, <1>4, <1>6, <2>1
  <2>2. CASE ps # <<>>
    <3>1. PendingOf(Closer, k) = <<>>
      BY <1>1, <1>6, <2>2 DEF BeginsWith, PendingOf, Writers
    <3> QED
      BY <1>2, <1>3, <1>4, <1>6, <3>1
  <2> QED
    BY <2>1, <2>2
<1>7. CASE t = App
  <2>1. ps = <<>>
    BY <1>7 DEF BeginsWith
  <2> QED
    BY <1>1, <1>2, <1>3, <1>4, <1>7, <2>1, PendingSeq
<1> QED
  BY <1>5, <1>6, <1>7

LEMMA PendingShrinks ==
  ASSUME IInv, NEW t \in Threads, Add(t), NEW k \in {1, 2}
  PROVE  IF k = i[t] THEN Pending(k) = packets[t] \o Pending(k)' ELSE Pending(k)' = Pending(k)
<1> USE ThreadNames
<1>1. Typed /\ Writers /\ Typed'
  BY AddTyped DEF IInv
<1>2. /\ PendingOf(Worker, k) \in Seq(Time) /\ PendingOf(Closer, k) \in Seq(Time)
      /\ Pending(k) = PendingOf(Worker, k) \o PendingOf(Closer, k)
      /\ Pending(k)' = PendingOf(Worker, k)' \o PendingOf(Closer, k)'
      /\ packets[t] \in Seq(Time)
  BY <1>1, PendingSeq, PacketOf DEF Pending
<1>3. CASE k # i[t]
  BY <1>2, <1>3, PendingAdded
<1>4. CASE k = i[t]
  <2>1. /\ PendingOf(t, k) = packets[t] /\ PendingOf(t, k)' = <<>>
        /\ \A u \in Threads : u # t => PendingOf(u, k)' = PendingOf(u, k)
    BY <1>4, PendingAdded
  <2>2. pc[t] = "add"
    BY DEF Add
  <2>3. \A q \in Seq(Time) : <<>> \o q = q /\ q \o <<>> = q
    BY ConcatEmptySeq
  <2>4. CASE t = Worker
    <3>1. Pending(k)' = PendingOf(Closer, k)
      BY <1>2, <2>1, <2>3, <2>4
    <3> QED
      BY <1>2, <1>4, <2>1, <2>4, <3>1
  <2>5. CASE t = Closer
    <3>1. CASE packets[t] = <<>>
      BY <1>2, <1>4, <2>1, <2>3, <2>5, <3>1, PendingSeq, <1>1
    <3>2. CASE packets[t] # <<>>
      <4>1. packets[Worker] = <<>>
        BY <1>1, <2>2, <2>5 DEF Writers
      <4>2. PendingOf(Worker, k) = <<>> /\ PendingOf(Worker, k)' = <<>>
        BY <2>1, <2>5, <4>1 DEF PendingOf
      <4>3. Pending(k) = packets[t] /\ Pending(k)' = <<>>
        BY <1>2, <2>1, <2>3, <2>5, <4>2, EmptySeq
      <4> QED
        BY <1>2, <1>4, <2>3, <4>3
    <3> QED
      BY <3>1, <3>2
  <2>6. CASE t = App
    <3>1. packets[t] = <<>>
      BY <1>1, <2>6 DEF Writers
    <3>2. Pending(k)' = Pending(k) /\ Pending(k) \in Seq(Time)
      BY <1>1, <1>2, <2>1, <2>6, PendingSeq
    <3> QED
      BY <1>4, <2>3, <3>1, <3>2
  <2> QED
    BY <2>4, <2>5, <2>6
<1> QED
  BY <1>3, <1>4

\* What Add appends to the mirror.
LEMMA QueueGrows ==
  ASSUME IInv, NEW t \in Threads, Add(t), NEW m \in {Observer, Poller}
  PROVE  stream'[m].queue = IF Number(m) = i[t] THEN stream[m].queue \o packets[t]
                            ELSE stream[m].queue
<1>1. /\ Typed /\ Writers /\ InOrder(Observer) /\ InOrder(Poller)
  BY DEF IInv
<1>2. /\ stream \in [{Observer, Poller} -> Streams] /\ stream[m].queue \in Seq(Time)
      /\ Mirrors[i[t]] = m <=> Number(m) = i[t]
  BY <1>1, MirrorFields, MirrorOf, ThreadNames DEF Typed, Number
<1>3. CASE packets[t] = <<>>
  <2>1. stream' = stream
    BY <1>1, <1>3, AddEffect
  <2> QED
    BY <1>2, <1>3, <2>1
<1>4. CASE packets[t] # <<>>
  <2>1. /\ stream[Mirrors[i[t]]].next_timestamp_bound_ <= packets[t][1]
        /\ stream' = [stream EXCEPT ![Mirrors[i[t]]] = Accept(stream[Mirrors[i[t]]], packets[t][1])]
    BY <1>1, <1>4, AddEffect
  <2>2. CASE Mirrors[i[t]] # m
    BY <1>2, <2>1, <2>2
  <2>3. CASE Mirrors[i[t]] = m
    <3>1. packets[t][1] \in Time /\ packets[t] = <<packets[t][1]>> /\ stream[m] \in Streams
      BY <1>1, <1>4, PacketOf, MirrorFields
    <3>2. stream'[m].queue = Append(stream[m].queue, packets[t][1])
      BY <1>2, <2>1, <2>3, <3>1, AcceptFields
    <3>3. Append(stream[m].queue, packets[t][1]) = stream[m].queue \o <<packets[t][1]>>
      BY <1>2, <3>1
    <3> QED
      BY <1>2, <2>3, <3>1, <3>2, <3>3
  <2> QED
    BY <2>2, <2>3
<1> QED
  BY <1>3, <1>4

\* Steps that neither emit nor write leave everything emitted where it is.
LEMMA NothingWritten ==
  ASSUME IInv, [Next]_vars, ~(WorkerWrites \/ CloserWrites \/ CleanUpNode),
         \A t \in Threads : ~Add(t), NEW k \in {1, 2}
  PROVE  Pending(k)' = Pending(k)
<1>1. PendingOf(Worker, k)' = PendingOf(Worker, k) /\ PendingOf(Closer, k)' = PendingOf(Closer, k)
  BY PendingSame, ThreadNames
<1> QED
  BY <1>1 DEF Pending

\* The steps that leave the mirrors, what was emitted and what was polled alone.
LEMMA QuietQueues ==
  ASSUME IInv, NEW t \in Threads,
         \/ SetBound(t) \/ NextMirror(t) \/ NotifyPoller(t) \/ EnterNotify(t) \/ LookAtStream(t)
         \/ Report(t) \/ Recheck(t) \/ Callback(t) \/ NotifyFails(t) \/ EmittedObservedOutput(t)
  PROVE  /\ \A m \in {Observer, Poller} : stream'[m].queue = stream[m].queue
         /\ UNCHANGED <<emitted, polled, wanted>>
         /\ poll' = poll \/ poll' = Woken(poll)
<1>1. Typed /\ Writers
  BY DEF IInv
<1>2. CASE SetBound(t)
  <2>1. PICK set \in Streams : /\ stream' = [stream EXCEPT ![Mirrors[i[t]]] = set]
                               /\ set.queue = stream[Mirrors[i[t]]].queue
                               /\ RecordError \/ NoError
    BY <1>1, <1>2, SetBoundEffect
  <2>2. stream \in [{Observer, Poller} -> Streams] /\ Mirrors[i[t]] \in {Observer, Poller}
    BY <1>1, MirrorOf DEF Typed
  <2>3. \A m \in {Observer, Poller} : stream'[m].queue = stream[m].queue
    BY <2>1, <2>2
  <2>4. poll' = poll \/ poll' = Woken(poll)
    BY <2>1 DEF RecordError, NoError
  <2> QED
    BY <1>2, <2>3, <2>4 DEF SetBound
<1>3. CASE \/ NextMirror(t) \/ NotifyPoller(t) \/ EnterNotify(t) \/ LookAtStream(t)
           \/ Report(t) \/ Recheck(t) \/ Callback(t) \/ NotifyFails(t) \/ EmittedObservedOutput(t)
  BY <1>3 DEF NextMirror, NotifyPoller, EnterNotify, LookAtStream, Report, Recheck, Callback,
              NotifyFails, EmittedObservedOutput, RecordError, outputVars, pollerVars
<1> QED
  BY <1>2, <1>3

LEMMA PendingSeqNext ==
  ASSUME Typed', NEW k \in {1, 2}
  PROVE  Pending(k)' \in Seq(Time)
<1>1. Writes \subseteq Seq(Time)
  <2>1. <<>> \in Seq(Time) /\ \A p \in Time : <<p>> \in Seq(Time)
    OBVIOUS
  <2> QED
    BY <2>1 DEF Writes
<1>2. packets' \in [Threads -> Writes]
  BY DEF Typed
<1>3. PendingOf(Worker, k)' \in Seq(Time) /\ PendingOf(Closer, k)' \in Seq(Time)
  BY <1>1, <1>2, ThreadNames, EmptySeq DEF PendingOf
<1> QED
  BY <1>3 DEF Pending

\* The laws of concatenation.
LEMMA Concatenation ==
  /\ \A s, t \in Seq(Time) : s \o t \in Seq(Time)
  /\ \A s, t, u \in Seq(Time) : (s \o t) \o u = s \o (t \o u)
  /\ \A s \in Seq(Time) : s \o <<>> = s /\ <<>> \o s = s
  /\ \A s \in Seq(Time), e \in Time : Append(s, e) = s \o <<e>> /\ <<e>> \in Seq(Time)
  /\ \A s \in Seq(Time) : s # <<>> =>
       Head(s) \in Time /\ Tail(s) \in Seq(Time) /\ s = <<Head(s)>> \o Tail(s)
  /\ \A s, t \in Seq(Time) : s # <<>> => s \o t # <<>> /\ Head(s \o t) = Head(s)
<1>1. \A s, t \in Seq(Time) : s \o t \in Seq(Time)
  OBVIOUS
<1>2. \A s, t, u \in Seq(Time) : (s \o t) \o u = s \o (t \o u)
  BY ConcatAssociative
<1>3. \A s \in Seq(Time) : s \o <<>> = s /\ <<>> \o s = s
  BY ConcatEmptySeq
<1>4. \A s \in Seq(Time), e \in Time : Append(s, e) = s \o <<e>> /\ <<e>> \in Seq(Time)
  OBVIOUS
<1>5. \A s \in Seq(Time) : s # <<>> =>
        Head(s) \in Time /\ Tail(s) \in Seq(Time) /\ s = <<Head(s)>> \o Tail(s)
  OBVIOUS
<1>6. \A s, t \in Seq(Time) : s # <<>> => s \o t # <<>> /\ Head(s \o t) = Head(s)
  OBVIOUS
<1> QED
  BY <1>1, <1>2, <1>3, <1>4, <1>5, <1>6

LEMMA Associative == \A s, t, u \in Seq(Time) : (s \o t) \o u = s \o (t \o u)
  BY ConcatAssociative

LEMMA PolledSoFarKept ==
  ASSUME IInv, [Next]_vars
  PROVE  PolledSoFar'
<1> USE ThreadNames
<1> DEFINE q == stream[Poller].queue
<1>1. /\ Typed /\ Writers /\ InOrder(Observer) /\ InOrder(Poller) /\ ObservedSoFar /\ PolledSoFar
  BY DEF IInv
<1>2. /\ polled \in Seq(Time) /\ q \in Seq(Time) /\ Pending(2) \in Seq(Time)
      /\ emitted = polled \o q \o Pending(2) /\ Number(Poller) = 2
  BY <1>1, MirrorFields, PendingSeq DEF Typed, PolledSoFar, Number
<1>9. q = stream[Poller].queue
  OBVIOUS
<1> HIDE DEF q
<1>3. Typed' /\ Pending(2)' \in Seq(Time)
  <2>1. Typed'
    BY TypedKept
  <2> QED
    BY <2>1, PendingSeqNext
<1>4. CASE WorkerWrites \/ CloserWrites \/ CleanUpNode
  <2>1. PICK t \in Threads, ps \in Writes, b \in Marks : BeginsWith(t, ps, b)
    BY <1>1, <1>4, Begins
  <2>2. Pending(2)' = Pending(2) \o ps /\ ps \in Seq(Time)
    BY <2>1, PendingGrows
  <2>3. UNCHANGED <<stream, poll, wanted, polled>> /\ emitted' = emitted \o ps
    BY <2>1 DEF BeginsWith, Begin, pollerVars
  <2>4. emitted' = polled \o q \o (Pending(2) \o ps)
    <3>1. polled \o q \in Seq(Time)
      BY <1>2
    <3> QED
      BY <1>2, <2>2, <2>3, <3>1, Associative
  <2> QED
    BY <1>1, <2>2, <2>3, <2>4 DEF PolledSoFar, q
<1>5. ASSUME NEW t \in Threads, Add(t)
      PROVE  PolledSoFar'
  <2>1. /\ IF 2 = i[t] THEN stream'[Poller].queue = q \o packets[t] ELSE stream'[Poller].queue = q
        /\ IF 2 = i[t] THEN Pending(2) = packets[t] \o Pending(2)' ELSE Pending(2)' = Pending(2)
        /\ packets[t] \in Seq(Time)
    BY <1>1, <1>2, <1>9, <1>5, QueueGrows, PendingShrinks, PacketOf
  <2>2. UNCHANGED <<emitted, polled, wanted>> /\ poll' = poll
    BY <1>1, <1>5, WritesStay, AddEffect DEF NoError
  <2>3. emitted = polled \o stream'[Poller].queue \o Pending(2)'
    <3>1. CASE 2 = i[t]
      <4>1. polled \o q \in Seq(Time)
        BY <1>2
      <4>2. emitted = (polled \o q) \o (packets[t] \o Pending(2)')
        BY <1>2, <2>1, <3>1
      <4>3. (polled \o q) \o (packets[t] \o Pending(2)') = ((polled \o q) \o packets[t]) \o Pending(2)'
        BY <1>3, <2>1, <4>1, Associative
      <4>4. (polled \o q) \o packets[t] = polled \o (q \o packets[t])
        BY <1>2, <2>1, Associative
      <4> QED
        BY <2>1, <3>1, <4>2, <4>3, <4>4
    <3> QED
      BY <1>2, <2>1, <3>1
  <2>4. q # <<>> => stream'[Poller].queue # <<>> /\ Head(stream'[Poller].queue) = Head(q)
    BY SMTT(30), <1>2, <2>1, Concatenation
  <2> QED
    BY <1>1, <2>2, <2>3, <2>4 DEF PolledSoFar, q, IsEmpty
<1>6. CASE PopPolled
  <2>1. /\ poll' = "out" /\ q # <<>> /\ wanted.timestamp = Head(q)
        /\ stream'[Poller].queue = Tail(q)
    BY <1>1, <1>6, <1>9, PopPolledTyped DEF IsEmpty
  <2>2. emitted' = emitted /\ polled' = Append(polled, Head(q))
    BY <1>6, <2>1 DEF PopPolled
  <2>3. Pending(2)' = Pending(2)
    BY <1>6 DEF PopPolled, Pending, PendingOf, Unsent, threadVars
  <2>4. Append(polled, Head(q)) \o Tail(q) = polled \o q
    <3> HIDE DEF q
    <3>1. /\ Head(q) \in Time /\ Tail(q) \in Seq(Time) /\ q = <<Head(q)>> \o Tail(q)
          /\ <<Head(q)>> \in Seq(Time) /\ Append(polled, Head(q)) = polled \o <<Head(q)>>
      BY <1>2, <2>1, Concatenation
    <3>2. (polled \o <<Head(q)>>) \o Tail(q) = polled \o (<<Head(q)>> \o Tail(q))
      BY <1>2, <3>1, Concatenation
    <3> QED
      BY <3>1, <3>2
  <2> QED
    BY <1>2, <2>1, <2>2, <2>3, <2>4 DEF PolledSoFar, q
<1>7. CASE StartRun
  <2>1. stream'[Poller].queue = <<>> /\ emitted' = <<>> /\ polled' = <<>> /\ poll' # "pop"
    BY <1>1, <1>7, NewStreamFields DEF StartRun, Typed
  <2>2. Pending(2)' = <<>>
    BY <1>1, <1>7 DEF StartRun, Pending, PendingOf, Writers, threadVars
  <2> QED
    BY <2>1, <2>2, ConcatEmptySeq, EmptySeq DEF PolledSoFar, q
<1>8. CASE /\ ~(WorkerWrites \/ CloserWrites \/ CleanUpNode) /\ ~StartRun /\ ~PopPolled
           /\ \A t \in Threads : ~Add(t)
  <2>1. Pending(2)' = Pending(2)
    BY <1>8, NothingWritten
  <2>2. CASE TestForOutput
    <3>1. UNCHANGED <<stream, emitted, polled>>
      BY <2>2 DEF TestForOutput, outputVars
    <3>2. poll' = "pop" => ~IsEmpty(stream[Poller]) /\ wanted'.timestamp = Head(stream[Poller].queue)
      BY <1>1, <2>2, MirrorFields DEF TestForOutput, Look
    <3> QED
      BY <1>2, <2>1, <3>1, <3>2 DEF PolledSoFar, q
  <2>3. CASE ~TestForOutput
    <3>1. /\ stream'[Poller].queue = q /\ UNCHANGED <<emitted, polled, wanted>>
          /\ poll' = "pop" => poll = "pop"
      <4> USE <1>9
      <4>1. ASSUME NEW t \in Threads,
                   \/ SetBound(t) \/ NextMirror(t) \/ NotifyPoller(t) \/ EnterNotify(t) \/ LookAtStream(t)
                   \/ Report(t) \/ Recheck(t) \/ Callback(t) \/ NotifyFails(t) \/ EmittedObservedOutput(t)
            PROVE  <3>1!1 /\ <3>1!2
        BY <4>1, QuietQueues DEF Woken
      <4>2. ASSUME NEW t \in Threads, PopObserved(t)
            PROVE  <3>1!1 /\ <3>1!2
        BY <1>1, <4>2, PopObservedTyped DEF PopObserved, pollerVars, Typed
      <4>3. CASE CleanUpMirrors
        BY <1>1, <4>3, MirrorFields, CloseFields DEF CleanUpMirrors, pollerVars, Typed
      <4>4. CASE CallNext \/ Terminate \/ CallWait \/ TestForSignal \/ UNCHANGED vars
        BY <4>4 DEF CallNext, Terminate, CallWait, TestForSignal, vars, outputVars, pollerVars
      <4> QED
        BY <1>8, <2>3, <4>1, <4>2, <4>3, <4>4 DEF Next, CleanUp, WriterStep, Poll
    <3> QED
      BY <1>1, <2>1, <3>1 DEF PolledSoFar, q, IsEmpty
  <2> QED
    BY <2>2, <2>3
<1> QED
  BY <1>4, <1>5, <1>6, <1>7, <1>8

-----------------------------------------------------------------------------
(* The loop of Notify of the observer. *)

LEMMA OneNotifiesKept ==
  ASSUME IInv, [Next]_vars
  PROVE  OneNotifies'
<1>1. /\ Typed /\ Writers /\ InOrder(Observer) /\ InOrder(Poller) /\ ObservedSoFar /\ OneNotifies
  BY DEF IInv
<1>2. pc \in [Threads -> Labels] /\ after \in [Threads -> {"bound", "next"}]
  BY <1>1 DEF Typed
<1>3. ASSUME UNCHANGED notifying_, \A t \in Threads : pc'[t] \in Loop => pc[t] \in Loop
      PROVE  OneNotifies'
  BY <1>1, <1>3 DEF OneNotifies
<1>4. CASE WorkerWrites \/ CloserWrites \/ CleanUpNode
  <2>1. PICK t \in Threads, ps \in Writes, b \in Marks : BeginsWith(t, ps, b)
    BY <1>1, <1>4, Begins
  <2> QED
    BY <1>2, <1>3, <2>1 DEF BeginsWith, Begin, GoTo, observerVars, Loop
<1>5. ASSUME NEW t \in Threads, WriterStep(t)
      PROVE  OneNotifies'
  <2>1. CASE Add(t) \/ SetBound(t)
    BY <1>1, <1>2, <1>3, <2>1, WritesStay DEF Loop
  <2>2. CASE NextMirror(t)
    BY <1>2, <1>3, <2>2 DEF NextMirror, GoTo, observerVars, Loop
  <2>3. CASE NotifyPoller(t)
    BY <1>2, <1>3, <2>3 DEF NotifyPoller, GoTo, observerVars, Loop
  <2>4. CASE EnterNotify(t)
    <3>1. notifying_' = TRUE /\ pc' = [pc EXCEPT ![t] = IF notifying_ THEN "emitted" ELSE "look"]
      BY <2>4 DEF EnterNotify, GoTo
    <3>2. notifying_ \in BOOLEAN
      BY <1>1 DEF Typed
    <3>3. CASE notifying_
      BY <1>1, <1>2, <3>1, <3>3 DEF OneNotifies, Loop
    <3>4. CASE ~notifying_
      <4>1. \A u \in Threads : pc[u] \notin Loop
        BY <1>1, <3>4 DEF OneNotifies
      <4>2. \A u \in Threads : pc'[u] \in Loop => u = t
        BY <1>2, <3>1, <4>1
      <4> QED
        BY <3>1, <4>2 DEF OneNotifies
    <3> QED
      BY <3>2, <3>3, <3>4
  <2>5. CASE LookAtStream(t) \/ Report(t)
    BY <1>2, <1>3, <2>5 DEF LookAtStream, Report, GoTo, observerVars, Loop
  <2>6. CASE Recheck(t)
    <3>1. pc[t] = "recheck" /\ pc[t] \in Loop
      BY <2>6 DEF Recheck, Loop
    <3>2. CASE notifying_' = FALSE /\ GoTo(t, "emitted")
      <4>1. \A u \in Threads : pc'[u] \notin Loop
        BY <1>1, <1>2, <3>1, <3>2 DEF GoTo, OneNotifies, Loop
      <4> QED
        BY <4>1 DEF OneNotifies
    <3>3. CASE GoTo(t, "look") /\ UNCHANGED notifying_
      BY <1>2, <1>3, <3>1, <3>3 DEF GoTo
    <3> QED
      BY <2>6, <3>2, <3>3 DEF Recheck
  <2>7. CASE PopObserved(t)
    BY <1>1, <1>2, <1>3, <2>7, PopObservedTyped DEF PopObserved, observerVars, Loop
  <2>8. CASE Callback(t) \/ NotifyFails(t)
    BY <1>2, <1>3, <2>8 DEF Callback, NotifyFails, GoTo, observerVars, Loop
  <2>9. CASE EmittedObservedOutput(t)
    BY <1>2, <1>3, <2>9 DEF EmittedObservedOutput, GoTo, observerVars, Loop
  <2> QED
    BY <1>5, <2>1, <2>2, <2>3, <2>4, <2>5, <2>6, <2>7, <2>8, <2>9 DEF WriterStep
<1>6. CASE Poll \/ Terminate \/ CallWait \/ TestForSignal \/ CleanUpMirrors \/ StartRun \/ UNCHANGED vars
  <2>1. UNCHANGED <<pc, notifying_>>
    BY <1>6 DEF Poll, CallNext, TestForOutput, PopPolled, Terminate, CallWait, TestForSignal,
                CleanUpMirrors, StartRun, vars, threadVars, observerVars
  <2> QED
    BY <1>3, <2>1
<1> QED
  BY <1>4, <1>5, <1>6 DEF Next, CleanUp

LEMMA Integral ==
  (\A p \in Time : p \in Int) /\ (\A b \in Marks : b \in Int) /\ (\A a \in Timestamp : a \in Int)
  BY Arithmetic

\* A step that takes nothing out of the queue of the observer and puts nothing into it.
LEMMA ObservedAside ==
  ASSUME IInv, Typed', NEW gap \in Seq(Time), InHand(gap),
         stream'[Observer].queue = stream[Observer].queue,
         stream[Observer].next_timestamp_bound_ <= stream'[Observer].next_timestamp_bound_,
         emitted' = observed \o gap \o stream[Observer].queue \o Pending(1)',
         observed' = observed,
         reported' < stream'[Observer].next_timestamp_bound_,
         \A a \in DOMAIN stream[Observer].queue : reported' < stream[Observer].queue[a],
         gap # <<>> => reported' = reported /\ notifying_',
         \A u \in Threads : pc'[u] \in Loop =>
           \/ pc'[u] = pc[u] /\ seen'[u] = seen[u]
           \/ pc'[u] = "recheck" /\ pc[u] = "report" /\ seen'[u] = seen[u]
           \/ pc'[u] = "error"
           \/ pc'[u] = "look" /\ gap = <<>>
           \/ /\ gap = <<>> /\ seen'[u] = Look(Observer)
              /\ pc'[u] = IF IsEmpty(stream[Observer]) THEN "report" ELSE "pop"
  PROVE  ObservedSoFar'
<1> DEFINE q == stream[Observer].queue
           b == stream[Observer].next_timestamp_bound_
           c == stream'[Observer].next_timestamp_bound_
<1>1. /\ Typed /\ ObservedSoFar /\ InOrder(Observer)
  BY DEF IInv
<1>2. /\ q \in Seq(Time) /\ b \in Marks /\ b \in Int /\ \A a \in DOMAIN q : q[a] \in Int
  <2>1. q \in Seq(Time) /\ b \in Marks
    BY <1>1, MirrorFields
  <2>2. \A a \in DOMAIN q : q[a] \in Time
    BY <2>1
  <2> QED
    BY <2>1, <2>2, Integral
<1>3. c \in Marks /\ c \in Int
  BY Arithmetic DEF Typed, Streams
<1>4. DOMAIN gap = 1 .. Len(gap) /\ Len(gap) <= 1 /\ Len(gap) \in Nat
      /\ \A a \in DOMAIN gap : a = 1 /\ gap[a] \in Int
  BY Arithmetic DEF InHand
<1>5. \A u \in Threads : pc[u] = "report" => gap = <<>>
  BY DEF InHand, Loop
<1>6. InHand(gap)'
  <2>1. gap # <<>> => notifying_' /\ (\A t \in Threads : pc'[t] \in Loop => pc'[t] \in {"callback", "error"})
    BY <1>5 DEF InHand
  <2>2. gap # <<>> => gap[1] > reported' /\ gap[1] < c
    <3>1. gap # <<>> => 1 \in DOMAIN gap
      BY <1>4, EmptySeq
    <3> QED
      BY <1>2, <1>3, <1>4, <3>1 DEF InHand
  <2>3. \A t \in Threads : pc'[t] = "callback" => gap = <<seen'[t].timestamp>>
    BY DEF InHand, Loop
  <2> QED
    BY <2>1, <2>2, <2>3 DEF InHand
<1>7. \A t \in Threads : pc'[t] = "pop" => q # <<>> /\ seen'[t].timestamp = Head(q)
  <2> SUFFICES ASSUME NEW t \in Threads, pc'[t] = "pop"
               PROVE  q # <<>> /\ seen'[t].timestamp = Head(q)
    OBVIOUS
  <2>1. CASE pc'[t] = pc[t] /\ seen'[t] = seen[t]
    BY <1>1, <2>1 DEF ObservedSoFar, IsEmpty
  <2>2. CASE seen'[t] = Look(Observer) /\ ~IsEmpty(stream[Observer])
    BY <1>1, <2>2, MirrorFields DEF Look, IsEmpty
  <2> QED
    BY <2>1, <2>2 DEF Loop
<1>8. \A t \in Threads : pc'[t] \in {"report", "recheck"} =>
        /\ seen'[t].timestamp \in Marks
        /\ seen'[t].timestamp <= c
        /\ \A a \in DOMAIN q : seen'[t].timestamp <= q[a]
  <2> SUFFICES ASSUME NEW t \in Threads, pc'[t] \in {"report", "recheck"}
               PROVE  /\ seen'[t].timestamp \in Marks
                      /\ seen'[t].timestamp <= c
                      /\ \A a \in DOMAIN q : seen'[t].timestamp <= q[a]
    OBVIOUS
  <2>1. CASE pc[t] \in {"report", "recheck"} /\ seen'[t] = seen[t]
    <3>1. /\ seen[t].timestamp \in Marks /\ seen[t].timestamp <= b
          /\ \A a \in DOMAIN q : seen[t].timestamp <= q[a]
      BY <1>1, <2>1 DEF ObservedSoFar
    <3>2. seen[t].timestamp \in Int
      BY <3>1, Arithmetic
    <3> QED
      BY <1>2, <1>3, <2>1, <3>1, <3>2
  <2>2. CASE seen'[t] = Look(Observer) /\ IsEmpty(stream[Observer])
    <3>1. seen'[t].timestamp = b /\ q = <<>>
      BY <1>1, <2>2, MirrorFields DEF Look, IsEmpty
    <3>2. \A a \in DOMAIN q : FALSE
      BY <3>1, EmptySeq
    <3> QED
      BY <1>2, <1>3, <3>1, <3>2
  <2> QED
    BY <2>1, <2>2 DEF Loop
<1> QED
  BY <1>6, <1>7, <1>8 DEF ObservedSoFar, IsEmpty

LEMMA BeginObserved ==
  ASSUME IInv, Typed', NEW t \in Threads, NEW ps \in Writes, NEW b \in Marks, BeginsWith(t, ps, b)
  PROVE  ObservedSoFar'
<1> DEFINE q == stream[Observer].queue
<1>1. Typed /\ ObservedSoFar /\ InOrder(Observer)
  BY DEF IInv
<1>2. PICK gap \in Seq(Time) : InHand(gap)
  BY <1>1 DEF ObservedSoFar
<1>3. Pending(1)' = Pending(1) \o ps /\ ps \in Seq(Time) /\ Pending(1) \in Seq(Time)
  BY <1>1, PendingGrows, PendingSeq
<1>4. /\ UNCHANGED <<stream, seen, notifying_, observed, reported>> /\ emitted' = emitted \o ps
      /\ pc' = [pc EXCEPT ![t] = "add"]
  BY DEF BeginsWith, Begin, observerVars, GoTo
<1>5. q \in Seq(Time) /\ observed \in Seq(Time) /\ stream[Observer].next_timestamp_bound_ \in Int
  BY <1>1, MirrorFields, Arithmetic DEF Typed
<1>6. emitted' = observed \o gap \o q \o Pending(1)'
  <2>1. observed \o gap \o q \in Seq(Time)
    BY <1>5, Concatenation
  <2>2. emitted = observed \o gap \o q \o Pending(1)
    BY <1>2 DEF InHand
  <2> HIDE DEF q
  <2>3. ((observed \o gap \o q) \o Pending(1)) \o ps = (observed \o gap \o q) \o (Pending(1) \o ps)
    BY <1>3, <2>1, Associative
  <2> QED
    BY <1>3, <1>4, <2>2, <2>3
<1>7. \A u \in Threads : pc'[u] \in Loop => pc'[u] = pc[u] /\ seen'[u] = seen[u]
  BY <1>1, <1>4 DEF Typed, Loop
<1>8. gap # <<>> => reported' = reported /\ notifying_'
  BY <1>2, <1>4 DEF InHand
<1>9. /\ reported' < stream'[Observer].next_timestamp_bound_
      /\ \A a \in DOMAIN q : reported' < q[a]
      /\ stream[Observer].next_timestamp_bound_ <= stream'[Observer].next_timestamp_bound_
  BY <1>1, <1>4, <1>5 DEF ObservedSoFar
<1> QED
  BY <1>2, <1>4, <1>6, <1>7, <1>8, <1>9, ObservedAside

LEMMA AddObserved ==
  ASSUME IInv, Typed', NEW t \in Threads, Add(t)
  PROVE  ObservedSoFar'
<1> DEFINE s == stream[Observer]
           q == s.queue
           p == packets[t][1]
<1> USE ThreadNames
<1>1. Typed /\ Writers /\ ObservedSoFar /\ InOrder(Observer) /\ InOrder(Poller)
  BY DEF IInv
<1>2. PICK gap \in Seq(Time) : InHand(gap)
  BY <1>1 DEF ObservedSoFar
<1>3. /\ q \in Seq(Time) /\ observed \in Seq(Time) /\ Pending(1) \in Seq(Time)
      /\ s.next_timestamp_bound_ \in Int /\ packets[t] \in Seq(Time) /\ reported \in Int
      /\ pc \in [Threads -> Labels] /\ stream \in [{Observer, Poller} -> Streams]
  BY <1>1, MirrorFields, Arithmetic, PendingSeq, PacketOf DEF Typed
<1>4. /\ UNCHANGED <<seen, notifying_, observed, reported, emitted>> /\ pc[t] = "add"
      /\ pc' = [pc EXCEPT ![t] = pc'[t]] /\ pc'[t] \notin Loop
  BY <1>1, WritesStay DEF Add, Loop
<1>5. /\ \A u \in Threads : pc'[u] \in Loop => pc'[u] = pc[u] /\ seen'[u] = seen[u]
      /\ gap # <<>> => reported' = reported /\ notifying_'
  BY <1>2, <1>3, <1>4 DEF InHand
<1>6. CASE i[t] # 1 \/ packets[t] = <<>>
  <2>1. stream'[Observer] = s
    <3>1. Mirrors[i[t]] # Observer \/ packets[t] = <<>>
      BY <1>1, <1>6, MirrorOf
    <3> QED
      BY <1>1, <1>3, <3>1, AddEffect
  <2>2. Pending(1)' = Pending(1)
    <3>1. IF 1 = i[t] THEN Pending(1) = packets[t] \o Pending(1)' ELSE Pending(1)' = Pending(1)
      BY PendingShrinks
    <3>2. Pending(1)' \in Seq(Time)
      BY PendingSeqNext
    <3> QED
      BY <1>6, <3>1, <3>2, Concatenation
  <2>3. /\ emitted' = observed \o gap \o q \o Pending(1)'
        /\ reported' < stream'[Observer].next_timestamp_bound_
        /\ \A a \in DOMAIN q : reported' < q[a]
        /\ s.next_timestamp_bound_ <= stream'[Observer].next_timestamp_bound_
    <3>1. emitted = observed \o gap \o q \o Pending(1)
      BY <1>2 DEF InHand
    <3>2. reported < s.next_timestamp_bound_ /\ \A a \in DOMAIN q : reported < q[a]
      BY <1>1 DEF ObservedSoFar
    <3>3. s.next_timestamp_bound_ <= s.next_timestamp_bound_
      BY <1>3
    <3> QED
      BY <1>4, <2>1, <2>2, <3>1, <3>2, <3>3
  <2> QED
    BY <1>2, <1>4, <1>5, <2>1, <2>3, ObservedAside
<1>7. CASE i[t] = 1 /\ packets[t] # <<>>
  <2>1. Mirrors[i[t]] = Observer
    BY <1>1, <1>7, MirrorOf
  <2>2. /\ p \in Time /\ p \in Int /\ packets[t] = <<p>> /\ NextAllowedInStream(p) \in Int
        /\ NextAllowedInStream(p) \in Marks /\ p < NextAllowedInStream(p)
    <3>1. p \in Time /\ packets[t] = <<p>>
      BY <1>1, <1>7, PacketOf
    <3> HIDE DEF p
    <3>2. NextAllowedInStream(p) \in Marks /\ p < NextAllowedInStream(p)
      BY <3>1, Arithmetic
    <3> QED
      BY <3>1, <3>2, Integral
  <2>3. s.next_timestamp_bound_ <= p /\ stream' = [stream EXCEPT ![Observer] = Accept(s, p)]
    BY <1>1, <1>7, <2>1, AddEffect
  <2>4. /\ stream'[Observer].queue = Append(q, p)
        /\ stream'[Observer].next_timestamp_bound_ = NextAllowedInStream(p)
    <3>1. s \in Streams
      BY <1>3
    <3>2. Accept(s, p).queue = Append(q, p) /\ Accept(s, p).next_timestamp_bound_ = NextAllowedInStream(p)
      BY <2>2, <2>3, <3>1, AcceptFields
    <3> QED
      BY <1>3, <2>3, <3>2
  <2>5. emitted = observed \o gap \o Append(q, p) \o Pending(1)'
    <3> HIDE DEF q, p
    <3>1. Pending(1) = <<p>> \o Pending(1)' /\ Pending(1)' \in Seq(Time) /\ <<p>> \in Seq(Time)
      <4>1. IF 1 = i[t] THEN Pending(1) = packets[t] \o Pending(1)' ELSE Pending(1)' = Pending(1)
        BY PendingShrinks
      <4>2. <<p>> \in Seq(Time) /\ Pending(1)' \in Seq(Time)
        BY <2>2, PendingSeqNext
      <4> QED
        BY <1>7, <2>2, <4>1, <4>2
    <3>2. Append(q, p) = q \o <<p>>
      BY <1>3, <2>2
    <3>3. emitted = (observed \o gap \o q) \o (<<p>> \o Pending(1)')
      BY <1>2, <3>1 DEF InHand, q
    <3>4. q \in Seq(Time) /\ observed \in Seq(Time)
      BY <1>3
    <3>5. (observed \o gap \o q) \o (<<p>> \o Pending(1)') = (observed \o gap) \o (q \o <<p>>) \o Pending(1)'
      <4> DEFINE o == observed \o gap
                 z == <<p>>
                 r == Pending(1)'
                 v == o \o q
      <4>1. o \in Seq(Time) /\ v \in Seq(Time)
        BY <3>4
      <4>2. z \in Seq(Time) /\ r \in Seq(Time)
        BY <3>1
      <4>3. q \in Seq(Time)
        BY <3>4
      <4> HIDE DEF o, z, r
      <4>4. v \o z = o \o (q \o z)
        BY ONLY SMTT(30), <4>1, <4>2, <4>3, Associative
      <4> HIDE DEF v
      <4>5. (v \o z) \o r = v \o (z \o r)
        BY ONLY <4>1, <4>2, Associative
      <4>6. v \o (z \o r) = (o \o (q \o z)) \o r
        BY ONLY <4>4, <4>5
      <4> QED
        BY <4>6 DEF o, z, r, v
    <3> QED
      BY <3>2, <3>3, <3>5
  <2>6. /\ Len(q) \in Nat /\ DOMAIN q = 1 .. Len(q) /\ q # <<>> => Append(q, p) # <<>> /\ Head(Append(q, p)) = Head(q)
    BY SMTT(30), <1>3, <2>2
  <2>7. \A a \in DOMAIN Append(q, p) :
          \/ a \in DOMAIN q /\ Append(q, p)[a] = q[a]
          \/ a = Len(q) + 1 /\ Append(q, p)[a] = p
    BY <1>3, <2>2
  <2>8. \A a \in DOMAIN gap : gap[a] < s.next_timestamp_bound_ /\ gap[a] \in Int /\ gap[a] < p
    <3>1. \A a \in DOMAIN gap : gap[a] \in Time /\ a \in 1 .. Len(gap) /\ Len(gap) <= 1
      BY <1>2 DEF InHand
    <3>2. \A a \in DOMAIN gap : a = 1 /\ gap # <<>> /\ gap[a] \in Int
      BY <3>1, Arithmetic, EmptySeq
    <3> QED
      BY <1>2, <1>3, <2>2, <2>3, <3>2 DEF InHand
  <2>9. \A a \in DOMAIN gap, b \in DOMAIN Append(q, p) : gap[a] < Append(q, p)[b]
    BY <1>2, <2>7, <2>8 DEF InHand
  <2>10. gap # <<>> => gap[1] < NextAllowedInStream(p)
    <3>1. gap # <<>> => 1 \in DOMAIN gap
      BY EmptySeq
    <3> QED
      BY <2>2, <2>8, <3>1
  <2>11. InHand(gap)'
    BY <1>2, <1>4, <1>5, <2>4, <2>5, <2>9, <2>10 DEF InHand, Loop
  <2>12. reported < s.next_timestamp_bound_ /\ reported < p /\ reported < NextAllowedInStream(p)
    BY <1>1, <1>3, <2>2, <2>3 DEF ObservedSoFar
  <2>13. \A a \in DOMAIN Append(q, p) : reported < Append(q, p)[a]
    BY <1>1, <2>7, <2>12 DEF ObservedSoFar
  <2>14. \A u \in Threads : pc'[u] = "pop" =>
           Append(q, p) # <<>> /\ seen'[u].timestamp = Head(Append(q, p))
    <3>1. q # <<>> => Append(q, p) # <<>> /\ Head(Append(q, p)) = Head(q)
      <4> HIDE DEF q, p
      <4>1. q \in Seq(Time) /\ <<p>> \in Seq(Time) /\ Append(q, p) = q \o <<p>>
        BY <1>3, <2>2
      <4> QED
        BY <4>1, Concatenation
    <3>2. \A u \in Threads : pc'[u] = "pop" => pc[u] = "pop" /\ seen'[u] = seen[u]
      BY <1>5 DEF Loop
    <3> QED
      BY <1>1, <3>1, <3>2 DEF ObservedSoFar, IsEmpty
  <2>15. \A u \in Threads : pc'[u] \in {"report", "recheck"} =>
           /\ seen'[u].timestamp \in Marks /\ seen'[u].timestamp <= NextAllowedInStream(p)
           /\ \A a \in DOMAIN Append(q, p) : seen'[u].timestamp <= Append(q, p)[a]
    <3> SUFFICES ASSUME NEW u \in Threads, pc'[u] \in {"report", "recheck"}
                 PROVE  /\ seen[u].timestamp \in Marks /\ seen[u].timestamp <= NextAllowedInStream(p)
                        /\ \A a \in DOMAIN Append(q, p) : seen[u].timestamp <= Append(q, p)[a]
      BY <1>4
    <3>1. pc[u] \in {"report", "recheck"}
      BY <1>5 DEF Loop
    <3>2. /\ seen[u].timestamp \in Marks /\ seen[u].timestamp <= s.next_timestamp_bound_
          /\ \A a \in DOMAIN q : seen[u].timestamp <= q[a]
      BY <1>1, <3>1 DEF ObservedSoFar
    <3>3. seen[u].timestamp \in Int /\ seen[u].timestamp <= p /\ seen[u].timestamp <= NextAllowedInStream(p)
      BY <1>3, <2>2, <2>3, <3>2, Integral
    <3> QED
      BY <2>7, <3>2, <3>3
  <2> QED
    BY <1>4, <2>4, <2>11, <2>12, <2>13, <2>14, <2>15 DEF ObservedSoFar, IsEmpty
<1> QED
  BY <1>6, <1>7

\* The head of the queue passes into the hands of the thread that notifies.
LEMMA PopObservedObserved ==
  ASSUME IInv, Typed', NEW t \in Threads, PopObserved(t)
  PROVE  ObservedSoFar'
<1> DEFINE s == stream[Observer]
           q == s.queue
           r == Pending(1)
<1> USE ThreadNames
<1>1. Typed /\ Writers /\ ObservedSoFar /\ InOrder(Observer) /\ OneNotifies
  BY DEF IInv
<1>2. PICK gap \in Seq(Time) : InHand(gap)
  BY <1>1 DEF ObservedSoFar
<1>0. PICK h : h = Head(q)
  OBVIOUS
<1>3. /\ pc[t] = "pop" /\ pc' = [pc EXCEPT ![t] = "callback"] /\ q # <<>>
      /\ seen[t].timestamp = h /\ stream'[Observer].queue = Tail(q)
      /\ stream'[Observer].next_timestamp_bound_ = s.next_timestamp_bound_
  BY <1>0, <1>1, PopObservedTyped DEF IsEmpty
<1>4. UNCHANGED <<seen, notifying_, observed, reported, emitted>>
  BY DEF PopObserved, observerVars
<1>5. /\ q \in Seq(Time) /\ observed \in Seq(Time) /\ r \in Seq(Time)
      /\ s.next_timestamp_bound_ \in Int /\ pc \in [Threads -> Labels]
  BY <1>1, MirrorFields, Integral, PendingSeq DEF Typed
<1>6. /\ \A u \in Threads : pc[u] \in Loop => u = t
      /\ gap = <<>> /\ notifying_
  BY <1>1, <1>2, <1>3 DEF OneNotifies, InHand, Loop
<1>7. /\ h \in Time /\ h = q[1] /\ <<h>> \in Seq(Time) /\ q = <<h>> \o Tail(q)
      /\ Tail(q) \in Seq(Time) /\ 1 \in DOMAIN q
      /\ \A a \in DOMAIN Tail(q) : a + 1 \in DOMAIN q /\ Tail(q)[a] = q[a + 1] /\ 1 < a + 1
  BY <1>0, <1>3, <1>5
<1>8. Pending(1)' = r
  BY <1>3, <1>5 DEF PopObserved, Pending, PendingOf, Unsent
<1>9. emitted = observed \o <<h>> \o Tail(q) \o r
  <2> DEFINE z == <<h>>
             v == Tail(q)
  <2>1. emitted = (observed \o q) \o r
    BY <1>2, <1>5, <1>6, Concatenation DEF InHand
  <2>2. q = z \o v /\ z \in Seq(Time) /\ v \in Seq(Time) /\ observed \in Seq(Time)
    BY <1>5, <1>7
  <2> HIDE DEF z, v, q
  <2>3. observed \o (z \o v) = (observed \o z) \o v
    BY ONLY <2>2, Associative
  <2> QED
    BY <2>1, <2>2, <2>3 DEF z, v
<1>10. InHand(<<h>>)'
  <2>1. \A a \in DOMAIN Tail(q) : h < Tail(q)[a]
    BY <1>1, <1>7 DEF InOrder
  <2>2. h < s.next_timestamp_bound_ /\ reported < h
    BY <1>1, <1>7 DEF InOrder, ObservedSoFar
  <2>3. h > reported
    BY <2>2, <1>7, <1>1, Integral DEF Typed
  <2>4. \A u \in Threads : pc'[u] \in Loop => u = t /\ pc'[u] = "callback"
    BY <1>3, <1>5, <1>6
  <2>5. /\ Len(<<h>>) = 1 /\ DOMAIN <<h>> = {1} /\ <<h>>[1] = h /\ <<h>> # <<>>
    OBVIOUS
  <2> HIDE DEF q
  <2>6. seen'[t].timestamp = h
    BY <1>3, <1>4
  <2>7. \A a \in DOMAIN <<h>>, b \in DOMAIN Tail(q) : <<h>>[a] < Tail(q)[b]
    BY <2>1, <2>5
  <2>8. \A u \in Threads : pc'[u] = "callback" => <<h>> = <<seen'[u].timestamp>>
    BY <2>4, <2>6 DEF Loop
  <2>9. /\ emitted' = observed' \o <<h>> \o stream'[Observer].queue \o Pending(1)'
        /\ \A a \in DOMAIN <<h>>, b \in DOMAIN stream'[Observer].queue :
             <<h>>[a] < stream'[Observer].queue[b]
    BY <1>3, <1>4, <1>8, <1>9, <2>7
  <2>10. /\ <<h>>[1] > reported' /\ <<h>>[1] < stream'[Observer].next_timestamp_bound_
         /\ Len(<<h>>) <= 1
    BY <1>3, <1>4, <2>2, <2>3, <2>5
  <2>11. notifying_' /\ \A u \in Threads : pc'[u] \in Loop => pc'[u] \in {"callback", "error"}
    BY <1>4, <1>6, <2>4
  <2> QED
    BY <2>8, <2>9, <2>10, <2>11 DEF InHand
<1>11. \A a \in DOMAIN Tail(q) : reported < Tail(q)[a]
  BY <1>1, <1>7 DEF ObservedSoFar
<1>12. \A u \in Threads : pc'[u] \notin {"pop", "report", "recheck"}
  BY <1>3, <1>5, <1>6 DEF Loop
<1>13. reported < s.next_timestamp_bound_
  BY <1>1 DEF ObservedSoFar
<1>14. <<h>> \in Seq(Time)
  BY <1>7
<1>15. /\ reported' < stream'[Observer].next_timestamp_bound_
       /\ \A a \in DOMAIN stream'[Observer].queue : reported' < stream'[Observer].queue[a]
  BY <1>3, <1>4, <1>11, <1>13
<1> HIDE DEF q, s, r
<1> QED
  BY <1>10, <1>12, <1>14, <1>15 DEF ObservedSoFar

\* It leaves them when the callback returns, and stays in them when the callback fails.
LEMMA CallbackObserved ==
  ASSUME IInv, Typed', NEW t \in Threads, Callback(t)
  PROVE  ObservedSoFar'
<1> DEFINE s == stream[Observer]
           q == s.queue
           h == seen[t].timestamp
           r == Pending(1)
<1> USE ThreadNames
<1>1. Typed /\ Writers /\ ObservedSoFar /\ InOrder(Observer) /\ OneNotifies
  BY DEF IInv
<1>2. PICK gap \in Seq(Time) : InHand(gap)
  BY <1>1 DEF ObservedSoFar
<1>3. pc[t] = "callback" /\ UNCHANGED <<stream, emitted, notifying_>>
  BY DEF Callback, outputVars
<1>4. gap = <<h>> /\ h \in Time
  BY <1>1, <1>2, <1>3, CallbackTyped DEF InHand
<1>5. /\ q \in Seq(Time) /\ observed \in Seq(Time) /\ r \in Seq(Time) /\ pc \in [Threads -> Labels]
      /\ s.next_timestamp_bound_ \in Int
  BY <1>1, MirrorFields, PendingSeq, Integral DEF Typed
<1>6. /\ \A u \in Threads : pc[u] \in Loop => u = t
      /\ pc' = [pc EXCEPT ![t] = pc'[t]] /\ pc'[t] \in {"look", "error"}
      /\ notifying_
  BY <1>1, <1>3, <1>5 DEF OneNotifies, Callback, GoTo, Loop
<1>7. Pending(1)' = r
  BY <1>3, <1>6, <1>5 DEF Callback, Pending, PendingOf, Unsent
<1>8. emitted = observed \o gap \o q \o r
  BY <1>2 DEF InHand
<1>9. CASE UNCHANGED <<last_processed_ts_, observed, reported>> /\ GoTo(t, "error")
  <2>1. \A u \in Threads : pc'[u] \in Loop => pc'[u] = "error"
    BY <1>5, <1>6, <1>9 DEF GoTo
  <2>2. /\ reported < s.next_timestamp_bound_ /\ \A a \in DOMAIN q : reported < q[a]
        /\ s.next_timestamp_bound_ <= s.next_timestamp_bound_
    BY <1>1, <1>5 DEF ObservedSoFar
  <2> QED
    BY <1>2, <1>3, <1>6, <1>7, <1>8, <1>9, <2>1, <2>2, ObservedAside
<1>10. CASE /\ observed' = Append(observed, h) /\ reported' = h /\ GoTo(t, "look")
  <2>1. \A u \in Threads : pc'[u] \in Loop => pc'[u] = "look"
    BY <1>5, <1>6, <1>10 DEF GoTo
  <2>2. h < s.next_timestamp_bound_ /\ \A a \in DOMAIN q : h < q[a]
    <3>1. gap # <<>> /\ gap[1] = h /\ 1 \in DOMAIN gap
      BY <1>4
    <3> QED
      BY <1>2, <3>1 DEF InHand
  <2>3. emitted = observed' \o <<>> \o q \o r
    <3>1. observed' = observed \o gap /\ observed' \in Seq(Time)
      BY <1>4, <1>5, <1>10, Concatenation
    <3>2. observed' \o <<>> = observed'
      BY <3>1, ConcatEmptySeq
    <3> QED
      BY <1>8, <3>1, <3>2
  <2>4. /\ <<>> \in Seq(Time) /\ Len(<<>>) = 0 /\ \A a \in DOMAIN <<>> : FALSE
    BY EmptySeq
  <2>5. InHand(<<>>)'
    <3>1. \A u \in Threads : pc'[u] = "callback" => FALSE
      BY <2>1 DEF Loop
    <3> HIDE DEF q, h, r
    <3>2. emitted' = observed' \o <<>> \o stream'[Observer].queue \o Pending(1)'
      BY <1>3, <1>7, <2>3 DEF q
    <3>3. Len(<<>>) <= 1
      BY <2>4
    <3> QED
      BY <2>4, <3>1, <3>2, <3>3 DEF InHand
  <2> QED
    BY <1>3, <1>10, <2>1, <2>2, <2>4, <2>5 DEF ObservedSoFar, Loop
<1> QED
  BY <1>9, <1>10 DEF Callback

LEMMA StartRunObserved ==
  ASSUME IInv, StartRun
  PROVE  ObservedSoFar'
<1>1. Typed /\ Writers
  BY DEF IInv
<1>2. \A t \in Threads : pc[t] = "idle" /\ packets[t] = <<>>
  BY <1>1, ThreadNames DEF StartRun, Writers
<1>3. /\ UNCHANGED <<pc, seen, packets, notifying_>> /\ emitted' = <<>> /\ observed' = <<>>
      /\ reported' = Unstarted /\ stream'[Observer] = NewStream(TRUE)
  BY <1>1 DEF StartRun, threadVars, Typed
<1>4. /\ stream'[Observer].queue = <<>> /\ stream'[Observer].next_timestamp_bound_ = PreStream
  BY <1>3, NewStreamFields
<1>5. Pending(1)' = <<>>
  BY <1>2, <1>3, ThreadNames DEF Pending, PendingOf
<1>6. /\ <<>> \in Seq(Time) /\ Len(<<>>) <= 1 /\ \A a \in DOMAIN <<>> : FALSE
      /\ <<>> \o <<>> = <<>>
  BY EmptySeq, ConcatEmptySeq
<1>7. Unstarted < PreStream
  BY DEF Unstarted, PreStream
<1>8. \A t \in Threads : pc'[t] \notin Loop /\ pc'[t] \notin {"pop", "report", "recheck", "callback"}
  BY <1>2, <1>3 DEF Loop
<1>9. InHand(<<>>)'
  BY <1>3, <1>4, <1>5, <1>6, <1>8 DEF InHand
<1> QED
  BY <1>3, <1>4, <1>6, <1>7, <1>8, <1>9 DEF ObservedSoFar

LEMMA ObservedSoFarKept ==
  ASSUME IInv, [Next]_vars
  PROVE  ObservedSoFar'
<1> USE ThreadNames
<1> DEFINE s == stream[Observer]
           q == s.queue
<1>1. /\ Typed /\ Writers /\ ObservedSoFar /\ InOrder(Observer) /\ InOrder(Poller) /\ OneNotifies
      /\ PolledSoFar /\ Typed'
  BY TypedKept DEF IInv
<1>2. PICK gap \in Seq(Time) : InHand(gap)
  BY <1>1 DEF ObservedSoFar
<1>3. /\ stream \in [{Observer, Poller} -> Streams] /\ pc \in [Threads -> Labels]
      /\ s.next_timestamp_bound_ \in Int /\ reported \in Int /\ seen \in [Threads -> Looks]
      /\ s.next_timestamp_bound_ <= s.next_timestamp_bound_ /\ q \in Seq(Time)
  BY SMTT(30), <1>1, MirrorFields, Integral DEF Typed
<1>4. /\ reported < s.next_timestamp_bound_ /\ \A a \in DOMAIN q : reported < q[a]
      /\ emitted = observed \o gap \o q \o Pending(1)
      /\ gap # <<>> => notifying_
      /\ \A u \in Threads : pc[u] \in Loop \ {"callback", "error"} => gap = <<>>
  BY <1>1, <1>2 DEF ObservedSoFar, InHand
<1>5. CASE WorkerWrites \/ CloserWrites \/ CleanUpNode
  BY <1>1, <1>5, Begins, BeginObserved
<1>6. CASE StartRun
  BY <1>6, StartRunObserved
<1>7. ASSUME NEW t \in Threads, Add(t) \/ PopObserved(t) \/ Callback(t)
      PROVE  ObservedSoFar'
  BY <1>1, <1>7, AddObserved, PopObservedObserved, CallbackObserved
<1>8. CASE /\ ~(WorkerWrites \/ CloserWrites \/ CleanUpNode) /\ ~StartRun
           /\ \A t \in Threads : ~Add(t) /\ ~PopObserved(t) /\ ~Callback(t)
  <2>1. Pending(1)' = Pending(1)
    BY <1>8, NothingWritten
  <2>2. /\ stream'[Observer].queue = q
        /\ s.next_timestamp_bound_ <= stream'[Observer].next_timestamp_bound_
        /\ UNCHANGED <<emitted, observed>>
    <3>1. ASSUME NEW t \in Threads, SetBound(t)
          PROVE  <2>2!1 /\ <2>2!2 /\ <2>2!3
      <4>1. PICK set \in Streams :
              /\ stream' = [stream EXCEPT ![Mirrors[i[t]]] = set]
              /\ set.queue = stream[Mirrors[i[t]]].queue
              /\ \/ set = stream[Mirrors[i[t]]]
                 \/ /\ stream[Mirrors[i[t]]].next_timestamp_bound_ < bound[t]
                    /\ set.next_timestamp_bound_ = bound[t]
        BY <1>1, <3>1, SetBoundEffect
      <4>2. stream'[Observer] = IF Mirrors[i[t]] = Observer THEN set ELSE s
        BY <1>1, <1>3, <4>1, MirrorOf
      <4>3. UNCHANGED <<emitted, observed>> /\ bound[t] \in Int
        <5>1. bound[t] \in Marks
          BY <1>1, <3>1 DEF SetBound, Writers
        <5> QED
          BY <1>1, <3>1, <5>1, WritesStay, Integral
      <4> QED
        BY <1>3, <4>1, <4>2, <4>3
    <3>2. CASE PopPolled
      BY <1>1, <1>3, <3>2, PopPolledTyped DEF PopPolled, observerVars
    <3>3. CASE CleanUpMirrors
      <4>1. stream'[Observer] = Close(s) /\ UNCHANGED <<emitted, observed>>
        BY <1>3, <3>3 DEF CleanUpMirrors, observerVars
      <4>2. stream'[Observer].queue = q /\ stream'[Observer].next_timestamp_bound_ = Done
        BY <1>3, <4>1, CloseFields
      <4>3. s.next_timestamp_bound_ <= Done
        BY <1>3, Arithmetic DEF Streams
      <4> QED
        BY <4>1, <4>2, <4>3
    <3>4. ASSUME NEW t \in Threads,
                 \/ NextMirror(t) \/ NotifyPoller(t) \/ EnterNotify(t) \/ LookAtStream(t)
                 \/ Report(t) \/ Recheck(t) \/ NotifyFails(t) \/ EmittedObservedOutput(t)
          PROVE  UNCHANGED <<stream, emitted, observed>>
      BY <3>4 DEF NextMirror, NotifyPoller, EnterNotify, LookAtStream, Report, Recheck, NotifyFails,
                  EmittedObservedOutput, outputVars, observerVars
    <3>5. CASE CallNext \/ TestForOutput \/ Terminate \/ CallWait \/ TestForSignal \/ UNCHANGED vars
      BY <1>3, <3>5 DEF CallNext, TestForOutput, Terminate, CallWait, TestForSignal, vars,
                        outputVars, observerVars
    <3> QED
      BY <1>3, <1>8, <3>1, <3>2, <3>3, <3>4, <3>5 DEF Next, CleanUp, WriterStep, Poll
  <2> DEFINE Follows ==
               /\ reported' < stream'[Observer].next_timestamp_bound_
               /\ \A a \in DOMAIN q : reported' < q[a]
               /\ gap # <<>> => reported' = reported /\ notifying_'
               /\ \A u \in Threads : pc'[u] \in Loop =>
                    \/ pc'[u] = pc[u] /\ seen'[u] = seen[u]
                    \/ pc'[u] = "recheck" /\ pc[u] = "report" /\ seen'[u] = seen[u]
                    \/ pc'[u] = "error"
                    \/ pc'[u] = "look" /\ gap = <<>>
                    \/ /\ gap = <<>> /\ seen'[u] = Look(Observer)
                       /\ pc'[u] = IF IsEmpty(s) THEN "report" ELSE "pop"
  <2>3. stream'[Observer].next_timestamp_bound_ \in Int
    <3>1. stream'[Observer].next_timestamp_bound_ \in Marks
      BY <1>1 DEF Typed, Streams
    <3> QED
      BY <3>1, Integral
  <2>4. reported < stream'[Observer].next_timestamp_bound_
    BY <1>3, <1>4, <2>2, <2>3
  <2>5. ASSUME UNCHANGED <<reported, notifying_>>, NEW t \in Threads,
               \A u \in Threads : u # t => pc'[u] = pc[u] /\ seen'[u] = seen[u],
               pc'[t] \in Loop =>
                    \/ pc'[t] = pc[t] /\ seen'[t] = seen[t]
                    \/ pc'[t] = "recheck" /\ pc[t] = "report" /\ seen'[t] = seen[t]
                    \/ pc'[t] = "error"
                    \/ pc'[t] = "look" /\ gap = <<>>
                    \/ /\ gap = <<>> /\ seen'[t] = Look(Observer)
                       /\ pc'[t] = IF IsEmpty(s) THEN "report" ELSE "pop"
        PROVE  Follows
    BY <1>4, <2>4, <2>5
  <2> HIDE DEF Follows
  <2>6. ASSUME NEW t \in Threads, SetBound(t) \/ NextMirror(t) \/ NotifyPoller(t) \/ EmittedObservedOutput(t)
        PROVE  Follows
    <3>1. UNCHANGED <<reported, notifying_, seen>>
      BY <1>1, <2>6, WritesStay DEF NextMirror, NotifyPoller, EmittedObservedOutput, observerVars
    <3>2. \A u \in Threads : u # t => pc'[u] = pc[u]
      BY <1>1, <1>3, <2>6, WritesStay DEF NextMirror, NotifyPoller, EmittedObservedOutput, GoTo
    <3>3. pc'[t] \notin Loop
      <4>1. after[t] \notin Loop
        BY <1>1 DEF Typed, Loop
      <4> QED
        BY <1>1, <1>3, <2>6, <4>1, WritesStay DEF NextMirror, NotifyPoller, EmittedObservedOutput, GoTo, Loop
    <3> QED
      BY <2>5, <3>1, <3>2, <3>3
  <2>7. ASSUME NEW t \in Threads, EnterNotify(t)
        PROVE  Follows
    <3>1. CASE notifying_
      <4>1. UNCHANGED <<reported, seen>> /\ pc' = [pc EXCEPT ![t] = "emitted"] /\ notifying_' = TRUE
        BY <2>7, <3>1 DEF EnterNotify, GoTo
      <4>2. \A u \in Threads : pc'[u] \in Loop => pc'[u] = pc[u] /\ seen'[u] = seen[u]
        BY <1>3, <4>1 DEF Loop
      <4> QED
        BY <1>4, <2>4, <4>1, <4>2 DEF Follows
    <3>2. CASE ~notifying_
      <4>1. UNCHANGED <<reported, seen>> /\ pc' = [pc EXCEPT ![t] = "look"] /\ gap = <<>>
        BY <1>4, <2>7, <3>2 DEF EnterNotify, GoTo
      <4> QED
        BY <1>3, <1>4, <2>4, <4>1 DEF Follows
    <3> QED
      BY <3>1, <3>2
  <2>8. ASSUME NEW t \in Threads, LookAtStream(t)
        PROVE  Follows
    <3>1. gap = <<>>
      BY <1>4, <2>8 DEF LookAtStream, Loop
    <3>2. /\ UNCHANGED <<reported, notifying_>> /\ seen' = [seen EXCEPT ![t] = Look(Observer)]
          /\ pc' = [pc EXCEPT ![t] = IF IsEmpty(s) THEN "report" ELSE "pop"]
      BY <2>8 DEF LookAtStream, observerVars, GoTo
    <3> QED
      BY <1>3, <2>5, <3>1, <3>2
  <2>9. ASSUME NEW t \in Threads, Report(t)
        PROVE  Follows
    <3>1. pc[t] = "report" /\ gap = <<>>
      BY <1>4, <2>9 DEF Report, Loop
    <3>2. /\ seen[t].timestamp \in Marks /\ seen[t].timestamp <= s.next_timestamp_bound_
          /\ \A a \in DOMAIN q : seen[t].timestamp <= q[a]
      BY <1>1, <3>1 DEF ObservedSoFar
    <3>3. Settled(seen[t].timestamp) < seen[t].timestamp /\ Settled(seen[t].timestamp) \in Int
      BY <3>2, Arithmetic DEF Settled
    <3>4. /\ UNCHANGED seen /\ \E l \in {"recheck", "error"} : pc' = [pc EXCEPT ![t] = l]
          /\ reported' = reported \/ reported' = Settled(seen[t].timestamp)
      BY <2>9 DEF Report, GoTo
    <3>5. reported' < stream'[Observer].next_timestamp_bound_ /\ \A a \in DOMAIN q : reported' < q[a]
      <4>1. CASE reported' = reported
        BY <1>4, <2>4, <4>1
      <4>2. CASE reported' = Settled(seen[t].timestamp)
        <5>1. seen[t].timestamp \in Int /\ \A a \in DOMAIN q : q[a] \in Int
          <6>1. \A a \in DOMAIN q : q[a] \in Time
            BY <1>3
          <6> QED
            BY <3>2, <6>1, Integral
        <5> QED
          BY <1>3, <2>2, <2>3, <3>2, <3>3, <4>2, <5>1
      <4> QED
        BY <3>4, <4>1, <4>2
    <3>6. \A u \in Threads : pc'[u] \in Loop =>
            \/ pc'[u] = pc[u] /\ seen'[u] = seen[u]
            \/ pc'[u] = "recheck" /\ pc[u] = "report" /\ seen'[u] = seen[u]
            \/ pc'[u] = "error"
      BY <1>3, <3>1, <3>4
    <3> QED
      BY <3>1, <3>5, <3>6 DEF Follows
  <2>10. ASSUME NEW t \in Threads, Recheck(t)
         PROVE  Follows
    <3>1. gap = <<>>
      BY <1>4, <2>10 DEF Recheck, Loop
    <3>2. /\ UNCHANGED reported /\ \E l \in {"emitted", "look"} : pc' = [pc EXCEPT ![t] = l]
          /\ \A u \in Threads : u # t => seen'[u] = seen[u]
      BY <1>3, <2>10 DEF Recheck, GoTo, Forget
    <3>3. \A u \in Threads : pc'[u] \in Loop =>
            \/ pc'[u] = pc[u] /\ seen'[u] = seen[u]
            \/ pc'[u] = "look"
      BY <1>3, <3>2 DEF Loop
    <3> QED
      BY <1>4, <2>4, <3>1, <3>2, <3>3 DEF Follows
  <2>11. ASSUME NEW t \in Threads, NotifyFails(t)
         PROVE  Follows
    BY <1>3, <2>5, <2>11 DEF NotifyFails, GoTo, Forget, observerVars, Loop
  <2>12. ASSUME \/ CallNext \/ TestForOutput \/ PopPolled \/ Terminate \/ CallWait \/ TestForSignal
                \/ CleanUpMirrors \/ UNCHANGED vars
         PROVE  Follows
    <3>1. UNCHANGED <<pc, seen, reported, notifying_>>
      BY <2>12 DEF CallNext, TestForOutput, PopPolled, Terminate, CallWait, TestForSignal,
                   CleanUpMirrors, vars, threadVars, observerVars
    <3>2. \A u \in Threads : pc'[u] = pc[u] /\ seen'[u] = seen[u]
      BY <3>1
    <3>3. gap # <<>> => reported' = reported /\ notifying_'
      BY <1>4, <3>1
    <3> QED
      BY <1>4, <2>4, <3>1, <3>2, <3>3 DEF Follows
  <2>13. Follows
    <3>1. ASSUME NEW t \in Threads, WriterStep(t)
          PROVE  Follows
      BY <1>8, <3>1, <2>6, <2>7, <2>8, <2>9, <2>10, <2>11 DEF WriterStep
    <3>2. \/ \E t \in Threads : WriterStep(t)
          \/ CallNext \/ TestForOutput \/ PopPolled \/ Terminate \/ CallWait \/ TestForSignal
          \/ CleanUpMirrors \/ UNCHANGED vars
      BY <1>8 DEF Next, CleanUp, Poll
    <3> QED
      BY <2>12, <3>1, <3>2
  <2>14. /\ reported' < stream'[Observer].next_timestamp_bound_
         /\ \A a \in DOMAIN q : reported' < q[a]
         /\ gap # <<>> => reported' = reported /\ notifying_'
    BY <2>13 DEF Follows
  <2>15. \A u \in Threads : pc'[u] \in Loop =>
           \/ pc'[u] = pc[u] /\ seen'[u] = seen[u]
           \/ pc'[u] = "recheck" /\ pc[u] = "report" /\ seen'[u] = seen[u]
           \/ pc'[u] = "error"
           \/ pc'[u] = "look" /\ gap = <<>>
           \/ /\ gap = <<>> /\ seen'[u] = Look(Observer)
              /\ pc'[u] = IF IsEmpty(stream[Observer]) THEN "report" ELSE "pop"
    BY <2>13 DEF Follows
  <2>16. emitted' = observed \o gap \o q \o Pending(1)'
    BY <1>4, <2>1, <2>2
  <2> QED
    BY <1>1, <1>2, <2>2, <2>14, <2>15, <2>16, ObservedAside
<1> QED
  BY <1>5, <1>6, <1>7, <1>8

-----------------------------------------------------------------------------
(* The invariant. *)

LEMMA InitInvariant == Init => IInv
<1> SUFFICES ASSUME Init PROVE IInv
  OBVIOUS
<1> USE ThreadNames
<1>1. Typed
  BY InitTyped
<1>2. /\ \A t \in Threads : /\ pc[t] = "idle" /\ i[t] = 1 /\ packets[t] = <<>> /\ bound[t] = Unset
                            /\ after[t] = "next"
      /\ state_ = "RUNNING" /\ wait = "out" /\ poll = "out" /\ ~notifying_
      /\ next_timestamp_bound_ = PreStream /\ reported = Unstarted
      /\ emitted = <<>> /\ observed = <<>> /\ polled = <<>>
  BY DEF Init
<1>3. \A m \in {Observer, Poller} :
        stream[m].queue = <<>> /\ stream[m].next_timestamp_bound_ = PreStream /\ ~stream[m].closed_
  BY NewStreamFields DEF Init
<1>4. \A t \in Threads : pc[t] \notin Loop
  BY <1>2 DEF Loop
<1>5. Writers
  BY <1>2, <1>4 DEF Writers
<1>6. BoundsSent
  BY <1>2 DEF BoundsSent
<1>7. \A t \in Threads, k \in {1, 2} : PendingOf(t, k) = <<>>
  BY <1>2 DEF PendingOf
<1>8. \A m \in {Observer, Poller} : InOrder(m)
  <2> TAKE m \in {Observer, Poller}
  <2>1. Number(m) \in {1, 2} /\ DOMAIN stream[m].queue = {}
    BY <1>3 DEF Number
  <2> QED
    BY <1>2, <1>3, <1>7, <2>1 DEF InOrder, PreStream
<1>9. <<>> \in Seq(Time) /\ <<>> \o <<>> = <<>> /\ Len(<<>>) = 0 /\ DOMAIN <<>> = {}
  BY EmptySeq, Concatenation
<1>10. Pending(1) = <<>> /\ Pending(2) = <<>>
  BY <1>7, <1>9 DEF Pending
<1>11. PolledSoFar
  BY <1>2, <1>3, <1>9, <1>10 DEF PolledSoFar
<1>12. OneNotifies
  BY <1>4 DEF OneNotifies
<1>13. ObservedSoFar
  <2>1. emitted = observed \o <<>> \o stream[Observer].queue \o Pending(1)
    BY <1>2, <1>3, <1>9, <1>10
  <2>2. InHand(<<>>)
    BY <1>2, <1>9, <2>1 DEF InHand
  <2>3. \E gap \in Seq(Time) : InHand(gap)
    BY <1>9, <2>2
  <2>4. \A t \in Threads : pc[t] # "pop" /\ pc[t] \notin {"report", "recheck"}
    BY <1>2
  <2>5. /\ reported < stream[Observer].next_timestamp_bound_
        /\ \A a \in DOMAIN stream[Observer].queue : reported < stream[Observer].queue[a]
    BY <1>2, <1>3, <1>9 DEF Unstarted, PreStream
  <2> QED
    BY <2>3, <2>4, <2>5 DEF ObservedSoFar
<1> QED
  BY <1>1, <1>5, <1>6, <1>8, <1>11, <1>12, <1>13 DEF IInv

LEMMA InvariantKept == IInv /\ [Next]_vars => IInv'
  BY TypedKept, WritersKept, BoundsSentKept, InOrderKept, PolledSoFarKept, OneNotifiesKept,
     ObservedSoFarKept DEF IInv

\* Whatever is emitted is where the invariant says, in every reachable state.
THEOREM Invariance == Spec => []IInv
  BY InitInvariant, InvariantKept, PTL DEF Spec

\* The variables keep their types, and the threads that write and close never run the
\* loop of Notify of the observer two at a time.
THEOREM TypeCorrect == Spec => []TypeOK
<1> DEFINE Notifiers ==
             {t \in Threads : pc[t] \in {"look", "report", "recheck", "pop", "callback", "error"}}
<1>1. IInv => TypeOK
  <2> SUFFICES ASSUME IInv PROVE TypeOK
    OBVIOUS
  <2>1. Typed /\ OneNotifies
    BY DEF IInv
  <2>2. next_timestamp_bound_ \in Timestamp
    BY <2>1, Arithmetic DEF Typed
  <2>3. Cardinality(Notifiers) <= 1
    <3>1. CASE Notifiers = {}
      BY <3>1, FS_EmptySet
    <3>2. CASE Notifiers # {}
      <4>1. PICK t \in Threads : t \in Notifiers
        BY <3>2
      <4>2. Notifiers = {t}
        BY <2>1, <4>1 DEF OneNotifies, Loop
      <4> HIDE DEF Notifiers
      <4> QED
        BY <4>2, FS_Singleton
    <3> QED
      BY <3>1, <3>2
  <2> QED
    BY <2>1, <2>2, <2>3 DEF TypeOK, Typed
<1> QED
  BY <1>1, Invariance, PTL

-----------------------------------------------------------------------------
(* What was polled and what was observed are the first of what was emitted. *)

LEMMA PrefixAndRest ==
  ASSUME NEW s \in Seq(Time), NEW r \in Seq(Time)
  PROVE  /\ IsPrefixOf(s, s \o r)
         /\ \A v \in Timestamp : (\A a \in DOMAIN r : v < r[a]) =>
              \A n \in 1 .. Len(s \o r) : (s \o r)[n] <= v => n <= Len(s)
<1>1. /\ Len(s) \in Nat /\ Len(r) \in Nat /\ Len(s \o r) = Len(s) + Len(r)
      /\ \A n \in 1 .. Len(s) : (s \o r)[n] = s[n]
      /\ \A n \in 1 .. Len(s) + Len(r) : n > Len(s) => (s \o r)[n] = r[n - Len(s)]
  OBVIOUS
<1>2. IsPrefixOf(s, s \o r)
  <2>1. SubSeq(s \o r, 1, Len(s)) = s
    OBVIOUS
  <2> QED
    BY <1>1, <2>1 DEF IsPrefixOf
<1>3. ASSUME NEW v \in Timestamp, \A a \in DOMAIN r : v < r[a],
             NEW n \in 1 .. Len(s \o r), (s \o r)[n] <= v, n > Len(s)
      PROVE  FALSE
  <2> DEFINE a == n - Len(s)
  <2>1. a \in DOMAIN r /\ (s \o r)[n] = r[a] /\ r[a] \in Time
    BY <1>1, <1>3
  <2>2. r[a] \in Int /\ v \in Int
    BY <2>1, Integral
  <2> QED
    BY <1>3, <2>1, <2>2
<1> QED
  BY <1>1, <1>2, <1>3

LEMMA ConcatenationLater ==
  ASSUME NEW s \in Seq(Time), NEW r \in Seq(Time), NEW v,
         \A a \in DOMAIN s : v < s[a], \A a \in DOMAIN r : v < r[a]
  PROVE  s \o r \in Seq(Time) /\ \A a \in DOMAIN (s \o r) : v < (s \o r)[a]
<1>1. /\ Len(s) \in Nat /\ Len(r) \in Nat /\ Len(s \o r) = Len(s) + Len(r)
      /\ DOMAIN (s \o r) = 1 .. Len(s) + Len(r) /\ DOMAIN s = 1 .. Len(s) /\ DOMAIN r = 1 .. Len(r)
      /\ \A n \in 1 .. Len(s) : (s \o r)[n] = s[n]
      /\ \A n \in 1 .. Len(s) + Len(r) : n > Len(s) => (s \o r)[n] = r[n - Len(s)]
  OBVIOUS
<1>2. ASSUME NEW a \in DOMAIN (s \o r)
      PROVE  v < (s \o r)[a]
  <2>1. CASE a <= Len(s)
    BY <1>1, <2>1
  <2>2. CASE a > Len(s)
    BY <1>1, <2>2
  <2> QED
    BY <1>1, <2>1, <2>2
<1> QED
  BY <1>2

\* What is to be added to a mirror is not before its bound.
LEMMA PendingLater ==
  ASSUME IInv, NEW m \in {Observer, Poller}, NEW v \in Timestamp,
         v < stream[m].next_timestamp_bound_
  PROVE  Pending(Number(m)) \in Seq(Time)
         /\ \A a \in DOMAIN Pending(Number(m)) : v < Pending(Number(m))[a]
<1>1. Typed /\ InOrder(m) /\ Number(m) \in {1, 2}
  BY DEF IInv, Number
<1>2. stream[m].next_timestamp_bound_ \in Int /\ v \in Int
  BY <1>1, MirrorFields, Integral
<1>3. ASSUME NEW t \in Threads
      PROVE  /\ PendingOf(t, Number(m)) \in Seq(Time)
             /\ \A a \in DOMAIN PendingOf(t, Number(m)) : v < PendingOf(t, Number(m))[a]
  <2>1. CASE PendingOf(t, Number(m)) = <<>>
    BY <2>1, EmptySeq
  <2>2. CASE PendingOf(t, Number(m)) # <<>>
    <3>1. /\ PendingOf(t, Number(m)) = packets[t] /\ packets[t][1] \in Time
          /\ packets[t] = <<packets[t][1]>> /\ packets[t] \in Seq(Time)
          /\ stream[m].next_timestamp_bound_ <= packets[t][1]
      BY <1>1, <2>2, PacketOf DEF PendingOf, InOrder
    <3>2. v < packets[t][1]
      BY <1>2, <3>1, Integral
    <3>3. \A a \in DOMAIN <<packets[t][1]>> : <<packets[t][1]>>[a] = packets[t][1]
      OBVIOUS
    <3> QED
      BY <3>1, <3>2, <3>3
  <2> QED
    BY <2>1, <2>2
<1> QED
  BY <1>3, ThreadNames, ConcatenationLater DEF Pending

LEMMA PolledFirst ==
  ASSUME Typed, Typed', PolledSoFar'
  PROVE  IsPrefixOf(polled', emitted')
<1> DEFINE p == polled'
           q == stream'[Poller].queue
           r == Pending(2)'
<1>1. p \in Seq(Time) /\ q \in Seq(Time) /\ r \in Seq(Time)
  BY PendingSeqNext DEF Typed, Streams
<1>2. emitted' = (p \o q) \o r
  BY DEF PolledSoFar
<1> HIDE DEF p, q, r
<1>3. (p \o q) \o r = p \o (q \o r) /\ q \o r \in Seq(Time)
  BY <1>1, Associative
<1>4. IsPrefixOf(p, p \o (q \o r))
  BY <1>1, <1>3, PrefixAndRest
<1> QED
  BY <1>2, <1>3, <1>4 DEF p

\* Only the thread that polls, and the start of a run, say where it is.
LEMMA PollSteps ==
  ASSUME [Next]_vars
  PROVE  \/ poll' = poll \/ poll' = Woken(poll)
         \/ CallNext \/ TestForOutput \/ PopPolled \/ StartRun
<1>1. ASSUME NEW t \in Threads, WriterStep(t)
      PROVE  poll' = poll \/ poll' = Woken(poll)
  BY <1>1 DEF WriterStep, Add, SetBound, NextMirror, NotifyPoller, EnterNotify, LookAtStream, Report,
       Recheck, PopObserved, Callback, NotifyFails, EmittedObservedOutput, RecordError, NoError, pollerVars
<1>2. ASSUME NEW t, NEW ps, NEW b, Begin(t, ps, b)
      PROVE  poll' = poll
  BY <1>2 DEF Begin, pollerVars
<1>3. CASE WorkerWrites \/ CloserWrites \/ CleanUpNode
  BY <1>2, <1>3 DEF WorkerWrites, CloserWrites, CleanUpNode
<1>4. CASE Terminate \/ CallWait \/ TestForSignal \/ CleanUpMirrors \/ UNCHANGED vars
  BY <1>4 DEF Terminate, CallWait, TestForSignal, CleanUpMirrors, vars, pollerVars
<1> QED
  BY <1>1, <1>3, <1>4 DEF Next, Poll, CleanUp

LEMMA PollGives ==
  ASSUME IInv, TestForOutput
  PROVE  /\ poll' = "ended" => /\ IsEmpty(stream[Poller])
                               /\ graph_has_error_ \/ polled = emitted
         /\ poll' = "out" => \A n \in 1 .. Len(emitted) :
                               emitted[n] <= output_timestamp_' => n <= Len(polled)
<1> DEFINE s == stream[Poller]
           b == s.next_timestamp_bound_
           r == Pending(2)
           look == Look(Poller)
<1>1. Typed /\ InOrder(Poller) /\ PolledSoFar
  BY DEF IInv
<1>2. /\ s \in Streams /\ s.queue \in Seq(Time) /\ b \in Marks /\ b \in Timestamp
      /\ look.empty = IsEmpty(s) /\ look.timestamp = MinTimestampOrBound(s)
      /\ polled \in Seq(Time) /\ r \in Seq(Time) /\ Number(Poller) = 2
  BY <1>1, MirrorFields, Arithmetic, PendingSeq DEF Typed, Look, Number, Observer, Poller
<1>3. ASSUME IsEmpty(s), NEW v \in Timestamp, v < b
      PROVE  /\ emitted = polled \o r
             /\ \A n \in 1 .. Len(emitted) : emitted[n] <= v => n <= Len(polled)
  <2>1. \A a \in DOMAIN r : v < r[a]
    BY <1>2, <1>3, PendingLater
  <2>2. emitted = polled \o r
    <3>1. emitted = polled \o s.queue \o r
      BY <1>1 DEF PolledSoFar
    <3> HIDE DEF r, s
    <3>2. polled \o <<>> = polled
      BY <1>2, Concatenation
    <3> QED
      BY <1>3, <3>1, <3>2 DEF IsEmpty
  <2> HIDE DEF r
  <2> QED
    BY <1>2, <2>1, <2>2, PrefixAndRest
<1>4. ASSUME IsEmpty(s), b = Done
      PROVE  polled = emitted
  <2>1. \A t \in Threads : PendingOf(t, 2) = <<>>
    <3> SUFFICES ASSUME NEW t \in Threads, PendingOf(t, 2) # <<>>
                 PROVE  FALSE
      OBVIOUS
    <3>1. PendingOf(t, 2) = packets[t] /\ packets[t][1] \in Time /\ b <= packets[t][1]
      BY <1>1, <1>2, PacketOf DEF PendingOf, InOrder
    <3>2. packets[t][1] < Done /\ packets[t][1] \in Int /\ Done \in Int
      BY <3>1, MaxTimestampAssumption DEF Time, MinTime, MaxTime, Done
    <3> QED
      BY <1>4, <3>1, <3>2
  <2>2. r = <<>>
    BY <2>1, ThreadNames, Concatenation, EmptySeq DEF Pending
  <2>3. PreStream \in Timestamp /\ PreStream < Done
    BY MaxTimestampAssumption DEF Timestamp, PreStream, Unset, Done
  <2>4. emitted = polled \o r
    BY <1>3, <1>4, <2>3
  <2> HIDE DEF r
  <2> QED
    BY <1>2, <2>2, <2>4, Concatenation
<1>5. s.queue # <<>> => Head(s.queue) \in Time /\ Head(s.queue) # Done
  <2>1. s.queue # <<>> => Head(s.queue) \in Time
    BY <1>2
  <2> QED
    BY <2>1, MaxTimestampAssumption DEF Time, MinTime, MaxTime, Done
<1>6. look.timestamp = Done => IsEmpty(s) /\ b = Done
  BY <1>2, <1>5 DEF MinTimestampOrBound, IsEmpty
<1>7. CASE poll' = "ended"
  BY <1>4, <1>6, <1>7 DEF TestForOutput, NextFails
<1>8. CASE poll' = "out"
  <2>1. IsEmpty(s) /\ ~NextFails /\ (graph_has_error_ \/ ~look.empty \/ BoundChanged \/ look.timestamp = Done)
    BY <1>2, <1>8 DEF TestForOutput
  <2>2. output_timestamp_' = PreviousAllowedInStream(b)
    BY <1>2, <2>1 DEF TestForOutput, MinTimestampOrBound
  <2>3. PreviousAllowedInStream(b) < b /\ PreviousAllowedInStream(b) \in Timestamp
    BY <1>2, Arithmetic
  <2> QED
    BY <1>3, <1>8, <2>1, <2>2, <2>3
<1> QED
  BY <1>7, <1>8

\* Next of the poller gives every packet once and in order, returns false without an
\* error only after the last one and an empty packet only when nothing before its
\* timestamp is left, and never pops another packet than the one it looked at.
THEOREM PacketsPolled == Spec => EveryPacketPolled
<1> DEFINE Step ==
      /\ IsPrefixOf(polled', emitted')
      /\ poll # "ended" /\ poll' = "ended" =>
           IsEmpty(stream[Poller]) /\ (graph_has_error_ \/ polled = emitted)
      /\ poll = "test" /\ poll' = "out" =>
           \A n \in 1 .. Len(emitted) : emitted[n] <= output_timestamp_' => n <= Len(polled)
      /\ poll = "pop" /\ poll' = "out" => ~DropsPackets(stream[Poller], wanted.timestamp)
<1>1. IInv /\ [Next]_vars => [Step]_vars
  <2> SUFFICES ASSUME IInv, [Next]_vars PROVE Step
    OBVIOUS
  <2>1. Typed /\ Typed' /\ PolledSoFar' /\ InOrder(Poller) /\ PolledSoFar
    BY InvariantKept DEF IInv
  <2>2. IsPrefixOf(polled', emitted')
    BY <2>1, PolledFirst
  <2>3. CASE poll' = poll \/ poll' = Woken(poll)
    BY <2>2, <2>3 DEF Woken
  <2>4. CASE CallNext
    BY <2>2, <2>4 DEF CallNext
  <2>5. CASE TestForOutput
    <3>1. poll = "test"
      BY <2>5 DEF TestForOutput
    <3> QED
      BY <2>2, <2>5, <3>1, PollGives
  <2>6. CASE PopPolled
    BY <2>1, <2>2, <2>6, PopPolledTyped
  <2>7. CASE StartRun
    BY <2>2, <2>7 DEF StartRun
  <2> QED
    BY <2>3, <2>4, <2>5, <2>6, <2>7, PollSteps
<1> QED
  BY <1>1, Invariance, PTL DEF Spec, EveryPacketPolled

\* The parts of EveryPacketObserved that hold without a hypothesis: the callback gets
\* the packets once and in order, and a bound when it has got all packets before it.
ObservedInOrder ==
  /\ IsPrefixOf(observed, emitted)
  /\ \A n \in 1 .. Len(emitted) : emitted[n] <= reported => n <= Len(observed)

LEMMA ObservedFirst ==
  ASSUME IInv
  PROVE  ObservedInOrder
<1> DEFINE q == stream[Observer].queue
           b == stream[Observer].next_timestamp_bound_
           r == Pending(1)
<1>1. /\ Typed /\ ObservedSoFar /\ InOrder(Observer)
  BY DEF IInv
<1>2. PICK gap \in Seq(Time) : InHand(gap)
  BY <1>1 DEF ObservedSoFar
<1>3. /\ q \in Seq(Time) /\ observed \in Seq(Time) /\ reported \in Timestamp /\ b \in Marks
      /\ Number(Observer) = 1
  BY <1>1, MirrorFields DEF Typed, Number
<1>4. r \in Seq(Time) /\ \A a \in DOMAIN r : reported < r[a]
  BY <1>1, <1>3, PendingLater DEF ObservedSoFar
<1>5. \A a \in DOMAIN gap : reported < gap[a]
  <2> SUFFICES ASSUME NEW a \in DOMAIN gap PROVE reported < gap[a]
    OBVIOUS
  <2>1. Len(gap) \in Nat /\ a \in 1 .. Len(gap) /\ Len(gap) <= 1 /\ gap # <<>>
    BY <1>2 DEF InHand
  <2>2. a = 1 /\ gap[1] \in Time
    BY <2>1
  <2>3. gap[1] \in Int /\ reported \in Int
    BY <1>3, <2>2, Integral
  <2> QED
    BY <1>2, <2>1, <2>2, <2>3 DEF InHand
<1>6. \A a \in DOMAIN q : reported < q[a]
  BY <1>1 DEF ObservedSoFar
<1>7. emitted = ((observed \o gap) \o q) \o r
  BY <1>2 DEF InHand
<1> HIDE DEF q, b, r
<1> DEFINE rest == gap \o (q \o r)
<1>8. rest \in Seq(Time) /\ \A a \in DOMAIN rest : reported < rest[a]
  <2>1. q \o r \in Seq(Time) /\ \A a \in DOMAIN (q \o r) : reported < (q \o r)[a]
    BY <1>3, <1>4, <1>6, ConcatenationLater
  <2> HIDE DEF rest
  <2> QED
    BY <1>5, <2>1, ConcatenationLater DEF rest
<1>9. emitted = observed \o rest
  <2> DEFINE og == observed \o gap
             qr == q \o r
  <2>1. og \in Seq(Time) /\ qr \in Seq(Time)
    BY <1>3, <1>4
  <2>2. (observed \o gap) \o qr = observed \o (gap \o qr)
    <3> HIDE DEF qr
    <3> QED
      BY <1>3, <2>1, Associative
  <2> HIDE DEF og
  <2>3. (og \o q) \o r = og \o (q \o r)
    BY SMTT(30), <1>3, <1>4, <2>1, Associative
  <2> QED
    BY <1>7, <2>2, <2>3 DEF og
<1> HIDE DEF rest
<1> QED
  BY <1>3, <1>8, <1>9, PrefixAndRest DEF ObservedInOrder

\* No packet is given to the callback of the observer twice, too early or out of order,
\* in whichever thread Notify runs, and no bound overtakes a packet.
THEOREM PacketsObservedInOrder == Spec => []ObservedInOrder
  BY ObservedFirst, Invariance, PTL

-----------------------------------------------------------------------------
(* Every packet is observed. *)

\* What a step of a thread leaves as it is.
LEMMA WriterFrame ==
  ASSUME IInv, NEW t \in Threads, WriterStep(t)
  PROVE  /\ pc[t] # "idle" /\ pc' = [pc EXCEPT ![t] = pc'[t]]
         /\ \A u \in Threads : u # t =>
              /\ pc'[u] = pc[u] /\ i'[u] = i[u] /\ packets'[u] = packets[u]
              /\ bound'[u] = bound[u] /\ after'[u] = after[u] /\ seen'[u] = seen[u]
         /\ UNCHANGED <<next_timestamp_bound_, runs, observe_timestamp_bounds, state_>>
         /\ ~NextMirror(t) => UNCHANGED <<i, packets, bound>>
         /\ has_error_ => has_error_'
<1>1. /\ Typed /\ pc \in [Threads -> Labels] /\ after \in [Threads -> {"bound", "next"}]
      /\ i \in [Threads -> {1, 2}] /\ packets \in [Threads -> Writes]
      /\ bound \in [Threads -> Marks \cup {Unset}] /\ seen \in [Threads -> Looks]
  BY DEF IInv, Typed
<1>2. CASE Add(t) \/ SetBound(t)
  BY <1>1, <1>2 DEF Add, SetBound, NotifyIf, GoTo, RecordError, NoError, observerVars, schedulerVars
<1>3. CASE NextMirror(t)
  BY <1>1, <1>3 DEF NextMirror, GoTo, outputVars, observerVars, schedulerVars, runVars
<1>4. CASE NotifyPoller(t) \/ EnterNotify(t) \/ LookAtStream(t) \/ Report(t) \/ Recheck(t)
  BY <1>1, <1>4 DEF NotifyPoller, EnterNotify, LookAtStream, Report, Recheck, GoTo, Forget,
                    outputVars, observerVars, schedulerVars, runVars
<1>5. CASE PopObserved(t) \/ Callback(t) \/ NotifyFails(t) \/ EmittedObservedOutput(t)
  BY <1>1, <1>5 DEF PopObserved, Callback, NotifyFails, EmittedObservedOutput, GoTo, Forget,
                    RecordError, outputVars, observerVars, schedulerVars, runVars
<1> QED
  BY <1>2, <1>3, <1>4, <1>5 DEF WriterStep

\* What a step of a thread does to the mirror of the observer.
LEMMA ObserverStream ==
  ASSUME IInv, NEW t \in Threads, WriterStep(t)
  PROVE  LET s == stream[Observer]
             later == stream'[Observer]
         IN /\ s.next_timestamp_bound_ \in Int /\ later.next_timestamp_bound_ \in Int
            /\ s.next_timestamp_bound_ <= later.next_timestamp_bound_
            /\ later.next_timestamp_bound_ # s.next_timestamp_bound_ =>
                 i[t] = 1 /\ (SetBound(t) \/ (Add(t) /\ packets[t] # <<>>))
            /\ SetBound(t) /\ later.next_timestamp_bound_ # s.next_timestamp_bound_ =>
                 later.next_timestamp_bound_ = bound[t] /\ s.next_timestamp_bound_ < bound[t]
            /\ \/ later.queue = s.queue
               \/ PopObserved(t) /\ later.queue = Tail(s.queue)
               \/ Add(t) /\ i[t] = 1 /\ packets[t] # <<>>
            /\ Add(t) /\ i[t] = 1 /\ packets[t] # <<>> =>
                 /\ later.queue = Append(s.queue, packets[t][1])
                 /\ later.next_timestamp_bound_ = NextAllowedInStream(packets[t][1])
<1> DEFINE s == stream[Observer]
<1>1. /\ Typed /\ Writers /\ InOrder(Observer) /\ InOrder(Poller) /\ ObservedSoFar
      /\ stream \in [{Observer, Poller} -> Streams] /\ Observer # Poller
  BY ThreadNames DEF IInv, Typed
<1>2. s.next_timestamp_bound_ \in Int /\ s.next_timestamp_bound_ <= s.next_timestamp_bound_ /\ s \in Streams
  BY <1>1, MirrorFields, Integral
<1>3. CASE Add(t)
  <2>1. CASE packets[t] = <<>>
    BY <1>1, <1>2, <1>3, <2>1, AddEffect
  <2>2. CASE packets[t] # <<>> /\ i[t] # 1
    <3>1. stream'[Observer] = s
      BY <1>1, <1>3, <2>2, AddEffect, MirrorOf
    <3> QED
      BY <1>2, <2>2, <3>1
  <2>3. CASE packets[t] # <<>> /\ i[t] = 1
    <3>1. /\ packets[t][1] \in Time /\ s.next_timestamp_bound_ <= packets[t][1]
          /\ stream'[Observer] = Accept(s, packets[t][1])
      BY <1>1, <1>3, <2>3, AddEffect, MirrorOf, PacketOf
    <3>2. /\ stream'[Observer].queue = Append(s.queue, packets[t][1])
          /\ stream'[Observer].next_timestamp_bound_ = NextAllowedInStream(packets[t][1])
      BY <1>2, <3>1, AcceptFields
    <3>3. /\ NextAllowedInStream(packets[t][1]) \in Int /\ packets[t][1] \in Int
          /\ packets[t][1] < NextAllowedInStream(packets[t][1])
      BY <3>1, Arithmetic, Integral
    <3>4. pc[t] = "add" /\ ~SetBound(t)
      BY <1>3 DEF Add, SetBound
    <3> QED
      BY <1>2, <1>3, <2>3, <3>1, <3>2, <3>3, <3>4
  <2> QED
    BY <2>1, <2>2, <2>3
<1>4. CASE SetBound(t)
  <2>1. PICK set \in Streams :
          /\ stream' = [stream EXCEPT ![Mirrors[i[t]]] = set]
          /\ set.queue = stream[Mirrors[i[t]]].queue
          /\ \/ set = stream[Mirrors[i[t]]]
             \/ /\ stream[Mirrors[i[t]]].next_timestamp_bound_ < bound[t]
                /\ set.next_timestamp_bound_ = bound[t]
    BY <1>1, <1>4, SetBoundEffect
  <2>2. pc[t] = "bound" /\ ~Add(t) /\ bound[t] \in Int
    BY <1>1, <1>4, Integral DEF SetBound, Add, Writers
  <2>3. stream'[Observer] = IF i[t] = 1 THEN set ELSE s
    BY <1>1, <2>1, MirrorOf
  <2>4. i[t] = 1 => Mirrors[i[t]] = Observer
    BY <1>1, MirrorOf
  <2> QED
    BY <1>2, <1>4, <2>1, <2>2, <2>3, <2>4
<1>5. CASE PopObserved(t)
  <2>1. ~Add(t) /\ ~SetBound(t)
    BY <1>5 DEF PopObserved, Add, SetBound
  <2>2. stream'[Observer].queue = Tail(s.queue) /\ stream'[Observer].next_timestamp_bound_ = s.next_timestamp_bound_
    BY <1>1, <1>5, PopObservedTyped
  <2> QED
    BY <1>2, <1>5, <2>1, <2>2
<1>6. CASE \/ NextMirror(t) \/ NotifyPoller(t) \/ EnterNotify(t) \/ LookAtStream(t) \/ Report(t)
           \/ Recheck(t) \/ Callback(t) \/ NotifyFails(t) \/ EmittedObservedOutput(t)
  <2>1. stream' = stream
    BY <1>6 DEF NextMirror, NotifyPoller, EnterNotify, LookAtStream, Report, Recheck, Callback,
                NotifyFails, EmittedObservedOutput, outputVars
  <2>2. ~Add(t) /\ ~SetBound(t)
    BY <1>6 DEF NextMirror, NotifyPoller, EnterNotify, LookAtStream, Report, Recheck, Callback,
                NotifyFails, EmittedObservedOutput, Add, SetBound
  <2> QED
    BY <1>2, <2>1, <2>2
<1> QED
  BY <1>3, <1>4, <1>5, <1>6 DEF WriterStep

\* What the steps of the others leave as it is.
LEMMA AsideSteps ==
  ASSUME IInv, CallNext \/ Poll \/ Terminate \/ CallWait \/ TestForSignal \/ UNCHANGED vars
  PROVE  /\ UNCHANGED <<next_timestamp_bound_, threadVars, observerVars, runVars>>
         /\ stream'[Observer] = stream[Observer]
<1>1. Typed /\ stream \in [{Observer, Poller} -> Streams] /\ Observer # Poller
  BY ThreadNames DEF IInv, Typed
<1>2. CASE CallNext \/ TestForOutput \/ Terminate \/ CallWait \/ TestForSignal \/ UNCHANGED vars
  BY <1>2 DEF CallNext, TestForOutput, Terminate, CallWait, TestForSignal, vars, outputVars
<1>3. CASE PopPolled
  BY <1>1, <1>3 DEF PopPolled, runVars
<1> QED
  BY <1>2, <1>3 DEF Poll

LEMMA OnlyWorker ==
  ASSUME IInv, next_timestamp_bound_ # Done, NEW t \in Threads, pc[t] # "idle"
  PROVE  t = Worker
  BY ThreadNames DEF IInv, BoundsSent

LEMMA WorkerIdle ==
  ASSUME IInv, state_ # "RUNNING"
  PROVE  /\ pc[Worker] = "idle" /\ packets[Worker] = <<>> /\ i[Worker] = 1
         /\ pc[Closer] = "idle" /\ packets[Closer] = <<>> /\ i[Closer] = 1
  BY ThreadNames DEF IInv, Writers

LEMMA WorkerBoundKept ==
  ASSUME IInv, WorkerBound, [Next]_vars
  PROVE  WorkerBound'
<1> USE ThreadNames
<1>1. /\ Typed /\ Writers /\ BoundsSent /\ pc \in [Threads -> Labels] /\ i \in [Threads -> {1, 2}]
      /\ packets \in [Threads -> Writes] /\ bound \in [Threads -> Marks \cup {Unset}]
  BY DEF IInv, Typed
<1>2. CASE WorkerWrites \/ CloserWrites \/ CleanUpNode
  <2>1. PICK t \in Threads, ps \in Writes, b \in Marks : BeginsWith(t, ps, b)
    BY <1>1, <1>2, Begins
  <2>2. /\ pc[t] = "idle" /\ pc' = [pc EXCEPT ![t] = "add"]
        /\ packets' = [packets EXCEPT ![t] = ps] /\ bound' = [bound EXCEPT ![t] = b]
        /\ next_timestamp_bound_' = b /\ UNCHANGED <<stream, i>>
    BY <2>1 DEF BeginsWith, Begin, GoTo
  <2>3. CASE t = Worker
    <3>1. i[Worker] = 1 /\ i'[Worker] = 1 /\ pc'[Worker] = "add"
      BY <1>1, <2>2, <2>3 DEF Writers
    <3> QED
      BY <1>1, <2>1, <2>2, <2>3, <3>1 DEF WorkerBound, BeginsWith, Unsent
  <2>4. CASE t # Worker
    <3>1. b = Done
      BY <2>1, <2>4 DEF BeginsWith
    <3> QED
      BY <1>1, <2>2, <2>4, <3>1 DEF WorkerBound, Unsent
  <2> QED
    BY <2>3, <2>4
<1>3. ASSUME NEW t \in Threads, WriterStep(t)
      PROVE  WorkerBound'
  <2> DEFINE b == stream[Observer].next_timestamp_bound_
             c == stream'[Observer].next_timestamp_bound_
  <2>1. b \in Int /\ c \in Int /\ b <= c
    BY <1>3, ObserverStream
  <2>2. \/ UNCHANGED <<i, packets, bound>>
        \/ /\ t # Worker /\ pc'[Worker] = pc[Worker] /\ i'[Worker] = i[Worker]
           /\ packets'[Worker] = packets[Worker] /\ bound'[Worker] = bound[Worker]
        \/ t = Worker /\ NextMirror(t)
    BY <1>3, WriterFrame
  <2>3. pc'[Worker] # "idle" => pc[Worker] # "idle"
    BY <1>3, WriterFrame
  <2>4. next_timestamp_bound_' = next_timestamp_bound_
    BY <1>3, WriterFrame
  <2>5. packets[Worker] # <<>> => pc[Worker] # "idle" /\ bound[Worker] \in Int
                                  /\ bound[Worker] = NextAllowedInStream(packets[Worker][1])
    BY <1>1, Integral DEF Writers, BoundsSent
  <2>6. CASE t = Worker /\ NextMirror(t)
    <3>1. pc[Worker] = "next" /\ UNCHANGED stream
      BY <2>6 DEF NextMirror, outputVars
    <3>2. CASE i[t] < Len(Mirrors)
      <4>1. i' = [i EXCEPT ![t] = @ + 1] /\ pc' = [pc EXCEPT ![t] = "add"] /\ UNCHANGED <<packets, bound>>
        BY <2>6, <3>2 DEF NextMirror, GoTo
      <4>2. i[Worker] = 1 /\ ~Unsent(Worker, 1)
        BY SMTT(30), <1>1, <2>6, <3>1, <3>2, MirrorOf DEF Unsent
      <4> QED
        BY <1>1, <2>4, <2>6, <3>1, <4>1, <4>2 DEF WorkerBound
    <3>3. CASE ~(i[t] < Len(Mirrors))
      <4>1. pc'[Worker] = "idle" /\ packets'[Worker] = <<>>
        BY <1>1, <2>6, <3>3 DEF NextMirror, GoTo
      <4> QED
        BY <4>1 DEF WorkerBound
    <3> QED
      BY <3>2, <3>3
  <2>7. CASE i'[Worker] = i[Worker] /\ packets'[Worker] = packets[Worker] /\ bound'[Worker] = bound[Worker]
    <3>1. packets'[Worker] # <<>> /\ ~Unsent(Worker, 1)' => bound'[Worker] <= c
      <4> SUFFICES ASSUME packets[Worker] # <<>>, ~Unsent(Worker, 1)' PROVE bound[Worker] <= c
        BY <2>7
      <4>1. CASE ~Unsent(Worker, 1)
        BY <2>1, <2>5, <4>1 DEF WorkerBound
      <4>2. CASE Unsent(Worker, 1)
        <5>1. pc[Worker] = "add" /\ i[Worker] = 1 /\ pc'[Worker] # "add"
          BY <1>1, <2>7, <4>2 DEF Unsent
        <5>2. t = Worker
          BY <1>3, <5>1, WriterFrame
        <5>3. Add(Worker)
          BY <1>3, <5>1, <5>2 DEF WriterStep, SetBound, NextMirror, NotifyPoller, EnterNotify,
             LookAtStream, Report, Recheck, PopObserved, Callback, NotifyFails, EmittedObservedOutput
        <5>4. c = NextAllowedInStream(packets[Worker][1])
          BY <1>3, <5>1, <5>2, <5>3, ObserverStream
        <5> QED
          BY <2>1, <2>5, <5>4
      <4> QED
        BY <4>1, <4>2
    <3> QED
      BY <2>3, <2>4, <2>7, <3>1 DEF WorkerBound
  <2> QED
    BY <1>3, <2>2, <2>6, <2>7
<1>4. CASE Poll \/ Terminate \/ CallWait \/ TestForSignal \/ UNCHANGED vars
  BY <1>4, AsideSteps DEF WorkerBound, Unsent, threadVars
<1>5. CASE CleanUpMirrors \/ StartRun
  <2>1. state_ # "RUNNING" /\ UNCHANGED threadVars
    BY <1>5 DEF CleanUpMirrors, StartRun
  <2> QED
    BY <2>1, WorkerIdle DEF WorkerBound, threadVars
<1> QED
  BY <1>2, <1>3, <1>4, <1>5 DEF Next, CleanUp

\* The thread that attends to the queue goes on to, or leaves the loop when it is empty.
LEMMA RecheckStays ==
  ASSUME IInv, NothingMissed, NEW t \in Threads, Recheck(t), ~IsEmpty(stream[Observer])
  PROVE  notifying_'
<1> DEFINE q == stream[Observer].queue
<1>1. Typed /\ OneNotifies
  BY DEF IInv
<1>2. pc[t] = "recheck" /\ notifying_
  BY <1>1 DEF Recheck, OneNotifies, Loop
<1>3. q \in Seq(Time) /\ q # <<>> /\ Len(q) \in Nat
  BY <1>1, MirrorFields DEF IsEmpty
<1>4. 1 \in DOMAIN q /\ Head(q) = q[1] /\ q[1] \in Time
  BY <1>3
<1>5. seen[t].timestamp < q[1]
  BY <1>2, <1>4 DEF NothingMissed
<1>6. q[1] \in Int
  BY <1>4, Integral
<1>7. Look(Observer).timestamp = q[1]
  BY <1>3, <1>4 DEF Look, MinTimestampOrBound, IsEmpty
<1>8. Look(Observer).timestamp # seen[t].timestamp
  BY <1>5, <1>6, <1>7
<1> QED
  BY <1>2, <1>8 DEF Recheck

LEMMA AttentionKept ==
  ASSUME IInv, Attention, NEW t \in Threads, WriterStep(t), ~Recheck(t)
  PROVE  Attention'
<1> USE ThreadNames
<1>1. /\ Typed /\ OneNotifies /\ \A u \in Threads : u # t => pc'[u] = pc[u] /\ i'[u] = i[u]
      /\ pc \in [Threads -> Labels]
  BY WriterFrame DEF IInv, Typed
<1>2. CASE EnterNotify(t)
  BY <1>2 DEF EnterNotify, Attention
<1>3. CASE ~EnterNotify(t)
  <2>1. notifying_' = notifying_
    BY <1>3 DEF WriterStep, Add, SetBound, NextMirror, NotifyPoller, LookAtStream, Report, Recheck,
       PopObserved, Callback, NotifyFails, EmittedObservedOutput, observerVars
  <2>2. ~(pc[t] = "notify" /\ i[t] = 1)
    <3>1. pc[t] = "notify" => NotifyPoller(t)
      BY <1>3 DEF WriterStep, Add, SetBound, NextMirror, NotifyPoller, EnterNotify, LookAtStream,
         Report, Recheck, PopObserved, Callback, NotifyFails, EmittedObservedOutput
    <3> QED
      BY <1>1, <3>1, MirrorOf DEF NotifyPoller
  <2> QED
    BY <1>1, <2>1, <2>2 DEF Attention
<1> QED
  BY <1>2, <1>3

LEMMA AttendedKept ==
  ASSUME IInv, Attended, NothingMissed, [Next]_vars
  PROVE  Attended'
<1> USE ThreadNames
<1> DEFINE q == stream[Observer].queue
           later == stream'[Observer].queue
<1>1. /\ Typed /\ Writers /\ InOrder(Observer) /\ InOrder(Poller) /\ pc \in [Threads -> Labels]
      /\ i \in [Threads -> {1, 2}] /\ q \in Seq(Time)
  BY MirrorFields DEF IInv, Typed
<1>2. CASE WorkerWrites \/ CloserWrites \/ CleanUpNode
  <2>1. PICK t \in Threads, ps \in Writes, b \in Marks : BeginsWith(t, ps, b)
    BY <1>1, <1>2, Begins
  <2>2. /\ pc[t] = "idle" /\ pc' = [pc EXCEPT ![t] = "add"] /\ UNCHANGED <<stream, i, notifying_>>
    BY <2>1 DEF BeginsWith, Begin, GoTo, observerVars
  <2> QED
    BY <1>1, <2>2 DEF Attended, Attention, IsEmpty
<1>3. ASSUME NEW t \in Threads, WriterStep(t)
      PROVE  Attended'
  <2> SUFFICES ASSUME later # <<>> PROVE Attention'
    BY DEF Attended, IsEmpty
  <2>1. CASE Recheck(t)
    <3>1. later = q
      BY <2>1 DEF Recheck, outputVars
    <3> QED
      BY <2>1, <3>1, RecheckStays DEF IsEmpty, Attention
  <2>2. CASE q # <<>> /\ ~Recheck(t)
    BY <1>3, <2>2, AttentionKept DEF Attended, IsEmpty
  <2>3. CASE q = <<>> /\ ~Recheck(t)
    <3>1. Add(t) /\ i[t] = 1 /\ packets[t] # <<>>
      <4>1. ~PopObserved(t)
        BY <1>1, <2>3, PopObservedTyped DEF IInv, IsEmpty
      <4> QED
        BY <1>3, <2>3, <4>1, ObserverStream
    <3>2. pc' = [pc EXCEPT ![t] = "notify"] /\ i' = i
      <4>1. NotifyIf(t, packets[t] # <<>> /\ IsEmpty(stream[Observer]), "bound")
        BY <1>1, <3>1, AddEffect, MirrorOf
      <4> QED
        BY <2>3, <3>1, <4>1 DEF NotifyIf, GoTo, IsEmpty, Add
    <3>3. t # App
      BY <1>1, <3>1 DEF Writers
    <3> QED
      BY <1>1, <3>1, <3>2, <3>3 DEF Attention
  <2> QED
    BY <2>1, <2>2, <2>3
<1>4. CASE Poll \/ Terminate \/ CallWait \/ TestForSignal \/ UNCHANGED vars
  BY <1>4, AsideSteps DEF Attended, Attention, threadVars, observerVars, IsEmpty
<1>5. CASE CleanUpMirrors
  <2>1. stream'[Observer] = Close(stream[Observer])
    BY <1>1, <1>5 DEF CleanUpMirrors, Typed
  <2>2. later = q
    BY <1>1, <2>1, MirrorFields, CloseFields
  <2> QED
    BY <1>5, <2>2 DEF CleanUpMirrors, Attended, Attention, threadVars, observerVars, IsEmpty
<1>6. CASE StartRun
  <2>1. stream'[Observer] = NewStream(TRUE)
    BY <1>1, <1>6 DEF StartRun, Typed
  <2> QED
    BY <2>1, NewStreamFields DEF Attended, IsEmpty
<1> QED
  BY <1>2, <1>3, <1>4, <1>5, <1>6 DEF Next, CleanUp

LEMMA NothingMissedKept ==
  ASSUME ClosingPackets \cap Bounds = {}, IInv, WorkerBound, NothingMissed, [Next]_vars
  PROVE  NothingMissed'
<1> USE ThreadNames
<1> DEFINE q == stream[Observer].queue
           b == stream[Observer].next_timestamp_bound_
           later == stream'[Observer].queue
           c == stream'[Observer].next_timestamp_bound_
           p == packets[Closer][1]
<1>1. /\ Typed /\ Writers /\ BoundsSent /\ InOrder(Observer) /\ InOrder(Poller) /\ ObservedSoFar
      /\ OneNotifies
      /\ pc \in [Threads -> Labels] /\ i \in [Threads -> {1, 2}] /\ packets \in [Threads -> Writes]
      /\ bound \in [Threads -> Marks \cup {Unset}] /\ seen \in [Threads -> Looks]
      /\ q \in Seq(Time) /\ b \in Int
  BY MirrorFields, Integral DEF IInv, Typed
<1>2. CASE WorkerWrites \/ CloserWrites \/ CleanUpNode
  <2>1. PICK t \in Threads, ps \in Writes, e \in Marks : BeginsWith(t, ps, e)
    BY <1>1, <1>2, Begins
  <2>2. /\ pc[t] = "idle" /\ pc' = [pc EXCEPT ![t] = "add"]
        /\ packets' = [packets EXCEPT ![t] = ps] /\ bound' = [bound EXCEPT ![t] = e]
        /\ UNCHANGED <<stream, i, seen>>
    BY <2>1 DEF BeginsWith, Begin, GoTo
  <2>3. \A u \in Threads : pc'[u] \in {"report", "recheck"} =>
          \A a \in DOMAIN later : seen'[u].timestamp < later[a]
    BY <1>1, <2>2 DEF NothingMissed
  <2>4. next_timestamp_bound_ # Done
    BY <2>1 DEF BeginsWith
  <2>5. CASE t = Worker
    <3>1. packets'[Closer] = <<>>
      <4>1. packets[Closer] = <<>>
        BY <1>1, <2>4, OnlyWorker DEF Writers
      <4> QED
        BY <2>2, <2>5, <4>1
    <3>2. PendingOf(Closer, 1)' = <<>>
      BY <3>1 DEF PendingOf
    <3> QED
      BY <2>3, <3>1, <3>2 DEF NothingMissed
  <2>6. CASE t = Closer
    <3>1. ASSUME pc[Worker] # "idle", ps # <<>>
          PROVE  bound[Worker] < ps[1] /\ b < ps[1]
      <4>1. /\ packets[Worker] = <<>> /\ ps[1] \in ClosingPackets /\ next_timestamp_bound_ <= ps[1]
        BY <2>1, <2>6, <3>1 DEF BeginsWith
      <4>2. bound[Worker] = next_timestamp_bound_ /\ bound[Worker] \in Bounds
        BY <2>4, <3>1, <4>1 DEF WorkerBound
      <4>3. bound[Worker] # ps[1]
        BY <4>1, <4>2
      <4>4. ps[1] \in Int /\ next_timestamp_bound_ \in Int
        <5>1. ps[1] \in Time
          BY <3>1 DEF Writes
        <5> QED
          BY <1>1, <5>1, Integral DEF Typed
      <4>5. b <= next_timestamp_bound_
        BY <1>1 DEF InOrder
      <4> QED
        BY <1>1, <4>1, <4>2, <4>3, <4>4, <4>5
    <3>2. packets'[Closer] = ps /\ pc'[Worker] = pc[Worker] /\ bound'[Worker] = bound[Worker]
          /\ PendingOf(Closer, 1)' \in {ps, <<>>}
      BY <1>1, <2>2, <2>6 DEF PendingOf
    <3>3. UNCHANGED stream
      BY <2>2
    <3> QED
      BY <2>3, <3>1, <3>2, <3>3 DEF NothingMissed
  <2>7. CASE t = App
    <3>1. UNCHANGED stream /\ pc'[Worker] = pc[Worker] /\ bound'[Worker] = bound[Worker]
          /\ packets'[Closer] = packets[Closer] /\ PendingOf(Closer, 1)' = PendingOf(Closer, 1)
      BY <1>1, <2>2, <2>7 DEF PendingOf, Unsent
    <3> QED
      BY <2>3, <3>1 DEF NothingMissed
  <2> QED
    BY <2>5, <2>6, <2>7
<1>3. ASSUME NEW t \in Threads, WriterStep(t)
      PROVE  NothingMissed'
  <2>1. /\ \A u \in Threads : pc'[u] # "idle" => pc[u] # "idle"
        /\ pc[t] # "idle"
        /\ b <= c /\ c \in Int
    BY <1>3, WriterFrame, ObserverStream
  <2>2. pc'[Worker] # "idle" => bound'[Worker] = bound[Worker]
    BY <1>1, <1>3, WriterFrame DEF NextMirror, GoTo
  <2>3. packets'[Closer] # <<>> => packets'[Closer] = packets[Closer]
    BY <1>1, <1>3, WriterFrame DEF NextMirror
  <2>4. packets'[Closer] # <<>> /\ pc'[Worker] # "idle" => bound'[Worker] < packets'[Closer][1]
    BY <2>1, <2>2, <2>3 DEF NothingMissed
  <2>5. PendingOf(Closer, 1)' # <<>> =>
          PendingOf(Closer, 1) # <<>> /\ ~(t = Closer /\ i[t] = 1 /\ (Add(t) \/ SetBound(t)))
    <3>1. CASE Add(t)
      BY <1>1, <3>1, PendingAdded DEF Add, SetBound
    <3>2. CASE ~Add(t)
      <4>1. Unsent(Closer, 1)' => Unsent(Closer, 1)
        <5>1. CASE t # Closer
          BY <1>3, <5>1, WriterFrame DEF Unsent
        <5>2. CASE t = Closer /\ NextMirror(t)
          <6>1. \/ i[t] < Len(Mirrors)
                \/ pc' = [pc EXCEPT ![t] = "idle"] /\ i' = [i EXCEPT ![t] = 1]
            BY <5>2 DEF NextMirror, GoTo
          <6>2. CASE i[t] < Len(Mirrors)
            <7>1. Len(Mirrors) = 2 /\ i[t] \in {1, 2}
              BY <1>1, MirrorOf
            <7>2. i[t] = 1
              BY <6>2, <7>1
            <7>3. i' = [i EXCEPT ![t] = i[t] + 1]
              BY <5>2, <6>2 DEF NextMirror
            <7>4. i'[Closer] = 2
              BY <1>1, <5>2, <7>2, <7>3
            <7> QED
              BY <7>4 DEF Unsent
          <6>3. CASE pc' = [pc EXCEPT ![t] = "idle"] /\ i' = [i EXCEPT ![t] = 1]
            <7>1. pc'[Closer] = "idle" /\ i'[Closer] = 1
              BY <1>1, <5>2, <6>3
            <7> QED
              BY <7>1 DEF Unsent
          <6> QED
            BY <6>1, <6>2, <6>3
        <5>3. CASE t = Closer /\ ~NextMirror(t)
          <6>1. pc'[t] # "add"
            BY <1>1, <1>3, <3>2, <5>3, WritesStay DEF WriterStep, NotifyPoller, EnterNotify,
               LookAtStream, Report, Recheck, PopObserved, Callback, NotifyFails,
               EmittedObservedOutput, GoTo, Typed
          <6> QED
            BY <1>3, <5>3, <6>1, WriterFrame DEF Unsent
        <5> QED
          BY <5>1, <5>2, <5>3
      <4>2. ASSUME t = Closer, i[t] = 1, SetBound(t)
            PROVE  PendingOf(Closer, 1)' = <<>>
        <5>1. ~Unsent(Closer, 1)
          BY <4>2 DEF Unsent, SetBound
        <5> QED
          BY <4>1, <5>1 DEF PendingOf
      <4> QED
        BY <2>3, <3>2, <4>1, <4>2 DEF PendingOf
    <3> QED
      BY <3>1, <3>2
  <2>6. PendingOf(Closer, 1)' # <<>> /\ pc'[Worker] # "idle" => c < packets'[Closer][1]
    <3> SUFFICES ASSUME PendingOf(Closer, 1)' # <<>>, pc'[Worker] # "idle"
                 PROVE  c < packets'[Closer][1]
      OBVIOUS
    <3>1. /\ packets'[Closer] # <<>> /\ PendingOf(Closer, 1) # <<>> /\ pc[Worker] # "idle"
          /\ ~(t = Closer /\ i[t] = 1 /\ (Add(t) \/ SetBound(t)))
      <4>1. packets'[Closer] # <<>>
        BY DEF PendingOf
      <4> QED
        BY <2>1, <2>5, <4>1
    <3>2. packets'[Closer] = packets[Closer] /\ b < p /\ bound[Worker] < p
      BY <2>3, <3>1 DEF NothingMissed
    <3>3. CASE c = b
      BY <3>2, <3>3
    <3>4. CASE c # b
      <4>1. i[t] = 1 /\ (SetBound(t) \/ (Add(t) /\ packets[t] # <<>>))
        BY <1>3, <3>4, ObserverStream
      <4>2. t = Worker
        BY <1>1, <2>1, <3>1, <4>1 DEF Writers
      <4>3. packets[Worker] = <<>>
        BY <1>1, <3>1, <3>2 DEF Writers
      <4>4. c = bound[Worker]
        BY <1>3, <3>4, <4>1, <4>2, <4>3, ObserverStream
      <4> QED
        BY <3>2, <4>4
    <3> QED
      BY <3>3, <3>4
  <2>7. ASSUME NEW u \in Threads, pc'[u] \in {"report", "recheck"}, NEW a \in DOMAIN later
        PROVE  seen'[u].timestamp < later[a]
    <3>1. CASE pc[u] \in {"report", "recheck"} /\ seen'[u] = seen[u]
      <4>1. ~PopObserved(t)
        BY <1>1, <2>7, <3>1, WriterFrame, PopObservedTyped DEF OneNotifies, Loop, PopObserved
      <4>2. CASE later = q
        BY <3>1, <4>2 DEF NothingMissed
      <4>3. CASE later # q
        <5>1. Add(t) /\ i[t] = 1 /\ packets[t] # <<>> /\ later = Append(q, packets[t][1])
          BY <1>3, <4>1, <4>3, ObserverStream
        <5>2. seen[u].timestamp \in Int /\ seen[u].timestamp <= b
          BY <1>1, <3>1, Integral DEF ObservedSoFar
        <5>3. packets[t][1] \in Int /\ PendingOf(t, 1) = packets[t] /\ pc[t] = "add"
          <6>1. packets[t][1] \in Time
            BY <1>1, <5>1, PacketOf
          <6> QED
            BY <5>1, <6>1, Integral DEF PendingOf, Unsent, Add
        <5>4. b < packets[t][1]
          <6>1. u # t /\ pc[u] # "idle"
            BY <3>1, <5>3
          <6>2. t = Closer /\ u = Worker
            BY <1>1, <5>1, <5>3, <6>1 DEF Writers
          <6> QED
            BY <5>1, <5>3, <6>1, <6>2 DEF NothingMissed
        <5>5. CASE a \in DOMAIN q
          <6>1. later[a] = q[a]
            BY <1>1, <5>1, <5>5
          <6> QED
            BY <3>1, <5>5, <6>1 DEF NothingMissed
        <5>6. CASE a \notin DOMAIN q
          <6>1. packets[t][1] \in Time
            BY <1>1, <5>1, PacketOf
          <6>2. later[a] = packets[t][1]
            BY <1>1, <2>7, <5>1, <5>6, <6>1
          <6> QED
            BY <1>1, <3>1, <5>2, <5>3, <5>4, <6>2
        <5> QED
          BY <5>5, <5>6
      <4> QED
        BY <4>2, <4>3
    <3>2. CASE LookAtStream(t) /\ u = t
      <4>1. q = <<>> /\ later = q
        BY <1>1, <2>7, <3>2 DEF LookAtStream, GoTo, IsEmpty, outputVars
      <4> QED
        BY <2>7, <4>1
    <3>3. \/ pc[u] \in {"report", "recheck"} /\ seen'[u] = seen[u]
          \/ LookAtStream(t) /\ u = t
      <4>1. CASE u # t
        BY <1>3, <2>7, <4>1, WriterFrame
      <4>2. CASE u = t /\ (Add(t) \/ SetBound(t) \/ NextMirror(t) \/ EmittedObservedOutput(t))
        <5>1. pc'[t] \notin {"report", "recheck"}
          BY <1>1, <4>2, WritesStay DEF NextMirror, EmittedObservedOutput, GoTo, Typed
        <5> QED
          BY <2>7, <4>2, <5>1
      <4>3. CASE u = t /\ (NotifyPoller(t) \/ EnterNotify(t) \/ Recheck(t) \/ PopObserved(t)
                             \/ Callback(t) \/ NotifyFails(t))
        <5>1. pc'[t] \notin {"report", "recheck"}
          BY <1>1, <4>3 DEF NotifyPoller, EnterNotify, Recheck, PopObserved, Callback, NotifyFails, GoTo
        <5> QED
          BY <2>7, <4>3, <5>1
      <4>4. CASE u = t /\ Report(t)
        BY <4>4 DEF Report
      <4> QED
        BY <1>3, <4>1, <4>2, <4>3, <4>4 DEF WriterStep
    <3> QED
      BY <3>1, <3>2, <3>3
  <2> QED
    BY <2>4, <2>6, <2>7 DEF NothingMissed
<1>4. CASE Poll \/ Terminate \/ CallWait \/ TestForSignal \/ UNCHANGED vars
  <2>1. UNCHANGED threadVars /\ stream'[Observer] = stream[Observer]
    BY <1>4, AsideSteps
  <2> QED
    BY <2>1 DEF NothingMissed, threadVars, PendingOf, Unsent
<1>5. CASE CleanUpMirrors
  <2>1. stream'[Observer] = Close(stream[Observer])
    BY <1>1, <1>5 DEF CleanUpMirrors, Typed
  <2>2. later = q
    BY <1>1, <2>1, MirrorFields, CloseFields
  <2>3. UNCHANGED threadVars /\ pc[Worker] = "idle"
    BY <1>5, WorkerIdle DEF CleanUpMirrors
  <2> QED
    BY <2>2, <2>3 DEF NothingMissed, threadVars
<1>6. CASE StartRun
  <2>1. later = <<>>
    BY <1>1, <1>6, NewStreamFields DEF StartRun, Typed
  <2>2. UNCHANGED threadVars /\ pc[Worker] = "idle"
    BY <1>6, WorkerIdle DEF StartRun
  <2>3. \A a \in DOMAIN later : FALSE
    BY <2>1
  <2> QED
    BY <2>2, <2>3 DEF NothingMissed, threadVars
<1> QED
  BY <1>2, <1>3, <1>4, <1>5, <1>6 DEF Next, CleanUp

LEMMA BoundArrivesKept ==
  ASSUME IInv, IInv', WorkerBound, BoundArrives, [Next]_vars
  PROVE  BoundArrives'
<1> USE ThreadNames
<1> DEFINE s == stream[Observer]
           b == s.next_timestamp_bound_
           c == stream'[Observer].next_timestamp_bound_
<1>1. /\ Typed /\ Writers /\ BoundsSent /\ InOrder(Observer) /\ InOrder(Poller) /\ ObservedSoFar
      /\ pc \in [Threads -> Labels] /\ i \in [Threads -> {1, 2}]
      /\ after \in [Threads -> {"bound", "next"}] /\ s \in Streams
      /\ next_timestamp_bound_ \in Int
  BY MirrorFields, Integral DEF IInv, Typed
<1>2. c <= next_timestamp_bound_'
  BY DEF IInv, InOrder
<1> SUFFICES ASSUME next_timestamp_bound_' # Done, ~has_error_', c # next_timestamp_bound_'
             PROVE  pc'[Worker] # "idle" /\ BoundUnsent(Worker)'
  BY DEF BoundArrives
<1>3. CASE WorkerWrites \/ CloserWrites \/ CleanUpNode
  <2>1. PICK t \in Threads, ps \in Writes, e \in Marks : BeginsWith(t, ps, e)
    BY <1>1, <1>3, Begins
  <2>2. pc[t] = "idle" /\ pc' = [pc EXCEPT ![t] = "add"] /\ next_timestamp_bound_' = e /\ UNCHANGED i
    BY <2>1 DEF BeginsWith, Begin, GoTo
  <2>3. t = Worker
    BY <2>1, <2>2 DEF BeginsWith
  <2> QED
    BY <1>1, <2>2, <2>3 DEF Writers, BoundUnsent
<1>4. ASSUME NEW t \in Threads, WriterStep(t)
      PROVE  pc'[Worker] # "idle" /\ BoundUnsent(Worker)'
  <2>1. /\ t = Worker /\ next_timestamp_bound_' = next_timestamp_bound_ /\ ~has_error_
        /\ pc[Worker] # "idle" /\ bound[Worker] = next_timestamp_bound_
    BY <1>4, WriterFrame, OnlyWorker DEF WorkerBound
  <2>2. b \in Int /\ c \in Int /\ b <= c
    BY <1>4, ObserverStream
  <2>3. ~(next_timestamp_bound_ <= b) /\ ~(next_timestamp_bound_ <= c)
    BY <1>1, <1>2, <2>1, <2>2
  <2>4. BoundUnsent(Worker)
    <3>1. b # next_timestamp_bound_
      BY <1>1, <2>2, <2>3
    <3> QED
      BY <2>1, <3>1 DEF BoundArrives
  <2>5. i[Worker] = 1 /\ (pc[Worker] \in {"add", "bound"} \/ after[Worker] = "bound")
    BY <2>4 DEF BoundUnsent
  <2>6. CASE Add(t)
    <3>1. /\ UNCHANGED i
          /\ \/ pc'[t] = "bound"
             \/ pc'[t] = "notify" /\ after'[t] = "bound"
      BY <1>1, <2>6, WritesStay DEF Add
    <3> QED
      BY <2>1, <2>5, <3>1 DEF BoundUnsent
  <2>7. CASE SetBound(t)
    <3>1. Mirrors[i[t]] = Observer /\ pc[t] = "bound"
      BY <1>1, <2>1, <2>5, <2>7, MirrorOf DEF SetBound
    <3>2. \/ ~SetsBound(t) \/ s.closed_
          \/ bound[t] <= c
      <4>1. PICK set \in Streams :
              /\ stream' = [stream EXCEPT ![Observer] = set]
              /\ \/ has_error_' \/ ~SetsBound(t) \/ s.closed_
                 \/ bound[t] <= set.next_timestamp_bound_
        BY <1>1, <2>7, <3>1, SetBoundEffect
      <4>2. stream'[Observer] = set
        BY <1>1, <4>1 DEF Typed
      <4> QED
        BY <4>1, <4>2
    <3>3. ~s.closed_
      BY <1>1, <2>1 DEF InOrder, Writers
    <3>4. ~SetsBound(t) => bound[t] <= b
      BY <2>1, <2>5, <3>1 DEF SetsBound, WorkerBound, Unsent
    <3> QED
      BY <2>1, <2>3, <3>2, <3>3, <3>4
  <2>8. CASE NextMirror(t)
    BY <1>1, <2>1, <2>5, <2>8 DEF NextMirror, Writers
  <2>9. CASE EmittedObservedOutput(t)
    BY <1>1, <2>1, <2>5, <2>9 DEF EmittedObservedOutput, GoTo, BoundUnsent
  <2>10. CASE \/ NotifyPoller(t) \/ EnterNotify(t) \/ LookAtStream(t) \/ Report(t) \/ Recheck(t)
              \/ PopObserved(t) \/ Callback(t) \/ NotifyFails(t)
    <3>1. Quiet(t) /\ UNCHANGED after /\ pc[t] \in Loop \cup {"notify"}
      BY <1>1, <2>10, QuietSteps, LoopSteps
    <3> QED
      BY <2>1, <2>5, <3>1 DEF Quiet, BoundUnsent, Loop
  <2> QED
    BY <1>4, <2>6, <2>7, <2>8, <2>9, <2>10 DEF WriterStep
<1>5. CASE Poll \/ Terminate \/ CallWait \/ TestForSignal \/ UNCHANGED vars
  <2>1. UNCHANGED <<next_timestamp_bound_, threadVars, runVars>> /\ c = b
    BY <1>5, AsideSteps
  <2> QED
    BY <2>1 DEF BoundArrives, BoundUnsent, threadVars, runVars
<1>6. CASE CleanUpMirrors
  BY <1>6 DEF CleanUpMirrors
<1>7. CASE StartRun
  BY <1>1, <1>7, NewStreamFields DEF StartRun, Typed
<1> QED
  BY <1>3, <1>4, <1>5, <1>6, <1>7 DEF Next, CleanUp

\* The thread that changes the bound of the observer notifies, or another one does.
LEMMA BoundAttended ==
  ASSUME IInv, Attended, NEW t \in {Worker, Closer}, Add(t) \/ SetBound(t),
         stream'[Observer].next_timestamp_bound_ # stream[Observer].next_timestamp_bound_
  PROVE  Attention'
<1> USE ThreadNames
<1> DEFINE s == stream[Observer]
<1>1. /\ Typed /\ Writers /\ InOrder(Observer) /\ InOrder(Poller) /\ pc \in [Threads -> Labels]
      /\ i \in [Threads -> {1, 2}] /\ t \in Threads /\ WriterStep(t) /\ pc[t] \in {"add", "bound"}
  BY DEF IInv, Typed, WriterStep, Add, SetBound
<1>2. i[t] = 1 /\ Mirrors[i[t]] = Observer /\ i' = i /\ (Add(t) => packets[t] # <<>>)
  <2>1. i[t] = 1 /\ (Add(t) => packets[t] # <<>>)
    <3>1. ~(Add(t) /\ SetBound(t))
      BY DEF Add, SetBound
    <3> QED
      BY <1>1, <3>1, ObserverStream
  <2> QED
    BY <1>1, <2>1, WritesStay, MirrorOf
<1>3. CASE ~IsEmpty(s)
  <2>1. Attention /\ ~Recheck(t)
    BY <1>1, <1>3 DEF Attended, Recheck
  <2> QED
    BY <1>1, <2>1, AttentionKept
<1>4. CASE IsEmpty(s)
  <2>1. pc' = [pc EXCEPT ![t] = "notify"]
    <3>1. CASE Add(t)
      <4>1. NotifyIf(t, packets[t] # <<>> /\ IsEmpty(s), "bound")
        BY <1>1, <1>2, <3>1, AddEffect
      <4> QED
        BY <1>2, <1>4, <3>1, <4>1 DEF NotifyIf, GoTo
    <3>2. CASE SetBound(t)
      <4>1. PICK set \in Streams :
              /\ stream' = [stream EXCEPT ![Observer] = set]
              /\ NotifyIf(t, set # s /\ IsEmpty(s), "next")
        BY <1>1, <1>2, <3>2, SetBoundEffect
      <4>2. stream'[Observer] = set
        BY <1>1, <4>1 DEF Typed
      <4>3. set # s
        BY <4>2
      <4> QED
        BY <1>4, <4>1, <4>3 DEF NotifyIf, GoTo
    <3> QED
      BY <3>1, <3>2
  <2> QED
    BY <1>1, <1>2, <2>1 DEF Attention
<1> QED
  BY <1>3, <1>4

LEMMA BoundReportedKept ==
  ASSUME IInv, Attended, BoundReported, [Next]_vars
  PROVE  BoundReported'
<1> USE ThreadNames
<1> DEFINE s == stream[Observer]
           b == s.next_timestamp_bound_
           c == stream'[Observer].next_timestamp_bound_
           Reported ==
             /\ last_processed_ts_ = reported
             /\ Attention \/ reported >= PreviousAllowedInStream(b)
             /\ pc[Worker] \in {"report", "recheck"} => seen[Worker].timestamp = b
             /\ pc[Worker] = "recheck" => reported >= Settled(seen[Worker].timestamp)
<1>1. /\ Typed /\ Writers /\ BoundsSent /\ InOrder(Observer) /\ OneNotifies
      /\ pc \in [Threads -> Labels] /\ i \in [Threads -> {1, 2}] /\ seen \in [Threads -> Looks]
      /\ s \in Streams /\ b \in Marks /\ next_timestamp_bound_ \in Marks
  BY MirrorFields DEF IInv, Typed
<1> SUFFICES ASSUME observe_timestamp_bounds', runs' = 1, next_timestamp_bound_' # Done, ~has_error_'
             PROVE  Reported'
  BY DEF BoundReported
<1>2. CASE WorkerWrites \/ CloserWrites \/ CleanUpNode
  <2>1. PICK t \in Threads, ps \in Writes, e \in Marks : BeginsWith(t, ps, e)
    BY <1>1, <1>2, Begins
  <2>2. /\ pc[t] = "idle" /\ pc' = [pc EXCEPT ![t] = "add"] /\ next_timestamp_bound_ # Done
        /\ UNCHANGED <<stream, i, seen, observerVars, runVars>>
    BY <2>1 DEF BeginsWith, Begin, GoTo
  <2>3. Reported
    BY <2>2 DEF BoundReported, runVars
  <2>4. Attention => Attention'
    BY <1>1, <2>2 DEF Attention, observerVars
  <2>5. pc'[Worker] \in {"report", "recheck"} => pc'[Worker] = pc[Worker]
    BY <1>1, <2>2
  <2> QED
    BY <2>2, <2>3, <2>4, <2>5 DEF observerVars
<1>3. ASSUME NEW t \in Threads, WriterStep(t)
      PROVE  Reported'
  <2>1. /\ t = Worker /\ pc' = [pc EXCEPT ![t] = pc'[t]]
        /\ next_timestamp_bound_ # Done /\ observe_timestamp_bounds /\ runs = 1 /\ ~has_error_
    BY <1>3, WriterFrame, OnlyWorker
  <2>2. Reported
    BY <2>1 DEF BoundReported
  <2>3. ~Recheck(t) /\ Attention => Attention'
    BY <1>3, AttentionKept
  <2>4. pc[t] \in Loop => notifying_
    BY <1>1 DEF OneNotifies
  <2>5. CASE Add(t) \/ SetBound(t)
    <3>1. UNCHANGED <<reported, last_processed_ts_>> /\ pc'[t] \notin {"report", "recheck"}
      BY <1>1, <2>5, WritesStay DEF IInv
    <3>2. c # b => Attention'
      BY <2>1, <2>5, BoundAttended
    <3>3. ~Recheck(t)
      BY <2>5 DEF Add, SetBound, Recheck
    <3> QED
      BY <2>1, <2>2, <2>3, <3>1, <3>2, <3>3
  <2>6. CASE NextMirror(t) \/ NotifyPoller(t) \/ EmittedObservedOutput(t)
    <3>1. UNCHANGED <<reported, last_processed_ts_, stream>> /\ ~Recheck(t)
      BY <2>6 DEF NextMirror, NotifyPoller, EmittedObservedOutput, Recheck, observerVars, outputVars
    <3>2. pc'[t] \notin {"report", "recheck"}
      BY <1>1, <2>6 DEF NextMirror, NotifyPoller, EmittedObservedOutput, GoTo, Typed
    <3> QED
      BY <2>1, <2>2, <2>3, <3>1, <3>2
  <2>7. CASE EnterNotify(t)
    <3>1. UNCHANGED <<reported, last_processed_ts_>> /\ notifying_'
      BY <2>7 DEF EnterNotify
    <3>2. pc'[t] \notin {"report", "recheck"}
      BY <1>1, <2>7 DEF EnterNotify, GoTo
    <3> QED
      BY <2>1, <2>2, <3>1, <3>2 DEF Attention
  <2>8. CASE LookAtStream(t)
    <3>1. /\ UNCHANGED <<reported, last_processed_ts_, stream, notifying_>> /\ pc[t] = "look"
          /\ seen' = [seen EXCEPT ![t] = Look(Observer)]
          /\ pc' = [pc EXCEPT ![t] = IF IsEmpty(s) THEN "report" ELSE "pop"]
      BY <2>8 DEF LookAtStream, observerVars, outputVars, GoTo
    <3>2. notifying_'
      BY <2>4, <3>1 DEF Loop
    <3>3. pc'[Worker] # "recheck" /\ (pc'[Worker] = "report" => seen'[Worker].timestamp = b)
      BY <1>1, <2>1, <3>1 DEF Look, MinTimestampOrBound
    <3> QED
      BY <2>2, <3>1, <3>2, <3>3 DEF Attention
  <2>9. CASE Report(t)
    <3>1. /\ pc[t] = "report" /\ UNCHANGED <<stream, seen, notifying_>>
          /\ \/ ~ReportsBound(t) /\ UNCHANGED <<last_processed_ts_, reported>>
             \/ /\ last_processed_ts_' = Settled(seen[t].timestamp)
                /\ reported' = Settled(seen[t].timestamp)
             \/ pc' = [pc EXCEPT ![t] = "error"] /\ UNCHANGED <<last_processed_ts_, reported>>
      BY <2>9 DEF Report, outputVars, GoTo
    <3>2. notifying_'
      BY <2>4, <3>1 DEF Loop
    <3>3. seen[t].timestamp = b /\ last_processed_ts_ = reported
      BY <2>1, <2>2, <3>1
    <3>4. b < Done
      <4>1. b <= next_timestamp_bound_ /\ next_timestamp_bound_ <= Done
        BY <1>1, Arithmetic DEF InOrder
      <4>2. b \in Int /\ next_timestamp_bound_ \in Int /\ Done \in Int
        BY <1>1, Integral DEF Marks
      <4> QED
        BY <2>1, <4>1, <4>2
    <3>5. reported \in Int /\ Settled(b) \in Int
      <4>1. Settled(b) = PreviousAllowedInStream(b)
        BY <1>1, Arithmetic DEF Settled
      <4>2. PreviousAllowedInStream(b) \in Timestamp /\ reported \in Timestamp
        BY <1>1, Arithmetic DEF Typed
      <4> QED
        BY <4>1, <4>2, Integral
    <3>6. CASE ~ReportsBound(t) /\ UNCHANGED <<last_processed_ts_, reported>>
      <4>1. reported >= Settled(b)
        BY <2>1, <3>3, <3>4, <3>5, <3>6 DEF ReportsBound
      <4> QED
        BY <2>1, <3>1, <3>2, <3>3, <3>6, <4>1 DEF Attention
    <3>7. CASE /\ last_processed_ts_' = Settled(seen[t].timestamp)
               /\ reported' = Settled(seen[t].timestamp)
      <4>1. reported' >= Settled(b)
        BY <3>3, <3>5, <3>7
      <4> QED
        BY <2>1, <3>1, <3>2, <3>3, <3>7, <4>1 DEF Attention
    <3>8. CASE pc' = [pc EXCEPT ![t] = "error"] /\ UNCHANGED <<last_processed_ts_, reported>>
      BY <1>1, <2>1, <3>2, <3>3, <3>8 DEF Attention
    <3> QED
      BY <3>1, <3>6, <3>7, <3>8
  <2>10. CASE Recheck(t)
    <3>1. /\ pc[t] = "recheck" /\ UNCHANGED <<stream, reported, last_processed_ts_>>
          /\ \E l \in {"look", "emitted"} : pc' = [pc EXCEPT ![t] = l]
      BY <2>10 DEF Recheck, outputVars, GoTo
    <3>2. reported >= PreviousAllowedInStream(b)
      <4>1. Settled(b) = PreviousAllowedInStream(b)
        BY <1>1, Arithmetic DEF Settled
      <4> QED
        BY <2>1, <2>2, <3>1, <4>1
    <3>3. pc'[Worker] \notin {"report", "recheck"}
      BY <1>1, <2>1, <3>1
    <3> QED
      BY <2>2, <3>1, <3>2, <3>3
  <2>11. CASE PopObserved(t) \/ Callback(t)
    <3>1. /\ pc[t] \in Loop /\ notifying_' = notifying_ /\ last_processed_ts_' = reported'
          /\ pc'[t] \notin {"report", "recheck"}
      BY <1>1, <2>2, <2>11 DEF PopObserved, Callback, GoTo, observerVars, Loop
    <3> QED
      BY <2>1, <2>4, <3>1 DEF Attention
  <2>12. CASE NotifyFails(t)
    BY <2>12 DEF NotifyFails, RecordError
  <2> QED
    BY <1>3, <2>5, <2>6, <2>7, <2>8, <2>9, <2>10, <2>11, <2>12 DEF WriterStep
<1>4. CASE Poll \/ Terminate \/ CallWait \/ TestForSignal \/ UNCHANGED vars
  <2>1. UNCHANGED <<next_timestamp_bound_, threadVars, observerVars, runVars>> /\ c = b
    BY <1>4, AsideSteps
  <2> QED
    BY <2>1 DEF BoundReported, Attention, threadVars, observerVars, runVars
<1>5. CASE CleanUpMirrors
  BY <1>5 DEF CleanUpMirrors
<1>6. CASE StartRun
  BY <1>1, <1>6 DEF StartRun, Typed
<1> QED
  BY <1>2, <1>3, <1>4, <1>5, <1>6 DEF Next, CleanUp

LEMMA InitComplete == Init => Complete
<1> SUFFICES ASSUME Init PROVE Complete
  OBVIOUS
<1> USE ThreadNames
<1>1. /\ \A t \in Threads : /\ pc[t] = "idle" /\ packets[t] = <<>>
      /\ next_timestamp_bound_ = PreStream /\ reported = Unstarted /\ last_processed_ts_ = Unstarted
      /\ stream[Observer].queue = <<>> /\ stream[Observer].next_timestamp_bound_ = PreStream
  BY NewStreamFields DEF Init
<1>2. PreviousAllowedInStream(PreStream) = Unstarted
  BY MaxTimestampAssumption DEF PreviousAllowedInStream, PreStream, MinTime
<1>3. WorkerBound /\ NothingMissed
  BY <1>1 DEF WorkerBound, NothingMissed
<1>4. Attended /\ BoundArrives
  BY <1>1 DEF Attended, BoundArrives, IsEmpty
<1>5. BoundReported
  BY <1>1, <1>2 DEF BoundReported, Unstarted
<1> QED
  BY <1>3, <1>4, <1>5 DEF Complete

LEMMA ObservedAtRest ==
  ASSUME IInv, Complete
  PROVE  EveryPacketObserved
<1> USE ThreadNames
<1>1. /\ Typed /\ Writers /\ InOrder(Observer) /\ ObservedSoFar /\ ObservedInOrder
      /\ observed \in Seq(Time)
  BY ObservedFirst DEF IInv, Typed
<1>2. ASSUME pc[Worker] = "idle", pc[Closer] = "idle", ~notifying_
      PROVE  observed = emitted
  <2>1. PICK gap \in Seq(Time) : InHand(gap)
    BY <1>1 DEF ObservedSoFar
  <2>2. gap = <<>>
    BY <1>2, <2>1 DEF InHand
  <2>3. stream[Observer].queue = <<>>
    BY <1>2 DEF Complete, Attended, Attention, IsEmpty
  <2>4. Pending(1) = <<>>
    <3>1. PendingOf(Worker, 1) = <<>> /\ PendingOf(Closer, 1) = <<>>
      BY <1>1, <1>2 DEF Writers, PendingOf
    <3> QED
      BY <3>1, EmptySeq, Concatenation DEF Pending
  <2>5. emitted = observed \o <<>> \o <<>> \o <<>>
    BY <2>1, <2>2, <2>3, <2>4 DEF InHand
  <2>6. observed \o <<>> = observed
    BY <1>1, Concatenation
  <2> QED
    BY <2>5, <2>6
<1>3. AtRest => observed = emitted
  BY <1>2 DEF AtRest
<1>4. wait = "done" /\ ~has_error_ /\ ~notifying_ => observed = emitted
  BY <1>1, <1>2 DEF Writers
<1>5. ASSUME AtRest, observe_timestamp_bounds, runs = 1, next_timestamp_bound_ # Done
      PROVE  reported >= PreviousAllowedInStream(next_timestamp_bound_)
  <2>1. stream[Observer].next_timestamp_bound_ = next_timestamp_bound_
    BY <1>5 DEF Complete, BoundArrives, AtRest
  <2>2. ~Attention
    BY <1>5 DEF Attention, AtRest
  <2> QED
    BY <1>5, <2>1, <2>2 DEF Complete, BoundReported, AtRest
<1> QED
  BY <1>1, <1>3, <1>4, <1>5 DEF EveryPacketObserved, ObservedInOrder

\* The callback of the observer has got every packet, and in the first run the last
\* bound, when the threads that write are done and when WaitForObservedOutput says that
\* the graph is, if Close() of the node sends no packet at the timestamp of a bound.
THEOREM PacketsObserved ==
  ASSUME ClosingPackets \cap Bounds = {}
  PROVE  Spec => []EveryPacketObserved
<1>1. IInv /\ Complete /\ [Next]_vars => Complete'
  <2> SUFFICES ASSUME IInv, Complete, [Next]_vars PROVE Complete'
    OBVIOUS
  <2>1. IInv'
    BY InvariantKept
  <2> QED
    BY <2>1, WorkerBoundKept, AttendedKept, NothingMissedKept, BoundArrivesKept, BoundReportedKept
       DEF Complete
<1> QED
  BY <1>1, InitComplete, Invariance, ObservedAtRest, PTL DEF Spec
=============================================================================
