------------------------- MODULE InputStreams_proofs -------------------------
(***************************************************************************)
(* The safety of InputStreams, for any streams, sync sets and packets, and *)
(* however packets and bounds come in while the node looks at its streams  *)
(* one at a time.                                                          *)
(*                                                                         *)
(* The types come first (TInv): the queue of a stream is in order and      *)
(* before its bound (Ordered), whatever the nodes upstream send. Then what *)
(* every handler has in common: the bound of a stream is not ahead of the  *)
(* node upstream (Upstreams), so nothing is refused; and a stream only     *)
(* grows while it is looked at, so that what was seen of it is a lower     *)
(* limit of what is there (SeenSound). That a timestamp is settled, once   *)
(* seen, stays true until the stream is popped (Settled).                  *)
(*                                                                         *)
(* From there each handler has its own invariant. With one input timestamp *)
(* for a sync set (Sets): what is ready may be selected from all streams   *)
(* of the set (MayFill), nothing is waiting that was selected before, and  *)
(* a set that is taken off the list is done. The barrier only has to find  *)
(* an allowed timestamp (Allowed). A mux selects the control stream last   *)
(* of all, and erases from the other streams only what comes before the    *)
(* frontier of the control stream (Muxed); its CHECK_EQ, which does fail,  *)
(* is left aside. A timestamp-align handler has chosen its offsets so      *)
(* that, shifted by them, all streams are at one timestamp of the base     *)
(* stream or after it (Aligns); no timestamp may leave the range when it   *)
(* is shifted (Spread).                                                    *)
(*                                                                         *)
(* The bound reported while the node is not ready is not after what may    *)
(* still come on a stream that the node waits for (Ahead), nor after what  *)
(* it has seen of one already (LookedAt): streams only move on (Moves),    *)
(* the CHECKs aside, which the queues of a barrier do because their        *)
(* packets are in order (InLine). What is not ready is then not before the *)
(* bound, so a new bound is not before the old one; what is ready is at a  *)
(* packet, or at the timestamp before the bounds of all streams. In that   *)
(* last case a sync set might be ready before a bound reported at a        *)
(* packet, but for what Passed says: the packet is the next on every       *)
(* stream of the set. With a timestamp-align handler the same is said of   *)
(* the streams shifted (AlignKept).                                        *)
(***************************************************************************)
EXTENDS InputStreams, SequenceTheorems, FiniteSetTheorems, WellFoundedInduction, TLAPS

-----------------------------------------------------------------------------
(* The inductive invariant of the types. *)

Carried == PreStream .. PostStream      \* what a packet's timestamp may be
Marks == PreStream .. Done              \* what a bound may be
StreamRecords ==
  [queue : Seq(Carried), next_timestamp_bound_ : Marks, last_select_timestamp_ : Timestamp,
   used : BOOLEAN, closed_ : BOOLEAN, enable_timestamps_ : BOOLEAN]
Looks == [empty : BOOLEAN, timestamp : Timestamp]
MinOps == {"triggered", "latest", "erase_all"}
AnyOps == {"limit", "over", "keep_latest", "last", "bound", "keep_one", "erase"}
Ops == MinOps \cup AnyOps \cup {"done"}
SurplusRecords ==
  {x \in [op : Ops, todo : SUBSET Used, bound : Timestamp, limit : Nat] : x.op # "done" => x.todo # {}}

\* A stream in order: the packets in its queue may be sent, each leaves room for the
\* next and for what is to come, and one at PostStream is alone.
Ordered(queue, bound) ==
  /\ \A a, b \in DOMAIN queue : a < b => NextAllowedInStream(queue[a]) <= queue[b]
  /\ \A a \in DOMAIN queue : NextAllowedInStream(queue[a]) <= bound
  /\ \A a \in DOMAIN queue : queue[a] = PostStream => Len(queue) = 1
InOrder(h, a) ==
  /\ a \in StreamRecords
  /\ \A n \in DOMAIN a.queue : a.queue[n] \in h.packets
  /\ a.enable_timestamps_ = (h.kind # "barrier")
  /\ ~a.used => a.queue = <<>>
  /\ a.enable_timestamps_ => Ordered(a.queue, a.next_timestamp_bound_)

StreamsTyped ==
  /\ handler \in Handlers
  /\ stream \in [Streams -> StreamRecords] /\ \A s \in Streams : InOrder(handler, stream[s])
  /\ out_bound \in [Streams -> Marks]
  /\ notify \in [Streams -> {"none", "notify", "notify_erase", "erase", "erasing"}]
  /\ has_error_ \in BOOLEAN
SchedulerTyped ==
  /\ pending \in BOOLEAN
  /\ pc \in {"idle", "surplus", "look", "fill", "keep", "measure", "pop", "close", "closed"}
  /\ todo \in SUBSET Used
  /\ seen \in [Streams -> Looks]
  /\ \A s \in Streams : ~seen[s].empty => seen[s].timestamp \in handler.packets
  /\ input_timestamp \in Timestamp /\ input_bound \in Timestamp
HandlerTyped ==
  /\ sync_sets_ \in SUBSET Indices /\ ready \in SUBSET Indices
  /\ last_processed_ts_ \in [Indices -> Timestamp] /\ ready_timestamps_ \in [Indices -> Timestamp]
  /\ offsets_initialized_ \in BOOLEAN /\ timestamp_offsets_ \in [Streams -> Int]
  /\ kept_timestamp_ \in Timestamp /\ erase_mutex_ \in Streams \cup {0, Node}
  /\ surplus \in SurplusRecords
  /\ erased \in [Streams -> SUBSET Carried]

TInv == StreamsTyped /\ SchedulerTyped /\ HandlerTyped

-----------------------------------------------------------------------------
(* Timestamps, minima and maxima. *)

LEMMA Constant ==
  /\ MaxTimestamp \in Nat
  /\ Unset = -3 /\ Unstarted = -2 /\ PreStream = -1 /\ MinTime = 0 /\ MaxTime = MaxTimestamp
  /\ PostStream = MaxTimestamp + 1 /\ OneOverPostStream = MaxTimestamp + 2
  /\ Done = MaxTimestamp + 3
  /\ Timestamp = -3 .. MaxTimestamp + 3 /\ Carried = -1 .. MaxTimestamp + 1
  /\ Marks = -1 .. MaxTimestamp + 3
  BY MaxTimestampAssumption DEF Unset, Unstarted, PreStream, MinTime, MaxTime, PostStream,
     OneOverPostStream, Done, Timestamp, Carried, Marks

\* What the saturating operators return.
LEMMA NextIs ==
  ASSUME NEW t \in Timestamp
  PROVE  /\ NextAllowedInStream(t) = IF t = -1 \/ t >= MaxTimestamp THEN MaxTimestamp + 2
                                     ELSE IF t < 0 THEN 0 ELSE t + 1
         /\ NextAllowedInStream(t) \in Marks
         /\ t \in Carried => t < NextAllowedInStream(t)
  BY Constant DEF NextAllowedInStream, Plus

LEMMA PreviousIs ==
  ASSUME NEW t \in Timestamp
  PROVE  /\ PreviousAllowedInStream(t) = IF t <= 0 \/ t = MaxTimestamp + 1 THEN -2
                                         ELSE IF t > MaxTimestamp THEN MaxTimestamp ELSE t - 1
         /\ PreviousAllowedInStream(t) \in Timestamp
         /\ PreviousTimestamp(t) = IF t >= 1 /\ t <= MaxTimestamp THEN t - 1 ELSE t
         /\ PreviousTimestamp(t) \in Timestamp
  BY Constant DEF PreviousAllowedInStream, PreviousTimestamp, Plus, IsRangeValue

LEMMA PlusIs ==
  ASSUME NEW t \in 0 .. MaxTimestamp, NEW offset \in Int
  PROVE  /\ Plus(t, offset) \in 0 .. MaxTimestamp /\ Plus(t, offset) \in Timestamp
         /\ t + offset \in 0 .. MaxTimestamp => Plus(t, offset) = t + offset
  BY Constant DEF Plus

LEMMA Smallest ==
  ASSUME NEW T \in SUBSET Nat, T # {}
  PROVE  \E m \in T : \A y \in T : m <= y
<1> DEFINE Less == {ss \in Nat \X Nat : ss[1] < ss[2]}
<1>1. IsWellFoundedOn(Less, Nat)
  BY NatLessThanWellFounded DEF OpToRel
<1>2. PICK m \in T : \A y \in T : <<y, m>> \notin Less
  BY <1>1, WFMin
<1>3. ASSUME NEW y \in T PROVE m <= y
  <2>1. <<y, m>> \in Less <=> y < m
    OBVIOUS
  <2> QED
    BY <1>2, <2>1
<1> QED
  BY <1>3

\* A set of integers that is bounded from below has a minimum.
LEMMA MinIs ==
  ASSUME NEW k \in Int, NEW S \in SUBSET Int, S # {}, \A x \in S : k <= x
  PROVE  Min(S) \in S /\ \A x \in S : Min(S) <= x
<1>1. PICK T : T = {y \in Nat : \E x \in S : y = x - k}
  OBVIOUS
<1>2. \A x \in S : x \in Int /\ x - k \in Nat
  OBVIOUS
<1>3. \A x \in S : x - k \in T
  BY <1>1, <1>2
<1>4. T \in SUBSET Nat /\ T # {}
  BY <1>1, <1>3
<1>5. PICK m \in T : \A y \in T : m <= y
  BY <1>4, Smallest
<1>6. PICK n \in S : m = n - k
  BY <1>1, <1>5
<1>7. ASSUME NEW x \in S PROVE n <= x
  BY <1>2, <1>3, <1>5, <1>6
<1>8. Min(S) \in S /\ \A x \in S : Min(S) <= x
  BY <1>7 DEF Min
<1> QED
  BY <1>8

LEMMA MaxIs ==
  ASSUME NEW k \in Int, NEW S \in SUBSET Int, S # {}, \A x \in S : x <= k
  PROVE  Max(S) \in S /\ \A x \in S : x <= Max(S)
<1>1. PICK T : T = {y \in Nat : \E x \in S : y = k - x}
  OBVIOUS
<1>2. \A x \in S : x \in Int /\ k - x \in Nat
  OBVIOUS
<1>3. \A x \in S : k - x \in T
  BY <1>1, <1>2
<1>4. T \in SUBSET Nat /\ T # {}
  BY <1>1, <1>3
<1>5. PICK m \in T : \A y \in T : m <= y
  BY <1>4, Smallest
<1>6. PICK n \in S : m = k - n
  BY <1>1, <1>5
<1>7. ASSUME NEW x \in S PROVE n >= x
  BY <1>2, <1>3, <1>5, <1>6
<1>8. Max(S) \in S /\ \A x \in S : Max(S) >= x
  BY <1>7 DEF Max
<1> QED
  BY <1>8


-----------------------------------------------------------------------------
(* Queues and streams: what the operators of InputStreamManager do. *)

LEMMA QueueIs ==
  ASSUME NEW q \in Seq(Carried)
  PROVE  /\ Len(q) \in Nat /\ DOMAIN q = 1 .. Len(q)
         /\ \A n \in 1 .. Len(q) : q[n] \in Carried /\ q[n] \in Int /\ q[n] \in Timestamp
         /\ q = <<>> <=> Len(q) = 0
         /\ q # <<>> => Head(q) = q[1] /\ 1 \in DOMAIN q /\ Len(q) \in DOMAIN q
<1>1. Len(q) \in Nat /\ DOMAIN q = 1 .. Len(q)
  BY LenProperties
<1>2. \A n \in 1 .. Len(q) : q[n] \in Carried
  BY ElementOfSeq
<1>3. q # <<>> => Len(q) \in Nat \ {0}
  BY EmptySeq
<1>4. Len(<<>>) = 0
  BY EmptySeq
<1>5. q # <<>> => Head(q) = q[1]
  OBVIOUS
<1> QED
  BY <1>1, <1>2, <1>3, <1>4, <1>5, Constant

\* The packets that leave the queue are those before t at its head.
LEMMA CountIs ==
  ASSUME NEW q \in Seq(Carried), NEW t \in Int
  PROVE  /\ CountBefore(q, t) \in 0 .. Len(q)
         /\ \A i \in 1 .. CountBefore(q, t) : q[i] < t
         /\ CountBefore(q, t) < Len(q) => q[CountBefore(q, t) + 1] >= t
<1> DEFINE Stop == {n \in 0 .. Len(q) : n < Len(q) => q[n + 1] >= t}
<1>1. Stop \in SUBSET Nat /\ Len(q) \in Stop
  BY QueueIs
<1>2. PICK m \in Stop : \A y \in Stop : m <= y
  <2> HIDE DEF Stop
  <2> QED
    BY <1>1, Smallest
<1>3. ASSUME NEW i \in 1 .. m PROVE q[i] < t
  <2>0. m \in Nat /\ m <= Len(q) /\ Len(q) \in Nat
    BY QueueIs
  <2>1. i - 1 \in 0 .. Len(q) /\ i - 1 \notin Stop /\ i <= Len(q)
    <3>1. i \in Nat /\ i >= 1 /\ i <= m
      BY <2>0
    <3>2. i - 1 \in 0 .. Len(q) /\ i <= Len(q) /\ ~(m <= i - 1)
      BY <2>0, <3>1
    <3> QED
      BY <3>2, <1>2
  <2>2. ~(q[(i - 1) + 1] >= t) /\ (i - 1) + 1 = i
    BY <2>1
  <2> QED
    BY <2>1, <2>2, QueueIs
<1>4. \E n \in 0 .. Len(q) :
        (\A i \in 1 .. n : q[i] < t) /\ (n < Len(q) => q[n + 1] >= t)
  BY <1>2, <1>3
<1> QED
  BY <1>4 DEF CountBefore

LEMMA FromIs ==
  ASSUME NEW q \in Seq(Carried), NEW t \in Int, NEW n, n = CountBefore(q, t)
  PROVE  /\ From(q, t) \in Seq(Carried)
         /\ n \in 0 .. Len(q) /\ Len(From(q, t)) = Len(q) - n
         /\ \A i \in 1 .. Len(From(q, t)) : i + n \in 1 .. Len(q) /\ From(q, t)[i] = q[i + n]
         /\ \A i \in 1 .. n : q[i] < t
         /\ Len(From(q, t)) > 0 => From(q, t)[1] >= t
<1>1. n \in 0 .. Len(q) /\ Len(q) \in Nat
  BY CountIs, QueueIs
<1>2. \A i \in n + 1 .. Len(q) : q[i] \in Carried
  BY <1>1, QueueIs
<1>3. /\ SubSeq(q, n + 1, Len(q)) \in Seq(Carried)
      /\ Len(SubSeq(q, n + 1, Len(q))) = IF n + 1 <= Len(q) THEN Len(q) - (n + 1) + 1 ELSE 0
      /\ \A i \in 1 .. Len(q) - (n + 1) + 1 : SubSeq(q, n + 1, Len(q))[i] = q[n + 1 + i - 1]
  BY <1>1, <1>2, SubSeqProperties
<1>4. From(q, t) = SubSeq(q, n + 1, Len(q))
  BY DEF From
<1>5. Len(From(q, t)) = Len(q) - n
  BY <1>3, <1>4, <1>1
<1>6. ASSUME NEW i \in 1 .. Len(From(q, t))
      PROVE  i + n \in 1 .. Len(q) /\ From(q, t)[i] = q[i + n]
  <2>1. i \in 1 .. Len(q) - (n + 1) + 1 /\ n + 1 + i - 1 = i + n
    BY <1>5, <1>1
  <2> QED
    BY SMTT(30), <2>1, <1>3, <1>4, <1>1
<1>7. Len(From(q, t)) > 0 => From(q, t)[1] >= t
  <2> SUFFICES ASSUME Len(From(q, t)) > 0 PROVE From(q, t)[1] >= t
    OBVIOUS
  <2>1. 1 \in 1 .. Len(From(q, t)) /\ n < Len(q)
    BY <1>5, <1>1
  <2>2. From(q, t)[1] = q[1 + n]
    BY <2>1, <1>6
  <2>3. q[n + 1] >= t
    BY <2>1, CountIs
  <2>4. n + 1 = 1 + n
    BY <1>1
  <2> QED
    BY <2>2, <2>3, <2>4
<1> QED
  BY <1>1, <1>3, <1>4, <1>5, <1>6, <1>7, CountIs

\* What is known of a stream in order.
LEMMA Fields ==
  ASSUME NEW h \in Handlers, NEW a, InOrder(h, a)
  PROVE  /\ a \in StreamRecords /\ a.queue \in Seq(Carried)
         /\ a.next_timestamp_bound_ \in Marks /\ a.next_timestamp_bound_ \in Int
         /\ a.last_select_timestamp_ \in Timestamp /\ a.last_select_timestamp_ \in Int
         /\ a.used \in BOOLEAN /\ a.closed_ \in BOOLEAN /\ a.enable_timestamps_ \in BOOLEAN
         /\ Len(a.queue) \in Nat /\ DOMAIN a.queue = 1 .. Len(a.queue)
         /\ a.queue = <<>> <=> Len(a.queue) = 0
         /\ IsEmpty(a) <=> a.queue = <<>>
         /\ \A i \in 1 .. Len(a.queue) :
              /\ a.queue[i] \in h.packets /\ a.queue[i] \in Carried /\ a.queue[i] \in Int
              /\ a.queue[i] \in Timestamp
              /\ NextAllowedInStream(a.queue[i]) \in Int
              /\ a.queue[i] < NextAllowedInStream(a.queue[i])
         /\ a.enable_timestamps_ =>
              /\ \A i, j \in 1 .. Len(a.queue) : i < j => NextAllowedInStream(a.queue[i]) <= a.queue[j]
              /\ \A i \in 1 .. Len(a.queue) : NextAllowedInStream(a.queue[i]) <= a.next_timestamp_bound_
              /\ \A i \in 1 .. Len(a.queue) : a.queue[i] = PostStream => Len(a.queue) = 1
<1>1. a \in StreamRecords /\ a.queue \in Seq(Carried)
      /\ a.next_timestamp_bound_ \in Marks /\ a.next_timestamp_bound_ \in Int
      /\ a.last_select_timestamp_ \in Timestamp /\ a.last_select_timestamp_ \in Int
      /\ a.used \in BOOLEAN /\ a.closed_ \in BOOLEAN /\ a.enable_timestamps_ \in BOOLEAN
  BY Constant DEF InOrder, StreamRecords
<1>2. Len(a.queue) \in Nat /\ DOMAIN a.queue = 1 .. Len(a.queue) /\ (a.queue = <<>> <=> Len(a.queue) = 0)
  BY <1>1, QueueIs
<1>3. ASSUME NEW i \in 1 .. Len(a.queue)
      PROVE  /\ a.queue[i] \in h.packets /\ a.queue[i] \in Carried /\ a.queue[i] \in Int
             /\ a.queue[i] \in Timestamp
             /\ NextAllowedInStream(a.queue[i]) \in Int
             /\ a.queue[i] < NextAllowedInStream(a.queue[i])
  <2>1. a.queue[i] \in Carried /\ a.queue[i] \in Int /\ a.queue[i] \in Timestamp
    BY <1>1, QueueIs
  <2>2. a.queue[i] \in h.packets
    BY <1>2 DEF InOrder
  <2> QED
    BY SMTT(30), <2>1, <2>2, NextIs, Constant
<1>4. ASSUME a.enable_timestamps_
      PROVE  /\ \A i, j \in 1 .. Len(a.queue) : i < j => NextAllowedInStream(a.queue[i]) <= a.queue[j]
             /\ \A i \in 1 .. Len(a.queue) : NextAllowedInStream(a.queue[i]) <= a.next_timestamp_bound_
             /\ \A i \in 1 .. Len(a.queue) : a.queue[i] = PostStream => Len(a.queue) = 1
  BY <1>4, <1>2 DEF InOrder, Ordered
<1> QED
  BY <1>1, <1>2, <1>3, <1>4 DEF IsEmpty

\* The packets of a stream in order are increasing.
LEMMA Increases ==
  ASSUME NEW h \in Handlers, NEW a, InOrder(h, a), a.enable_timestamps_
  PROVE  /\ \A i, j \in 1 .. Len(a.queue) : i < j => a.queue[i] < a.queue[j]
         /\ \A i \in 1 .. Len(a.queue) : a.queue[i] < a.next_timestamp_bound_
<1>1. ASSUME NEW i \in 1 .. Len(a.queue), NEW j \in 1 .. Len(a.queue), i < j
      PROVE  a.queue[i] < a.queue[j]
  BY <1>1, Fields
<1>2. ASSUME NEW i \in 1 .. Len(a.queue)
      PROVE  a.queue[i] < a.next_timestamp_bound_
  BY <1>2, Fields
<1> QED
  BY <1>1, <1>2

LEMMA NewStreamInOrder ==
  ASSUME NEW h \in Handlers
  PROVE  InOrder(h, NewStream(h.kind # "barrier"))
BY Constant, EmptySeq, LenProperties DEF NewStream, StreamRecords, InOrder, Ordered

LEMMA OneLeft ==
  ASSUME NEW n \in Nat, NEW k \in Nat, n + k = 1, NEW i \in Int, i >= 1, i <= k
  PROVE  k = 1
  OBVIOUS

\* Leaving packets out at the head, and raising the bound, keep a stream in order.
LEMMA SuffixInOrder ==
  ASSUME NEW h \in Handlers, NEW a, InOrder(h, a), NEW b \in StreamRecords,
         NEW n \in Nat, n + Len(b.queue) = Len(a.queue),
         \A i \in 1 .. Len(b.queue) : i + n \in 1 .. Len(a.queue) /\ b.queue[i] = a.queue[i + n],
         b.enable_timestamps_ = a.enable_timestamps_, ~b.used => ~a.used,
         b.queue = <<>> \/ a.next_timestamp_bound_ <= b.next_timestamp_bound_
  PROVE  InOrder(h, b)
<1>1. b.queue \in Seq(Carried) /\ b.next_timestamp_bound_ \in Int
  BY Constant DEF StreamRecords
<1>2. DOMAIN b.queue = 1 .. Len(b.queue) /\ Len(b.queue) \in Nat
      /\ (b.queue = <<>> <=> Len(b.queue) = 0)
  BY <1>1, QueueIs
<1>3. DOMAIN a.queue = 1 .. Len(a.queue) /\ Len(a.queue) \in Nat /\ a.next_timestamp_bound_ \in Int
      /\ (a.queue = <<>> <=> Len(a.queue) = 0)
      /\ \A i \in 1 .. Len(a.queue) :
           a.queue[i] \in h.packets /\ NextAllowedInStream(a.queue[i]) \in Int
  BY Fields
<1>4. ~b.used => b.queue = <<>>
  BY <1>2, <1>3 DEF InOrder
<1>5. ASSUME b.enable_timestamps_ PROVE Ordered(b.queue, b.next_timestamp_bound_)
  <2>1. /\ \A i, j \in 1 .. Len(a.queue) : i < j => NextAllowedInStream(a.queue[i]) <= a.queue[j]
        /\ \A i \in 1 .. Len(a.queue) : NextAllowedInStream(a.queue[i]) <= a.next_timestamp_bound_
        /\ \A i \in 1 .. Len(a.queue) : a.queue[i] = PostStream => Len(a.queue) = 1
    BY <1>5, Fields
  <2>2. ASSUME NEW i \in 1 .. Len(b.queue), NEW j \in 1 .. Len(b.queue), i < j
        PROVE  NextAllowedInStream(b.queue[i]) <= b.queue[j]
    <3>1. i + n \in 1 .. Len(a.queue) /\ j + n \in 1 .. Len(a.queue) /\ i + n < j + n
      BY <2>2
    <3>2. b.queue[i] = a.queue[i + n] /\ b.queue[j] = a.queue[j + n]
      OBVIOUS
    <3> QED
      BY <3>1, <3>2, <2>1
  <2>3. ASSUME NEW i \in 1 .. Len(b.queue)
        PROVE  NextAllowedInStream(b.queue[i]) <= b.next_timestamp_bound_
    BY <1>1, <1>2, <1>3, <2>1
  <2>4. ASSUME NEW i \in 1 .. Len(b.queue), b.queue[i] = PostStream
        PROVE  Len(b.queue) = 1
    <3>1. a.queue[i + n] = PostStream /\ i + n \in 1 .. Len(a.queue)
      BY <2>4
    <3>2. Len(a.queue) = 1
      BY <2>1, <3>1
    <3>3. n + Len(b.queue) = 1 /\ Len(b.queue) \in Nat /\ i <= Len(b.queue) /\ i >= 1 /\ i \in Int
      BY <3>2, <1>2
    <3> QED
      BY <3>3, OneLeft
  <2> QED
    BY <2>2, <2>3, <2>4, <1>2 DEF Ordered
<1>6. \A i \in DOMAIN b.queue : b.queue[i] \in h.packets
  BY <1>2, <1>3
<1>7. b.enable_timestamps_ = (h.kind # "barrier")
  BY DEF InOrder
<1> QED
  BY <1>4, <1>5, <1>6, <1>7 DEF InOrder

LEMMA AcceptInOrder ==
  ASSUME NEW h \in Handlers, NEW a, InOrder(h, a), NEW t \in h.packets, ~RefusesPacket(a, t)
  PROVE  LET b == Accept(a, t)
         IN  /\ InOrder(h, b)
             /\ b.queue = Append(a.queue, t) /\ Len(b.queue) = Len(a.queue) + 1
             /\ \A i \in 1 .. Len(b.queue) :
                  b.queue[i] = IF i = Len(a.queue) + 1 THEN t ELSE a.queue[i]
             /\ b.next_timestamp_bound_ = NextAllowedInStream(t) /\ b.used
             /\ b.closed_ = a.closed_ /\ b.enable_timestamps_ = a.enable_timestamps_
             /\ b.last_select_timestamp_ = a.last_select_timestamp_
<1> DEFINE b == Accept(a, t)
<1>1. a \in StreamRecords /\ a.queue \in Seq(Carried) /\ a.next_timestamp_bound_ \in Int
      /\ a.enable_timestamps_ \in BOOLEAN
  BY Constant DEF InOrder, StreamRecords
<1>2. t \in Carried /\ t \in Int /\ t \in Timestamp
  BY HandlersAssumption, Constant DEF Carried
<1>3. NextAllowedInStream(t) \in Marks /\ NextAllowedInStream(t) \in Int /\ t < NextAllowedInStream(t)
  BY <1>2, NextIs, Constant
<1>4. b = [a EXCEPT !.queue = Append(a.queue, t), !.used = TRUE,
                    !.next_timestamp_bound_ = NextAllowedInStream(t)]
  BY DEF Accept
<1>5. /\ Append(a.queue, t) \in Seq(Carried) /\ Len(Append(a.queue, t)) = Len(a.queue) + 1
      /\ \A i \in 1 .. Len(a.queue) + 1 :
           Append(a.queue, t)[i] = IF i = Len(a.queue) + 1 THEN t ELSE a.queue[i]
  BY <1>1, <1>2, AppendProperties, QueueIs
<1>6. b \in StreamRecords
  BY <1>1, <1>3, <1>4, <1>5 DEF StreamRecords
<1>7. /\ b.queue = Append(a.queue, t) /\ b.next_timestamp_bound_ = NextAllowedInStream(t) /\ b.used = TRUE
      /\ b.closed_ = a.closed_ /\ b.enable_timestamps_ = a.enable_timestamps_
      /\ b.last_select_timestamp_ = a.last_select_timestamp_
  BY <1>1, <1>4 DEF StreamRecords
<1> HIDE DEF b
<1>8. DOMAIN a.queue = 1 .. Len(a.queue) /\ DOMAIN b.queue = 1 .. Len(b.queue)
      /\ Len(a.queue) \in Nat /\ Len(b.queue) = Len(a.queue) + 1
      /\ (a.queue = <<>> <=> Len(a.queue) = 0)
  BY <1>1, <1>5, <1>7, QueueIs
<1>9. ASSUME b.enable_timestamps_ PROVE Ordered(b.queue, b.next_timestamp_bound_)
  <2>1. t >= a.next_timestamp_bound_ /\ (t = PostStream => ~a.used)
    BY <1>9, <1>7, <1>2, <1>1 DEF RefusesPacket
  <2>2. /\ \A i \in 1 .. Len(a.queue) : NextAllowedInStream(a.queue[i]) \in Int
        /\ \A i, j \in 1 .. Len(a.queue) : i < j => NextAllowedInStream(a.queue[i]) <= a.queue[j]
        /\ \A i \in 1 .. Len(a.queue) : NextAllowedInStream(a.queue[i]) <= a.next_timestamp_bound_
    BY <1>9, <1>7, Fields
  <2>3. \A i \in 1 .. Len(a.queue) : NextAllowedInStream(a.queue[i]) <= t
    BY <2>1, <2>2, <1>1, <1>2
  <2>4. ASSUME NEW i \in 1 .. Len(b.queue), NEW j \in 1 .. Len(b.queue), i < j
        PROVE  NextAllowedInStream(b.queue[i]) <= b.queue[j]
    <3>1. i \in 1 .. Len(a.queue) /\ b.queue[i] = a.queue[i]
      BY <2>4, <1>5, <1>7, <1>8
    <3>2. CASE j = Len(a.queue) + 1
      BY <3>1, <3>2, <2>3, <1>5, <1>7, <1>8
    <3>3. CASE j # Len(a.queue) + 1
      BY <1>5, <1>7, <1>8, <2>2, <2>4, <3>1, <3>3
    <3> QED
      BY <3>2, <3>3
  <2>5. ASSUME NEW i \in 1 .. Len(b.queue)
        PROVE  NextAllowedInStream(b.queue[i]) <= b.next_timestamp_bound_
    BY <2>2, <2>3, <1>2, <1>3, <1>5, <1>7, <1>8
  <2>6. ASSUME NEW i \in 1 .. Len(b.queue), b.queue[i] = PostStream
        PROVE  Len(b.queue) = 1
    <3>1. CASE i = Len(a.queue) + 1
      BY <1>5, <1>7, <1>8, <2>1, <2>6, <3>1 DEF InOrder
    <3>2. CASE i # Len(a.queue) + 1
      <4>1. i \in 1 .. Len(a.queue) /\ a.queue[i] = PostStream
        BY <3>2, <2>6, <1>5, <1>7, <1>8
      <4>2. NextAllowedInStream(a.queue[i]) = MaxTimestamp + 2
        BY <4>1, NextIs, Constant
      <4> QED
        BY <4>1, <4>2, <2>3, <1>2, Constant
    <3> QED
      BY <3>1, <3>2
  <2> QED
    BY <2>4, <2>5, <2>6, <1>8 DEF Ordered
<1>10. \A i \in DOMAIN b.queue : b.queue[i] \in h.packets
  BY <1>5, <1>7, <1>8 DEF InOrder
<1>11. b.enable_timestamps_ = (h.kind # "barrier")
  BY <1>7 DEF InOrder
<1>12. InOrder(h, b)
  BY <1>6, <1>7, <1>9, <1>10, <1>11 DEF InOrder
<1> QED
  BY <1>12, <1>5, <1>7, <1>8 DEF b

LEMMA BoundInOrder ==
  ASSUME NEW h \in Handlers, NEW a, InOrder(h, a), NEW bound \in Marks
  PROVE  LET b == SetNextTimestampBound(a, bound)
         IN  /\ InOrder(h, b) /\ b.queue = a.queue
             /\ b.next_timestamp_bound_ =
                  IF a.closed_ \/ bound <= a.next_timestamp_bound_ THEN a.next_timestamp_bound_ ELSE bound
             /\ b.closed_ = a.closed_ /\ b.enable_timestamps_ = a.enable_timestamps_
             /\ b.last_select_timestamp_ = a.last_select_timestamp_ /\ b.used = a.used
<1> DEFINE b == SetNextTimestampBound(a, bound)
<1>1. CASE a.closed_ \/ bound <= a.next_timestamp_bound_
  BY <1>1 DEF SetNextTimestampBound
<1>2. CASE ~(a.closed_ \/ bound <= a.next_timestamp_bound_)
  <2>1. b = [a EXCEPT !.next_timestamp_bound_ = bound]
    BY <1>2 DEF SetNextTimestampBound
  <2>2. /\ b.queue = a.queue /\ b.next_timestamp_bound_ = bound /\ b \in StreamRecords
        /\ b.closed_ = a.closed_ /\ b.enable_timestamps_ = a.enable_timestamps_
        /\ b.last_select_timestamp_ = a.last_select_timestamp_ /\ b.used = a.used
    BY <2>1, Fields DEF StreamRecords
  <2>3. a.next_timestamp_bound_ \in Int /\ bound \in Int /\ Len(a.queue) \in Nat
    BY Fields, Constant
  <2> HIDE DEF b
  <2>4. InOrder(h, b)
    <3>1. 0 + Len(b.queue) = Len(a.queue) /\ a.next_timestamp_bound_ <= b.next_timestamp_bound_
      BY <2>2, <2>3, <1>2
    <3>2. \A i \in 1 .. Len(b.queue) : i + 0 \in 1 .. Len(a.queue) /\ b.queue[i] = a.queue[i + 0]
      BY <2>2, <2>3
    <3> QED
      BY <3>1, <3>2, <2>2, SuffixInOrder
  <2> QED
    BY <2>2, <2>4, <1>2 DEF b
<1> QED
  BY <1>1, <1>2

LEMMA CloseInOrder ==
  ASSUME NEW h \in Handlers, NEW a, InOrder(h, a)
  PROVE  InOrder(h, Close(a)) /\ Close(a).queue = a.queue /\ Close(a).next_timestamp_bound_ = Done
<1> DEFINE b == Close(a)
<1>1. b = [a EXCEPT !.next_timestamp_bound_ = Done, !.last_select_timestamp_ = Done, !.closed_ = TRUE]
  BY DEF Close
<1>2. /\ b.queue = a.queue /\ b.next_timestamp_bound_ = Done /\ b \in StreamRecords
      /\ b.enable_timestamps_ = a.enable_timestamps_ /\ b.used = a.used
  <2>1. a \in StreamRecords /\ Done \in Marks /\ Done \in Timestamp
    BY Fields, Constant
  <2> HIDE DEF Done, Marks, Timestamp
  <2> QED
    BY <1>1, <2>1 DEF StreamRecords
<1>3. a.next_timestamp_bound_ <= Done /\ Len(a.queue) \in Nat
  BY Fields, Constant
<1> HIDE DEF b
<1>4. \A i \in 1 .. Len(b.queue) : i + 0 \in 1 .. Len(a.queue) /\ b.queue[i] = a.queue[i + 0]
  BY <1>2, <1>3
<1>5. 0 + Len(b.queue) = Len(a.queue) /\ a.next_timestamp_bound_ <= b.next_timestamp_bound_
  BY <1>2, <1>3
<1>6. InOrder(h, b)
  BY <1>2, <1>4, <1>5, SuffixInOrder
<1> QED
  BY <1>2, <1>6 DEF b

LEMMA EraseInOrder ==
  ASSUME NEW h \in Handlers, NEW a, InOrder(h, a), NEW t \in Int
  PROVE  LET b == ErasePacketsEarlierThan(a, t)
         IN  /\ InOrder(h, b) /\ b.queue = From(a.queue, t)
             /\ b.next_timestamp_bound_ = a.next_timestamp_bound_
             /\ b.closed_ = a.closed_ /\ b.enable_timestamps_ = a.enable_timestamps_
             /\ b.last_select_timestamp_ = a.last_select_timestamp_ /\ b.used = a.used
<1> DEFINE b == ErasePacketsEarlierThan(a, t)
<1>1. b = [a EXCEPT !.queue = From(a.queue, t)]
  BY DEF ErasePacketsEarlierThan
<1>2. PICK n : n = CountBefore(a.queue, t)
  OBVIOUS
<1>3. a.queue \in Seq(Carried) /\ Len(a.queue) \in Nat /\ a.next_timestamp_bound_ \in Int
  BY Fields
<1>4. /\ From(a.queue, t) \in Seq(Carried) /\ n \in 0 .. Len(a.queue)
      /\ Len(From(a.queue, t)) = Len(a.queue) - n
      /\ \A i \in 1 .. Len(From(a.queue, t)) :
           i + n \in 1 .. Len(a.queue) /\ From(a.queue, t)[i] = a.queue[i + n]
  BY <1>2, <1>3, FromIs
<1>5. /\ b.queue = From(a.queue, t) /\ b \in StreamRecords
      /\ b.next_timestamp_bound_ = a.next_timestamp_bound_
      /\ b.closed_ = a.closed_ /\ b.enable_timestamps_ = a.enable_timestamps_
      /\ b.last_select_timestamp_ = a.last_select_timestamp_ /\ b.used = a.used
  BY SMTT(30), <1>1, <1>4, Fields DEF StreamRecords
<1> HIDE DEF b
<1>6. n \in Nat /\ n + Len(b.queue) = Len(a.queue) /\ a.next_timestamp_bound_ <= b.next_timestamp_bound_
  BY <1>3, <1>4, <1>5
<1>7. \A i \in 1 .. Len(b.queue) : i + n \in 1 .. Len(a.queue) /\ b.queue[i] = a.queue[i + n]
  BY <1>4, <1>5
<1>8. InOrder(h, b)
  BY <1>5, <1>6, <1>7, SuffixInOrder
<1> QED
  BY <1>5, <1>8 DEF b

LEMMA PopInOrder ==
  ASSUME NEW h \in Handlers, NEW a, InOrder(h, a), NEW t \in Timestamp
  PROVE  LET b == PopPacketAtTimestamp(a, t)
         IN  /\ a.enable_timestamps_ => InOrder(h, b)
             /\ b.queue = From(a.queue, t + 1)
             /\ b.next_timestamp_bound_ =
                  IF a.next_timestamp_bound_ <= t THEN NextAllowedInStream(t) ELSE a.next_timestamp_bound_
             /\ b.closed_ = a.closed_ /\ b.enable_timestamps_ = a.enable_timestamps_
             /\ b.last_select_timestamp_ = t /\ b.used = a.used
<1> DEFINE b == PopPacketAtTimestamp(a, t)
<1>1. b = [a EXCEPT !.last_select_timestamp_ = t, !.queue = From(a.queue, t + 1),
                    !.next_timestamp_bound_ = IF a.next_timestamp_bound_ <= t THEN NextAllowedInStream(t)
                                              ELSE a.next_timestamp_bound_]
  BY Fields DEF PopPacketAtTimestamp, StreamRecords
<1>2. PICK n : n = CountBefore(a.queue, t + 1)
  OBVIOUS
<1>3. a.queue \in Seq(Carried) /\ Len(a.queue) \in Nat /\ a.next_timestamp_bound_ \in Int
      /\ a.next_timestamp_bound_ \in Marks /\ t \in Int /\ t + 1 \in Int /\ NextAllowedInStream(t) \in Marks
  BY Fields, NextIs, Constant
<1>4. /\ From(a.queue, t + 1) \in Seq(Carried) /\ n \in 0 .. Len(a.queue)
      /\ Len(From(a.queue, t + 1)) = Len(a.queue) - n
      /\ \A i \in 1 .. Len(From(a.queue, t + 1)) :
           i + n \in 1 .. Len(a.queue) /\ From(a.queue, t + 1)[i] = a.queue[i + n]
      /\ Len(From(a.queue, t + 1)) > 0 => From(a.queue, t + 1)[1] >= t + 1
  BY <1>2, <1>3, FromIs
<1>5. /\ b.queue = From(a.queue, t + 1) /\ b \in StreamRecords
      /\ b.next_timestamp_bound_ = IF a.next_timestamp_bound_ <= t THEN NextAllowedInStream(t)
                                   ELSE a.next_timestamp_bound_
      /\ b.closed_ = a.closed_ /\ b.enable_timestamps_ = a.enable_timestamps_
      /\ b.last_select_timestamp_ = t /\ b.used = a.used
  <2> DEFINE bound == IF a.next_timestamp_bound_ <= t THEN NextAllowedInStream(t)
                      ELSE a.next_timestamp_bound_
  <2>1. a \in StreamRecords /\ bound \in Marks /\ From(a.queue, t + 1) \in Seq(Carried)
    BY <1>3, <1>4, Fields
  <2>2. b = [a EXCEPT !.last_select_timestamp_ = t, !.queue = From(a.queue, t + 1),
                      !.next_timestamp_bound_ = bound]
    BY <1>1
  <2>3. bound = IF a.next_timestamp_bound_ <= t THEN NextAllowedInStream(t)
                ELSE a.next_timestamp_bound_
    OBVIOUS
  <2> HIDE DEF bound, b
  <2> QED
    BY <2>1, <2>2, <2>3 DEF StreamRecords
<1> HIDE DEF b
<1>6. n \in Nat /\ n + Len(b.queue) = Len(a.queue)
  BY <1>3, <1>4, <1>5
<1>7. \A i \in 1 .. Len(b.queue) : i + n \in 1 .. Len(a.queue) /\ b.queue[i] = a.queue[i + n]
  BY <1>4, <1>5
<1>8. ASSUME a.enable_timestamps_ PROVE b.queue = <<>> \/ a.next_timestamp_bound_ <= b.next_timestamp_bound_
  <2>1. CASE a.next_timestamp_bound_ > t
    BY <2>1, <1>5, <1>3
  <2>2. CASE a.next_timestamp_bound_ <= t
    <3> SUFFICES ASSUME b.queue # <<>> PROVE FALSE
      OBVIOUS
    <3>1. Len(b.queue) # 0 /\ Len(b.queue) \in Nat
      BY <1>4, <1>5, QueueIs
    <3>2. 1 \in 1 .. Len(b.queue) /\ b.queue[1] >= t + 1
      BY <3>1, <1>4, <1>5
    <3>3. 1 + n \in 1 .. Len(a.queue) /\ b.queue[1] = a.queue[1 + n]
      BY <3>2, <1>7
    <3>4. a.queue[1 + n] < a.next_timestamp_bound_ /\ a.queue[1 + n] \in Int
      BY <3>3, <1>8, Increases, Fields
    <3> QED
      BY <3>2, <3>3, <3>4, <2>2, <1>3
  <2> QED
    BY <2>1, <2>2, <1>3
<1>9. a.enable_timestamps_ => InOrder(h, b)
  BY <1>5, <1>6, <1>7, <1>8, SuffixInOrder
<1> QED
  BY <1>5, <1>9 DEF b

LEMMA PopHeadInOrder ==
  ASSUME NEW h \in Handlers, NEW a, InOrder(h, a)
  PROVE  LET b == PopQueueHead(a)
         IN  /\ InOrder(h, b)
             /\ b.next_timestamp_bound_ = a.next_timestamp_bound_
             /\ b.closed_ = a.closed_ /\ b.enable_timestamps_ = a.enable_timestamps_
             /\ b.last_select_timestamp_ = a.last_select_timestamp_
<1> DEFINE b == PopQueueHead(a)
<1>1. CASE a.queue = <<>>
  BY <1>1, Fields DEF PopQueueHead, StreamRecords
<1>2. CASE a.queue # <<>>
  <2>1. b = [a EXCEPT !.queue = Tail(a.queue)]
    BY <1>2 DEF PopQueueHead
  <2>2. a.queue \in Seq(Carried) /\ Len(a.queue) \in Nat /\ a.next_timestamp_bound_ \in Int
    BY Fields
  <2>3. /\ Tail(a.queue) \in Seq(Carried) /\ Len(Tail(a.queue)) = Len(a.queue) - 1
        /\ \A i \in 1 .. Len(Tail(a.queue)) : Tail(a.queue)[i] = a.queue[i + 1]
    BY <2>2, <1>2, HeadTailProperties
  <2>4. /\ b.queue = Tail(a.queue) /\ b \in StreamRecords
        /\ b.next_timestamp_bound_ = a.next_timestamp_bound_
        /\ b.closed_ = a.closed_ /\ b.enable_timestamps_ = a.enable_timestamps_
        /\ b.last_select_timestamp_ = a.last_select_timestamp_ /\ b.used = a.used
    <3>1. a \in StreamRecords
      BY Fields
    <3> HIDE DEF b
    <3> QED
      BY <2>1, <2>3, <3>1 DEF StreamRecords
  <2> HIDE DEF b
  <2>5. 1 + Len(b.queue) = Len(a.queue) /\ a.next_timestamp_bound_ <= b.next_timestamp_bound_
    BY <2>2, <2>3, <2>4
  <2>6. \A i \in 1 .. Len(b.queue) : i + 1 \in 1 .. Len(a.queue) /\ b.queue[i] = a.queue[i + 1]
    BY <2>2, <2>3, <2>4
  <2>7. InOrder(h, b)
    BY <2>4, <2>5, <2>6, SuffixInOrder
  <2> QED
    BY <2>4, <2>7 DEF b
<1> QED
  BY <1>1, <1>2

-----------------------------------------------------------------------------
(* The handlers and their streams. *)

LEMMA SetMin ==
  ASSUME NEW T \in SUBSET Streams, T # {}
  PROVE  Min(T) \in T /\ Max(T) \in T /\ \A s \in T : s <= Max(T)
<1>1. T \in SUBSET Int /\ \A s \in T : 1 <= s /\ s <= Cardinality(Streams)
  BY StreamsAssumption
<1>2. Cardinality(Streams) \in Int
  BY StreamsAssumption
<1>3. Min(T) \in T
  <2>1. 1 \in Int /\ \A s \in T : 1 <= s
    BY <1>1
  <2> QED
    BY <1>1, <2>1, MinIs
<1>4. Max(T) \in T /\ \A s \in T : s <= Max(T)
  <2>1. \A s \in T : s <= Cardinality(Streams)
    BY <1>1
  <2> QED
    BY <1>1, <1>2, <2>1, MaxIs
<1> QED
  BY <1>3, <1>4

LEMMA TimestampMin ==
  ASSUME NEW T \in SUBSET Timestamp, T # {}
  PROVE  Min(T) \in T /\ Min(T) \in Timestamp /\ Min(T) \in Int /\ \A t \in T : Min(T) <= t
<1>1. T \in SUBSET Int /\ (\A t \in T : -3 <= t) /\ -3 \in Int
  BY Constant
<1>2. Min(T) \in T /\ \A t \in T : Min(T) <= t
  BY <1>1, MinIs
<1> QED
  BY <1>1, <1>2

LEMMA HandlerIs ==
  ASSUME handler \in Handlers
  PROVE  /\ Indices = 1 .. Len(handler.sync_sets) /\ 1 \in Indices
         /\ \A i \in Indices : StreamsOf(i) \in SUBSET Streams /\ StreamsOf(i) # {}
                               /\ StreamsOf(i) \in SUBSET Used
         /\ \A i, j \in Indices : i # j => StreamsOf(i) \cap StreamsOf(j) = {}
         /\ Used \in SUBSET Streams /\ Used # {}
         /\ handler.kind \notin {"immediate", "sync_set"} => Indices = {1} /\ Used = StreamsOf(1)
         /\ handler.packets \in SUBSET Carried /\ handler.packets \in SUBSET Timestamp
         /\ handler.packets \in SUBSET Int
         /\ handler.trigger \in Nat \ {0} /\ handler.target \in Nat \ {0}
         /\ handler.fixed_min_size \in BOOLEAN /\ handler.process_timestamps \in BOOLEAN
         /\ handler.batch \in {1, 2} /\ handler.kind \in Kinds
<1>1. /\ handler.sync_sets \in Seq(SUBSET Streams) /\ handler.sync_sets # <<>>
      /\ \A i \in DOMAIN handler.sync_sets : handler.sync_sets[i] # {}
      /\ \A i, j \in DOMAIN handler.sync_sets : i # j => handler.sync_sets[i] \cap handler.sync_sets[j] = {}
      /\ handler.kind \notin {"immediate", "sync_set"} => Len(handler.sync_sets) = 1
      /\ handler.packets \subseteq PreStream .. PostStream
      /\ handler.trigger \in Nat \ {0} /\ handler.target \in Nat \ {0}
      /\ handler.fixed_min_size \in BOOLEAN /\ handler.process_timestamps \in BOOLEAN
      /\ handler.batch \in {1, 2} /\ handler.kind \in Kinds
  BY HandlersAssumption
<1>2. /\ DOMAIN handler.sync_sets = 1 .. Len(handler.sync_sets) /\ Len(handler.sync_sets) \in Nat \ {0}
      /\ \A i \in 1 .. Len(handler.sync_sets) : handler.sync_sets[i] \in SUBSET Streams
  BY <1>1, LenProperties, EmptySeq, ElementOfSeq
<1>3. Indices = 1 .. Len(handler.sync_sets) /\ 1 \in Indices
  BY <1>2 DEF Indices
<1>4. \A i \in Indices : StreamsOf(i) \in SUBSET Streams /\ StreamsOf(i) # {}
  BY <1>1, <1>2 DEF Indices, StreamsOf
<1>5. \A i \in Indices : StreamsOf(i) \in SUBSET Used
  BY DEF Used
<1>6. Used \in SUBSET Streams /\ Used # {}
  BY <1>3, <1>4 DEF Used
<1>7. \A i, j \in Indices : i # j => StreamsOf(i) \cap StreamsOf(j) = {}
  BY <1>1 DEF Indices, StreamsOf
<1>8. ASSUME handler.kind \notin {"immediate", "sync_set"} PROVE Indices = {1} /\ Used = StreamsOf(1)
  BY <1>1, <1>3, <1>8 DEF Used
<1>9. handler.packets \in SUBSET Carried /\ handler.packets \in SUBSET Timestamp
      /\ handler.packets \in SUBSET Int
  BY <1>1, Constant DEF Carried
<1> QED
  BY <1>1, <1>3, <1>4, <1>5, <1>6, <1>7, <1>8, <1>9

LEMMA AlignIs ==
  ASSUME handler \in Handlers, handler.kind = "timestamp_align"
  PROVE  Base \in Used
BY HandlersAssumption, HandlerIs DEF Base, StreamsOf

\* A control packet selects a stream of the mux other than the control stream.
LEMMA MuxIs ==
  ASSUME handler \in Handlers, handler.kind = "mux"
  PROVE  /\ Control \in Used /\ Control \in Streams
         /\ \A t \in handler.packets :
              DataStream(t) \in Used /\ DataStream(t) \in Streams /\ DataStream(t) < Control
<1>1. Used \in SUBSET Streams /\ Used # {} /\ Used = StreamsOf(1)
  BY HandlerIs
<1>2. Control \in Used /\ \A s \in Used : s <= Control
  BY <1>1, SetMin DEF Control
<1>3. \A t \in handler.packets : handler.select[t] \in handler.sync_sets[1] \ {Max(handler.sync_sets[1])}
  BY HandlersAssumption
<1>4. \A t \in handler.packets : DataStream(t) \in Used \ {Control}
  BY <1>1, <1>3 DEF DataStream, Control, StreamsOf
<1>5. Streams \in SUBSET Int
  BY StreamsAssumption
<1>6. ASSUME NEW t \in handler.packets
      PROVE  DataStream(t) \in Used /\ DataStream(t) \in Streams /\ DataStream(t) < Control
  <2>1. DataStream(t) \in Used /\ DataStream(t) # Control /\ DataStream(t) <= Control
    BY <1>2, <1>4
  <2>2. DataStream(t) \in Int /\ Control \in Int
    BY <2>1, <1>1, <1>2, <1>5
  <2> QED
    BY <2>1, <2>2, <1>1
<1> QED
  BY <1>1, <1>2, <1>6

LEMMA FirstIs ==
  ASSUME handler \in Handlers, todo \in SUBSET Used, todo # {}
  PROVE  First \in todo /\ First \in Used /\ First \in Streams
<1>1. Used \in SUBSET Streams
  BY HandlerIs
<1>2. Min(todo) \in todo
  BY <1>1, SetMin
<1> DEFINE selected == {Control, DataStream(input_timestamp)} \cap todo
<1>3. selected # {} => Max(selected) \in selected
  BY <1>1, SetMin
<1> QED
  BY <1>1, <1>2, <1>3 DEF First

\* What the thread sees of a stream.
LEMMA LookIs ==
  ASSUME StreamsTyped, NEW s \in Streams
  PROVE  /\ InOrder(handler, stream[s]) /\ handler \in Handlers
         /\ IsEmpty(stream[s]) \in BOOLEAN
         /\ MinTimestampOrBound(stream[s]) \in Marks /\ MinTimestampOrBound(stream[s]) \in Timestamp
         /\ MinTimestampOrBound(stream[s]) \in Int
         /\ ~IsEmpty(stream[s]) =>
              /\ MinTimestampOrBound(stream[s]) = stream[s].queue[1]
              /\ MinTimestampOrBound(stream[s]) \in handler.packets
              /\ 1 \in 1 .. Len(stream[s].queue)
              /\ Len(stream[s].queue) \in 1 .. Len(stream[s].queue)
         /\ IsEmpty(stream[s]) => MinTimestampOrBound(stream[s]) = stream[s].next_timestamp_bound_
<1>1. InOrder(handler, stream[s]) /\ handler \in Handlers
  BY DEF StreamsTyped
<1>2. IsEmpty(stream[s]) \in BOOLEAN
  BY DEF IsEmpty
<1>3. CASE IsEmpty(stream[s])
  BY <1>1, <1>2, <1>3, Fields, Constant DEF MinTimestampOrBound
<1>4. CASE ~IsEmpty(stream[s])
  BY SMTT(30), <1>1, <1>2, <1>4, Fields, QueueIs, Constant DEF MinTimestampOrBound
<1> QED
  BY <1>3, <1>4

LEMMA NothingSeenIs ==
  ASSUME TRUE
  PROVE  /\ NothingSeen \in [Streams -> Looks]
         /\ \A s \in Streams : NothingSeen[s].empty = TRUE /\ NothingSeen[s].timestamp = -3
BY Constant DEF NothingSeen, Looks

LEMMA SeenIs ==
  ASSUME handler \in Handlers, SchedulerTyped, NEW T \in SUBSET Streams, NEW e \in BOOLEAN
  PROVE  LET times == {Done} \cup {seen[s].timestamp : s \in {s \in T : seen[s].empty = e}}
         IN  /\ MinSeen(T, e) \in times /\ MinSeen(T, e) \in Timestamp /\ MinSeen(T, e) \in Int
             /\ \A s \in T : seen[s].empty = e => MinSeen(T, e) <= seen[s].timestamp
             /\ MinSeen(T, e) <= Done
<1> DEFINE times == {Done} \cup {seen[s].timestamp : s \in {s \in T : seen[s].empty = e}}
<1>1. times \in SUBSET Timestamp /\ times # {}
  BY Constant DEF SchedulerTyped, Looks
<1>2. /\ MinSeen(T, e) = Min(times)
  BY DEF MinSeen
<1>3. /\ Min(times) \in times /\ Min(times) \in Timestamp /\ Min(times) \in Int
      /\ \A t \in times : Min(times) <= t
  <2> HIDE DEF times
  <2> QED
    BY <1>1, TimestampMin
<1> QED
  BY <1>2, <1>3

-----------------------------------------------------------------------------
(* The nodes upstream. *)

Adding(before, t) ==
  IF ~before.ok \/ RefusesPacket(before.stream, t) THEN [stream |-> before.stream, ok |-> FALSE]
  ELSE [stream |-> Accept(before.stream, t), ok |-> TRUE]

LEMMA AddsUpToTwo ==
  ASSUME NEW a, NEW packets, NEW k \in {1, 2}, Len(packets) = k
  PROVE  LET start == [stream |-> a, ok |-> TRUE]
         IN  AddPackets(a, packets) =
               IF a.closed_ THEN start
               ELSE IF k = 1 THEN Adding(start, packets[1])
               ELSE Adding(Adding(start, packets[1]), packets[2])
<1> DEFINE start == [stream |-> a, ok |-> TRUE]
           second == Adding(start, packets[1])
           third == Adding(second, packets[2])
           F(f) == [n \in 0 .. Len(packets) |->
                     IF n = 0 THEN start ELSE Adding(f[n - 1], packets[n])]
           Added == CHOOSE f : f = F(f)
           W == [n \in 0 .. k |-> IF n = 0 THEN start ELSE IF n = 1 THEN second ELSE third]
<1>1. second = Adding(start, packets[1]) /\ third = Adding(second, packets[2])
  OBVIOUS
<1> HIDE DEF start, second, third
<1>2. W = F(W)
  <2>1. F(W) = [n \in 0 .. k |-> IF n = 0 THEN start ELSE Adding(W[n - 1], packets[n])]
    OBVIOUS
  <2>2. ASSUME NEW n \in 0 .. k
        PROVE W[n] = IF n = 0 THEN start ELSE Adding(W[n - 1], packets[n])
    <3>1. n = 0 \/ n = 1 \/ (n = 2 /\ k = 2)
      OBVIOUS
    <3>2. CASE n = 0
      BY <3>2
    <3>3. CASE n = 1
      BY <1>1, <3>3
    <3>4. CASE n = 2 /\ k = 2
      BY <1>1, <3>4
    <3> QED
      BY <3>1, <3>2, <3>3, <3>4
  <2> QED
    BY <2>1, <2>2
<1>3. Added = F(Added)
  BY <1>2
<1> HIDE DEF Added
<1>4. Added[0] = start
  BY <1>3
<1>5. Added[1] = second
  BY <1>1, <1>3, <1>4
<1>6. k = 2 => Added[2] = third
  BY <1>1, <1>3, <1>5
<1>7. AddPackets(a, packets) = IF a.closed_ THEN start ELSE Added[Len(packets)]
  BY DEF AddPackets, Added, Adding, start
<1> QED
  BY <1>1, <1>5, <1>6, <1>7 DEF start

\* b is a with packets added at the end of the queue, and a greater bound.
Extends(h, a, b) ==
  /\ b.last_select_timestamp_ = a.last_select_timestamp_
  /\ b.closed_ = a.closed_ /\ b.enable_timestamps_ = a.enable_timestamps_
  /\ Len(a.queue) <= Len(b.queue)
  /\ \A i \in 1 .. Len(a.queue) : b.queue[i] = a.queue[i]
  /\ a.enable_timestamps_ =>
       /\ a.next_timestamp_bound_ <= b.next_timestamp_bound_
       /\ \A i \in Len(a.queue) + 1 .. Len(b.queue) : a.next_timestamp_bound_ <= b.queue[i]
  /\ \/ b.next_timestamp_bound_ \in {a.next_timestamp_bound_, Done} \cup h.packets
     \/ \E t \in h.packets : b.next_timestamp_bound_ = NextAllowedInStream(t)

LEMMA ExtendsTransitive ==
  ASSUME NEW h \in Handlers, NEW a, NEW b, NEW c, InOrder(h, a), InOrder(h, b), InOrder(h, c),
         Extends(h, a, b), Extends(h, b, c)
  PROVE  Extends(h, a, c)
<1>1. /\ a.next_timestamp_bound_ \in Int /\ b.next_timestamp_bound_ \in Int
      /\ c.next_timestamp_bound_ \in Int
      /\ Len(a.queue) \in Nat /\ Len(b.queue) \in Nat /\ Len(c.queue) \in Nat
      /\ \A i \in 1 .. Len(c.queue) : c.queue[i] \in Int
  BY Fields
<1>2. Len(a.queue) <= Len(c.queue)
  BY <1>1 DEF Extends
<1>3. ASSUME NEW i \in 1 .. Len(a.queue) PROVE c.queue[i] = a.queue[i]
  BY <1>1 DEF Extends
<1>4. ASSUME a.enable_timestamps_
      PROVE  /\ a.next_timestamp_bound_ <= c.next_timestamp_bound_
             /\ \A i \in Len(a.queue) + 1 .. Len(c.queue) : a.next_timestamp_bound_ <= c.queue[i]
  <2>1. a.next_timestamp_bound_ <= b.next_timestamp_bound_ /\ b.next_timestamp_bound_ <= c.next_timestamp_bound_
    BY <1>4 DEF Extends
  <2>2. ASSUME NEW i \in Len(a.queue) + 1 .. Len(c.queue) PROVE a.next_timestamp_bound_ <= c.queue[i]
    <3>0. i \in 1 .. Len(c.queue) /\ c.queue[i] \in Int
      BY <1>1
    <3>1. CASE i \in 1 .. Len(b.queue)
      BY <1>1, <1>4, <3>1 DEF Extends
    <3>2. CASE i \notin 1 .. Len(b.queue)
      BY <1>1, <1>4, <2>1, <3>0, <3>2 DEF Extends
    <3> QED
      BY <3>1, <3>2
  <2> QED
    BY <2>1, <2>2, <1>1
<1> QED
  BY <1>2, <1>3, <1>4 DEF Extends

LEMMA AcceptExtends ==
  ASSUME NEW h \in Handlers, NEW a, InOrder(h, a), NEW t \in h.packets, ~RefusesPacket(a, t)
  PROVE  Extends(h, a, Accept(a, t))
<1> DEFINE b == Accept(a, t)
<1>1. /\ Len(b.queue) = Len(a.queue) + 1
      /\ \A i \in 1 .. Len(b.queue) : b.queue[i] = IF i = Len(a.queue) + 1 THEN t ELSE a.queue[i]
      /\ b.next_timestamp_bound_ = NextAllowedInStream(t)
      /\ b.closed_ = a.closed_ /\ b.enable_timestamps_ = a.enable_timestamps_
      /\ b.last_select_timestamp_ = a.last_select_timestamp_
  BY AcceptInOrder
<1>2. /\ t \in Int /\ NextAllowedInStream(t) \in Int /\ t < NextAllowedInStream(t)
      /\ a.next_timestamp_bound_ \in Int /\ Len(a.queue) \in Nat
  BY HandlersAssumption, Constant, NextIs, Fields DEF Carried
<1>3. a.enable_timestamps_ => a.next_timestamp_bound_ <= t
  BY <1>2 DEF RefusesPacket
<1> HIDE DEF b
<1>4. \A i \in 1 .. Len(a.queue) : b.queue[i] = a.queue[i]
  BY <1>1, <1>2
<1>5. \A i \in Len(a.queue) + 1 .. Len(b.queue) : b.queue[i] = t
  BY <1>1, <1>2
<1> QED
  BY <1>1, <1>2, <1>3, <1>4, <1>5 DEF Extends, b

LEMMA SameExtends ==
  ASSUME NEW h \in Handlers, NEW a, InOrder(h, a)
  PROVE  Extends(h, a, a)
BY Fields DEF Extends

LEMMA BoundExtends ==
  ASSUME NEW h \in Handlers, NEW a, InOrder(h, a), NEW bound \in h.packets \cup {Done}
  PROVE  Extends(h, a, SetNextTimestampBound(a, bound)) /\ InOrder(h, SetNextTimestampBound(a, bound))
<1>1. bound \in Marks /\ bound \in Int
  BY HandlersAssumption, Constant DEF Carried
<1>2. Len(a.queue) \in Nat /\ a.next_timestamp_bound_ \in Int
  BY Fields
<1> DEFINE b == SetNextTimestampBound(a, bound)
<1>3. /\ InOrder(h, b) /\ b.queue = a.queue
      /\ b.next_timestamp_bound_ =
           IF a.closed_ \/ bound <= a.next_timestamp_bound_ THEN a.next_timestamp_bound_ ELSE bound
      /\ b.closed_ = a.closed_ /\ b.enable_timestamps_ = a.enable_timestamps_
      /\ b.last_select_timestamp_ = a.last_select_timestamp_
  BY <1>1, BoundInOrder
<1> HIDE DEF b
<1>4. a.next_timestamp_bound_ <= b.next_timestamp_bound_
      /\ b.next_timestamp_bound_ \in {a.next_timestamp_bound_, Done} \cup h.packets
  BY <1>1, <1>2, <1>3
<1> QED
  BY <1>2, <1>3, <1>4 DEF Extends, b

LEMMA AddingIs ==
  ASSUME NEW h \in Handlers, NEW before, NEW t \in h.packets, before.ok \in BOOLEAN, InOrder(h, before.stream)
  PROVE  LET after == Adding(before, t)
         IN  /\ after.ok \in BOOLEAN /\ InOrder(h, after.stream)
             /\ Extends(h, before.stream, after.stream)
             /\ before.ok /\ ~RefusesPacket(before.stream, t) =>
                  after.ok /\ after.stream = Accept(before.stream, t)
<1>1. CASE ~before.ok \/ RefusesPacket(before.stream, t)
  BY <1>1, SameExtends DEF Adding
<1>2. CASE ~(~before.ok \/ RefusesPacket(before.stream, t))
  BY <1>2, AcceptInOrder, AcceptExtends DEF Adding
<1> QED
  BY <1>1, <1>2

\* What may be added at once to a stream.
LEMMA BatchesAre ==
  ASSUME NEW s \in Streams, NEW packets \in Batches(s)
  PROVE  /\ packets[1] \in handler.packets /\ packets[1] >= out_bound[s]
         /\ packets[1] = PostStream => ~stream[s].used
         /\ \/ Len(packets) = 1 /\ Last(packets) = packets[1]
            \/ /\ Len(packets) = 2 /\ Last(packets) = packets[2]
               /\ packets[2] \in handler.packets /\ packets[2] # PostStream
<1> DEFINE allowed == {t \in handler.packets : t >= out_bound[s] /\ (t = PostStream => ~stream[s].used)}
<1>1. \/ \E t \in allowed : packets = <<t>>
      \/ \E t \in allowed, u \in {u \in handler.packets : u # PostStream} : packets = <<t, u>>
  BY DEF Batches
<1>2. CASE \E t \in allowed : packets = <<t>>
  BY <1>2 DEF Last
<1>3. CASE \E t \in allowed, u \in {u \in handler.packets : u # PostStream} : packets = <<t, u>>
  BY <1>3 DEF Last
<1> QED
  BY <1>1, <1>2, <1>3

\* Whatever is added, a stream stays in order.
LEMMA AddedInOrder ==
  ASSUME StreamsTyped, NEW s \in Streams, NEW packets \in Batches(s)
  PROVE  LET result == AddPackets(stream[s], packets)
         IN  /\ result.ok \in BOOLEAN /\ InOrder(handler, result.stream)
             /\ Extends(handler, stream[s], result.stream)
             /\ stream[s].closed_ => result.ok /\ result.stream = stream[s]
<1> DEFINE a == stream[s]
           start == [stream |-> a, ok |-> TRUE]
           result == AddPackets(a, packets)
<1>1. InOrder(handler, a) /\ handler \in Handlers
  BY DEF StreamsTyped
<1>2. PICK k \in {1, 2} : Len(packets) = k
  BY BatchesAre
<1>3. start.stream = a /\ start.ok = TRUE
  OBVIOUS
<1>4. result = IF a.closed_ THEN start
               ELSE IF k = 1 THEN Adding(start, packets[1])
               ELSE Adding(Adding(start, packets[1]), packets[2])
  <2> HIDE DEF a
  <2> QED
    BY <1>2, AddsUpToTwo
<1>5. Extends(handler, a, a)
  BY <1>1, SameExtends
<1> DEFINE first == Adding(start, packets[1])
           second == Adding(first, packets[2])
<1>6. result = IF a.closed_ THEN start ELSE IF k = 1 THEN first ELSE second
  BY <1>4
<1>7. packets[1] \in handler.packets /\ (k = 2 => packets[2] \in handler.packets)
  BY BatchesAre, <1>2
<1> HIDE DEF start, a, result
<1>8. first.ok \in BOOLEAN /\ InOrder(handler, first.stream) /\ Extends(handler, a, first.stream)
  BY <1>1, <1>3, <1>7, AddingIs
<1> HIDE DEF first
<1>9. k = 2 => /\ second.ok \in BOOLEAN /\ InOrder(handler, second.stream)
               /\ Extends(handler, first.stream, second.stream)
  BY <1>1, <1>7, <1>8, AddingIs
<1> HIDE DEF second
<1>10. k = 2 => Extends(handler, a, second.stream)
  BY <1>1, <1>8, <1>9, ExtendsTransitive
<1>11. result.ok \in BOOLEAN /\ InOrder(handler, result.stream) /\ Extends(handler, a, result.stream)
  BY <1>1, <1>3, <1>5, <1>6, <1>8, <1>9, <1>10
<1>12. a.closed_ => result.ok /\ result.stream = a
  BY <1>3, <1>6
<1> QED
  BY <1>11, <1>12 DEF result, a

\* A node upstream that sends packets in order is not refused any.
LEMMA AddedInFull ==
  ASSUME StreamsTyped, NEW s \in Streams, NEW packets \in Batches(s), Increasing(packets),
         ~stream[s].closed_, stream[s].next_timestamp_bound_ <= out_bound[s]
  PROVE  LET result == AddPackets(stream[s], packets)
         IN  result.ok /\ result.stream.next_timestamp_bound_ = NextAllowedInStream(Last(packets))
<1> DEFINE a == stream[s]
           start == [stream |-> a, ok |-> TRUE]
           result == AddPackets(a, packets)
<1>1. InOrder(handler, a) /\ handler \in Handlers /\ out_bound[s] \in Int
      /\ a.next_timestamp_bound_ \in Int
  BY Constant, Fields DEF StreamsTyped
<1>2. PICK k \in {1, 2} : Len(packets) = k
  BY BatchesAre
<1>3. start.stream = a /\ start.ok = TRUE
  OBVIOUS
<1>4. result = IF k = 1 THEN Adding(start, packets[1])
               ELSE Adding(Adding(start, packets[1]), packets[2])
  <2> HIDE DEF a
  <2>1. ~a.closed_
    BY DEF a
  <2> QED
    BY <1>2, <2>1, AddsUpToTwo
<1> DEFINE first == Adding(start, packets[1])
           second == Adding(first, packets[2])
<1>5. result = IF k = 1 THEN first ELSE second
  BY <1>4
<1>6. /\ packets[1] \in handler.packets /\ (k = 2 => packets[2] \in handler.packets /\ packets[2] # PostStream)
      /\ packets[1] >= out_bound[s] /\ (packets[1] = PostStream => ~a.used)
      /\ Last(packets) = packets[k]
  <2>1. /\ packets[1] \in handler.packets /\ packets[1] >= out_bound[s]
        /\ packets[1] = PostStream => ~stream[s].used
        /\ \/ Len(packets) = 1 /\ Last(packets) = packets[1]
           \/ /\ Len(packets) = 2 /\ Last(packets) = packets[2]
              /\ packets[2] \in handler.packets /\ packets[2] # PostStream
    BY BatchesAre
  <2>2. CASE k = 1
    BY <2>1, <2>2, <1>2
  <2>3. CASE k = 2
    BY <2>1, <2>3, <1>2
  <2> QED
    BY <2>2, <2>3
<1>7. \A t \in handler.packets : t \in Int /\ IsAllowedInStream(t)
  BY <1>1, HandlerIs, Constant DEF IsAllowedInStream
<1>8. ~RefusesPacket(a, packets[1])
  BY <1>1, <1>6, <1>7 DEF a, RefusesPacket
<1> HIDE DEF start, a, result
<1>9. first.ok = TRUE /\ first.stream = Accept(a, packets[1])
  BY <1>1, <1>3, <1>6, <1>8, AddingIs
<1> HIDE DEF first
<1>10. InOrder(handler, first.stream) /\ first.stream.next_timestamp_bound_ = NextAllowedInStream(packets[1])
  BY <1>9, <1>1, <1>6, <1>8, AcceptInOrder
<1>11. ASSUME k = 2 PROVE ~RefusesPacket(first.stream, packets[2])
  <2>1. packets[2] >= NextAllowedInStream(packets[1]) /\ packets[2] # PostStream /\ packets[2] \in Int
    BY <1>2, <1>6, <1>7, <1>11 DEF Increasing
  <2>2. first.stream.next_timestamp_bound_ \in Int
    BY <1>1, <1>10, Fields
  <2>3. ~(packets[2] < first.stream.next_timestamp_bound_)
    BY <2>1, <2>2, <1>10
  <2>4. packets[2] \in handler.packets
    BY <1>6, <1>11
  <2> QED
    BY <2>1, <2>3, <2>4, <1>7 DEF RefusesPacket
<1>12. k = 2 => second.ok = TRUE /\ second.stream = Accept(first.stream, packets[2])
  BY <1>1, <1>6, <1>9, <1>10, <1>11, AddingIs
<1> HIDE DEF second
<1>13. k = 2 => second.stream.next_timestamp_bound_ = NextAllowedInStream(packets[2])
  BY <1>12, <1>1, <1>6, <1>10, <1>11, AcceptInOrder
<1>14. result.ok /\ result.stream.next_timestamp_bound_ = NextAllowedInStream(Last(packets))
  BY <1>5, <1>6, <1>9, <1>10, <1>12, <1>13
<1> QED
  BY <1>14 DEF result, a

-----------------------------------------------------------------------------
(* The types are kept by every step. *)

LEMMA InitTyped == Init => TInv
<1> SUFFICES ASSUME Init PROVE TInv
  OBVIOUS
<1>1. handler \in Handlers
  BY DEF Init
<1>2. StreamsTyped
  <2>1. /\ stream = [s \in Streams |-> NewStream(handler.kind # "barrier")]
        /\ InOrder(handler, NewStream(handler.kind # "barrier"))
        /\ NewStream(handler.kind # "barrier") \in StreamRecords
    BY <1>1, NewStreamInOrder DEF Init, InOrder
  <2>2. out_bound \in [Streams -> Marks]
    BY Constant DEF Init
  <2> QED
    BY <1>1, <2>1, <2>2 DEF Init, StreamsTyped
<1>3. SchedulerTyped
  <2>1. seen = NothingSeen /\ input_timestamp = Unset /\ input_bound = Unset /\ todo = {}
        /\ pending = TRUE /\ pc = "idle"
    BY DEF Init
  <2>2. Unset \in Timestamp
    BY Constant
  <2> QED
    BY <2>1, <2>2, NothingSeenIs DEF SchedulerTyped
<1>4. HandlerTyped
  <2>1. Unset \in Timestamp /\ Done \in Timestamp
    BY Constant
  <2> HIDE DEF Unset, Done, Timestamp
  <2> QED
    BY <2>1 DEF Init, HandlerTyped, NoSurplus, Ops, SurplusRecords
<1> QED
  BY <1>2, <1>3, <1>4 DEF TInv

\* A stream is replaced by one in order.
LEMMA StreamTyped ==
  ASSUME StreamsTyped, NEW s \in Streams, NEW b, InOrder(handler, b),
         stream' = [stream EXCEPT ![s] = b], UNCHANGED handler,
         out_bound' \in [Streams -> Marks],
         notify' \in [Streams -> {"none", "notify", "notify_erase", "erase", "erasing"}],
         has_error_' \in BOOLEAN
  PROVE  StreamsTyped'
BY DEF InOrder, StreamsTyped

LEMMA StreamsKept ==
  ASSUME StreamsTyped, UNCHANGED <<handler, stream, upstreamVars>>
  PROVE  StreamsTyped'
BY DEF StreamsTyped, upstreamVars

LEMMA SchedulerKept ==
  ASSUME SchedulerTyped, UNCHANGED <<handler, scheduleVars>>
  PROVE  SchedulerTyped'
BY DEF SchedulerTyped, scheduleVars, Used, Indices, StreamsOf

LEMMA HandlerKept ==
  ASSUME HandlerTyped, UNCHANGED <<handler, handlerVars, alignVars, surplusVars, erased>>
  PROVE  HandlerTyped'
BY DEF HandlerTyped, handlerVars, alignVars, surplusVars, SurplusRecords, Used, Indices, StreamsOf

LEMMA AddPacketsTyped ==
  ASSUME TInv, NEW s \in Streams, AddPacketsTo(s)
  PROVE  TInv'
<1>0. StreamsTyped /\ SchedulerTyped /\ HandlerTyped
  BY DEF TInv
<1>1. PICK packets \in Batches(s) :
        LET result == AddPackets(stream[s], packets)
        IN /\ stream' = [stream EXCEPT ![s] = result.stream]
           /\ out_bound' = [out_bound EXCEPT ![s] = NextAllowedInStream(Last(packets))]
           /\ has_error_' = (has_error_ \/ ~result.ok)
           /\ notify' = [notify EXCEPT ![s] =
                IF ~stream[s].closed_ /\ IsEmpty(stream[s]) /\ result.ok THEN AfterAdding
                ELSE IF handler.kind = "fixed_size" THEN "erase" ELSE "none"]
  BY DEF AddPacketsTo
<1>2. UNCHANGED <<handler, scheduleVars, handlerVars, alignVars, surplusVars, erased>>
  BY DEF AddPacketsTo
<1>3. InOrder(handler, AddPackets(stream[s], packets).stream)
  BY <1>0, AddedInOrder
<1>4. out_bound' \in [Streams -> Marks]
  BY <1>0, <1>1, BatchesAre, HandlerIs, NextIs DEF StreamsTyped
<1>5. notify' \in [Streams -> {"none", "notify", "notify_erase", "erase", "erasing"}]
  BY <1>0, <1>1 DEF AfterAdding, StreamsTyped
<1>6. has_error_' \in BOOLEAN
  BY <1>1
<1>7. StreamsTyped'
  BY <1>0, <1>1, <1>2, <1>3, <1>4, <1>5, <1>6, StreamTyped
<1> QED
  BY <1>0, <1>2, <1>7, SchedulerKept, HandlerKept DEF TInv

LEMMA SetBoundTyped ==
  ASSUME TInv, NEW s \in Streams, SetNextTimestampBoundOf(s)
  PROVE  TInv'
<1>0. StreamsTyped /\ SchedulerTyped /\ HandlerTyped
  BY DEF TInv
<1>1. PICK bound \in handler.packets \cup {Done} :
        /\ out_bound' = [out_bound EXCEPT ![s] = bound]
        /\ stream' = [stream EXCEPT ![s] = SetNextTimestampBound(stream[s], bound)]
        /\ has_error_' = (has_error_ \/ (~stream[s].closed_ /\ RefusesBound(stream[s], bound)))
        /\ notify' \in {notify, [notify EXCEPT ![s] = "notify"]}
  BY DEF SetNextTimestampBoundOf
<1>2. UNCHANGED <<handler, scheduleVars, handlerVars, alignVars, surplusVars, erased>>
  BY DEF SetNextTimestampBoundOf
<1>3. InOrder(handler, stream[s]) /\ handler \in Handlers
  BY <1>0 DEF StreamsTyped
<1>4. InOrder(handler, SetNextTimestampBound(stream[s], bound))
  BY <1>3, BoundExtends
<1>5. bound \in Marks
  BY <1>3, HandlerIs, Constant
<1>6. out_bound' \in [Streams -> Marks] /\ has_error_' \in BOOLEAN
      /\ notify' \in [Streams -> {"none", "notify", "notify_erase", "erase", "erasing"}]
  BY <1>0, <1>1, <1>5 DEF StreamsTyped
<1>7. StreamsTyped'
  BY <1>0, <1>1, <1>2, <1>4, <1>6, StreamTyped
<1> QED
  BY <1>0, <1>2, <1>7, SchedulerKept, HandlerKept DEF TInv

LEMMA NotifyTyped ==
  ASSUME TInv, NEW s \in Streams, Notify(s)
  PROVE  TInv'
BY HandlerKept DEF TInv, StreamsTyped, Notify, SchedulerTyped, Used, Indices, StreamsOf

LEMMA SurplusStarts ==
  ASSUME handler \in Handlers
  PROVE  /\ EraseSurplusPackets \in SurplusRecords
         /\ NoSurplus \in SurplusRecords
<1>1. MaxTime \in Timestamp /\ Done \in Timestamp /\ Used # {}
  BY Constant, HandlerIs
<1> HIDE DEF MaxTime, Done, Timestamp
<1> QED
  BY <1>1 DEF EraseSurplusPackets, NoSurplus, Ops, MinOps, AnyOps, SurplusRecords

LEMMA ErasingTyped ==
  ASSUME TInv, NEW s \in Streams, StartErasing(s) \/ EndErasing(s)
  PROVE  TInv'
<1>0. StreamsTyped /\ SchedulerTyped /\ HandlerTyped /\ handler \in Handlers
  BY DEF TInv, StreamsTyped
<1>1. /\ UNCHANGED <<handler, stream, out_bound, has_error_, scheduleVars, handlerVars, alignVars,
                     kept_timestamp_, erased>>
      /\ notify' \in {[notify EXCEPT ![s] = "none"], [notify EXCEPT ![s] = "erasing"]}
      /\ erase_mutex_' \in {erase_mutex_, s, 0}
      /\ surplus' \in {surplus, NoSurplus, EraseSurplusPackets}
  BY DEF StartErasing, Erasing, EndErasing
<1>2. StreamsTyped'
  BY <1>0, <1>1 DEF StreamsTyped
<1>3. SchedulerTyped'
  BY <1>0, <1>1, SchedulerKept
<1>4. HandlerTyped'
  <2>1. surplus' \in SurplusRecords
    BY <1>0, <1>1, SurplusStarts DEF HandlerTyped
  <2>2. erase_mutex_' \in Streams \cup {0, Node}
    BY <1>0, <1>1 DEF HandlerTyped
  <2> HIDE DEF Timestamp, Ops, Node, Carried
  <2> QED
    BY <1>0, <1>1, <2>1, <2>2 DEF HandlerTyped, handlerVars, alignVars, SurplusRecords, Used, Indices, StreamsOf
<1> QED
  BY <1>2, <1>3, <1>4 DEF TInv

LEMMA StartTyped ==
  ASSUME TInv, StartScheduling
  PROVE  TInv'
<1>0. StreamsTyped /\ SchedulerTyped /\ HandlerTyped /\ handler \in Handlers
  BY DEF TInv, StreamsTyped
<1>1. /\ UNCHANGED <<handler, stream, upstreamVars, seen, input_timestamp, input_bound, handlerVars,
                     alignVars, erased, kept_timestamp_>>
      /\ pending' = FALSE /\ pc' \in {"surplus", "look"} /\ todo' \in {todo, StreamsToLookAt}
      /\ erase_mutex_' \in {erase_mutex_, Node}
      /\ surplus' \in {surplus, EraseSurplusPackets}
  BY DEF StartScheduling, surplusVars
<1>2. StreamsTyped'
  BY <1>0, <1>1, StreamsKept
<1>3. StreamsToLookAt \in SUBSET Used
  BY <1>0, MuxIs, HandlerIs DEF HandlerTyped, StreamsToLookAt
<1>4. SchedulerTyped'
  BY <1>0, <1>1, <1>3 DEF SchedulerTyped, Used, Indices, StreamsOf
<1>5. HandlerTyped'
  <2>1. surplus' \in SurplusRecords
    BY <1>0, <1>1, SurplusStarts DEF HandlerTyped
  <2>2. erase_mutex_' \in Streams \cup {0, Node}
    BY <1>0, <1>1 DEF HandlerTyped
  <2> HIDE DEF Timestamp, Ops, Node, Carried
  <2> QED
    BY <1>0, <1>1, <2>1, <2>2 DEF HandlerTyped, handlerVars, alignVars, SurplusRecords, Used, Indices, StreamsOf
<1> QED
  BY <1>2, <1>4, <1>5 DEF TInv

\* The thread has looked at one stream more.
LEMMA LookedTyped ==
  ASSUME StreamsTyped, SchedulerTyped, todo # {},
         seen' = [seen EXCEPT ![First] = [empty |-> IsEmpty(stream[First]),
                                          timestamp |-> MinTimestampOrBound(stream[First])]]
  PROVE  /\ seen' \in [Streams -> Looks]
         /\ \A s \in Streams : ~seen'[s].empty => seen'[s].timestamp \in handler.packets
<1> DEFINE look == [empty |-> IsEmpty(stream[First]), timestamp |-> MinTimestampOrBound(stream[First])]
<1>1. First \in Streams
  BY FirstIs DEF StreamsTyped, SchedulerTyped
<1>2. look \in Looks /\ (~look.empty => look.timestamp \in handler.packets)
  BY <1>1, LookIs DEF Looks
<1>3. seen' = [seen EXCEPT ![First] = look] /\ seen \in [Streams -> Looks]
  BY DEF SchedulerTyped
<1> HIDE DEF look, Looks
<1> QED
  BY <1>1, <1>2, <1>3 DEF SchedulerTyped

LEMMA LookTyped ==
  ASSUME TInv, Look
  PROVE  TInv'
<1>0. StreamsTyped /\ SchedulerTyped /\ HandlerTyped /\ handler \in Handlers
  BY DEF TInv, StreamsTyped
<1>1. /\ seen' = [seen EXCEPT ![First] = [empty |-> IsEmpty(stream[First]),
                                          timestamp |-> MinTimestampOrBound(stream[First])]]
      /\ todo' = todo \ {First} /\ todo # {}
      /\ UNCHANGED <<handler, stream, upstreamVars, pending, pc, input_timestamp, input_bound,
                     handlerVars, alignVars, surplusVars, erased>>
  BY DEF Look
<1>2. seen' \in [Streams -> Looks] /\ \A s \in Streams : ~seen'[s].empty => seen'[s].timestamp \in handler.packets
  BY <1>0, <1>1, LookedTyped
<1>3. SchedulerTyped'
  <2> HIDE DEF Looks, Timestamp
  <2> QED
    BY <1>0, <1>1, <1>2 DEF SchedulerTyped, Used, Indices, StreamsOf
<1> QED
  BY <1>0, <1>1, <1>3, StreamsKept, HandlerKept DEF TInv

LEMMA EarlierIs ==
  ASSUME NEW t \in Int, NEW u \in Int
  PROVE  /\ Earlier(t, u) \in {t, u} /\ Earlier(t, u) <= t /\ Earlier(t, u) <= u
         /\ Later(t, u) \in {t, u} /\ Later(t, u) >= t /\ Later(t, u) >= u
BY DEF Earlier, Later

LEMMA ReadinessIs ==
  ASSUME handler \in Handlers, SchedulerTyped, NEW set \in SUBSET Streams, NEW last \in Timestamp
  PROVE  LET r == SyncSetReadiness(set, last)
             mb == MinBound(set)
             mp == MinPacket(set)
         IN  /\ mb \in Timestamp /\ mp \in Timestamp /\ r.timestamp \in Timestamp /\ r.last \in Timestamp
             /\ \/ /\ r.readiness = "kReadyForClose" /\ r.timestamp = Done /\ r.last = MaxTimestamp
                   /\ mb >= OneOverPostStream /\ mp >= OneOverPostStream
                \/ /\ r.readiness = "kReadyForProcess" /\ r.last = r.timestamp
                   /\ ~handler.process_timestamps /\ mb > mp /\ r.timestamp = mp
                   /\ mp < OneOverPostStream
                \/ /\ r.readiness = "kReadyForProcess" /\ r.last = r.timestamp
                   /\ handler.process_timestamps
                   /\ r.timestamp > last /\ r.timestamp > Unstarted /\ r.timestamp <= mp
                   /\ r.timestamp = Earlier(mp, IF mp = PostStream /\ mb > mp THEN mp
                                                ELSE PreviousAllowedInStream(mb))
                \/ /\ r.readiness = "kNotReady" /\ r.last = last /\ r.timestamp = Earlier(mp, mb)
                   /\ r.timestamp < OneOverPostStream /\ r.timestamp <= mb /\ r.timestamp <= mp
                   /\ ~handler.process_timestamps => r.timestamp = mb
<1> DEFINE r == SyncSetReadiness(set, last)
           mb == MinBound(set)
           mp == MinPacket(set)
           earliest == Earlier(mp, mb)
           settled == IF mp = PostStream /\ mb > mp THEN mp ELSE PreviousAllowedInStream(mb)
           settled_packet == Earlier(mp, settled)
<1>1. mb \in Timestamp /\ mp \in Timestamp
  BY SeenIs DEF MinBound, MinPacket
<1>2. r = IF earliest >= OneOverPostStream
          THEN Readiness("kReadyForClose", Done, PreviousAllowedInStream(Done))
          ELSE IF ~handler.process_timestamps /\ mb > mp
          THEN Readiness("kReadyForProcess", earliest, earliest)
          ELSE IF handler.process_timestamps /\ settled_packet > Later(last, Unstarted)
          THEN Readiness("kReadyForProcess", settled_packet, settled_packet)
          ELSE Readiness("kNotReady", earliest, last)
  BY DEF SyncSetReadiness
<1> HIDE DEF r, mb, mp
<1>3. Done \in Timestamp /\ PreviousAllowedInStream(Done) = MaxTimestamp /\ MaxTimestamp \in Timestamp
      /\ mb \in Int /\ mp \in Int /\ last \in Int /\ OneOverPostStream \in Int /\ Unstarted \in Int
      /\ Timestamp \subseteq Int
  BY <1>1, Constant, PreviousIs
<1>4. settled \in Timestamp
  BY <1>1, PreviousIs
<1> HIDE DEF settled
<1>5. /\ earliest \in {mp, mb} /\ earliest <= mp /\ earliest <= mb
      /\ settled_packet \in {mp, settled} /\ settled_packet <= mp
      /\ Later(last, Unstarted) >= last /\ Later(last, Unstarted) >= Unstarted
      /\ Later(last, Unstarted) \in Int
  BY <1>3, <1>4, EarlierIs
<1>6. earliest = IF mp <= mb THEN mp ELSE mb
  BY DEF Earlier
<1>7. earliest \in Timestamp /\ settled_packet \in Timestamp /\ earliest \in Int /\ settled_packet \in Int
  BY <1>1, <1>4, <1>5, <1>3
<1> HIDE DEF earliest, settled_packet
<1>8. CASE earliest >= OneOverPostStream
  BY <1>1, <1>2, <1>3, <1>5, <1>7, <1>8 DEF Readiness, r, mb, mp
<1>9. CASE ~(earliest >= OneOverPostStream) /\ ~handler.process_timestamps /\ mb > mp
  BY <1>1, <1>2, <1>3, <1>6, <1>7, <1>9 DEF Readiness, r, mb, mp
<1>10. CASE ~(earliest >= OneOverPostStream) /\ handler.process_timestamps /\ settled_packet > Later(last, Unstarted)
  <2>1. r = Readiness("kReadyForProcess", settled_packet, settled_packet)
    BY <1>2, <1>10
  <2>2. r.readiness = "kReadyForProcess" /\ r.timestamp = settled_packet /\ r.last = settled_packet
    BY <2>1 DEF Readiness
  <2>3. settled_packet > last /\ settled_packet > Unstarted
    BY <1>10, <1>5, <1>3, <1>7
  <2>4. settled_packet = Earlier(mp, IF mp = PostStream /\ mb > mp THEN mp ELSE PreviousAllowedInStream(mb))
    BY DEF settled_packet, settled
  <2> QED
    BY <2>2, <2>3, <2>4, <1>1, <1>5, <1>7, <1>10 DEF r, mb, mp
<1>11. CASE /\ ~(earliest >= OneOverPostStream) /\ ~(~handler.process_timestamps /\ mb > mp)
            /\ ~(handler.process_timestamps /\ settled_packet > Later(last, Unstarted))
  <2>1. r = Readiness("kNotReady", earliest, last)
    BY <1>2, <1>11
  <2>2. r.readiness = "kNotReady" /\ r.timestamp = earliest /\ r.last = last
    BY <2>1 DEF Readiness
  <2>3. earliest < OneOverPostStream
    BY <1>11, <1>3, <1>7
  <2>4. ~handler.process_timestamps => earliest = mb
    BY <1>11, <1>6, <1>3
  <2>5. earliest = Earlier(mp, mb)
    BY DEF earliest
  <2> QED
    BY <2>2, <2>3, <2>4, <2>5, <1>1, <1>5, <1>7 DEF r, mb, mp
<1> QED
  BY <1>8, <1>9, <1>10, <1>11

\* What the thread does next keeps the types.
LEMMA OutcomeTyped ==
  ASSUME StreamsTyped, SchedulerTyped, UNCHANGED <<handler, pending>>,
         NEW t \in Timestamp, NEW T \in SUBSET Used,
         NotReady(t) \/ ReadyForProcess(t, T) \/ ReadyForClose
  PROVE  SchedulerTyped'
<1>1. /\ seen' = NothingSeen /\ todo' \in {{}, T, Used} /\ pc' \in {"idle", "pop", "close"}
      /\ input_timestamp' \in {t, input_timestamp} /\ input_bound' \in {t, input_bound}
  BY DEF NotReady, ReadyForProcess, ReadyForClose
<1>2. /\ seen' \in [Streams -> Looks]
      /\ \A s \in Streams : seen'[s].empty = TRUE
  BY <1>1, NothingSeenIs
<1> HIDE DEF Looks, Timestamp
<1> QED
  BY <1>1, <1>2 DEF SchedulerTyped, Used, Indices, StreamsOf

LEMMA OutcomeIs ==
  ASSUME NEW r, NEW t, Outcome(r, t)
  PROVE  NotReady(t) \/ ReadyForProcess(t, Used) \/ ReadyForClose
BY DEF Outcome

\* GetNodeReadiness keeps its own variables in their types.
LEMMA SetsTyped ==
  ASSUME HandlerTyped, UNCHANGED <<handler, alignVars, surplusVars, erased>>,
         sync_sets_' \in SUBSET Indices, ready' \in SUBSET Indices,
         last_processed_ts_' \in [Indices -> Timestamp], ready_timestamps_' \in [Indices -> Timestamp]
  PROVE  HandlerTyped'
<1> HIDE DEF Timestamp, Ops, Node, Carried
<1> QED
  BY DEF HandlerTyped, alignVars, surplusVars, SurplusRecords, Used, Indices, StreamsOf

LEMMA DefaultTyped ==
  ASSUME TInv, DefaultReadiness
  PROVE  TInv'
<1>0. StreamsTyped /\ SchedulerTyped /\ HandlerTyped /\ handler \in Handlers
  BY DEF TInv, StreamsTyped
<1> DEFINE r == ReadinessOf(1)
<1>1. /\ Outcome(r.readiness, r.timestamp) /\ ready' = {1}
      /\ last_processed_ts_' = [last_processed_ts_ EXCEPT ![1] = r.last]
      /\ UNCHANGED <<handler, stream, upstreamVars, pending, sync_sets_, ready_timestamps_,
                     alignVars, surplusVars, erased>>
  BY DEF DefaultReadiness
<1>2. 1 \in Indices /\ StreamsOf(1) \in SUBSET Streams /\ last_processed_ts_[1] \in Timestamp
  BY <1>0, HandlerIs DEF HandlerTyped
<1>3. r.timestamp \in Timestamp /\ r.last \in Timestamp
  BY <1>0, <1>2, ReadinessIs DEF ReadinessOf
<1> HIDE DEF r
<1>4. SchedulerTyped'
  BY <1>0, <1>1, <1>3, OutcomeIs, OutcomeTyped
<1>5. HandlerTyped'
  BY <1>0, <1>1, <1>2, <1>3, SetsTyped DEF HandlerTyped
<1> QED
  BY <1>0, <1>1, <1>4, <1>5, StreamsKept DEF TInv

\* The earliest of what was seen.
LEMMA EarliestIs ==
  ASSUME handler \in Handlers, SchedulerTyped, NEW set \in SUBSET Streams
  PROVE  /\ Earlier(MinPacket(set), MinBound(set)) \in Timestamp
         /\ MinPacket(set) \in Timestamp /\ MinBound(set) \in Timestamp
BY SeenIs DEF MinPacket, MinBound, Earlier

LEMMA EarlyCloseOrBarrierTyped ==
  ASSUME TInv, EarlyCloseReadiness \/ BarrierReadiness
  PROVE  TInv'
<1>0. StreamsTyped /\ SchedulerTyped /\ HandlerTyped /\ handler \in Handlers
  BY DEF TInv, StreamsTyped
<1> DEFINE earliest == Earlier(MinPacket(Used), MinBound(Used))
<1>1. /\ NotReady(earliest) \/ ReadyForProcess(earliest, Used) \/ ReadyForClose
      /\ ready' = {1}
      /\ UNCHANGED <<handler, stream, upstreamVars, pending, sync_sets_, last_processed_ts_,
                     ready_timestamps_, alignVars, surplusVars, erased>>
  BY DEF EarlyCloseReadiness, BarrierReadiness
<1>2. earliest \in Timestamp /\ 1 \in Indices
  BY <1>0, EarliestIs, HandlerIs
<1> HIDE DEF earliest
<1>3. SchedulerTyped'
  BY <1>0, <1>1, <1>2, OutcomeTyped
<1>4. HandlerTyped'
  BY <1>0, <1>1, <1>2, SetsTyped DEF HandlerTyped
<1> QED
  BY <1>0, <1>1, <1>3, <1>4, StreamsKept DEF TInv

LEMMA TimestampsMin ==
  ASSUME NEW T \in SUBSET Timestamp
  PROVE  Min({Done} \cup T) \in Timestamp /\ Min({Done} \cup T) \in {Done} \cup T
         /\ Min({Done} \cup T) <= Done /\ \A t \in T : Min({Done} \cup T) <= t
BY Constant, TimestampMin

LEMMA ReadyTimestampTyped ==
  ASSUME HandlerTyped, NEW i \in Indices, NEW r, r.timestamp \in Timestamp
  PROVE  ReadyTimestamp(i, r) \in Timestamp
<1>1. PreviousAllowedInStream(Done) \in Timestamp /\ Done \in Timestamp /\ Unset \in Timestamp
  BY PreviousIs, Constant
<1>2. ready_timestamps_[i] \in Timestamp
  BY DEF HandlerTyped
<1> HIDE DEF Timestamp, Done, Unset
<1> QED
  BY <1>1, <1>2 DEF ReadyTimestamp

LEMMA ImmediateTyped ==
  ASSUME TInv, ImmediateReadiness
  PROVE  TInv'
<1>0. StreamsTyped /\ SchedulerTyped /\ HandlerTyped /\ handler \in Handlers
  BY DEF TInv, StreamsTyped
<1>10. PICK r, timestamps :
          /\ r = [i \in Indices |-> ReadinessOf(i)]
          /\ timestamps = [i \in Indices |-> ReadyTimestamp(i, r[i])]
          /\ ImmediateReadinessOf(r, timestamps)
  BY DEF ImmediateReadiness
<1> DEFINE readyAt(t) == {i \in Indices : timestamps[i] = t}
           waiting == readyAt(Unset)
           earliest == Min({Done} \cup {timestamps[i] : i \in Indices \ waiting})
           min_bound == Min({earliest} \cup {r[i].timestamp : i \in waiting})
<1>1. /\ \/ min_bound = Done /\ ReadyForClose /\ ready' = {}
         \/ min_bound # Done /\ earliest < Done /\ FillAt(earliest, readyAt(earliest))
         \/ /\ min_bound # Done /\ earliest = Done
            /\ IF \E i \in Indices : BecameDone(i, r[i]) THEN FillAt(min_bound, readyAt(min_bound))
               ELSE NotReady(min_bound) /\ ready' = {}
      /\ ready_timestamps_' = timestamps
      /\ last_processed_ts_' = [i \in Indices |-> IF Fresh(i) THEN r[i].last ELSE last_processed_ts_[i]]
      /\ UNCHANGED <<handler, stream, upstreamVars, pending, sync_sets_, alignVars, surplusVars, erased>>
  BY <1>10 DEF ImmediateReadiness, ImmediateReadinessOf
<1>2. ASSUME NEW i \in Indices PROVE r[i].timestamp \in Timestamp /\ r[i].last \in Timestamp
  BY <1>0, <1>10, HandlerIs, ReadinessIs DEF HandlerTyped, ReadinessOf
<1>3. timestamps \in [Indices -> Timestamp]
  BY <1>0, <1>2, <1>10, ReadyTimestampTyped
<1>4. earliest \in Timestamp
  <2>1. {timestamps[i] : i \in Indices \ waiting} \in SUBSET Timestamp
    BY <1>3
  <2> QED
    BY <2>1, TimestampsMin
<1> HIDE DEF earliest
<1>5. min_bound \in Timestamp
  BY <1>2, <1>4, TimestampMin
<1> HIDE DEF min_bound
<1>6. \A t : readyAt(t) \in SUBSET Indices /\ UNION {StreamsOf(i) : i \in readyAt(t)} \in SUBSET Used
  BY <1>0, HandlerIs
<1>7. \E t \in Timestamp, T \in SUBSET Used : NotReady(t) \/ ReadyForProcess(t, T) \/ ReadyForClose
  BY <1>1, <1>4, <1>5, <1>6 DEF FillAt
<1>8. ready' \in SUBSET Indices
  BY <1>1, <1>6 DEF FillAt
<1>9. SchedulerTyped'
  BY <1>0, <1>1, <1>7, OutcomeTyped
<1>11. HandlerTyped'
  BY <1>0, <1>1, <1>2, <1>3, <1>8, SetsTyped DEF HandlerTyped
<1> QED
  BY <1>0, <1>1, <1>9, <1>11, StreamsKept DEF TInv

LEMMA SyncSetsTyped ==
  ASSUME TInv, SyncSetsReadiness
  PROVE  TInv'
<1>0. StreamsTyped /\ SchedulerTyped /\ HandlerTyped /\ handler \in Handlers
  BY DEF TInv, StreamsTyped
<1>10. PICK r : r = [i \in sync_sets_ |-> ReadinessOf(i)] /\ SyncSetsReadinessOf(r)
  BY DEF SyncSetsReadiness
<1> DEFINE live == {i \in sync_sets_ : r[i].readiness # "kReadyForClose"}
           prepared == {i \in live : r[i].readiness = "kReadyForProcess"}
           earliest == Min({r[i].timestamp : i \in prepared})
           first == {i \in prepared : r[i].timestamp = earliest}
           chosen == Min(first)
<1>1. /\ \/ /\ prepared # {} /\ ready' = {chosen}
            /\ ReadyForProcess(earliest, handler.sync_sets[chosen])
         \/ prepared = {} /\ live = {} /\ ReadyForClose /\ ready' = {}
         \/ /\ prepared = {} /\ live # {} /\ ready' = {}
            /\ NotReady(r[Max(sync_sets_)].timestamp)
      /\ sync_sets_' = live
      /\ last_processed_ts_' = [i \in Indices |-> IF i \in sync_sets_ THEN r[i].last ELSE last_processed_ts_[i]]
      /\ UNCHANGED <<handler, stream, upstreamVars, pending, ready_timestamps_, alignVars, surplusVars, erased>>
  BY <1>10 DEF SyncSetsReadiness, SyncSetsReadinessOf
<1>2. ASSUME NEW i \in sync_sets_ PROVE r[i].timestamp \in Timestamp /\ r[i].last \in Timestamp
  BY <1>0, <1>10, HandlerIs, ReadinessIs DEF HandlerTyped, ReadinessOf
<1>3. live \in SUBSET sync_sets_ /\ prepared \in SUBSET live
  OBVIOUS
<1> HIDE DEF live, prepared
<1>4. ASSUME prepared # {}
      PROVE  /\ earliest \in Timestamp /\ chosen \in prepared /\ chosen \in Indices
             /\ r[chosen].timestamp = earliest
             /\ \A i \in prepared : earliest <= r[i].timestamp
  <2>1. {r[i].timestamp : i \in prepared} \in SUBSET Timestamp /\ {r[i].timestamp : i \in prepared} # {}
    BY <1>2, <1>3, <1>4
  <2>2. earliest \in {r[i].timestamp : i \in prepared} /\ earliest \in Timestamp
        /\ \A t \in {r[i].timestamp : i \in prepared} : earliest <= t
    BY <2>1, TimestampMin
  <2>3. first # {}
    BY <2>2
  <2>4. first \in SUBSET Int /\ 1 \in Int /\ \A i \in first : 1 <= i
    <3>1. first \in SUBSET Indices
      BY <1>0, <1>3 DEF HandlerTyped
    <3>2. Indices = 1 .. Len(handler.sync_sets) /\ Len(handler.sync_sets) \in Nat
      BY <1>0, HandlerIs, HandlersAssumption, LenProperties
    <3> HIDE DEF first
    <3> QED
      BY <3>1, <3>2
  <2>5. chosen \in first
    <3> HIDE DEF first
    <3> QED
      BY <2>3, <2>4, MinIs
  <2>6. chosen \in prepared /\ r[chosen].timestamp = earliest
    BY <2>5
  <2> HIDE DEF chosen, earliest
  <2> QED
    BY <2>2, <2>6, <1>0, <1>3 DEF HandlerTyped
<1>5. ASSUME live # {} PROVE r[Max(sync_sets_)].timestamp \in Timestamp
  <2>1. sync_sets_ \in SUBSET Int /\ sync_sets_ # {} /\ Len(handler.sync_sets) \in Int
        /\ \A i \in sync_sets_ : i <= Len(handler.sync_sets)
    BY <1>0, <1>3, <1>5, HandlersAssumption, LenProperties, HandlerIs DEF HandlerTyped
  <2>2. Max(sync_sets_) \in sync_sets_
    BY <2>1, MaxIs
  <2> QED
    BY <2>2, <1>2
<1>6. \E t \in Timestamp, T \in SUBSET Used : NotReady(t) \/ ReadyForProcess(t, T) \/ ReadyForClose
  <2>1. CASE prepared # {} /\ ReadyForProcess(earliest, handler.sync_sets[chosen])
    BY <1>0, <1>4, <2>1, HandlerIs DEF StreamsOf
  <2>2. CASE ReadyForClose
    <3>1. Done \in Timestamp /\ {} \in SUBSET Used
      BY Constant
    <3> QED
      BY <3>1, <2>2
  <2>3. CASE live # {} /\ NotReady(r[Max(sync_sets_)].timestamp)
    BY <2>3, <1>5
  <2> QED
    BY <1>1, <2>1, <2>2, <2>3
<1>7. ready' \in SUBSET Indices
  BY <1>1, <1>4
<1>8. SchedulerTyped'
  BY <1>0, <1>1, <1>6, OutcomeTyped
<1>9. HandlerTyped'
  BY <1>0, <1>1, <1>2, <1>3, <1>7, SetsTyped DEF HandlerTyped
<1> QED
  BY <1>0, <1>1, <1>8, <1>9, StreamsKept DEF TInv

LEMMA AlignBeforeTyped ==
  ASSUME TInv, AlignBeforeOffsets
  PROVE  TInv'
<1>0. StreamsTyped /\ SchedulerTyped /\ HandlerTyped /\ handler \in Handlers
  BY DEF TInv, StreamsTyped
<1> DEFINE base == seen[Base].timestamp
           others == Used \ {Base}
           known == {s \in others : ~seen[s].empty}
<1>1. /\ handler.kind = "timestamp_align"
      /\ IF seen[Base].empty THEN NotReady(base) /\ UNCHANGED <<alignVars, ready>>
         ELSE /\ timestamp_offsets_' = [s \in Streams |->
                   IF s \in known THEN base - seen[s].timestamp ELSE timestamp_offsets_[s]]
              /\ offsets_initialized_' = (known = others)
              /\ ReadyForProcess(base, IF known = others THEN Used ELSE {Base})
              /\ ready' = {1}
      /\ UNCHANGED <<handler, stream, upstreamVars, pending, sync_sets_, last_processed_ts_,
                     ready_timestamps_, surplusVars, erased>>
  BY DEF AlignBeforeOffsets
<1>2. Base \in Used /\ Base \in Streams /\ 1 \in Indices
  BY <1>0, <1>1, AlignIs, HandlerIs
<1>3. base \in Timestamp /\ \A s \in Streams : seen[s].timestamp \in Int
  BY <1>0, <1>2, Constant DEF SchedulerTyped, Looks
<1>4. \E T \in SUBSET Used : NotReady(base) \/ ReadyForProcess(base, T)
  BY <1>1, <1>2
<1>5. SchedulerTyped'
  BY <1>0, <1>1, <1>3, <1>4, OutcomeTyped
<1>6. HandlerTyped'
  <2>1. offsets_initialized_' \in BOOLEAN /\ ready' \in SUBSET Indices
    BY <1>0, <1>1, <1>2 DEF HandlerTyped, alignVars
  <2>2. timestamp_offsets_' \in [Streams -> Int]
    <3>1. base \in Int
      BY <1>2, <1>3
    <3>2. timestamp_offsets_ \in [Streams -> Int]
      BY <1>0 DEF HandlerTyped
    <3> HIDE DEF base, known
    <3> QED
      BY <1>1, <1>3, <3>1, <3>2 DEF alignVars
  <2> HIDE DEF Timestamp, Ops, Node, Carried
  <2> QED
    BY <1>0, <1>1, <2>1, <2>2 DEF HandlerTyped, surplusVars, SurplusRecords, Used, Indices, StreamsOf
<1> QED
  BY <1>0, <1>1, <1>5, <1>6, StreamsKept DEF TInv

LEMMA AlignedIs ==
  ASSUME handler \in Handlers, SchedulerTyped, HandlerTyped, NEW s \in Streams
  PROVE  Aligned(s) \in Timestamp
BY Constant, PlusIs DEF SchedulerTyped, HandlerTyped, Looks, IsRangeValue, Aligned

LEMMA AlignWithTyped ==
  ASSUME TInv, AlignWithOffsets
  PROVE  TInv'
<1>0. StreamsTyped /\ SchedulerTyped /\ HandlerTyped /\ handler \in Handlers
  BY DEF TInv, StreamsTyped
<1> DEFINE earliest == Min({Aligned(s) : s \in Used})
<1>1. /\ NotReady(earliest) \/ ReadyForProcess(earliest, Used) \/ ReadyForClose
      /\ ready' = {1}
      /\ UNCHANGED <<handler, stream, upstreamVars, pending, sync_sets_, last_processed_ts_,
                     ready_timestamps_, alignVars, surplusVars, erased>>
  BY DEF AlignWithOffsets
<1>2. earliest \in Timestamp /\ 1 \in Indices
  <2>1. {Aligned(s) : s \in Used} \in SUBSET Timestamp /\ {Aligned(s) : s \in Used} # {}
    BY <1>0, AlignedIs, HandlerIs
  <2> QED
    BY <2>1, <1>0, TimestampMin, HandlerIs
<1> HIDE DEF earliest
<1>3. SchedulerTyped'
  BY <1>0, <1>1, <1>2, OutcomeTyped
<1>4. HandlerTyped'
  BY <1>0, <1>1, <1>2, SetsTyped DEF HandlerTyped
<1> QED
  BY <1>0, <1>1, <1>3, <1>4, StreamsKept DEF TInv

\* Packets are erased from a stream.
LEMMA EraseTyped ==
  ASSUME StreamsTyped, HandlerTyped, NEW s \in Streams, NEW t \in Int, Erase(s, t),
         UNCHANGED <<handler, upstreamVars>>
  PROVE  StreamsTyped' /\ erased' \in [Streams -> SUBSET Carried]
<1> DEFINE b == ErasePacketsEarlierThan(stream[s], t)
<1>1. /\ stream' = [stream EXCEPT ![s] = b]
      /\ erased' = [erased EXCEPT ![s] = @ \cup {u \in Range(stream[s].queue) : u < t}]
  BY DEF Erase
<1>2. InOrder(handler, stream[s]) /\ handler \in Handlers
  BY DEF StreamsTyped
<1>3. InOrder(handler, b)
  BY <1>2, EraseInOrder
<1>4. StreamsTyped'
  <2> HIDE DEF b
  <2>1. /\ out_bound' \in [Streams -> Marks] /\ has_error_' \in BOOLEAN
        /\ notify' \in [Streams -> {"none", "notify", "notify_erase", "erase", "erasing"}]
    BY DEF StreamsTyped, upstreamVars
  <2> QED
    BY <1>1, <1>3, <2>1, StreamTyped
<1>5. Range(stream[s].queue) \in SUBSET Carried
  BY <1>2, Fields DEF Range
<1>6. erased' \in [Streams -> SUBSET Carried]
  <2> HIDE DEF Carried
  <2> QED
    BY <1>1, <1>5 DEF HandlerTyped
<1> QED
  BY <1>4, <1>6

\* The history of what is erased grows.
LEMMA ErasedTyped ==
  ASSUME HandlerTyped, UNCHANGED <<handler, handlerVars, alignVars, surplusVars>>,
         erased' \in [Streams -> SUBSET Carried]
  PROVE  HandlerTyped'
<1> HIDE DEF Timestamp, Ops, Node, Carried
<1> QED
  BY DEF HandlerTyped, handlerVars, alignVars, surplusVars, SurplusRecords, Used, Indices, StreamsOf

LEMMA MuxControlTyped ==
  ASSUME TInv, MuxLooksAtControl
  PROVE  TInv'
<1>0. StreamsTyped /\ SchedulerTyped /\ HandlerTyped /\ handler \in Handlers
  BY DEF TInv, StreamsTyped
<1> DEFINE control == seen[Control]
           data == DataStream(control.timestamp)
<1>1. /\ handler.kind = "mux"
      /\ \/ ReadyForClose /\ UNCHANGED <<stream, ready, erased>>
         \/ NotReady(control.timestamp) /\ UNCHANGED <<stream, ready, erased>>
         \/ /\ ~control.empty
            /\ Erase(data, control.timestamp)
            /\ todo' = {data} /\ ready' = {1}
            /\ UNCHANGED <<pc, seen, input_timestamp, input_bound>>
      /\ UNCHANGED <<handler, upstreamVars, pending, sync_sets_, last_processed_ts_,
                     ready_timestamps_, alignVars, surplusVars>>
  BY DEF MuxLooksAtControl
<1>2. Control \in Streams /\ control.timestamp \in Timestamp /\ 1 \in Indices
  BY <1>0, <1>1, MuxIs, HandlerIs DEF SchedulerTyped, Looks
<1>3. CASE UNCHANGED <<stream, ready, erased>> /\ (ReadyForClose \/ NotReady(control.timestamp))
  <2>1. SchedulerTyped'
    BY <1>0, <1>1, <1>2, <1>3, OutcomeTyped
  <2>2. HandlerTyped'
    BY <1>0, <1>1, <1>3, HandlerKept DEF handlerVars
  <2> QED
    BY <1>0, <1>1, <1>3, <2>1, <2>2, StreamsKept DEF TInv
<1>4. CASE /\ ~control.empty /\ Erase(data, control.timestamp) /\ todo' = {data} /\ ready' = {1}
           /\ UNCHANGED <<pc, seen, input_timestamp, input_bound>>
  <2>1. control.timestamp \in handler.packets /\ control.timestamp \in Int
    BY <1>0, <1>2, <1>4, Constant DEF SchedulerTyped
  <2>2. data \in Used /\ data \in Streams
    BY <1>0, <1>1, <2>1, MuxIs
  <2>3. StreamsTyped' /\ erased' \in [Streams -> SUBSET Carried]
    BY <1>0, <1>1, <1>4, <2>1, <2>2, EraseTyped
  <2>4. SchedulerTyped'
    <3> HIDE DEF data, control, Looks, Timestamp
    <3> QED
      BY <1>0, <1>1, <1>4, <2>2 DEF SchedulerTyped, Used, Indices, StreamsOf
  <2>5. HandlerTyped'
    <3> HIDE DEF Timestamp, Ops, Node, Carried
    <3> QED
      BY <1>0, <1>1, <1>2, <1>4, <2>3 DEF HandlerTyped, alignVars, surplusVars, SurplusRecords, Used, Indices, StreamsOf
  <2> QED
    BY <2>3, <2>4, <2>5 DEF TInv
<1> QED
  BY <1>1, <1>3, <1>4

LEMMA MuxDataTyped ==
  ASSUME TInv, MuxLooksAtData
  PROVE  TInv'
<1>0. StreamsTyped /\ SchedulerTyped /\ HandlerTyped /\ handler \in Handlers
  BY DEF TInv, StreamsTyped
<1> DEFINE control == seen[Control].timestamp
<1>1. /\ handler.kind = "mux"
      /\ NotReady(input_bound) \/ NotReady(control) \/ ReadyForProcess(control, Used)
      /\ ready' = {}
      /\ UNCHANGED <<handler, stream, upstreamVars, pending, sync_sets_, last_processed_ts_,
                     ready_timestamps_, alignVars, surplusVars, erased>>
  BY DEF MuxLooksAtData
<1>2. control \in Timestamp /\ input_bound \in Timestamp
  BY <1>0, <1>1, MuxIs DEF SchedulerTyped, Looks
<1> HIDE DEF control
<1>3. SchedulerTyped'
  BY <1>0, <1>1, <1>2, OutcomeTyped
<1>4. HandlerTyped'
  BY <1>0, <1>1, <1>2, SetsTyped DEF HandlerTyped
<1> QED
  BY <1>0, <1>1, <1>3, <1>4, StreamsKept DEF TInv

LEMMA FixedSizeTyped ==
  ASSUME TInv, FixedSizeReadiness
  PROVE  TInv'
<1>0. StreamsTyped /\ SchedulerTyped /\ HandlerTyped /\ handler \in Handlers
  BY DEF TInv, StreamsTyped
<1> DEFINE r == ReadinessOf(1)
<1>1. /\ \/ pc' = "surplus" /\ seen' = NothingSeen /\ UNCHANGED <<todo, input_timestamp, input_bound>>
         \/ /\ pc' = "fill" /\ input_timestamp' = r.timestamp /\ seen' = NothingSeen
            /\ UNCHANGED <<todo, input_bound>>
         \/ NotReady(r.timestamp)
         \/ ReadyForClose
      /\ surplus' \in {surplus, EraseSurplusPackets} /\ erase_mutex_' \in {0, erase_mutex_}
      /\ last_processed_ts_' = [last_processed_ts_ EXCEPT ![1] = r.last]
      /\ ready' = {1}
      /\ UNCHANGED <<handler, stream, upstreamVars, pending, sync_sets_, ready_timestamps_,
                     alignVars, kept_timestamp_, erased>>
  BY DEF FixedSizeReadiness
<1>2. 1 \in Indices /\ StreamsOf(1) \in SUBSET Streams /\ last_processed_ts_[1] \in Timestamp
  BY <1>0, HandlerIs DEF HandlerTyped
<1>3. r.timestamp \in Timestamp /\ r.last \in Timestamp
  BY <1>0, <1>2, ReadinessIs DEF ReadinessOf
<1> HIDE DEF r
<1>4. SchedulerTyped'
  <2>1. CASE NotReady(r.timestamp) \/ ReadyForClose
    BY <1>0, <1>1, <1>3, <2>1, OutcomeTyped
  <2>2. CASE seen' = NothingSeen /\ pc' \in {"surplus", "fill"}
             /\ input_timestamp' \in {r.timestamp, input_timestamp} /\ UNCHANGED <<todo, input_bound>>
    <3>1. /\ seen' \in [Streams -> Looks]
          /\ \A s \in Streams : seen'[s].empty = TRUE
      BY <2>2, NothingSeenIs
    <3> HIDE DEF Looks, Timestamp
    <3> QED
      BY <1>0, <1>1, <1>3, <2>2, <3>1 DEF SchedulerTyped, Used, Indices, StreamsOf
  <2> QED
    BY <1>1, <2>1, <2>2
<1>5. HandlerTyped'
  <2>1. last_processed_ts_' \in [Indices -> Timestamp]
    BY <1>0, <1>1, <1>3 DEF HandlerTyped
  <2>2. surplus' \in SurplusRecords
    BY <1>0, <1>1, SurplusStarts DEF HandlerTyped
  <2>3. erase_mutex_' \in Streams \cup {0, Node}
    BY <1>0, <1>1 DEF HandlerTyped
  <2> HIDE DEF Timestamp, Ops, Node, Carried
  <2> QED
    BY <1>0, <1>1, <1>2, <2>1, <2>2, <2>3 DEF HandlerTyped, alignVars, SurplusRecords, Used, Indices, StreamsOf
<1> QED
  BY <1>0, <1>1, <1>4, <1>5, StreamsKept DEF TInv

LEMMA FillTyped ==
  ASSUME TInv, FillInputSet \/ LookAfterErasing
  PROVE  TInv'
<1>0. StreamsTyped /\ SchedulerTyped /\ HandlerTyped /\ handler \in Handlers
  BY DEF TInv, StreamsTyped
<1>1. /\ pc' \in {"keep", "look", "measure"} /\ todo' \in {todo, Used}
      /\ surplus' \in {EraseSurplusPackets, NoSurplus} /\ erase_mutex_' \in {Node, erase_mutex_}
      /\ UNCHANGED <<handler, stream, upstreamVars, pending, seen, input_timestamp, input_bound,
                     handlerVars, alignVars, kept_timestamp_, erased>>
  BY DEF FillInputSet, LookAfterErasing
<1>2. SchedulerTyped'
  <2> HIDE DEF Looks, Timestamp
  <2> QED
    BY <1>0, <1>1 DEF SchedulerTyped, Used, Indices, StreamsOf
<1>3. HandlerTyped'
  <2>1. surplus' \in SurplusRecords
    BY <1>0, <1>1, SurplusStarts
  <2>2. erase_mutex_' \in Streams \cup {0, Node}
    BY <1>0, <1>1 DEF HandlerTyped
  <2> HIDE DEF Timestamp, Ops, Node, Carried
  <2> QED
    BY <1>0, <1>1, <2>1, <2>2 DEF HandlerTyped, handlerVars, alignVars, SurplusRecords, Used, Indices, StreamsOf
<1> QED
  BY <1>0, <1>1, <1>2, <1>3, StreamsKept DEF TInv

LEMMA MeasureTyped ==
  ASSUME TInv, Measure
  PROVE  TInv'
<1>0. StreamsTyped /\ SchedulerTyped /\ HandlerTyped /\ handler \in Handlers
  BY DEF TInv, StreamsTyped
<1> DEFINE Left(s) == IF seen[s].empty THEN PreviousTimestamp(seen[s].timestamp) ELSE seen[s].timestamp
<1>1. /\ \/ /\ todo # {} /\ todo' = todo \ {First}
            /\ seen' = [seen EXCEPT ![First] = [empty |-> IsEmpty(stream[First]),
                                                timestamp |-> MinTimestampOrBound(stream[First])]]
            /\ UNCHANGED <<pc, input_timestamp>>
         \/ /\ todo' = Used /\ pc' = "pop" /\ seen' = NothingSeen
            /\ input_timestamp' = Min({Left(s) : s \in Used})
      /\ UNCHANGED <<handler, stream, upstreamVars, pending, input_bound, handlerVars, alignVars,
                     surplusVars, erased>>
  BY DEF Measure
<1>2. Min({Left(s) : s \in Used}) \in Timestamp
  <2>1. \A s \in Used : seen[s].timestamp \in Timestamp
    BY <1>0, HandlerIs DEF SchedulerTyped, Looks
  <2>2. \A s \in Used : PreviousTimestamp(seen[s].timestamp) \in Timestamp
    BY <2>1, PreviousIs
  <2>3. {Left(s) : s \in Used} \in SUBSET Timestamp /\ {Left(s) : s \in Used} # {}
    BY <1>0, <2>1, <2>2, HandlerIs
  <2> QED
    BY <2>3, TimestampMin
<1> HIDE DEF Left
<1>3. SchedulerTyped'
  <2>1. /\ seen' \in [Streams -> Looks]
        /\ \A s \in Streams : ~seen'[s].empty => seen'[s].timestamp \in handler.packets
    BY <1>0, <1>1, LookedTyped, NothingSeenIs
  <2> HIDE DEF Looks, Timestamp
  <2> QED
    BY <1>0, <1>1, <1>2, <2>1 DEF SchedulerTyped, Used, Indices, StreamsOf
<1> QED
  BY <1>0, <1>1, <1>3, StreamsKept, HandlerKept DEF TInv

LEMMA SelectIs ==
  ASSUME SchedulerTyped, HandlerTyped, NEW s \in Streams
  PROVE  SelectTimestamp(s) \in Timestamp
<1>1. input_timestamp \in Timestamp /\ timestamp_offsets_[s] \in Int
  BY DEF SchedulerTyped, HandlerTyped
<1>2. IsRangeValue(input_timestamp) => input_timestamp \in 0 .. MaxTimestamp
  BY <1>1, Constant DEF IsRangeValue
<1>3. IsRangeValue(input_timestamp) => Plus(input_timestamp, -timestamp_offsets_[s]) \in Timestamp
  BY <1>1, <1>2, PlusIs
<1> QED
  BY <1>1, <1>3 DEF SelectTimestamp

\* What is popped leaves the stream in order.
LEMMA PoppedInOrder ==
  ASSUME StreamsTyped, SchedulerTyped, HandlerTyped, NEW s \in Streams
  PROVE  InOrder(handler, Popped(s))
<1>1. InOrder(handler, stream[s]) /\ handler \in Handlers /\ SelectTimestamp(s) \in Timestamp
  BY SelectIs DEF StreamsTyped
<1>2. CASE handler.kind = "barrier"
  BY <1>1, <1>2, PopHeadInOrder DEF Popped, OnlyErases
<1>3. CASE handler.kind # "barrier" /\ OnlyErases(s)
  BY <1>1, <1>3, NextIs, Constant, EraseInOrder DEF SchedulerTyped, Popped
<1>4. CASE handler.kind # "barrier" /\ ~OnlyErases(s)
  BY <1>1, <1>4, PopInOrder DEF InOrder, Popped
<1> QED
  BY <1>2, <1>3, <1>4

LEMMA PopTyped ==
  ASSUME TInv, Pop
  PROVE  TInv'
<1>0. StreamsTyped /\ SchedulerTyped /\ HandlerTyped /\ handler \in Handlers
  BY DEF TInv, StreamsTyped
<1> DEFINE s == First
           popped == Range(stream[s].queue) \ Range(Popped(s).queue)
<1>1. /\ todo # {}
      /\ stream' = [stream EXCEPT ![s] = Popped(s)]
      /\ erased' = IF OnlyErases(s) THEN [erased EXCEPT ![s] = @ \cup popped] ELSE erased
      /\ todo' = todo \ {s}
      /\ UNCHANGED <<handler, upstreamVars, pending, pc, seen, input_timestamp, input_bound,
                     handlerVars, alignVars, surplusVars>>
  BY DEF Pop
<1>2. s \in Streams
  BY <1>0, <1>1, FirstIs DEF SchedulerTyped
<1>3. InOrder(handler, Popped(s))
  BY <1>0, <1>2, PoppedInOrder
<1>4. popped \in SUBSET Carried
  BY <1>0, <1>2, Fields DEF StreamsTyped, Range
<1> HIDE DEF s, popped
<1>5. StreamsTyped'
  BY <1>0, <1>1, <1>2, <1>3, StreamTyped DEF StreamsTyped, upstreamVars
<1>6. SchedulerTyped'
  <2> HIDE DEF Looks, Timestamp
  <2> QED
    BY <1>0, <1>1 DEF SchedulerTyped, Used, Indices, StreamsOf
<1>7. erased' \in [Streams -> SUBSET Carried]
  <2> HIDE DEF Carried
  <2> QED
    BY <1>0, <1>1, <1>4 DEF HandlerTyped
<1> QED
  BY <1>0, <1>1, <1>5, <1>6, <1>7, ErasedTyped DEF TInv

LEMMA InvokeTyped ==
  ASSUME TInv, Invoke
  PROVE  TInv'
<1>0. StreamsTyped /\ SchedulerTyped /\ HandlerTyped /\ handler \in Handlers
  BY DEF TInv, StreamsTyped
<1>1. /\ pc' = "idle" /\ pending' = TRUE /\ ready' = {} /\ input_timestamp' = Unset
      /\ ready_timestamps_' = [i \in Indices |-> IF i \in ready THEN Unset ELSE ready_timestamps_[i]]
      /\ erase_mutex_' = 0
      /\ UNCHANGED <<handler, stream, upstreamVars, todo, seen, input_bound, sync_sets_,
                     last_processed_ts_, alignVars, kept_timestamp_, surplus, erased>>
  BY DEF Invoke, EndInvocation
<1>2. Unset \in Timestamp
  BY Constant
<1> HIDE DEF Timestamp, Unset
<1>3. SchedulerTyped'
  <2> HIDE DEF Looks
  <2> QED
    BY <1>0, <1>1, <1>2 DEF SchedulerTyped, Used, Indices, StreamsOf
<1>4. HandlerTyped'
  <2>1. ready_timestamps_' \in [Indices -> Timestamp]
    BY <1>0, <1>1, <1>2 DEF HandlerTyped
  <2> HIDE DEF Ops, Node, Carried
  <2> QED
    BY <1>0, <1>1, <2>1 DEF HandlerTyped, alignVars, SurplusRecords, Used, Indices, StreamsOf
<1> QED
  BY <1>0, <1>1, <1>3, <1>4, StreamsKept DEF TInv

LEMMA CloseTyped ==
  ASSUME TInv, CloseStream
  PROVE  TInv'
<1>0. StreamsTyped /\ SchedulerTyped /\ HandlerTyped /\ handler \in Handlers
  BY DEF TInv, StreamsTyped
<1> DEFINE s == First
           b == Close(stream[s])
<1>1. /\ todo # {} /\ stream' = [stream EXCEPT ![s] = b]
      /\ todo' = todo \ {s} /\ pc' \in {"closed", pc}
      /\ UNCHANGED <<handler, upstreamVars, pending, seen, input_timestamp, input_bound, handlerVars,
                     alignVars, surplusVars, erased>>
  BY DEF CloseStream
<1>2. s \in Streams
  BY <1>0, <1>1, FirstIs DEF SchedulerTyped
<1>3. InOrder(handler, b)
  BY <1>0, <1>2, CloseInOrder DEF StreamsTyped
<1> HIDE DEF s, b
<1>4. StreamsTyped'
  BY <1>0, <1>1, <1>2, <1>3, StreamTyped DEF StreamsTyped, upstreamVars
<1>5. SchedulerTyped'
  <2> HIDE DEF Looks, Timestamp
  <2> QED
    BY <1>0, <1>1 DEF SchedulerTyped, Used, Indices, StreamsOf
<1> QED
  BY <1>0, <1>1, <1>4, <1>5, HandlerKept DEF TInv

LEMMA NLatestIs ==
  ASSUME StreamsTyped, NEW s \in Streams, NEW n \in Nat \ {0}
  PROVE  /\ GetMinTimestampAmongNLatest(stream[s], n) \in Timestamp
         /\ ~IsEmpty(stream[s]) =>
              \E i \in 1 .. Len(stream[s].queue) :
                /\ i = (IF n >= Len(stream[s].queue) THEN 1 ELSE Len(stream[s].queue) - n + 1)
                /\ GetMinTimestampAmongNLatest(stream[s], n) = stream[s].queue[i]
         /\ IsEmpty(stream[s]) => GetMinTimestampAmongNLatest(stream[s], n) = Unset
<1> DEFINE q == stream[s].queue
           i == IF n >= Len(q) THEN 1 ELSE Len(q) - n + 1
<1>1. /\ Len(q) \in Nat /\ (IsEmpty(stream[s]) <=> Len(q) = 0)
      /\ \A j \in 1 .. Len(q) : q[j] \in Timestamp
  BY Fields DEF StreamsTyped
<1>2. GetMinTimestampAmongNLatest(stream[s], n) = IF IsEmpty(stream[s]) THEN Unset ELSE q[i]
  BY DEF GetMinTimestampAmongNLatest
<1>3. ~IsEmpty(stream[s]) => i \in 1 .. Len(q)
  BY <1>1
<1>4. Unset \in Timestamp
  BY Constant
<1> QED
  BY <1>1, <1>2, <1>3, <1>4

LEMMA TurnTyped ==
  ASSUME handler \in Handlers, NEW state \in SurplusRecords, NEW first \in Ops, NEW after \in Ops,
         NextTurn(state, first, after)
  PROVE  surplus' \in SurplusRecords
<1> DEFINE rest == state.todo \ {Min(state.todo)}
<1>1. surplus' = IF rest # {} THEN [state EXCEPT !.op = first, !.todo = rest]
                 ELSE [state EXCEPT !.op = after, !.todo = IF after = "done" THEN {} ELSE Used]
  BY DEF NextTurn
<1>2. rest \in SUBSET Used /\ {} \in SUBSET Used /\ Used \in SUBSET Used /\ Used # {}
  BY HandlerIs DEF SurplusRecords
<1> HIDE DEF rest, Ops, Timestamp
<1> QED
  BY <1>1, <1>2 DEF SurplusRecords

\* A step of an erasure is one of three: the erasure goes on with the same stream, goes
\* to the next, or raises or lowers what it has found.
LEMMA SurplusStepTyped ==
  ASSUME TInv, EraseSurplusStep
  PROVE  TInv'
<1>0. StreamsTyped /\ SchedulerTyped /\ HandlerTyped /\ handler \in Handlers /\ surplus \in SurplusRecords
  BY DEF TInv, StreamsTyped, HandlerTyped
<1> DEFINE s == Min(surplus.todo)
           size == Len(stream[s].queue)
           last == GetMinTimestampAmongNLatest(stream[s], 1)
           latest == GetMinTimestampAmongNLatest(stream[s], handler.target)
           kept == GetMinTimestampAmongNLatest(stream[s], surplus.limit + 1)
           same == UNCHANGED <<stream, erased, kept_timestamp_>>
           goto(op) == surplus' = [surplus EXCEPT !.op = op]
           lowered(t) == [surplus EXCEPT !.bound = Earlier(@, t)]
<1>1. UNCHANGED <<handler, upstreamVars, scheduleVars, handlerVars, alignVars, erase_mutex_>>
      /\ surplus.op # "done"
  BY DEF EraseSurplusStep
<1>2. s \in Streams
  BY <1>0, <1>1, HandlerIs, SetMin DEF SurplusRecords
<1>3. \/ same /\ goto(IF size < handler.trigger THEN "done" ELSE "latest")
      \/ same /\ NextTurn(lowered(latest), "triggered", "erase_all")
      \/ UNCHANGED kept_timestamp_ /\ Erase(s, surplus.bound) /\ NextTurn(surplus, "erase_all", "done")
      \/ same /\ surplus' = [surplus EXCEPT !.op = "over",
                               !.limit = IF size >= handler.trigger THEN handler.target
                                         ELSE handler.trigger - 1]
      \/ same /\ goto("keep_latest")
      \/ same /\ NextTurn(surplus, "limit", AfterKeeping)
      \/ /\ UNCHANGED <<stream, erased>> /\ kept_timestamp_' = Later(kept_timestamp_, NextAllowedInStream(kept))
         /\ NextTurn(surplus, "limit", AfterKeeping)
      \/ same /\ NextTurn(lowered(NextAllowedInStream(last)), "last", "keep_one")
      \/ same /\ goto("bound")
      \/ same /\ NextTurn(lowered(MinTimestampOrBound(stream[s])), "last", "keep_one")
      \/ /\ UNCHANGED <<stream, erased>>
         /\ kept_timestamp_' = Earlier(kept_timestamp_, PreviousTimestamp(surplus.bound))
         /\ goto("erase")
      \/ UNCHANGED kept_timestamp_ /\ Erase(s, kept_timestamp_) /\ NextTurn(surplus, "erase", "done")
  BY DEF EraseSurplusStep
<1>4. /\ last \in Timestamp /\ latest \in Timestamp /\ kept \in Timestamp
      /\ NextAllowedInStream(last) \in Timestamp /\ NextAllowedInStream(kept) \in Timestamp
      /\ MinTimestampOrBound(stream[s]) \in Timestamp
      /\ surplus.bound \in Timestamp /\ PreviousTimestamp(surplus.bound) \in Timestamp
      /\ kept_timestamp_ \in Timestamp /\ Timestamp \in SUBSET Int /\ size \in Nat
  <2>1. handler.target \in Nat \ {0} /\ surplus.limit + 1 \in Nat \ {0} /\ 1 \in Nat \ {0}
        /\ surplus.bound \in Timestamp
    BY <1>0, HandlerIs DEF SurplusRecords
  <2>2. last \in Timestamp /\ latest \in Timestamp /\ kept \in Timestamp
    BY <1>0, <1>2, <2>1, NLatestIs
  <2>3. NextAllowedInStream(last) \in Timestamp /\ NextAllowedInStream(kept) \in Timestamp
    BY <2>2, NextIs, Constant
  <2>4. MinTimestampOrBound(stream[s]) \in Timestamp /\ size \in Nat
    BY <1>0, <1>2, LookIs, Fields
  <2>5. PreviousTimestamp(surplus.bound) \in Timestamp
    BY <2>1, PreviousIs
  <2>6. kept_timestamp_ \in Timestamp /\ Timestamp \in SUBSET Int
    BY <1>0, Constant DEF HandlerTyped
  <2> HIDE DEF last, latest, kept, size, s
  <2> QED
    BY <2>1, <2>2, <2>3, <2>4, <2>5, <2>6
<1> HIDE DEF last, latest, kept, size
<1>5. ASSUME NEW t \in Timestamp PROVE lowered(t) \in SurplusRecords
  <2>1. Earlier(surplus.bound, t) \in Timestamp
    BY <1>4 DEF Earlier
  <2> HIDE DEF Timestamp, Ops
  <2> QED
    BY <1>0, <2>1 DEF SurplusRecords
<1> HIDE DEF lowered
<1>6. /\ AfterKeeping \in Ops /\ \A op \in {"triggered", "latest", "erase_all", "done", "limit", "over",
                                            "keep_latest", "last", "bound", "keep_one", "erase"} : op \in Ops
  BY DEF AfterKeeping, Ops, MinOps, AnyOps
<1>7. ASSUME NEW op \in Ops, goto(op) PROVE surplus' \in SurplusRecords
  <2>1. surplus.todo # {}
    BY <1>0, <1>1 DEF SurplusRecords
  <2> HIDE DEF Timestamp, Ops
  <2> QED
    BY <1>0, <1>7, <2>1 DEF SurplusRecords
<1>8. ASSUME surplus' = [surplus EXCEPT !.op = "over",
                           !.limit = IF size >= handler.trigger THEN handler.target ELSE handler.trigger - 1]
      PROVE  surplus' \in SurplusRecords
  <2>1. (IF size >= handler.trigger THEN handler.target ELSE handler.trigger - 1) \in Nat
    BY <1>0, HandlerIs
  <2>2. surplus.todo # {} /\ "over" \in Ops
    BY <1>0, <1>1, <1>6 DEF SurplusRecords
  <2> HIDE DEF Timestamp, Ops
  <2> QED
    BY <1>0, <1>8, <2>1, <2>2 DEF SurplusRecords
<1> HIDE DEF goto
<1>9. surplus' \in SurplusRecords
  BY <1>0, <1>3, <1>4, <1>5, <1>6, <1>7, <1>8, TurnTyped
<1>10. kept_timestamp_' \in Timestamp
  BY <1>3, <1>4 DEF Earlier, Later
<1>11. StreamsTyped' /\ erased' \in [Streams -> SUBSET Carried]
  <2>1. CASE UNCHANGED <<stream, erased>>
    BY <1>0, <1>1, <2>1, StreamsKept DEF HandlerTyped
  <2>2. CASE Erase(s, surplus.bound) \/ Erase(s, kept_timestamp_)
    <3>1. surplus.bound \in Int /\ kept_timestamp_ \in Int
      BY <1>4
    <3> HIDE DEF s
    <3> QED
      BY <1>0, <1>1, <1>2, <2>2, <3>1, EraseTyped
  <2> QED
    BY <1>3, <2>1, <2>2
<1>12. HandlerTyped'
  <2> HIDE DEF Timestamp, Ops, Node, Carried
  <2>1. UNCHANGED <<sync_sets_, ready, last_processed_ts_, ready_timestamps_, offsets_initialized_,
                    timestamp_offsets_, erase_mutex_, handler>>
    BY <1>1 DEF handlerVars, alignVars
  <2>2. surplus' \in SurplusRecords'
    BY <1>9, <2>1 DEF SurplusRecords, Used, Indices, StreamsOf
  <2> QED
    BY <1>0, <1>10, <1>11, <2>1, <2>2 DEF HandlerTyped, Indices
<1> QED
  BY <1>0, <1>1, <1>11, <1>12, SchedulerKept DEF TInv

LEMMA ScheduleTyped ==
  ASSUME TInv, Schedule
  PROVE  TInv'
BY StartTyped, LookTyped, DefaultTyped, EarlyCloseOrBarrierTyped, ImmediateTyped, SyncSetsTyped,
   AlignBeforeTyped, AlignWithTyped, MuxControlTyped, MuxDataTyped, FixedSizeTyped, FillTyped,
   MeasureTyped, PopTyped, InvokeTyped, CloseTyped, SurplusStepTyped DEF Schedule, GetNodeReadiness

LEMMA UpstreamTyped ==
  ASSUME TInv, NEW s \in Streams, Upstream(s)
  PROVE  TInv'
BY AddPacketsTyped, SetBoundTyped, NotifyTyped, ErasingTyped DEF Upstream

LEMMA NextTyped == TInv /\ [Next]_vars => TInv'
<1> SUFFICES ASSUME TInv, [Next]_vars PROVE TInv'
  OBVIOUS
<1>1. CASE Schedule
  BY <1>1, ScheduleTyped
<1>2. ASSUME NEW s \in Streams, Upstream(s) PROVE TInv'
  BY <1>2, UpstreamTyped
<1>3. CASE UNCHANGED vars
  BY <1>3, StreamsKept, SchedulerKept, HandlerKept DEF vars, TInv
<1> QED
  BY <1>1, <1>2, <1>3 DEF Next

LEMMA Typed == Spec => []TInv
BY InitTyped, NextTyped, PTL DEF Spec

LEMMA StreamTypeOK ==
  ASSUME StreamsTyped, NEW s \in Streams
  PROVE  /\ stream[s].queue \in Seq(Timestamp)
         /\ stream[s].enable_timestamps_ =>
              \A n \in DOMAIN stream[s].queue :
                stream[s].queue[n] < (stream[s].queue \o <<stream[s].next_timestamp_bound_>>)[n + 1]
         /\ stream[s].next_timestamp_bound_ \in Timestamp
         /\ stream[s].last_select_timestamp_ \in Timestamp
<1> DEFINE q == stream[s].queue
           bound == stream[s].next_timestamp_bound_
<1>1. handler \in Handlers /\ InOrder(handler, stream[s])
  BY DEF StreamsTyped
<1>2. q \in Seq(Carried) /\ bound \in Marks /\ Len(q) \in Nat /\ DOMAIN q = 1 .. Len(q)
      /\ stream[s].last_select_timestamp_ \in Timestamp /\ \A n \in 1 .. Len(q) : q[n] \in Timestamp
  BY <1>1, Fields
<1>3. q \in Seq(Timestamp)
  BY <1>2, SeqDef
<1>4. ASSUME stream[s].enable_timestamps_, NEW n \in DOMAIN q
      PROVE  q[n] < (q \o <<bound>>)[n + 1]
  <2>1. /\ \A i, j \in 1 .. Len(q) : i < j => q[i] < q[j]
        /\ \A i \in 1 .. Len(q) : q[i] < bound
    BY <1>1, <1>4, Increases
  <2> HIDE DEF q, bound
  <2>2. n \in 1 .. Len(q) /\ n \in Int
    BY <1>2
  <2>3. CASE n = Len(q)
    BY <1>2, <2>1, <2>2, <2>3
  <2>4. CASE n < Len(q)
    BY <1>2, <2>1, <2>2, <2>4
  <2> QED
    BY <1>2, <2>2, <2>3, <2>4
<1>5. bound \in Timestamp
  BY <1>2, Constant
<1> HIDE DEF q, bound
<1>6. stream[s].enable_timestamps_ => \A n \in DOMAIN q : q[n] < (q \o <<bound>>)[n + 1]
  BY <1>4
<1> QED
  BY <1>2, <1>3, <1>5, <1>6 DEF q, bound

(* The types of TypeOK, and what the methods of a stream rely on, hold in every state,
   whatever the streams, the handlers and the packets. *)
THEOREM TypeCorrect == Spec => []TypeOK
<1>1. TInv => TypeOK
  <2> SUFFICES ASSUME TInv PROVE TypeOK
    OBVIOUS
  <2>1. StreamsTyped /\ SchedulerTyped /\ HandlerTyped /\ handler \in Handlers
    BY DEF TInv, StreamsTyped
  <2>2. ASSUME NEW s \in Streams PROVE out_bound[s] \in Timestamp /\ erased[s] \subseteq Timestamp
    BY <2>1, Constant DEF StreamsTyped, HandlerTyped
  <2>3. todo \subseteq Streams
    BY <2>1, HandlerIs DEF SchedulerTyped
  <2> HIDE DEF Timestamp
  <2> QED
    BY <2>1, <2>2, <2>3, StreamTypeOK DEF TypeOK, StreamsTyped, SchedulerTyped, HandlerTyped
<1> QED
  BY <1>1, Typed, PTL

-----------------------------------------------------------------------------
(* A stream as the handlers see it: what it shows, and what was selected of it. *)

\* Nothing more comes on a stream before t, and what there is at t is there.
Settled(a, t) == MinTimestampOrBound(a) > t \/ (~IsEmpty(a) /\ MinTimestampOrBound(a) = t)

\* What the nodes upstream may do to a stream.
Grows(a, b) ==
  /\ b.last_select_timestamp_ = a.last_select_timestamp_ /\ b.closed_ = a.closed_
  /\ MinTimestampOrBound(a) <= MinTimestampOrBound(b)
  /\ ~IsEmpty(a) => ~IsEmpty(b) /\ MinTimestampOrBound(b) = MinTimestampOrBound(a)

LEMMA FrontIs ==
  ASSUME NEW h \in Handlers, NEW a, InOrder(h, a)
  PROVE  /\ MinTimestampOrBound(a) \in Marks /\ MinTimestampOrBound(a) \in Int
         /\ MinTimestampOrBound(a) \in Timestamp /\ MinTimestampOrBound(a) >= PreStream
         /\ IsEmpty(a) \in BOOLEAN /\ (IsEmpty(a) <=> Len(a.queue) = 0)
         /\ a.next_timestamp_bound_ \in Marks /\ a.next_timestamp_bound_ \in Int
         /\ a.last_select_timestamp_ \in Timestamp /\ a.last_select_timestamp_ \in Int
         /\ IsEmpty(a) => MinTimestampOrBound(a) = a.next_timestamp_bound_
         /\ ~IsEmpty(a) =>
              /\ MinTimestampOrBound(a) \in h.packets /\ MinTimestampOrBound(a) \in Carried
              /\ MinTimestampOrBound(a) <= PostStream
              /\ MinTimestampOrBound(a) = a.queue[1] /\ 1 \in 1 .. Len(a.queue)
              /\ a.enable_timestamps_ => MinTimestampOrBound(a) < a.next_timestamp_bound_
         /\ a.enable_timestamps_ => MinTimestampOrBound(a) <= a.next_timestamp_bound_
<1>1. /\ a.next_timestamp_bound_ \in Marks /\ a.next_timestamp_bound_ \in Int
      /\ a.last_select_timestamp_ \in Timestamp /\ a.last_select_timestamp_ \in Int
      /\ Len(a.queue) \in Nat /\ (a.queue = <<>> <=> Len(a.queue) = 0) /\ (IsEmpty(a) <=> a.queue = <<>>)
      /\ a.queue \in Seq(Carried)
  BY Fields
<1>2. IsEmpty(a) => MinTimestampOrBound(a) = a.next_timestamp_bound_
  BY DEF MinTimestampOrBound
<1>3. ASSUME ~IsEmpty(a)
      PROVE  /\ MinTimestampOrBound(a) = a.queue[1] /\ 1 \in 1 .. Len(a.queue)
             /\ MinTimestampOrBound(a) \in h.packets /\ MinTimestampOrBound(a) \in Carried
             /\ a.enable_timestamps_ => MinTimestampOrBound(a) < a.next_timestamp_bound_
  BY <1>1, <1>3, QueueIs, Fields, Increases DEF MinTimestampOrBound
<1>4. IsEmpty(a) \in BOOLEAN
  BY DEF IsEmpty
<1> QED
  BY <1>1, <1>2, <1>3, <1>4, Constant

\* The frontier says whether the stream is empty.
LEMMA FinishedIs ==
  ASSUME NEW h \in Handlers, NEW a, InOrder(h, a), MinTimestampOrBound(a) >= OneOverPostStream
  PROVE  IsEmpty(a) /\ a.next_timestamp_bound_ >= OneOverPostStream
BY FrontIs, Constant

LEMMA ExtendsGrows ==
  ASSUME NEW h \in Handlers, NEW a, NEW b, InOrder(h, a), InOrder(h, b), Extends(h, a, b),
         a.enable_timestamps_
  PROVE  Grows(a, b)
<1>1. /\ b.last_select_timestamp_ = a.last_select_timestamp_ /\ b.closed_ = a.closed_
      /\ Len(a.queue) <= Len(b.queue)
      /\ \A i \in 1 .. Len(a.queue) : b.queue[i] = a.queue[i]
      /\ a.next_timestamp_bound_ <= b.next_timestamp_bound_
      /\ \A i \in Len(a.queue) + 1 .. Len(b.queue) : a.next_timestamp_bound_ <= b.queue[i]
  BY DEF Extends
<1>2. /\ Len(a.queue) \in Nat /\ Len(b.queue) \in Nat
      /\ MinTimestampOrBound(a) \in Int /\ MinTimestampOrBound(b) \in Int
      /\ a.next_timestamp_bound_ \in Int /\ b.next_timestamp_bound_ \in Int
  BY Fields, FrontIs
<1>3. CASE ~IsEmpty(a)
  BY <1>1, <1>2, <1>3, FrontIs DEF Grows
<1>4. CASE IsEmpty(a)
  <2>1. MinTimestampOrBound(a) = a.next_timestamp_bound_ /\ Len(a.queue) = 0
    BY <1>4, FrontIs
  <2>2. CASE IsEmpty(b)
    BY <1>1, <1>4, <2>1, <2>2, FrontIs DEF Grows
  <2>3. CASE ~IsEmpty(b)
    BY <1>1, <1>2, <1>4, <2>1, <2>3, FrontIs DEF Grows
  <2> QED
    BY <2>2, <2>3
<1> QED
  BY <1>3, <1>4

\* What stays true of a stream that grows.
LEMMA GrownIs ==
  ASSUME NEW h \in Handlers, NEW a, NEW b, InOrder(h, a), InOrder(h, b), Grows(a, b), NEW t \in Int
  PROVE  /\ Settled(a, t) => Settled(b, t)
         /\ t < MinTimestampOrBound(a) => t < MinTimestampOrBound(b)
         /\ t <= MinTimestampOrBound(a) => t <= MinTimestampOrBound(b)
BY FrontIs DEF Grows, Settled

\* Taking the packet at t from a stream that is settled there.
LEMMA PopSettled ==
  ASSUME NEW h \in Handlers, NEW a, InOrder(h, a), a.enable_timestamps_, NEW t \in Timestamp,
         Settled(a, t)
  PROVE  LET b == PopPacketAtTimestamp(a, t)
         IN  /\ ~DropsPackets(a, t)
             /\ b.next_timestamp_bound_ = a.next_timestamp_bound_ /\ b.closed_ = a.closed_
             /\ b.last_select_timestamp_ = t
             /\ MinTimestampOrBound(b) > t /\ MinTimestampOrBound(b) >= MinTimestampOrBound(a)
             /\ ~IsEmpty(a) /\ MinTimestampOrBound(a) = t =>
                  MinTimestampOrBound(b) >= NextAllowedInStream(t)
             /\ MinTimestampOrBound(a) > t =>
                  MinTimestampOrBound(b) = MinTimestampOrBound(a) /\ (IsEmpty(b) <=> IsEmpty(a))
<1> DEFINE b == PopPacketAtTimestamp(a, t)
           n == CountBefore(a.queue, t + 1)
<1>1. /\ InOrder(h, b) /\ b.queue = From(a.queue, t + 1)
      /\ b.next_timestamp_bound_ =
           (IF a.next_timestamp_bound_ <= t THEN NextAllowedInStream(t) ELSE a.next_timestamp_bound_)
      /\ b.closed_ = a.closed_ /\ b.enable_timestamps_ = a.enable_timestamps_
      /\ b.last_select_timestamp_ = t
  BY PopInOrder
<1> HIDE DEF b
<1>2. /\ MinTimestampOrBound(a) \in Int /\ MinTimestampOrBound(b) \in Int
      /\ a.next_timestamp_bound_ \in Int /\ Len(a.queue) \in Nat /\ t \in Int /\ t + 1 \in Int
      /\ a.queue \in Seq(Carried) /\ MinTimestampOrBound(a) <= a.next_timestamp_bound_
      /\ Len(b.queue) \in Nat
  BY <1>1, FrontIs, Fields, Constant
<1>3. a.next_timestamp_bound_ > t
  BY <1>2, FrontIs DEF Settled
<1>4. b.next_timestamp_bound_ = a.next_timestamp_bound_
  BY <1>1, <1>2, <1>3
<1>5. PICK k : k = n
  OBVIOUS
<1>6. /\ k \in 0 .. Len(a.queue) /\ Len(b.queue) = Len(a.queue) - k
      /\ \A i \in 1 .. Len(b.queue) : i + k \in 1 .. Len(a.queue) /\ b.queue[i] = a.queue[i + k]
      /\ \A i \in 1 .. k : a.queue[i] < t + 1
      /\ Len(b.queue) > 0 => b.queue[1] >= t + 1
  BY <1>1, <1>2, <1>5, FromIs
<1>7. /\ \A i, j \in 1 .. Len(a.queue) : i < j => a.queue[i] < a.queue[j]
      /\ \A i, j \in 1 .. Len(a.queue) : i < j => NextAllowedInStream(a.queue[i]) <= a.queue[j]
      /\ \A i \in 1 .. Len(a.queue) : NextAllowedInStream(a.queue[i]) <= a.next_timestamp_bound_
      /\ \A i \in 1 .. Len(a.queue) : a.queue[i] \in Int
  BY Increases, Fields
<1>8. MinTimestampOrBound(b) > t
  <2>1. CASE IsEmpty(b)
    BY <2>1, <1>1, <1>2, <1>3, <1>4, FrontIs
  <2>2. CASE ~IsEmpty(b)
    BY <1>1, <1>2, <1>6, <2>2, FrontIs
  <2> QED
    BY <2>1, <2>2
\* At most one packet leaves: the one at t.
<1>9. ASSUME k > 0
      PROVE  k = 1 /\ ~IsEmpty(a) /\ MinTimestampOrBound(a) = t /\ MinTimestampOrBound(a) = a.queue[1]
             /\ 1 \in 1 .. Len(a.queue) /\ a.queue[1] = t
  <2>1. ~IsEmpty(a)
    BY <1>9, <1>2, <1>6, FrontIs
  <2>2. MinTimestampOrBound(a) = a.queue[1] /\ 1 \in 1 .. Len(a.queue)
    BY <2>1, FrontIs
  <2>3. 1 \in 1 .. k /\ a.queue[1] < t + 1
    BY <1>9, <1>6
  <2>4. MinTimestampOrBound(a) = t
    BY <2>2, <2>3, <1>2 DEF Settled
  <2>5. k # 2 /\ ~(k > 2)
    <3> SUFFICES ASSUME k >= 2 PROVE FALSE
      BY <1>6
    <3>1. 2 \in 1 .. k /\ 2 \in 1 .. Len(a.queue)
      BY <1>2, <1>6
    <3>2. a.queue[1] < a.queue[2] /\ a.queue[2] < t + 1 /\ a.queue[2] \in Int
      BY <3>1, <2>2, <1>6, <1>7
    <3> QED
      BY <3>2, <2>2, <2>4, <1>2
  <2> QED
    BY <1>9, <1>6, <2>1, <2>2, <2>4, <2>5
<1>10. ~DropsPackets(a, t)
  BY <1>2, <1>5, <1>6, <1>9, QueueIs DEF IsEmpty, DropsPackets
<1>11. ASSUME ~IsEmpty(a), MinTimestampOrBound(a) = t
       PROVE  MinTimestampOrBound(b) >= NextAllowedInStream(t)
  <2>1. MinTimestampOrBound(a) = a.queue[1] /\ 1 \in 1 .. Len(a.queue)
    BY <1>11, FrontIs
  <2>2. NextAllowedInStream(t) <= a.next_timestamp_bound_ /\ NextAllowedInStream(t) \in Int
    BY <1>11, <2>1, <1>7, NextIs, Constant
  <2>3. CASE IsEmpty(b)
    BY <2>2, <2>3, <1>1, <1>2, <1>4, FrontIs
  <2>4. CASE ~IsEmpty(b)
    <3>1. MinTimestampOrBound(b) = b.queue[1] /\ 1 \in 1 .. Len(b.queue)
      BY <2>4, <1>1, FrontIs
    <3>2. 1 + k \in 1 .. Len(a.queue) /\ b.queue[1] = a.queue[1 + k] /\ b.queue[1] >= t + 1
      BY <3>1, <1>6
    <3>3. k # 0
      BY <1>2, <1>11, <2>1, <3>2
    <3>4. 1 < 1 + k
      BY <3>3, <1>6
    <3>5. NextAllowedInStream(a.queue[1]) <= a.queue[1 + k]
      BY <2>1, <3>2, <3>4, <1>7
    <3> QED
      BY <3>1, <3>2, <3>5, <2>1, <1>11
  <2> QED
    BY <2>3, <2>4
<1>12. ASSUME MinTimestampOrBound(a) > t
       PROVE  MinTimestampOrBound(b) = MinTimestampOrBound(a) /\ (IsEmpty(b) <=> IsEmpty(a))
  <2>1. k = 0
    BY <1>9, <1>12, <1>2, <1>6
  <2>2. Len(b.queue) = Len(a.queue) /\ \A i \in 1 .. Len(b.queue) : b.queue[i] = a.queue[i]
    BY <2>1, <1>6, <1>2
  <2>3. IsEmpty(b) <=> IsEmpty(a)
    BY <2>2, <1>1, FrontIs
  <2>4. IsEmpty(a) => MinTimestampOrBound(b) = MinTimestampOrBound(a)
    BY <2>3, <1>1, <1>4, FrontIs
  <2>5. ~IsEmpty(a) => MinTimestampOrBound(b) = MinTimestampOrBound(a)
    BY <2>2, <2>3, <1>1, FrontIs
  <2> QED
    BY <2>3, <2>4, <2>5
<1>13. MinTimestampOrBound(b) >= MinTimestampOrBound(a)
  BY <1>8, <1>12, <1>2 DEF Settled
<1> QED
  BY <1>1, <1>4, <1>8, <1>10, <1>11, <1>12, <1>13 DEF b

\* Erasing what comes before t.
LEMMA EraseIs ==
  ASSUME NEW h \in Handlers, NEW a, InOrder(h, a), a.enable_timestamps_, NEW t \in Int
  PROVE  LET b == ErasePacketsEarlierThan(a, t)
         IN  /\ b.next_timestamp_bound_ = a.next_timestamp_bound_ /\ b.closed_ = a.closed_
             /\ b.last_select_timestamp_ = a.last_select_timestamp_
             /\ MinTimestampOrBound(a) <= MinTimestampOrBound(b)
             /\ MinTimestampOrBound(b) <= a.next_timestamp_bound_
             /\ ~IsEmpty(b) => MinTimestampOrBound(b) >= t
             /\ \A i \in 1 .. Len(a.queue) :
                  a.queue[i] >= t => ~IsEmpty(b) /\ MinTimestampOrBound(b) <= a.queue[i]
             /\ MinTimestampOrBound(a) >= t =>
                  MinTimestampOrBound(b) = MinTimestampOrBound(a) /\ (IsEmpty(b) <=> IsEmpty(a))
             /\ ~IsEmpty(b) =>
                  ~IsEmpty(a) /\ b.queue[Len(b.queue)] = a.queue[Len(a.queue)]
<1> DEFINE b == ErasePacketsEarlierThan(a, t)
           n == CountBefore(a.queue, t)
<1>1. /\ InOrder(h, b) /\ b.queue = From(a.queue, t)
      /\ b.next_timestamp_bound_ = a.next_timestamp_bound_ /\ b.closed_ = a.closed_
      /\ b.last_select_timestamp_ = a.last_select_timestamp_ /\ b.enable_timestamps_ = a.enable_timestamps_
  BY EraseInOrder
<1> HIDE DEF b
<1>2. /\ MinTimestampOrBound(a) \in Int /\ MinTimestampOrBound(b) \in Int
      /\ a.next_timestamp_bound_ \in Int /\ Len(a.queue) \in Nat
      /\ a.queue \in Seq(Carried) /\ MinTimestampOrBound(a) <= a.next_timestamp_bound_
      /\ Len(b.queue) \in Nat /\ MinTimestampOrBound(b) <= b.next_timestamp_bound_
  BY <1>1, FrontIs, Fields
<1>5. PICK k : k = n
  OBVIOUS
<1>6. /\ k \in 0 .. Len(a.queue) /\ Len(b.queue) = Len(a.queue) - k
      /\ \A i \in 1 .. Len(b.queue) : i + k \in 1 .. Len(a.queue) /\ b.queue[i] = a.queue[i + k]
      /\ \A i \in 1 .. k : a.queue[i] < t
      /\ Len(b.queue) > 0 => b.queue[1] >= t
  BY <1>1, <1>2, <1>5, FromIs
<1>7. /\ \A i, j \in 1 .. Len(a.queue) : i < j => a.queue[i] < a.queue[j]
      /\ \A i \in 1 .. Len(a.queue) : a.queue[i] < a.next_timestamp_bound_
      /\ \A i \in 1 .. Len(a.queue) : a.queue[i] \in Int
  BY Increases, Fields
<1>8. ASSUME ~IsEmpty(b)
      PROVE  /\ MinTimestampOrBound(b) = b.queue[1] /\ MinTimestampOrBound(b) >= t
             /\ 1 + k \in 1 .. Len(a.queue) /\ b.queue[1] = a.queue[1 + k] /\ ~IsEmpty(a)
             /\ b.queue[Len(b.queue)] = a.queue[Len(a.queue)]
  <2>1. MinTimestampOrBound(b) = b.queue[1] /\ 1 \in 1 .. Len(b.queue) /\ Len(b.queue) \in 1 .. Len(b.queue)
    BY <1>8, <1>1, <1>2, FrontIs
  <2>2. 1 + k \in 1 .. Len(a.queue) /\ b.queue[1] = a.queue[1 + k]
    BY <2>1, <1>6
  <2>3. b.queue[Len(b.queue)] = a.queue[Len(b.queue) + k] /\ Len(b.queue) + k = Len(a.queue)
    <3>1. b.queue[Len(b.queue)] = a.queue[Len(b.queue) + k]
      BY <2>1, <1>6
    <3>2. Len(b.queue) + k = Len(a.queue)
      BY <1>2, <1>6
    <3> QED
      BY <3>1, <3>2
  <2>4. ~IsEmpty(a)
    BY <2>2, <1>2, FrontIs
  <2> QED
    BY <2>1, <2>2, <2>3, <2>4, <1>6
<1>9. ASSUME NEW i \in 1 .. Len(a.queue), a.queue[i] >= t
      PROVE  ~IsEmpty(b) /\ MinTimestampOrBound(b) <= a.queue[i]
  <2>1. ~(i <= k)
    BY <1>6, <1>7, <1>9
  <2>2. ~IsEmpty(b)
    BY <1>1, <1>2, <1>6, <2>1, FrontIs
  <2>3. MinTimestampOrBound(b) = a.queue[1 + k] /\ 1 + k \in 1 .. Len(a.queue)
    BY <2>2, <1>8
  <2>4. 1 + k = i \/ 1 + k < i
    BY <2>1, <1>6
  <2>5. 1 + k < i => a.queue[1 + k] < a.queue[i]
    BY <2>3, <1>7
  <2>6. a.queue[i] \in Int /\ a.queue[1 + k] \in Int
    BY <2>3, <1>7
  <2> QED
    BY <2>2, <2>3, <2>4, <2>5, <2>6
<1>10. ASSUME MinTimestampOrBound(a) >= t
       PROVE  MinTimestampOrBound(b) = MinTimestampOrBound(a) /\ (IsEmpty(b) <=> IsEmpty(a))
  <2>1. CASE IsEmpty(a)
    BY <1>1, <1>8, <2>1, FrontIs
  <2>2. CASE ~IsEmpty(a)
    <3>1. MinTimestampOrBound(a) = a.queue[1] /\ 1 \in 1 .. Len(a.queue)
      BY <2>2, FrontIs
    <3>2. k = 0
      BY <1>6, <1>7, <1>10, <3>1
    <3>3. ~IsEmpty(b)
      BY <3>1, <1>9, <1>10
    <3>4. 1 + k = 1
      BY <3>2
    <3>5. MinTimestampOrBound(b) = a.queue[1]
      BY <3>3, <3>4, <1>8
    <3> QED
      BY <3>1, <3>3, <3>5, <2>2
  <2> QED
    BY <2>1, <2>2
<1>11. MinTimestampOrBound(a) <= MinTimestampOrBound(b)
  <2>1. CASE IsEmpty(b)
    BY <2>1, <1>1, <1>2, FrontIs
  <2>2. CASE ~IsEmpty(b)
    BY <1>2, <1>6, <1>7, <1>8, <2>2, FrontIs
  <2> QED
    BY <2>1, <2>2
<1> QED
  BY <1>1, <1>2, <1>8, <1>9, <1>10, <1>11 DEF b

-----------------------------------------------------------------------------
(* What the nodes upstream and the look at the streams guarantee to every handler. *)

Frontier(s) == MinTimestampOrBound(stream[s])
Selected(s) == stream[s].last_select_timestamp_
Closing == pc \in {"close", "closed"}

\* The bound of a stream is not ahead of the node upstream, so no packet comes too late.
Upstreams ==
  /\ \A s \in Streams : ~stream[s].closed_ => stream[s].next_timestamp_bound_ <= out_bound[s]
  /\ \A s \in Streams : stream[s].closed_ => Closing
  /\ has_error_ = FALSE

\* What was seen of a stream was true when it was looked at, and streams only grow.
Sight(s) ==
  IF seen[s].empty THEN seen[s].timestamp <= Frontier(s)
  ELSE ~IsEmpty(stream[s]) /\ Frontier(s) = seen[s].timestamp
SeenSound ==
  /\ handler.kind # "barrier" => \A s \in Streams : Sight(s)
  /\ pc \notin {"look", "measure"} => seen = NothingSeen
  /\ pc = "look" /\ handler.kind # "mux" => \A s \in StreamsToLookAt \ todo : seen[s].timestamp >= PreStream

\* A handler that erases no surplus.
Plain ==
  /\ surplus = NoSurplus /\ erase_mutex_ = 0
  /\ pc \notin {"surplus", "fill", "keep", "measure"}
  /\ \A s \in Streams : notify[s] \in {"none", "notify"}

Grown == \A u \in Streams : Grows(stream[u], stream'[u])

LEMMA StreamIs ==
  ASSUME StreamsTyped, NEW s \in Streams
  PROVE  /\ handler \in Handlers /\ InOrder(handler, stream[s])
         /\ Frontier(s) \in Int /\ Frontier(s) \in Timestamp /\ Frontier(s) >= PreStream
         /\ Selected(s) \in Int /\ Selected(s) \in Timestamp
         /\ handler.kind # "barrier" => stream[s].enable_timestamps_
BY FrontIs DEF StreamsTyped, Frontier, Selected, InOrder

LEMMA AddPacketsExtends ==
  ASSUME TInv, Upstreams, NEW s \in Streams, AddPacketsTo(s)
  PROVE  Upstreams' /\ \A u \in Streams : Extends(handler, stream[u], stream'[u])
<1>0. StreamsTyped /\ SchedulerTyped /\ HandlerTyped /\ handler \in Handlers
  BY DEF TInv, StreamsTyped
<1>1. PICK packets \in Batches(s) :
        LET result == AddPackets(stream[s], packets)
        IN /\ stream' = [stream EXCEPT ![s] = result.stream]
           /\ out_bound' = [out_bound EXCEPT ![s] = NextAllowedInStream(Last(packets))]
           /\ has_error_' = (has_error_ \/ ~result.ok)
           /\ Increasing(packets)
  BY DEF AddPacketsTo
<1> DEFINE result == AddPackets(stream[s], packets)
<1>2. /\ result.ok \in BOOLEAN /\ InOrder(handler, result.stream)
      /\ Extends(handler, stream[s], result.stream)
      /\ stream[s].closed_ => result.ok /\ result.stream = stream[s]
  BY <1>0, AddedInOrder
<1>3. ~stream[s].closed_ => /\ result.ok
                            /\ result.stream.next_timestamp_bound_ = NextAllowedInStream(Last(packets))
  BY <1>0, <1>1, AddedInFull DEF Upstreams
<1>4. result.stream.closed_ = stream[s].closed_
  BY <1>2 DEF Extends
<1>5. stream' = [stream EXCEPT ![s] = result.stream] /\ pc' = pc
      /\ out_bound' = [out_bound EXCEPT ![s] = NextAllowedInStream(Last(packets))]
      /\ has_error_' = (has_error_ \/ ~result.ok)
  BY <1>1 DEF AddPacketsTo, scheduleVars
<1> HIDE DEF result
<1>6. \A u \in Streams : u # s => stream'[u] = stream[u] /\ out_bound'[u] = out_bound[u]
  BY <1>0, <1>5 DEF StreamsTyped
<1>7. stream'[s] = result.stream /\ out_bound'[s] = NextAllowedInStream(Last(packets))
  BY <1>0, <1>5 DEF StreamsTyped
<1>8. NextAllowedInStream(Last(packets)) \in Int
  BY <1>0, BatchesAre, HandlerIs, NextIs, Constant
<1>9. has_error_' = FALSE
  BY <1>2, <1>3, <1>5 DEF Upstreams
<1>10. ASSUME NEW u \in Streams
       PROVE  /\ ~stream'[u].closed_ => stream'[u].next_timestamp_bound_ <= out_bound'[u]
              /\ stream'[u].closed_ => Closing'
              /\ Extends(handler, stream[u], stream'[u])
  <2>1. CASE u # s
    BY <2>1, <1>0, <1>5, <1>6, SameExtends DEF Upstreams, Closing, StreamsTyped
  <2>2. CASE u = s
    BY <2>2, <1>2, <1>3, <1>4, <1>5, <1>7, <1>8 DEF Upstreams, Closing
  <2> QED
    BY <2>1, <2>2
<1> QED
  BY <1>9, <1>10 DEF Upstreams

LEMMA SetBoundExtends ==
  ASSUME TInv, Upstreams, NEW s \in Streams, SetNextTimestampBoundOf(s)
  PROVE  Upstreams' /\ \A u \in Streams : Extends(handler, stream[u], stream'[u])
<1>0. StreamsTyped /\ SchedulerTyped /\ HandlerTyped /\ handler \in Handlers
  BY DEF TInv, StreamsTyped
<1>1. PICK bound \in handler.packets \cup {Done} :
        /\ bound > out_bound[s]
        /\ out_bound' = [out_bound EXCEPT ![s] = bound]
        /\ stream' = [stream EXCEPT ![s] = SetNextTimestampBound(stream[s], bound)]
        /\ has_error_' = (has_error_ \/ (~stream[s].closed_ /\ RefusesBound(stream[s], bound)))
  BY DEF SetNextTimestampBoundOf
<1>2. pc' = pc
  BY DEF SetNextTimestampBoundOf, scheduleVars
<1> DEFINE a == stream[s]
           b == SetNextTimestampBound(stream[s], bound)
<1>3. InOrder(handler, a) /\ Extends(handler, a, b) /\ InOrder(handler, b)
  BY <1>0, BoundExtends DEF StreamsTyped
<1>4. bound \in Marks /\ bound \in Int
  BY <1>0, HandlerIs, Constant
<1>5. /\ b.next_timestamp_bound_ =
           (IF a.closed_ \/ bound <= a.next_timestamp_bound_ THEN a.next_timestamp_bound_ ELSE bound)
      /\ b.closed_ = a.closed_
  BY <1>0, <1>3, <1>4, BoundInOrder
<1>6. a.next_timestamp_bound_ \in Int /\ out_bound[s] \in Int
  BY <1>0, <1>3, Fields, Constant DEF StreamsTyped
<1>7. stream' = [stream EXCEPT ![s] = b] /\ out_bound' = [out_bound EXCEPT ![s] = bound]
  BY <1>1
<1>8. \A u \in Streams : u # s => stream'[u] = stream[u] /\ out_bound'[u] = out_bound[u]
  BY <1>0, <1>7 DEF StreamsTyped
<1>9. stream'[s] = b /\ out_bound'[s] = bound
  BY <1>0, <1>7 DEF StreamsTyped
<1>10. ~a.closed_ => a.next_timestamp_bound_ <= out_bound[s]
  BY DEF Upstreams
<1>11. has_error_' = FALSE
  <2>1. ~a.closed_ => ~RefusesBound(a, bound)
    BY <1>1, <1>4, <1>6, <1>10 DEF RefusesBound
  <2> QED
    BY <1>1, <2>1 DEF Upstreams
<1> HIDE DEF b
<1>12. ~b.closed_ => b.next_timestamp_bound_ <= bound
  BY <1>1, <1>4, <1>5, <1>6, <1>10
<1>13. ASSUME NEW u \in Streams
       PROVE  /\ ~stream'[u].closed_ => stream'[u].next_timestamp_bound_ <= out_bound'[u]
              /\ stream'[u].closed_ => Closing'
              /\ Extends(handler, stream[u], stream'[u])
  BY <1>0, <1>2, <1>3, <1>5, <1>8, <1>9, <1>12, SameExtends DEF Upstreams, Closing, StreamsTyped
<1> QED
  BY <1>11, <1>13 DEF Upstreams

\* The steps of the nodes upstream.
LEMMA UpstreamGrows ==
  ASSUME TInv, Upstreams, NEW s \in Streams, Upstream(s)
  PROVE  /\ Upstreams'
         /\ UNCHANGED <<handler, pc, todo, seen, input_timestamp, input_bound, handlerVars, alignVars,
                        kept_timestamp_, erased, crashed>>
         /\ \A u \in Streams : Extends(handler, stream[u], stream'[u])
         /\ handler.kind # "barrier" => Grown
<1>0. StreamsTyped /\ handler \in Handlers /\ \A u \in Streams : InOrder(handler, stream[u])
  BY DEF TInv, StreamsTyped
<1>1. UNCHANGED <<handler, pc, todo, seen, input_timestamp, input_bound, handlerVars, alignVars,
                  kept_timestamp_, erased, crashed>>
  BY DEF Upstream, AddPacketsTo, SetNextTimestampBoundOf, Notify, StartErasing, Erasing, EndErasing,
     scheduleVars, surplusVars
<1>2. Upstreams' /\ \A u \in Streams : Extends(handler, stream[u], stream'[u])
  <2>1. CASE AddPacketsTo(s)
    BY <2>1, AddPacketsExtends
  <2>2. CASE SetNextTimestampBoundOf(s)
    BY <2>2, SetBoundExtends
  <2>3. CASE Notify(s) \/ StartErasing(s) \/ EndErasing(s)
    BY <1>0, <2>3, SameExtends DEF Notify, StartErasing, Erasing, EndErasing, scheduleVars, Upstreams, Closing
  <2> QED
    BY <2>1, <2>2, <2>3 DEF Upstream
<1>3. TInv'
  BY UpstreamTyped
<1>4. handler.kind # "barrier" => Grown
  BY <1>0, <1>1, <1>2, <1>3, ExtendsGrows DEF Grown, TInv, StreamsTyped, InOrder
<1> QED
  BY <1>1, <1>2, <1>4

\* A thread that replaces a stream by one with the same bound does not disturb the nodes upstream.
LEMMA UpstreamsKept ==
  ASSUME StreamsTyped, Upstreams, UNCHANGED upstreamVars, Closing => Closing', NEW s \in Streams, NEW b,
         stream' = stream \/ stream' = [stream EXCEPT ![s] = b],
         stream' # stream =>
           \/ b.closed_ /\ Closing'
           \/ b.closed_ = stream[s].closed_ /\ b.next_timestamp_bound_ = stream[s].next_timestamp_bound_
  PROVE  Upstreams'
<1>1. CASE stream' = stream
  BY <1>1 DEF Upstreams, upstreamVars
<1>2. CASE stream' # stream
  BY <1>2 DEF StreamsTyped, Upstreams, upstreamVars
<1> QED
  BY <1>1, <1>2

-----------------------------------------------------------------------------
(* What was seen. *)

LEMMA NothingInSight ==
  ASSUME StreamsTyped, seen = NothingSeen, NEW s \in Streams
  PROVE  Sight(s)
<1>1. seen[s].empty = TRUE /\ seen[s].timestamp = -3
  BY NothingSeenIs
<1>2. Frontier(s) \in Int /\ Frontier(s) >= PreStream
  BY StreamIs
<1> QED
  BY <1>1, <1>2, Constant DEF Sight

\* The thread is not looking.
LEMMA NotLooking == StreamsTyped /\ seen = NothingSeen /\ pc # "look" => SeenSound
BY NothingInSight DEF SeenSound

LEMMA NotLookingThen ==
  ASSUME StreamsTyped', seen' = NothingSeen, pc' # "look"
  PROVE  SeenSound'
<1>1. (StreamsTyped /\ seen = NothingSeen /\ pc # "look")' => SeenSound'
  BY NotLooking, PTL
<1> QED
  BY <1>1 DEF NothingSeen

\* A stream that grows still is as it was seen.
LEMMA SightGrown ==
  ASSUME TInv, TInv', SeenSound, UNCHANGED <<handler, pc, todo, seen, handlerVars>>,
         handler.kind # "barrier" => Grown
  PROVE  SeenSound'
<1>1. ASSUME handler.kind # "barrier", NEW s \in Streams PROVE Sight(s)'
  <2>1. Frontier(s) \in Int /\ Frontier(s)' \in Int /\ InOrder(handler, stream[s])
        /\ seen[s].timestamp \in Int
    BY StreamIs, FrontIs, Constant DEF TInv, SchedulerTyped, Looks, StreamsTyped, Frontier
  <2>2. Sight(s)
    BY <1>1 DEF SeenSound
  <2>3. Grows(stream[s], stream'[s])
    BY <1>1 DEF Grown
  <2> QED
    BY <2>1, <2>2, <2>3 DEF Sight, Grows, Frontier
<1>2. StreamsToLookAt' = StreamsToLookAt
  BY DEF StreamsToLookAt, StreamsOf, Control, Used, Indices, handlerVars
<1> QED
  BY <1>1, <1>2 DEF SeenSound, NothingSeen

LEMMA SightStarts ==
  ASSUME TInv, SeenSound, StartScheduling
  PROVE  SeenSound'
<1>1. /\ UNCHANGED <<handler, stream, seen, handlerVars>> /\ pc = "idle"
      /\ pc' = "look" => todo' = StreamsToLookAt
  BY DEF StartScheduling
<1>2. seen = NothingSeen
  BY <1>1 DEF SeenSound
<1>3. StreamsToLookAt' = StreamsToLookAt
  BY <1>1 DEF StreamsToLookAt, StreamsOf, Control, Used, Indices, handlerVars
<1>4. \A s \in Streams : Sight(s)
  BY <1>2, NothingInSight DEF TInv
<1>5. \A s \in Streams : Sight(s)'
  BY <1>1, <1>4 DEF Sight, Frontier
<1> QED
  BY <1>1, <1>2, <1>3, <1>5 DEF SeenSound, NothingSeen

\* The thread looks at one stream more, for GetNodeReadiness or to measure the input set.
LEMMA SightLooks ==
  ASSUME TInv, SeenSound, todo # {}, todo' = todo \ {First}, pc \in {"look", "measure"},
         seen' = [seen EXCEPT ![First] = [empty |-> IsEmpty(stream[First]),
                                          timestamp |-> MinTimestampOrBound(stream[First])]],
         UNCHANGED <<handler, stream, pc, handlerVars>>
  PROVE  SeenSound'
<1> DEFINE s == First
           look == [empty |-> IsEmpty(stream[s]), timestamp |-> MinTimestampOrBound(stream[s])]
<1>1. s \in Streams
  BY FirstIs DEF TInv, StreamsTyped, SchedulerTyped
<1>2. seen' = [seen EXCEPT ![s] = look]
  OBVIOUS
<1>3. look.empty = IsEmpty(stream[s]) /\ look.timestamp = Frontier(s)
  BY DEF Frontier
<1>4. Frontier(s) \in Int /\ Frontier(s) >= PreStream
  BY <1>1, StreamIs DEF TInv
<1>5. todo' = todo \ {s}
  OBVIOUS
<1> HIDE DEF s, look
<1>6. seen'[s] = look /\ \A u \in Streams : u # s => seen'[u] = seen[u]
  BY <1>1, <1>2 DEF TInv, SchedulerTyped
<1>7. ASSUME handler.kind # "barrier", NEW u \in Streams PROVE Sight(u)'
  BY <1>3, <1>4, <1>6, <1>7 DEF SeenSound, Sight, Frontier
<1>8. StreamsToLookAt' = StreamsToLookAt /\ StreamsToLookAt \in SUBSET Streams
  BY HandlerIs, MuxIs
     DEF TInv, StreamsTyped, HandlerTyped, StreamsToLookAt, StreamsOf, Control, Used, Indices, handlerVars
<1>9. ASSUME pc' = "look", handler.kind # "mux", NEW u \in StreamsToLookAt \ todo'
      PROVE  seen'[u].timestamp >= PreStream
  <2>1. CASE u # s
    BY <1>5, <1>6, <1>8, <1>9, <2>1 DEF SeenSound
  <2>2. CASE u = s
    BY <1>3, <1>4, <1>6, <2>2
  <2> QED
    BY <2>1, <2>2
<1> QED
  BY <1>7, <1>8, <1>9 DEF SeenSound

\* Whatever GetNodeReadiness says, what was seen is forgotten.
LEMMA OutcomeForgets ==
  ASSUME NEW t, NEW T, NotReady(t) \/ ReadyForProcess(t, T) \/ ReadyForClose
  PROVE  seen' = NothingSeen /\ pc' \in {"idle", "pop", "close"}
BY DEF NotReady, ReadyForProcess, ReadyForClose

LEMMA ReadinessForgets ==
  ASSUME GetNodeReadiness, ~MuxLooksAtControl
  PROVE  seen' = NothingSeen /\ pc' # "look"
<1>1. CASE DefaultReadiness
  BY <1>1, OutcomeIs, OutcomeForgets DEF DefaultReadiness
<1>2. CASE EarlyCloseReadiness
  BY <1>2, OutcomeForgets DEF EarlyCloseReadiness
<1>3. CASE BarrierReadiness
  BY <1>3, OutcomeForgets DEF BarrierReadiness
<1>4. CASE ImmediateReadiness
  BY <1>4, OutcomeForgets DEF ImmediateReadiness, ImmediateReadinessOf, FillAt
<1>5. CASE SyncSetsReadiness
  BY <1>5, OutcomeForgets DEF SyncSetsReadiness, SyncSetsReadinessOf
<1>6. CASE AlignBeforeOffsets
  BY <1>6, OutcomeForgets DEF AlignBeforeOffsets
<1>7. CASE AlignWithOffsets
  BY <1>7, OutcomeForgets DEF AlignWithOffsets
<1>8. CASE MuxLooksAtData
  BY <1>8, OutcomeForgets DEF MuxLooksAtData
<1>9. CASE FixedSizeReadiness
  BY <1>9, OutcomeForgets DEF FixedSizeReadiness
<1> QED
  BY <1>1, <1>2, <1>3, <1>4, <1>5, <1>6, <1>7, <1>8, <1>9 DEF GetNodeReadiness

LEMMA SeenKept ==
  ASSUME TInv, TInv', Upstreams, SeenSound, Next, ~MuxLooksAtControl,
         EraseSurplusStep => pc \notin {"look", "measure"}
  PROVE  SeenSound'
<1>0. TInv /\ StreamsTyped /\ StreamsTyped'
  BY DEF TInv
<1>1. ASSUME NEW s \in Streams, Upstream(s) PROVE SeenSound'
  BY <1>1, UpstreamGrows, SightGrown
<1>2. CASE StartScheduling
  BY <1>2, SightStarts
<1>3. CASE Look
  BY <1>3, SightLooks DEF Look
<1>4. CASE GetNodeReadiness
  BY <1>0, <1>4, ReadinessForgets, NotLookingThen
<1>5. CASE FillInputSet
  BY <1>0, <1>5, NotLookingThen DEF FillInputSet, SeenSound
<1>6. CASE Measure
  BY <1>0, <1>6, NotLookingThen, SightLooks DEF Measure
<1>7. CASE Pop \/ Invoke \/ CloseStream
  BY <1>0, <1>7, NotLookingThen DEF Pop, Invoke, EndInvocation, CloseStream, SeenSound
<1>8. CASE LookAfterErasing
  <2>1. seen = NothingSeen /\ todo' = Used /\ UNCHANGED <<handler, stream, seen, handlerVars>>
    BY <1>8 DEF LookAfterErasing, SeenSound
  <2>2. \A s \in Streams : Sight(s)
    BY <1>0, <2>1, NothingInSight
  <2>3. \A s \in Streams : Sight(s)'
    BY <2>1, <2>2 DEF Sight, Frontier
  <2>4. ASSUME handler.kind # "mux" PROVE StreamsToLookAt' \in SUBSET todo'
    <3>1. \A i \in sync_sets_ : StreamsOf(i) \in SUBSET Used
      BY HandlerIs DEF TInv, StreamsTyped, HandlerTyped
    <3>2. StreamsToLookAt \in SUBSET Used
      BY <2>4, <3>1 DEF StreamsToLookAt
    <3> QED
      BY <2>1, <3>2 DEF StreamsToLookAt, StreamsOf, Control, Used, Indices, handlerVars
  <2> QED
    BY <2>1, <2>3, <2>4 DEF SeenSound, NothingSeen
<1>9. CASE EraseSurplusStep
  BY <1>0, <1>9, NotLookingThen DEF EraseSurplusStep, SeenSound, scheduleVars
<1> QED
  BY <1>1, <1>2, <1>3, <1>4, <1>5, <1>6, <1>7, <1>8, <1>9 DEF Next, Schedule

-----------------------------------------------------------------------------
(* The handlers that erase no surplus take none of the steps of an erasure. *)

LEMMA PlainKept ==
  ASSUME TInv, Plain, handler.kind # "fixed_size", Next
  PROVE  /\ Plain'
         /\ ~(EraseSurplusStep \/ FillInputSet \/ Measure \/ LookAfterErasing \/ FixedSizeReadiness)
<1>0. /\ surplus.op = "done" /\ surplus = NoSurplus /\ erase_mutex_ = 0 /\ Streams \subseteq Nat \ {0}
      /\ pc \notin {"surplus", "fill", "keep", "measure"}
      /\ \A s \in Streams : notify[s] \in {"none", "notify"}
      /\ notify \in [Streams -> {"none", "notify", "notify_erase", "erase", "erasing"}]
  BY StreamsAssumption DEF Plain, NoSurplus, TInv, StreamsTyped
<1>1. ~(EraseSurplusStep \/ FillInputSet \/ Measure \/ LookAfterErasing \/ FixedSizeReadiness)
  BY <1>0 DEF EraseSurplusStep, FillInputSet, Measure, LookAfterErasing, FixedSizeReadiness, Limited
<1>2. ASSUME NEW s \in Streams, Upstream(s) PROVE Plain'
  <2>1. AfterAdding = "notify"
    BY DEF AfterAdding
  <2>2. UNCHANGED <<surplus, erase_mutex_, pc>>
    BY <1>0, <1>2 DEF Upstream, AddPacketsTo, SetNextTimestampBoundOf, Notify, StartErasing, Erasing,
       EndErasing, scheduleVars, surplusVars
  <2>3. notify' = notify \/ \E v \in {"none", "notify"} : notify' = [notify EXCEPT ![s] = v]
    BY <1>0, <1>2, <2>1
       DEF AddPacketsTo, SetNextTimestampBoundOf, Notify, StartErasing, Erasing, EndErasing, Upstream
  <2>4. \A u \in Streams : notify'[u] \in {"none", "notify"}
    BY <1>0, <2>3
  <2> QED
    BY <1>0, <2>2, <2>4 DEF Plain, NoSurplus
<1>3. ASSUME Schedule PROVE Plain'
  <2>1. UNCHANGED <<surplus, erase_mutex_, notify>> /\ pc' \in {"idle", "look", "pop", "close", "closed", pc}
    <3>1. CASE StartScheduling
      BY <3>1 DEF StartScheduling, Limited, surplusVars, upstreamVars
    <3>2. CASE GetNodeReadiness
      <4>1. UNCHANGED <<surplus, erase_mutex_, notify>>
        BY <1>1, <3>2 DEF GetNodeReadiness, DefaultReadiness, EarlyCloseReadiness, BarrierReadiness,
           ImmediateReadiness, SyncSetsReadiness, AlignBeforeOffsets, AlignWithOffsets,
           MuxLooksAtControl, MuxLooksAtData, surplusVars, upstreamVars
      <4>2. CASE ~MuxLooksAtControl
        <5>1. pc' \in {"idle", "pop", "close"}
          BY <1>1, <3>2, <4>2, OutcomeIs, OutcomeForgets DEF GetNodeReadiness, DefaultReadiness, EarlyCloseReadiness, BarrierReadiness,
           ImmediateReadiness, SyncSetsReadiness, AlignBeforeOffsets, AlignWithOffsets, MuxLooksAtData,
           ImmediateReadinessOf, SyncSetsReadinessOf, FillAt
        <5> QED
          BY <4>1, <5>1
      <4>3. CASE MuxLooksAtControl
        BY <4>1, <4>3, OutcomeForgets DEF MuxLooksAtControl
      <4> QED
        BY <4>2, <4>3
    <3>3. CASE Look \/ Pop
      BY <3>3 DEF Look, Pop, surplusVars, upstreamVars
    <3>4. CASE Invoke
      BY <3>4, <1>0 DEF Invoke, EndInvocation, upstreamVars
    <3>5. CASE CloseStream
      BY <3>5 DEF CloseStream, surplusVars, upstreamVars
    <3> QED
      BY <1>1, <1>3, <3>1, <3>2, <3>3, <3>4, <3>5 DEF Schedule
  <2> QED
    BY <1>0, <2>1 DEF Plain, NoSurplus
<1> QED
  BY <1>1, <1>2, <1>3 DEF Next

-----------------------------------------------------------------------------
(* The handlers of input sets with one timestamp: default, early_close, immediate,
   sync_set and fixed_size. *)

InFlight(i) == pc = "pop" /\ i \in ready
Processed == handler.process_timestamps /\ handler.kind \in {"default", "immediate", "sync_set"}

\* The streams of sync set i may be selected at t, whatever comes.
MayFill(i, t) == t \in Carried /\ \A s \in StreamsOf(i) : Selected(s) < t /\ Settled(stream[s], t)
Ended(i) == \A s \in StreamsOf(i) : Frontier(s) >= OneOverPostStream

\* Of the streams of an input set, those that have yet to be popped and the others.
Taken(s) ==
  IF s \in todo THEN Selected(s) < input_timestamp /\ Settled(stream[s], input_timestamp)
  ELSE Selected(s) <= input_timestamp /\ input_timestamp < Frontier(s)

SetKept(i) ==
  ~Closing /\ ~InFlight(i) => \A s, u \in StreamsOf(i) : Selected(s) < Frontier(u)
SetFlying(i) ==
  InFlight(i) =>
    /\ input_timestamp \in Carried /\ \A s \in StreamsOf(i) : Taken(s)
    /\ Processed => input_timestamp <= last_processed_ts_[i]
SetLast(i) ==
  Processed /\ ~Closing /\ i \in sync_sets_ /\ ready_timestamps_[i] # Done =>
    \A s \in StreamsOf(i) : Selected(s) <= Later(last_processed_ts_[i], Unstarted)
SetWaits(i) ==
  ready_timestamps_[i] \notin {Unset, Done} /\ ~InFlight(i) /\ ~Closing =>
    /\ MayFill(i, ready_timestamps_[i])
    /\ Processed => ready_timestamps_[i] <= last_processed_ts_[i]
SetEnds(i) ==
  /\ ready_timestamps_[i] # Unset => handler.kind = "immediate"
  /\ i \notin sync_sets_ => handler.kind = "sync_set"
  /\ ready_timestamps_[i] = Done \/ i \notin sync_sets_ => Ended(i)
SetInv(i) == SetKept(i) /\ SetFlying(i) /\ SetLast(i) /\ SetWaits(i) /\ SetEnds(i)

Sets ==
  /\ pc = "pop" => todo \subseteq UNION {StreamsOf(i) : i \in ready}
  /\ \A i \in Indices : SetInv(i)

Synced == handler.kind \in {"default", "early_close", "immediate", "sync_set", "fixed_size"}
Rises(a, b) ==
  /\ b.last_select_timestamp_ = a.last_select_timestamp_
  /\ MinTimestampOrBound(a) <= MinTimestampOrBound(b)

LEMMA SetIs ==
  ASSUME TInv, NEW i \in Indices, NEW s \in StreamsOf(i)
  PROVE  /\ s \in Streams /\ InOrder(handler, stream[s]) /\ handler \in Handlers
         /\ Selected(s) \in Int /\ Frontier(s) \in Int
         /\ last_processed_ts_[i] \in Int /\ ready_timestamps_[i] \in Int /\ input_timestamp \in Int
BY HandlerIs, StreamIs, Constant DEF TInv, StreamsTyped, SchedulerTyped, HandlerTyped

LEMMA SetIsThen ==
  ASSUME TInv', UNCHANGED handler, NEW i \in Indices, NEW s \in StreamsOf(i)
  PROVE  /\ s \in Streams /\ InOrder(handler, stream'[s]) /\ handler \in Handlers
         /\ Selected(s)' \in Int /\ Frontier(s)' \in Int
         /\ last_processed_ts_'[i] \in Int /\ ready_timestamps_'[i] \in Int /\ input_timestamp' \in Int
<1>1. handler \in Handlers
  BY DEF TInv, StreamsTyped
<1>2. s \in Streams
  BY <1>1, HandlerIs
<1>3. InOrder(handler, stream'[s])
  BY <1>2 DEF TInv, StreamsTyped
<1>4. Selected(s)' \in Int /\ Frontier(s)' \in Int
  BY <1>1, <1>3, FrontIs DEF Selected, Frontier
<1>5. i \in Indices'
  BY DEF Indices
<1> QED
  BY <1>1, <1>2, <1>3, <1>4, <1>5, Constant DEF TInv, SchedulerTyped, HandlerTyped

\* Nothing is selected of a sync set, and its streams grow.
LEMMA SetStays ==
  ASSUME TInv, TInv', NEW i \in Indices, SetInv(i), UNCHANGED <<handler, sync_sets_, last_processed_ts_, ready_timestamps_>>,
         \A s \in StreamsOf(i) : Rises(stream[s], stream'[s]),
         InFlight(i) \/ ready_timestamps_[i] \notin {Unset, Done} => \A s \in StreamsOf(i) : Grows(stream[s], stream'[s]),
         Closing => Closing', InFlight(i)' <=> InFlight(i),
         InFlight(i) => UNCHANGED <<todo, input_timestamp>>
  PROVE  SetInv(i)'
<1>1. ASSUME NEW s \in StreamsOf(i)
      PROVE  /\ Selected(s)' = Selected(s) /\ Frontier(s) <= Frontier(s)'
             /\ Selected(s) \in Int /\ Frontier(s) \in Int /\ Frontier(s)' \in Int
             /\ InOrder(handler, stream[s]) /\ InOrder(handler, stream'[s]) /\ handler \in Handlers
  BY <1>1, SetIs, SetIsThen DEF Rises, Selected, Frontier
<1>2. /\ StreamsOf(i)' = StreamsOf(i) /\ Processed' = Processed
      /\ last_processed_ts_[i] \in Int /\ ready_timestamps_[i] \in Int /\ input_timestamp \in Int
      /\ OneOverPostStream \in Int
  BY Constant DEF TInv, SchedulerTyped, HandlerTyped, StreamsOf, Processed
<1>3. ASSUME NEW s \in StreamsOf(i), Grows(stream[s], stream'[s]), NEW t \in Int, Settled(stream[s], t)
      PROVE  Settled(stream'[s], t)
  BY <1>1, <1>3, GrownIs
<1>4. SetKept(i)'
  BY <1>1, <1>2 DEF SetKept, SetInv
<1>5. SetFlying(i)'
  <2> SUFFICES ASSUME InFlight(i)
               PROVE  /\ input_timestamp' \in Carried /\ \A s \in StreamsOf(i) : Taken(s)'
                      /\ Processed => input_timestamp' <= last_processed_ts_'[i]
    BY <1>2 DEF SetFlying
  <2>1. /\ input_timestamp \in Carried /\ \A s \in StreamsOf(i) : Taken(s)
        /\ Processed => input_timestamp <= last_processed_ts_[i]
        /\ input_timestamp' = input_timestamp /\ todo' = todo
    BY DEF SetInv, SetFlying
  <2>2. ASSUME NEW s \in StreamsOf(i) PROVE Taken(s)'
    BY <1>1, <1>2, <1>3, <2>1 DEF Taken
  <2> QED
    BY <2>1, <2>2
<1>6. SetLast(i)'
  BY <1>1, <1>2 DEF SetInv, SetLast
<1>7. SetWaits(i)'
  <2> SUFFICES ASSUME ready_timestamps_[i] \notin {Unset, Done}, ~InFlight(i), ~Closing'
               PROVE  /\ MayFill(i, ready_timestamps_[i])'
                      /\ Processed => ready_timestamps_[i] <= last_processed_ts_[i]
    BY <1>2 DEF SetWaits
  <2>1. /\ MayFill(i, ready_timestamps_[i])
        /\ Processed => ready_timestamps_[i] <= last_processed_ts_[i]
    BY DEF SetInv, SetWaits
  <2>2. ASSUME NEW s \in StreamsOf(i)
        PROVE  Selected(s)' < ready_timestamps_[i] /\ Settled(stream'[s], ready_timestamps_[i])
    BY <1>1, <1>2, <1>3, <2>1 DEF MayFill
  <2> QED
    BY <1>2, <2>1, <2>2 DEF MayFill
<1>8. SetEnds(i)'
  BY <1>1, <1>2 DEF Ended, SetInv, SetEnds
<1> QED
  BY <1>4, <1>5, <1>6, <1>7, <1>8 DEF SetInv

\* Indices and the streams of a set do not change.
LEMMA SameSets ==
  ASSUME UNCHANGED handler
  PROVE  /\ Indices' = Indices /\ Used' = Used /\ \A i : StreamsOf(i)' = StreamsOf(i)
BY DEF Indices, Used, StreamsOf

LEMMA GrowsSame ==
  ASSUME NEW h \in Handlers, NEW a, InOrder(h, a)
  PROVE  Grows(a, a) /\ Rises(a, a)
BY FrontIs DEF Grows, Rises

LEMMA GrowsRises == ASSUME NEW a, NEW b, Grows(a, b) PROVE Rises(a, b)
BY DEF Grows, Rises

LEMMA SetsGrow ==
  ASSUME TInv, TInv', Sets, Grown,
         UNCHANGED <<handler, pc, todo, input_timestamp, handlerVars>>
  PROVE  Sets'
<1>1. ASSUME NEW i \in Indices PROVE SetInv(i)'
  BY SetIs, GrowsRises, SetStays DEF Grown, Sets, handlerVars, Closing, InFlight
<1> QED
  BY <1>1, SameSets DEF Sets, handlerVars

\* The thread goes on to something else than an input set; only packets before the
\* frontier leave a stream.
LEMMA SetsRest ==
  ASSUME TInv, TInv', Sets, UNCHANGED <<handler, sync_sets_, last_processed_ts_, ready_timestamps_>>,
         \A s \in Streams : Rises(stream[s], stream'[s]),
         \A i \in Indices : ready_timestamps_[i] \notin {Unset, Done} =>
           \A s \in StreamsOf(i) : Grows(stream[s], stream'[s]),
         pc # "pop", pc' # "pop", Closing => Closing'
  PROVE  Sets'
<1>1. ASSUME NEW i \in Indices PROVE SetInv(i)'
  BY SetIs, SetStays DEF Sets, InFlight
<1> QED
  BY <1>1, SameSets DEF Sets

LEMMA SetsSame ==
  ASSUME TInv, TInv', Sets, UNCHANGED <<handler, stream, sync_sets_, last_processed_ts_, ready_timestamps_>>,
         pc # "pop", pc' # "pop", Closing => Closing'
  PROVE  Sets'
BY GrowsSame, SetIs, SetsRest DEF TInv, StreamsTyped

\* FillInputSet pops the next stream: nothing is lost, and no CHECK fails.
LEMMA SetsPop ==
  ASSUME TInv, TInv', Upstreams, Sets, Synced, Pop
  PROVE  Upstreams' /\ Sets' /\ crashed' = "none"
<1>0. StreamsTyped /\ SchedulerTyped /\ HandlerTyped /\ handler \in Handlers
  BY DEF TInv, StreamsTyped
<1>20. PICK s : s = First
  OBVIOUS
<1>1. /\ pc = "pop" /\ todo # {} /\ crashed' = FailedCheck(s)
      /\ stream' = [stream EXCEPT ![s] = Popped(s)] /\ todo' = todo \ {s}
      /\ UNCHANGED <<handler, upstreamVars, pc, input_timestamp, handlerVars>>
  BY <1>20 DEF Pop
<1>2. s \in todo /\ s \in Streams
  BY <1>0, <1>1, <1>20, FirstIs DEF SchedulerTyped
<1>3. PICK k \in ready : s \in StreamsOf(k)
  BY <1>1, <1>2 DEF Sets
<1>4. k \in Indices /\ InFlight(k)
  BY <1>0, <1>1, <1>3 DEF HandlerTyped, InFlight
<1>5. /\ input_timestamp \in Carried /\ \A u \in StreamsOf(k) : Taken(u)
      /\ Processed => input_timestamp <= last_processed_ts_[k]
  BY <1>4 DEF Sets, SetInv, SetFlying
<1>6. Selected(s) < input_timestamp /\ Settled(stream[s], input_timestamp)
  BY <1>2, <1>3, <1>5 DEF Taken
<1>7. /\ handler.kind # "mux" /\ handler.kind # "barrier" /\ handler.kind # "timestamp_align"
      /\ ~OnlyErases(s) /\ SelectTimestamp(s) = input_timestamp
  BY DEF Synced, OnlyErases, SelectTimestamp
<1>8. Popped(s) = PopPacketAtTimestamp(stream[s], input_timestamp)
  BY <1>7 DEF Popped
<1>9. input_timestamp \in Timestamp /\ input_timestamp \in Int /\ IsAllowedInStream(input_timestamp)
  BY <1>0, <1>5, Constant DEF SchedulerTyped, IsAllowedInStream
<1>10. InOrder(handler, stream[s]) /\ stream[s].enable_timestamps_ /\ Selected(s) \in Int
  BY <1>0, <1>2, <1>7, StreamIs
<1>11. /\ ~DropsPackets(stream[s], input_timestamp)
       /\ Popped(s).next_timestamp_bound_ = stream[s].next_timestamp_bound_
       /\ Popped(s).closed_ = stream[s].closed_
       /\ Popped(s).last_select_timestamp_ = input_timestamp
       /\ MinTimestampOrBound(Popped(s)) > input_timestamp
  BY <1>0, <1>6, <1>8, <1>9, <1>10, PopSettled
<1>12. crashed' = "none"
  <2>1. ~(stream[s].last_select_timestamp_ > input_timestamp)
    BY <1>6, <1>9, <1>10 DEF Selected
  <2>2. FailedCheck(s) = "none"
    BY <1>7, <1>9, <1>11, <2>1 DEF FailedCheck
  <2> QED
    BY <1>1, <2>2
<1>13. stream'[s] = Popped(s) /\ \A u \in Streams : u # s => stream'[u] = stream[u]
  BY <1>0, <1>1, <1>2 DEF StreamsTyped
<1>14. Upstreams'
  BY <1>0, <1>1, <1>2, <1>11, UpstreamsKept DEF Closing
<1>15. UNCHANGED <<sync_sets_, last_processed_ts_, ready_timestamps_, ready>> /\ ~Closing /\ ~Closing'
       /\ (\A i : InFlight(i)' <=> InFlight(i))
  BY <1>1 DEF handlerVars, Closing, InFlight
<1>16. Selected(s)' = input_timestamp /\ Frontier(s)' > input_timestamp
  BY <1>11, <1>13 DEF Selected, Frontier
<1>17. ASSUME NEW i \in Indices, s \notin StreamsOf(i) PROVE SetInv(i)'
  <2>1. SetInv(i)
    BY DEF Sets
  <2>2. \A u \in StreamsOf(i) : u # s /\ u \in Streams /\ stream'[u] = stream[u]
    BY <1>13, <1>17, SetIs
  <2>3. \A u \in StreamsOf(i) : Selected(u)' = Selected(u) /\ Frontier(u)' = Frontier(u)
                                /\ (\A t : Settled(stream'[u], t) <=> Settled(stream[u], t))
    BY <2>2 DEF Selected, Frontier
  <2>4. \A u \in StreamsOf(i) : u \in todo' <=> u \in todo
    BY <1>1, <2>2
  <2>5. StreamsOf(i)' = StreamsOf(i) /\ Processed' = Processed
    BY <1>1, SameSets DEF Processed
  <2>6. \A u \in StreamsOf(i) : Taken(u) => Taken(u)'
    BY <1>1, <2>3, <2>4 DEF Taken
  <2>7. SetKept(i)'
    BY <1>15, <2>1, <2>3, <2>5 DEF SetInv, SetKept
  <2>8. SetFlying(i)'
    BY <1>1, <1>15, <2>1, <2>5, <2>6 DEF SetInv, SetFlying
  <2>9. SetLast(i)'
    BY <1>15, <2>1, <2>3, <2>5 DEF SetInv, SetLast
  <2>10. SetWaits(i)'
    BY <1>15, <2>1, <2>3, <2>5 DEF SetInv, SetWaits, MayFill
  <2>11. SetEnds(i)'
    BY <1>1, <1>15, <2>1, <2>3, <2>5 DEF SetInv, SetEnds, Ended
  <2> QED
    BY <2>7, <2>8, <2>9, <2>10, <2>11 DEF SetInv
<1>18. SetInv(k)'
  <2>1. SetInv(k) /\ InFlight(k)' /\ StreamsOf(k)' = StreamsOf(k) /\ Processed' = Processed
    BY <1>1, <1>4, <1>15, SameSets DEF Sets, Processed
  <2>2. ASSUME NEW u \in StreamsOf(k) PROVE Taken(u)'
    <3>1. CASE u = s
      BY <1>1, <1>9, <1>16, <3>1 DEF Taken, Selected, Frontier
    <3>2. CASE u # s
      BY <1>1, <1>4, <1>5, <1>13, <3>2, SetIs DEF Taken, Selected, Frontier
    <3> QED
      BY <3>1, <3>2
  <2>3. SetFlying(k)'
    BY <1>1, <1>5, <1>15, <2>1, <2>2 DEF SetFlying
  <2>4. SetLast(k)'
    <3>1. ASSUME Processed, NEW u \in StreamsOf(k), k \in sync_sets_, ready_timestamps_[k] # Done
          PROVE  Selected(u)' <= Later(last_processed_ts_[k], Unstarted)
      <4>1. last_processed_ts_[k] \in Int /\ Unstarted \in Int
        BY <1>4, <3>1, SetIs, Constant
      <4>2. Later(last_processed_ts_[k], Unstarted) \in Int
            /\ last_processed_ts_[k] <= Later(last_processed_ts_[k], Unstarted)
        BY <4>1, EarlierIs DEF Later
      <4>3. CASE u = s
        BY <1>5, <1>9, <1>16, <3>1, <4>1, <4>2, <4>3 DEF Selected
      <4>4. CASE u # s
        BY <1>4, <1>13, <1>15, <2>1, <3>1, <4>4, SetIs DEF Selected, SetInv, SetLast
      <4> QED
        BY <4>3, <4>4
    <3> QED
      BY <1>15, <2>1, <3>1 DEF SetLast
  <2>5. SetEnds(k)'
    <3>1. ASSUME NEW u \in StreamsOf(k), Ended(k) PROVE Frontier(u)' >= OneOverPostStream
      <4>1. CASE u = s
        <5>1. Frontier(s) >= OneOverPostStream
          BY <1>3, <3>1 DEF Ended
        <5>2. Frontier(s)' >= Frontier(s)
          BY <1>0, <1>6, <1>8, <1>9, <1>10, <1>13, PopSettled DEF Frontier
        <5>3. Frontier(s) \in Int /\ Frontier(s)' \in Int /\ OneOverPostStream \in Int
          BY SMTT(30), <1>1, <1>3, <1>4, SetIs, SetIsThen, Constant
        <5> QED
          BY <4>1, <5>1, <5>2, <5>3 DEF Frontier
      <4>2. CASE u # s
        BY <1>4, <1>13, <3>1, <4>2, SetIs DEF Frontier, Ended
      <4> QED
        BY <4>1, <4>2
    <3>2. Ended(k) => Ended(k)'
      BY <2>1, <3>1, Constant DEF Ended
    <3> QED
      BY <1>1, <1>15, <2>1, <3>2 DEF SetInv, SetEnds
  <2>6. SetKept(k)' /\ SetWaits(k)'
    BY <2>1 DEF SetKept, SetWaits
  <2> QED
    BY <2>3, <2>4, <2>5, <2>6 DEF SetInv
<1>19. Sets'
  <2>1. ASSUME NEW i \in Indices PROVE SetInv(i)'
    <3>1. CASE i = k
      BY <3>1, <1>18
    <3>2. CASE i # k
      BY <1>0, <1>3, <1>4, <1>17, <3>2, HandlerIs
    <3> QED
      BY <3>1, <3>2
  <2>2. todo' \subseteq UNION {StreamsOf(i)' : i \in ready'}
    BY <1>1, <1>15, SameSets DEF Sets
  <2> QED
    BY <1>1, <2>1, <2>2, SameSets DEF Sets
<1> QED
  BY <1>12, <1>14, <1>19

LEMMA SetsInvoke ==
  ASSUME TInv, TInv', Sets, Invoke
  PROVE  Sets'
<1>0. StreamsTyped /\ SchedulerTyped /\ HandlerTyped /\ handler \in Handlers
  BY DEF TInv, StreamsTyped
<1>1. /\ pc = "pop" /\ todo = {} /\ pc' = "idle"
      /\ ready_timestamps_' = [i \in Indices |-> IF i \in ready THEN Unset ELSE ready_timestamps_[i]]
      /\ UNCHANGED <<handler, stream, sync_sets_, last_processed_ts_>>
  BY DEF Invoke, EndInvocation
<1>2. ASSUME NEW i \in Indices PROVE SetInv(i)'
  <2>0. SetInv(i)
    BY DEF Sets
  <2>1. StreamsOf(i)' = StreamsOf(i) /\ Processed' = Processed /\ ~InFlight(i)' /\ ~Closing /\ ~Closing'
        /\ (\A s : Selected(s)' = Selected(s) /\ Frontier(s)' = Frontier(s))
        /\ ready_timestamps_'[i] = IF i \in ready THEN Unset ELSE ready_timestamps_[i]
    BY <1>1, SameSets DEF Processed, InFlight, Closing, Selected, Frontier
  <2>2. CASE i \notin ready
    <3>1. ~InFlight(i) /\ ready_timestamps_'[i] = ready_timestamps_[i]
      BY <2>1, <2>2 DEF InFlight
    <3> QED
      BY <1>1, <2>0, <2>1, <3>1 DEF SetInv, SetKept, SetFlying, SetLast, SetWaits, SetEnds, MayFill, Ended
  <2>3. CASE i \in ready
    <3>1. InFlight(i) /\ ready_timestamps_'[i] = Unset
      BY <1>1, <2>1, <2>3 DEF InFlight
    <3>2. /\ input_timestamp \in Carried /\ \A s \in StreamsOf(i) : Taken(s)
          /\ Processed => input_timestamp <= last_processed_ts_[i]
      BY <2>0, <3>1 DEF SetInv, SetFlying
    <3>3. \A s \in StreamsOf(i) : /\ Selected(s) <= input_timestamp /\ input_timestamp < Frontier(s)
                                  /\ Selected(s) \in Int /\ Frontier(s) \in Int
                                  /\ input_timestamp \in Int /\ last_processed_ts_[i] \in Int
      BY <1>1, <3>2, SetIs DEF Taken
    <3>4. SetKept(i)'
      BY <2>1, <3>3 DEF SetKept
    <3>5. SetLast(i)'
      <4>1. ASSUME Processed, NEW s \in StreamsOf(i)
            PROVE  Selected(s) <= Later(last_processed_ts_[i], Unstarted)
        BY <3>2, <3>3, <4>1, Constant, EarlierIs DEF Later
      <4> QED
        BY <1>1, <2>1, <4>1 DEF SetLast
    <3>6. SetEnds(i)'
      BY <1>1, <2>0, <2>1, <3>1, Constant DEF SetInv, SetEnds, Ended
    <3> QED
      BY <2>1, <3>1, <3>4, <3>5, <3>6 DEF SetInv, SetFlying, SetWaits
  <2> QED
    BY <2>2, <2>3
<1> QED
  BY <1>1, <1>2, SameSets DEF Sets

-----------------------------------------------------------------------------
(* GetNodeReadiness of a sync set: the streams may be selected at the timestamp it
   gives, or have ended. *)

\* What MinBound and MinPacket say of the streams.
LEMMA SeenOfSet ==
  ASSUME TInv, SeenSound, handler.kind # "barrier", NEW i \in Indices
  PROVE  LET set == StreamsOf(i)
         IN  /\ MinBound(set) \in Timestamp /\ MinPacket(set) \in Timestamp
             /\ MinBound(set) \in Int /\ MinPacket(set) \in Int
             /\ MinBound(set) <= Done /\ MinPacket(set) <= Done
             /\ \A s \in set :
                  \/ Frontier(s) >= MinBound(set)
                  \/ ~IsEmpty(stream[s]) /\ Frontier(s) >= MinPacket(set) /\ Frontier(s) \in Carried
             /\ MinPacket(set) # Done =>
                  /\ MinPacket(set) \in Carried
                  /\ \E s \in set : Frontier(s) = MinPacket(set)
             /\ (\A s \in set : seen[s].timestamp >= PreStream) =>
                  MinBound(set) >= PreStream /\ MinPacket(set) >= PreStream
<1> DEFINE set == StreamsOf(i)
           mb == MinBound(set)
           mp == MinPacket(set)
<1>0. StreamsTyped /\ SchedulerTyped /\ handler \in Handlers /\ set \in SUBSET Streams
  BY HandlerIs DEF TInv, StreamsTyped
<1>1. /\ mb \in {Done} \cup {seen[s].timestamp : s \in {s \in set : seen[s].empty = TRUE}}
      /\ mb \in Timestamp /\ mb \in Int /\ mb <= Done
      /\ \A s \in set : seen[s].empty = TRUE => mb <= seen[s].timestamp
  BY <1>0, SeenIs DEF MinBound
<1>2. /\ mp \in {Done} \cup {seen[s].timestamp : s \in {s \in set : seen[s].empty = FALSE}}
      /\ mp \in Timestamp /\ mp \in Int /\ mp <= Done
      /\ \A s \in set : seen[s].empty = FALSE => mp <= seen[s].timestamp
  BY <1>0, SeenIs DEF MinPacket
<1> HIDE DEF mb, mp
<1>3. ASSUME NEW s \in set
      PROVE  /\ seen[s].empty \in BOOLEAN /\ seen[s].timestamp \in Int /\ Frontier(s) \in Int
             /\ Sight(s) /\ (~seen[s].empty => seen[s].timestamp \in Carried)
  <2>1. s \in Streams
    BY <1>0
  <2>2. ~seen[s].empty => seen[s].timestamp \in Carried
    BY <1>0, <2>1, HandlerIs DEF SchedulerTyped
  <2>3. Sight(s)
    BY <2>1 DEF SeenSound
  <2>4. seen[s].empty \in BOOLEAN /\ seen[s].timestamp \in Timestamp
    BY <1>0, <2>1 DEF SchedulerTyped, Looks
  <2> QED
    BY <1>0, <2>1, <2>2, <2>3, <2>4, StreamIs, Constant
<1>4. ASSUME NEW s \in set
      PROVE  \/ Frontier(s) >= mb
             \/ ~IsEmpty(stream[s]) /\ Frontier(s) >= mp /\ Frontier(s) \in Carried
  BY <1>1, <1>2, <1>3 DEF Sight
<1>5. ASSUME mp # Done
      PROVE  mp \in Carried /\ \E s \in set : Frontier(s) = mp
  BY <1>2, <1>3, <1>5 DEF Sight
<1>6. ASSUME \A s \in set : seen[s].timestamp >= PreStream
      PROVE  mb >= PreStream /\ mp >= PreStream
  BY <1>1, <1>2, <1>6, Constant
<1> QED
  BY <1>1, <1>2, <1>4, <1>5, <1>6 DEF mb, mp

\* The earliest packet, when every bound is beyond it.
LEMMA PacketReady ==
  ASSUME TInv, SeenSound, handler.kind # "barrier", NEW i \in Indices,
         \A s, u \in StreamsOf(i) : Selected(s) < Frontier(u),
         MinBound(StreamsOf(i)) > MinPacket(StreamsOf(i))
  PROVE  MayFill(i, MinPacket(StreamsOf(i)))
<1> DEFINE set == StreamsOf(i)
           mb == MinBound(set)
           mp == MinPacket(set)
<1>1. /\ mb \in Int /\ mp \in Int /\ mb <= Done
      /\ \A s \in set :
           \/ Frontier(s) >= mb
           \/ ~IsEmpty(stream[s]) /\ Frontier(s) >= mp /\ Frontier(s) \in Carried
      /\ mp # Done => mp \in Carried /\ \E s \in set : Frontier(s) = mp
  BY SeenOfSet
<1> HIDE DEF mb, mp
<1>2. mp # Done /\ mb > mp
  BY <1>1, Constant DEF mb, mp
<1>3. ASSUME NEW s \in set PROVE Selected(s) < mp /\ Settled(stream[s], mp)
  BY <1>1, <1>2, SetIs DEF Settled, Frontier
<1> QED
  BY <1>1, <1>2, <1>3 DEF MayFill, mp

\* A timestamp that every stream is past.
LEMMA SettledReady ==
  ASSUME TInv, SeenSound, handler.kind # "barrier", NEW i \in Indices, NEW t \in Int,
         \A s \in StreamsOf(i) : Selected(s) < t,
         t > Unstarted, t <= MinPacket(StreamsOf(i)),
         t = Earlier(MinPacket(StreamsOf(i)),
                     IF MinPacket(StreamsOf(i)) = PostStream /\ MinBound(StreamsOf(i)) > MinPacket(StreamsOf(i))
                     THEN MinPacket(StreamsOf(i)) ELSE PreviousAllowedInStream(MinBound(StreamsOf(i))))
  PROVE  MayFill(i, t)
<1> DEFINE set == StreamsOf(i)
           mb == MinBound(set)
           mp == MinPacket(set)
<1>1. /\ mb \in Int /\ mp \in Int /\ mb \in Timestamp
      /\ \A s \in set :
           \/ Frontier(s) >= mb
           \/ ~IsEmpty(stream[s]) /\ Frontier(s) >= mp /\ Frontier(s) \in Carried
  BY SeenOfSet
<1> HIDE DEF mb, mp
<1>2. t <= mp /\ t = Earlier(mp, IF mp = PostStream /\ mb > mp THEN mp ELSE PreviousAllowedInStream(mb))
  BY DEF mb, mp
<1>3. /\ PreviousAllowedInStream(mb) = (IF mb <= 0 \/ mb = MaxTimestamp + 1 THEN -2
                                        ELSE IF mb > MaxTimestamp THEN MaxTimestamp ELSE mb - 1)
      /\ PreviousAllowedInStream(mb) \in Int
  <2>1. mb \in Timestamp
    BY <1>1
  <2>2. PreviousAllowedInStream(mb) \in Timestamp
    BY <2>1, PreviousIs
  <2> QED
    BY <2>1, <2>2, PreviousIs, Constant
<1>4. mb > t /\ t \in Carried
  <2>1. CASE mp = PostStream /\ mb > mp
    BY <1>1, <1>2, <2>1, Constant DEF Earlier
  <2>2. CASE ~(mp = PostStream /\ mb > mp)
    BY <1>1, <1>2, <1>3, <2>2, EarlierIs, Constant
  <2> QED
    BY <2>1, <2>2
<1>5. ASSUME NEW s \in set PROVE Selected(s) < t /\ Settled(stream[s], t)
  BY <1>1, <1>2, <1>4, SetIs DEF Settled, Frontier
<1> QED
  BY <1>4, <1>5 DEF MayFill

LEMMA SetReady ==
  ASSUME TInv, SeenSound, handler.kind # "barrier", NEW i \in Indices,
         \A s, u \in StreamsOf(i) : Selected(s) < Frontier(u),
         handler.process_timestamps =>
           \A s \in StreamsOf(i) : Selected(s) <= Later(last_processed_ts_[i], Unstarted)
  PROVE  LET r == ReadinessOf(i)
         IN  /\ r.timestamp \in Timestamp /\ r.last \in Timestamp
             /\ \/ /\ r.readiness = "kReadyForProcess" /\ MayFill(i, r.timestamp)
                   /\ r.last = r.timestamp
                   /\ handler.process_timestamps => last_processed_ts_[i] < r.timestamp
                \/ /\ r.readiness = "kReadyForClose" /\ Ended(i)
                   /\ r.timestamp = Done /\ r.last = MaxTimestamp
                \/ /\ r.readiness = "kNotReady" /\ r.timestamp < OneOverPostStream
                   /\ r.last = last_processed_ts_[i]
                   /\ (\A s \in StreamsOf(i) : seen[s].timestamp >= PreStream) => r.timestamp >= PreStream
<1> DEFINE r == ReadinessOf(i)
           set == StreamsOf(i)
           mb == MinBound(set)
           mp == MinPacket(set)
           last == last_processed_ts_[i]
<1>0. handler \in Handlers /\ SchedulerTyped /\ set \in SUBSET Streams /\ last \in Timestamp /\ last \in Int
  BY HandlerIs, Constant DEF TInv, StreamsTyped, HandlerTyped
<1>1. /\ r.timestamp \in Timestamp /\ r.last \in Timestamp /\ mb \in Timestamp /\ mp \in Timestamp
      /\ \/ /\ r.readiness = "kReadyForClose" /\ r.timestamp = Done /\ r.last = MaxTimestamp
            /\ mb >= OneOverPostStream /\ mp >= OneOverPostStream
         \/ /\ r.readiness = "kReadyForProcess" /\ r.last = r.timestamp
            /\ ~handler.process_timestamps /\ mb > mp /\ r.timestamp = mp
            /\ mp < OneOverPostStream
         \/ /\ r.readiness = "kReadyForProcess" /\ r.last = r.timestamp
            /\ handler.process_timestamps
            /\ r.timestamp > last /\ r.timestamp > Unstarted /\ r.timestamp <= mp
            /\ r.timestamp = Earlier(mp, IF mp = PostStream /\ mb > mp THEN mp
                                         ELSE PreviousAllowedInStream(mb))
         \/ /\ r.readiness = "kNotReady" /\ r.last = last /\ r.timestamp = Earlier(mp, mb)
            /\ r.timestamp < OneOverPostStream
  BY <1>0, ReadinessIs DEF ReadinessOf
<1>2. /\ mb \in Int /\ mp \in Int
      /\ \A s \in set :
           \/ Frontier(s) >= mb
           \/ ~IsEmpty(stream[s]) /\ Frontier(s) >= mp /\ Frontier(s) \in Carried
      /\ (\A s \in set : seen[s].timestamp >= PreStream) => mb >= PreStream /\ mp >= PreStream
  BY SeenOfSet
<1>3. mb > mp => MayFill(i, mp)
  BY PacketReady
<1>4. ASSUME /\ handler.process_timestamps
             /\ r.timestamp > last /\ r.timestamp > Unstarted /\ r.timestamp <= mp
             /\ r.timestamp = Earlier(mp, IF mp = PostStream /\ mb > mp THEN mp
                                          ELSE PreviousAllowedInStream(mb))
      PROVE  MayFill(i, r.timestamp)
  <2>1. r.timestamp \in Int /\ Unstarted \in Int
    BY <1>1, Constant
  <2>2. ASSUME NEW s \in set PROVE Selected(s) < r.timestamp
    <3>1. Later(last, Unstarted) \in Int /\ Later(last, Unstarted) \in {last, Unstarted}
      BY <1>0, <2>1, EarlierIs
    <3>2. Selected(s) <= Later(last, Unstarted) /\ Selected(s) \in Int
      BY <1>4, SetIs
    <3> HIDE DEF r, last
    <3> QED
      BY <1>0, <1>4, <2>1, <3>1, <3>2
  <2> QED
    BY <1>4, <2>1, <2>2, SettledReady
<1> HIDE DEF r, mb, mp, last
<1>5. ASSUME mb >= OneOverPostStream, mp >= OneOverPostStream PROVE Ended(i)
  BY <1>2, <1>5, Constant, SetIs DEF Ended
<1>6. Earlier(mp, mb) \in {mp, mb}
  BY <1>2, EarlierIs
<1>7. \/ /\ r.readiness = "kReadyForProcess" /\ MayFill(i, r.timestamp) /\ r.last = r.timestamp
         /\ handler.process_timestamps => last < r.timestamp
      \/ r.readiness = "kReadyForClose" /\ Ended(i) /\ r.timestamp = Done /\ r.last = MaxTimestamp
      \/ /\ r.readiness = "kNotReady" /\ r.timestamp < OneOverPostStream
         /\ r.last = last
         /\ (\A s \in set : seen[s].timestamp >= PreStream) => r.timestamp >= PreStream
  BY <1>1, <1>2, <1>3, <1>4, <1>5, <1>6
<1> QED
  BY <1>1, <1>7 DEF r, last

-----------------------------------------------------------------------------
(* GetNodeReadiness of the handlers of sync sets. *)

\* Nothing more comes once the node is closed, unless the handler closes early.
CloseSound ==
  pc = "close" /\ handler.kind \notin {"early_close", "barrier", "mux"} =>
    \A s \in Used : Frontier(s) >= OneOverPostStream

\* What GetNodeReadiness has to say of a sync set that it passes on.
LEMMA SetAfter ==
  ASSUME TInv, TInv', NEW i \in Indices, SetInv(i), UNCHANGED <<handler, stream>>, pc = "look",
         sync_sets_' \in SUBSET sync_sets_, ready_timestamps_[i] = Done => ready_timestamps_'[i] = Done,
         \/ Closing' \/ i \notin sync_sets_' \/ ready_timestamps_'[i] = Done \/ ~Processed
         \/ last_processed_ts_[i] <= last_processed_ts_'[i],
         InFlight(i)' => /\ MayFill(i, input_timestamp') /\ StreamsOf(i) \in SUBSET todo'
                         /\ Processed => input_timestamp' <= last_processed_ts_'[i],
         ready_timestamps_'[i] \notin {Unset, Done} /\ ~Closing' =>
           /\ MayFill(i, ready_timestamps_'[i])
           /\ Processed => ready_timestamps_'[i] <= last_processed_ts_'[i],
         ready_timestamps_'[i] # Unset => handler.kind = "immediate",
         i \notin sync_sets_' => handler.kind = "sync_set",
         ready_timestamps_'[i] = Done \/ i \notin sync_sets_' => Ended(i)
  PROVE  SetInv(i)'
<1>1. /\ StreamsOf(i)' = StreamsOf(i) /\ Processed' = Processed
      /\ \A s : Selected(s)' = Selected(s) /\ Frontier(s)' = Frontier(s)
      /\ ~Closing /\ ~InFlight(i)
  BY SameSets DEF Processed, Selected, Frontier, Closing, InFlight
<1>2. SetKept(i)'
  BY <1>1 DEF SetInv, SetKept
<1>3. SetFlying(i)'
  <2>1. ASSUME InFlight(i)', NEW s \in StreamsOf(i) PROVE Taken(s)'
    BY <1>1, <2>1 DEF MayFill, Taken
  <2> QED
    BY <1>1, <2>1 DEF SetFlying, MayFill
<1>4. SetLast(i)'
  BY <1>1, SetIs, SetIsThen, Constant DEF SetLast, SetInv, Later
<1>5. SetWaits(i)'
  BY <1>1 DEF MayFill, SetWaits
<1>6. SetEnds(i)'
  BY <1>1 DEF SetEnds, Ended
<1> QED
  BY <1>2, <1>3, <1>4, <1>5, <1>6 DEF SetInv

\* The readiness of a sync set, in a handler that keeps the sync sets as it should.
LEMMA ReadinessSound ==
  ASSUME TInv, SeenSound, Sets, Looked, NEW i \in Indices, i \in sync_sets_, ready_timestamps_[i] # Done,
         handler.kind \in {"default", "immediate", "sync_set", "fixed_size"},
         handler.kind = "fixed_size" => ~handler.process_timestamps
  PROVE  LET r == ReadinessOf(i)
         IN  /\ r.timestamp \in Timestamp /\ r.last \in Timestamp
             /\ \/ /\ r.readiness = "kReadyForProcess" /\ MayFill(i, r.timestamp)
                   /\ r.last = r.timestamp
                   /\ handler.process_timestamps => last_processed_ts_[i] < r.timestamp
                \/ /\ r.readiness = "kReadyForClose" /\ Ended(i)
                   /\ r.timestamp = Done /\ r.last = MaxTimestamp
                \/ /\ r.readiness = "kNotReady" /\ r.timestamp < OneOverPostStream
                   /\ r.last = last_processed_ts_[i]
                   /\ ready_timestamps_[i] = Unset => r.timestamp >= PreStream
<1>1. pc = "look" /\ todo = {} /\ ~Closing /\ ~InFlight(i) /\ SetInv(i)
  BY DEF Looked, Closing, InFlight, Sets
<1>2. \A s, u \in StreamsOf(i) : Selected(s) < Frontier(u)
  BY <1>1 DEF SetInv, SetKept
<1>3. handler.process_timestamps => \A s \in StreamsOf(i) : Selected(s) <= Later(last_processed_ts_[i], Unstarted)
  BY <1>1 DEF SetInv, SetLast, Processed
<1>4. ready_timestamps_[i] = Unset => \A s \in StreamsOf(i) : seen[s].timestamp >= PreStream
  BY <1>1 DEF StreamsToLookAt, SeenSound
<1>5. handler.kind # "barrier"
  OBVIOUS
<1> QED
  BY <1>2, <1>3, <1>4, <1>5, SetReady

LEMMA DefaultSets ==
  ASSUME TInv, TInv', SeenSound, Sets, DefaultReadiness
  PROVE  Sets' /\ CloseSound'
<1>0. handler \in Handlers /\ handler.kind = "default" /\ HandlerTyped
  BY DEF TInv, StreamsTyped, DefaultReadiness
<1>1. Indices = {1} /\ Used = StreamsOf(1) /\ 1 \in Indices /\ SetInv(1)
  BY <1>0, HandlerIs DEF Sets
<1>2. 1 \in sync_sets_ /\ ready_timestamps_[1] = Unset
  BY <1>0, <1>1 DEF SetInv, SetEnds
<1>3. Unset # Done
  BY Constant
<1>4. PICK r : r = ReadinessOf(1)
  OBVIOUS
<1>5. /\ Looked /\ Outcome(r.readiness, r.timestamp) /\ ready' = {1}
      /\ last_processed_ts_' = [last_processed_ts_ EXCEPT ![1] = r.last]
      /\ UNCHANGED <<handler, stream, sync_sets_, ready_timestamps_>>
  BY <1>4 DEF DefaultReadiness
<1>6. last_processed_ts_'[1] = r.last
  BY <1>0, <1>1, <1>5 DEF HandlerTyped
<1>7. /\ r.timestamp \in Timestamp /\ r.last \in Timestamp
      /\ \/ /\ r.readiness = "kReadyForProcess" /\ MayFill(1, r.timestamp) /\ r.last = r.timestamp
            /\ handler.process_timestamps => last_processed_ts_[1] < r.timestamp
         \/ r.readiness = "kReadyForClose" /\ Ended(1)
         \/ r.readiness = "kNotReady" /\ r.last = last_processed_ts_[1]
  BY <1>0, <1>1, <1>2, <1>3, <1>4, <1>5, ReadinessSound
<1>8. r.timestamp \in Int /\ r.last \in Int /\ last_processed_ts_[1] \in Int
  BY <1>0, <1>1, <1>7, Constant DEF HandlerTyped
<1>9. pc = "look"
  BY <1>5 DEF Looked
<1>10. /\ StreamsOf(1)' = StreamsOf(1) /\ Used' = Used /\ Indices' = Indices
       /\ \A s : Frontier(s)' = Frontier(s)
  BY <1>5, SameSets DEF Frontier
<1>11. CASE r.readiness = "kReadyForProcess"
  <2>1. pc' = "pop" /\ todo' = Used /\ input_timestamp' = r.timestamp
    BY <1>5, <1>11 DEF Outcome, ReadyForProcess
  <2>2. SetInv(1)'
    BY <1>1, <1>2, <1>3, <1>5, <1>6, <1>7, <1>8, <1>9, <1>11, <2>1, SetAfter DEF Processed
  <2> QED
    BY <1>1, <1>5, <1>10, <2>1, <2>2 DEF Sets, CloseSound
<1>12. CASE r.readiness = "kReadyForClose"
  <2>1. pc' = "close" /\ Ended(1)
    BY <1>5, <1>7, <1>12 DEF Outcome, ReadyForClose
  <2>2. SetInv(1)'
    BY <1>1, <1>2, <1>3, <1>5, <1>9, <2>1, SetAfter DEF Closing, InFlight
  <2> QED
    BY <1>1, <1>10, <2>1, <2>2 DEF Sets, CloseSound, Ended
<1>13. CASE r.readiness = "kNotReady"
  <2>1. pc' = "idle" /\ r.last = last_processed_ts_[1]
    BY <1>5, <1>7, <1>13 DEF Outcome, NotReady
  <2>2. SetInv(1)'
    BY <1>1, <1>2, <1>3, <1>5, <1>6, <1>8, <1>9, <2>1, SetAfter DEF InFlight
  <2> QED
    BY <1>1, <1>10, <2>1, <2>2 DEF Sets, CloseSound
<1> QED
  BY <1>7, <1>11, <1>12, <1>13

LEMMA EarlyCloseSets ==
  ASSUME TInv, TInv', SeenSound, Sets, EarlyCloseReadiness
  PROVE  Sets' /\ CloseSound'
<1>0. handler \in Handlers /\ handler.kind = "early_close" /\ HandlerTyped
  BY DEF TInv, StreamsTyped, EarlyCloseReadiness
<1>1. Indices = {1} /\ Used = StreamsOf(1) /\ 1 \in Indices /\ SetInv(1)
  BY <1>0, HandlerIs DEF Sets
<1>2. 1 \in sync_sets_ /\ ready_timestamps_[1] = Unset /\ ~Processed /\ Unset # Done
  BY <1>0, <1>1, Constant DEF SetInv, SetEnds, Processed
<1>3. PICK mb, mp : mb = MinBound(Used) /\ mp = MinPacket(Used)
  OBVIOUS
<1>4. mb \in Int /\ mp \in Int
  BY <1>0, <1>1, <1>3, SeenOfSet
<1>5. PICK t : /\ t = Earlier(mp, mb) /\ ready' = {1} /\ Looked
               /\ UNCHANGED <<handler, stream, sync_sets_, last_processed_ts_, ready_timestamps_>>
               /\ \/ ReadyForClose
                  \/ mb > t /\ ReadyForProcess(t, Used)
                  \/ NotReady(t)
  BY <1>3 DEF EarlyCloseReadiness
<1>6. pc = "look" /\ ~Closing /\ ~InFlight(1)
  BY <1>5 DEF Looked, Closing, InFlight
<1>7. /\ StreamsOf(1)' = StreamsOf(1) /\ Used' = Used /\ Indices' = Indices
      /\ CloseSound'
  BY <1>0, <1>5, SameSets DEF CloseSound
<1>8. ASSUME mb > t PROVE MayFill(1, t)
  BY <1>0, <1>1, <1>3, <1>4, <1>5, <1>6, <1>8, PacketReady DEF Earlier, SetInv, SetKept
<1>9. pc' = "pop" => MayFill(1, t) /\ input_timestamp' = t /\ todo' = Used
  BY <1>5, <1>8 DEF ReadyForClose, ReadyForProcess, NotReady
<1>10. last_processed_ts_'[1] = last_processed_ts_[1] /\ ready_timestamps_'[1] = Unset
  BY <1>2, <1>5
<1>11. SetInv(1)'
  BY <1>0, <1>1, <1>2, <1>5, <1>6, <1>9, <1>10, SetAfter DEF InFlight
<1> QED
  BY <1>1, <1>5, <1>7, <1>9, <1>11 DEF Sets

\* When a stream of the ImmediateInputStreamHandler is ready.
LEMMA ImmediateSet ==
  ASSUME TInv, SeenSound, Sets, Looked, NEW i \in Indices, handler.kind = "immediate"
  PROVE  LET r == ReadinessOf(i)
             t == ReadyTimestamp(i, r)
             last == IF Fresh(i) THEN r.last ELSE last_processed_ts_[i]
         IN  /\ t \in Timestamp /\ r.timestamp \in Timestamp
             /\ t \notin {Unset, Done} => MayFill(i, t) /\ (Processed => t <= last)
             /\ t = Done => Ended(i)
             /\ t = Done \/ ~Processed \/ last_processed_ts_[i] <= last
             /\ ready_timestamps_[i] = Done => t = Done
             /\ t = Unset => PreStream <= r.timestamp /\ r.timestamp < OneOverPostStream
<1> DEFINE r == ReadinessOf(i)
           t == ReadyTimestamp(i, r)
           last == last_processed_ts_[i]
<1>0. HandlerTyped /\ handler \in Handlers /\ SchedulerTyped
  BY DEF TInv, StreamsTyped
<1>1. ~Closing /\ ~InFlight(i) /\ SetInv(i) /\ i \in sync_sets_ /\ Unset # Done
  BY Constant DEF Looked, Closing, InFlight, Sets, SetInv, SetEnds
<1>2. last \in Int /\ last \in Timestamp /\ Unset \in Int /\ Unset # Done
      /\ ready_timestamps_[i] \in Int /\ ready_timestamps_[i] \in Timestamp
  BY <1>0, Constant DEF HandlerTyped
<1>3. PreviousAllowedInStream(Done) = MaxTimestamp /\ MaxTimestamp \in Int
      /\ MaxTimestamp \in Carried /\ MaxTimestamp # Unset /\ MaxTimestamp # Done
  BY PreviousIs, Constant
<1>20. r.timestamp \in Timestamp /\ r.last \in Timestamp
  BY <1>0, <1>2, HandlerIs, ReadinessIs DEF ReadinessOf
<1>21. t \in Timestamp
  BY <1>0, <1>20, ReadyTimestampTyped
<1>4. CASE ~Fresh(i)
  <2>1. t = ready_timestamps_[i] /\ t # Unset
    BY <1>4 DEF ReadyTimestamp, Fresh
  <2>2. t # Done => MayFill(i, t) /\ (Processed => t <= last)
    BY <1>1, <2>1 DEF SetInv, SetWaits
  <2>3. t = Done => Ended(i)
    BY <1>1, <2>1 DEF SetInv, SetEnds
  <2>4. last <= last /\ (ready_timestamps_[i] = Done => t = Done)
    BY <1>2, <2>1
  <2>5. (IF Fresh(i) THEN r.last ELSE last) = last
    BY <1>4
  <2> HIDE DEF r, t
  <2>6. /\ t \in Timestamp /\ r.timestamp \in Timestamp
        /\ t \notin {Unset, Done} => MayFill(i, t) /\ (Processed => t <= last)
        /\ t = Done => Ended(i)
        /\ t = Done \/ ~Processed \/ last <= last
        /\ ready_timestamps_[i] = Done => t = Done
        /\ t = Unset => PreStream <= r.timestamp /\ r.timestamp < OneOverPostStream
    BY <1>20, <1>21, <2>1, <2>2, <2>3, <2>4
  <2> QED
    BY <2>5, <2>6 DEF r, t
<1>5. CASE Fresh(i)
  <2>1. ready_timestamps_[i] = Unset
    BY <1>5 DEF Fresh
  <2>2. /\ r.timestamp \in Timestamp /\ r.last \in Timestamp
        /\ \/ /\ r.readiness = "kReadyForProcess" /\ MayFill(i, r.timestamp) /\ r.last = r.timestamp
              /\ handler.process_timestamps => last < r.timestamp
           \/ /\ r.readiness = "kReadyForClose" /\ Ended(i) /\ r.last = MaxTimestamp
           \/ /\ r.readiness = "kNotReady" /\ r.timestamp < OneOverPostStream
              /\ r.last = last /\ r.timestamp >= PreStream
    BY <1>1, <1>2, <2>1, ReadinessSound
  <2>3. r.timestamp \in Int /\ r.last \in Int
    BY <2>2, Constant
  <2> HIDE DEF r
  <2>4. CASE r.readiness = "kReadyForProcess"
    <3>1. t = r.timestamp
      BY <1>5, <2>4 DEF ReadyTimestamp
    <3>2. MayFill(i, t) /\ r.last = t /\ (handler.process_timestamps => last < t) /\ t \in Int
      BY <2>2, <2>3, <2>4, <3>1
    <3>3. t # Done /\ t # Unset
      BY <3>2, Constant DEF MayFill
    <3>4. Processed => last <= t
      BY <1>2, <3>2 DEF Processed
    <3> HIDE DEF t
    <3> QED
      BY <1>5, <1>20, <1>21, <2>1, <1>2, <3>2, <3>3, <3>4 DEF r, t
  <2>5. CASE r.readiness = "kReadyForClose"
    <3>1. Ended(i) /\ r.last = MaxTimestamp
      BY <2>2, <2>5
    <3>2. CASE handler.process_timestamps /\ last < MaxTimestamp
      <4>1. t = MaxTimestamp
        BY <1>3, <1>5, <2>5, <3>2 DEF ReadyTimestamp
      <4>2. ASSUME NEW s \in StreamsOf(i)
            PROVE  Selected(s) < MaxTimestamp /\ Settled(stream[s], MaxTimestamp)
        <5>1. Processed
          BY <3>2 DEF Processed
        <5>2. Selected(s) <= Later(last, Unstarted) /\ Selected(s) \in Int /\ Frontier(s) \in Int
          BY <1>1, <1>2, <2>1, <5>1, SetIs DEF SetInv, SetLast
        <5>3. Unstarted < MaxTimestamp /\ Unstarted \in Int /\ OneOverPostStream > MaxTimestamp
              /\ OneOverPostStream \in Int
          BY Constant
        <5>4. Selected(s) < MaxTimestamp
          BY <1>2, <1>3, <3>2, <5>2, <5>3 DEF Later
        <5>5. Frontier(s) > MaxTimestamp
          BY <1>3, <3>1, <5>2, <5>3 DEF Ended
        <5> QED
          BY <5>4, <5>5 DEF Settled, Frontier
      <4>3. MayFill(i, MaxTimestamp)
        BY <1>3, <4>2 DEF MayFill
      <4>4. last <= MaxTimestamp /\ MaxTimestamp <= MaxTimestamp
        BY <1>2, <1>3, <3>2
      <4> HIDE DEF t
      <4> QED
        BY <1>3, <1>5, <1>20, <1>21, <2>1, <1>2, <3>1, <4>1, <4>3, <4>4 DEF r, t
    <3>3. CASE ~(handler.process_timestamps /\ last < MaxTimestamp)
      <4>1. t = Done
        BY <1>3, <1>5, <2>5, <3>3 DEF ReadyTimestamp
      <4> HIDE DEF t
      <4> QED
        BY <1>2, <1>20, <1>21, <3>1, <4>1 DEF r, t
    <3> QED
      BY <3>2, <3>3
  <2>6. CASE r.readiness = "kNotReady"
    <3>1. t = Unset
      BY <1>5, <2>6 DEF ReadyTimestamp
    <3>2. last <= r.last /\ PreStream <= r.timestamp /\ r.timestamp < OneOverPostStream
      BY <1>2, <2>2, <2>3, <2>6, Constant
    <3> HIDE DEF t
    <3> QED
      BY <1>2, <1>5, <1>20, <1>21, <2>1, <3>1, <3>2 DEF r, t
  <2> QED
    BY <2>2, <2>4, <2>5, <2>6
<1> QED
  BY <1>4, <1>5

LEMMA ImmediateSets ==
  ASSUME TInv, TInv', SeenSound, Sets, ImmediateReadiness
  PROVE  Sets' /\ CloseSound'
<1>0. handler \in Handlers /\ handler.kind = "immediate" /\ HandlerTyped /\ Looked
  BY DEF TInv, StreamsTyped, ImmediateReadiness
<1>10. PICK r, timestamps :
          /\ r = [i \in Indices |-> ReadinessOf(i)]
          /\ timestamps = [i \in Indices |-> ReadyTimestamp(i, r[i])]
          /\ ImmediateReadinessOf(r, timestamps)
  BY DEF ImmediateReadiness
<1> DEFINE readyAt(t) == {i \in Indices : timestamps[i] = t}
           waiting == readyAt(Unset)
           earliest == Min({Done} \cup {timestamps[i] : i \in Indices \ waiting})
           min_bound == Min({earliest} \cup {r[i].timestamp : i \in waiting})
           last(i) == IF Fresh(i) THEN r[i].last ELSE last_processed_ts_[i]
<1>1. /\ \/ min_bound = Done /\ ReadyForClose /\ ready' = {}
         \/ min_bound # Done /\ earliest < Done /\ FillAt(earliest, readyAt(earliest))
         \/ /\ min_bound # Done /\ earliest = Done
            /\ IF \E i \in Indices : BecameDone(i, r[i]) THEN FillAt(min_bound, readyAt(min_bound))
               ELSE NotReady(min_bound) /\ ready' = {}
      /\ ready_timestamps_' = timestamps
      /\ last_processed_ts_' = [i \in Indices |-> last(i)]
      /\ UNCHANGED <<handler, stream, sync_sets_>>
  BY <1>10 DEF ImmediateReadiness, ImmediateReadinessOf
<1>2. ASSUME NEW i \in Indices
      PROVE  /\ timestamps[i] \in Timestamp /\ r[i].timestamp \in Timestamp
             /\ timestamps[i] \notin {Unset, Done} =>
                  MayFill(i, timestamps[i]) /\ (Processed => timestamps[i] <= last(i))
             /\ timestamps[i] = Done => Ended(i)
             /\ timestamps[i] = Done \/ ~Processed \/ last_processed_ts_[i] <= last(i)
             /\ ready_timestamps_[i] = Done => timestamps[i] = Done
             /\ timestamps[i] = Unset =>
                  PreStream <= r[i].timestamp /\ r[i].timestamp < OneOverPostStream
  BY <1>0, <1>10, ImmediateSet
<1> HIDE DEF last
<1>3. /\ earliest \in Timestamp /\ earliest <= Done
      /\ earliest = Done \/ \E i \in Indices : timestamps[i] = earliest /\ timestamps[i] # Unset
      /\ \A i \in Indices : timestamps[i] # Unset => earliest <= timestamps[i]
  <2> DEFINE times == {timestamps[i] : i \in Indices \ waiting}
  <2>1. times \in SUBSET Timestamp
    BY <1>2
  <2>2. earliest \in {Done} \cup times /\ earliest \in Timestamp /\ earliest <= Done
        /\ \A t \in times : earliest <= t
    <3>1. earliest = Min({Done} \cup times)
      OBVIOUS
    <3> HIDE DEF times, earliest
    <3> QED
      BY <2>1, <3>1, TimestampsMin
  <2> QED
    BY <2>2
<1>4. /\ min_bound \in Timestamp /\ min_bound <= earliest
      /\ min_bound = earliest \/ \E i \in Indices : timestamps[i] = Unset /\ min_bound = r[i].timestamp
      /\ \A i \in Indices : timestamps[i] = Unset => min_bound <= r[i].timestamp
  <2> DEFINE bounds == {earliest} \cup {r[i].timestamp : i \in waiting}
  <2> HIDE DEF earliest
  <2>1. bounds \in SUBSET Timestamp /\ bounds # {}
    BY <1>2, <1>3
  <2>2. min_bound \in bounds /\ min_bound \in Timestamp /\ \A t \in bounds : min_bound <= t
    <3>1. min_bound = Min(bounds)
      OBVIOUS
    <3> HIDE DEF bounds, min_bound
    <3> QED
      BY <2>1, <3>1, TimestampMin
  <2> QED
    BY <2>2
<1> HIDE DEF earliest, min_bound
<1>5. earliest \in Int /\ min_bound \in Int /\ Done \in Int /\ Unset # Done
      /\ \A i \in Indices : timestamps[i] \in Int /\ r[i].timestamp \in Int
  BY <1>2, <1>3, <1>4, Constant
<1>6. pc = "look" /\ ~Closing
  BY <1>0 DEF Looked, Closing
<1>7. /\ Indices' = Indices /\ Used' = Used /\ \A i : StreamsOf(i)' = StreamsOf(i)
  BY <1>1, SameSets
<1>8. ASSUME min_bound = Done PROVE \A i \in Indices : Ended(i)
  <2>1. earliest = Done
    BY <1>3, <1>4, <1>5, <1>8
  <2>2. ASSUME NEW i \in Indices PROVE timestamps[i] = Done
    BY <1>2, <1>3, <1>4, <1>5, <1>8, <2>1, Constant
  <2> QED
    BY <1>2, <2>2
<1>9. ASSUME min_bound # Done, earliest = Done PROVE readyAt(min_bound) = {}
  <2>1. min_bound >= PreStream /\ min_bound < OneOverPostStream
    BY <1>2, <1>4, <1>9
  <2>2. ASSUME NEW i \in Indices, timestamps[i] = min_bound PROVE FALSE
    BY <1>3, <1>5, <1>9, <2>1, <2>2, Constant
  <2> QED
    BY <2>2
<1>11. ASSUME pc' = "pop"
       PROVE  /\ todo' = UNION {StreamsOf(i) : i \in ready'}
              /\ \A i \in ready' : i \in Indices /\ timestamps[i] \notin {Unset, Done}
                                   /\ timestamps[i] = input_timestamp'
  <2>1. CASE min_bound # Done /\ earliest < Done /\ FillAt(earliest, readyAt(earliest))
    BY <1>3, <1>5, <2>1 DEF FillAt, ReadyForProcess
  <2>2. CASE min_bound # Done /\ earliest = Done /\ FillAt(min_bound, readyAt(min_bound))
    BY <1>9, <2>2 DEF FillAt, ReadyForProcess
  <2> QED
    BY <1>1, <1>11, <2>1, <2>2 DEF ReadyForClose, NotReady
<1>12. ASSUME NEW i \in Indices PROVE SetInv(i)'
  <2>1. last_processed_ts_'[i] = last(i) /\ ready_timestamps_'[i] = timestamps[i]
    BY <1>1
  <2>2. SetInv(i) /\ i \in sync_sets_ /\ i \in sync_sets_'
    BY <1>0, <1>1 DEF Sets, SetInv, SetEnds
  <2>3. InFlight(i)' => /\ MayFill(i, input_timestamp') /\ StreamsOf(i) \in SUBSET todo'
                        /\ Processed => input_timestamp' <= last_processed_ts_'[i]
    BY <1>2, <1>11, <2>1 DEF InFlight
  <2>4. \/ Closing' \/ i \notin sync_sets_' \/ ready_timestamps_'[i] = Done \/ ~Processed
        \/ last_processed_ts_[i] <= last_processed_ts_'[i]
    BY <1>2, <2>1
  <2>5. ready_timestamps_'[i] \notin {Unset, Done} /\ ~Closing' =>
           /\ MayFill(i, ready_timestamps_'[i])
           /\ Processed => ready_timestamps_'[i] <= last_processed_ts_'[i]
    BY <1>2, <2>1
  <2>6. /\ sync_sets_' \in SUBSET sync_sets_ /\ (ready_timestamps_[i] = Done => ready_timestamps_'[i] = Done)
        /\ ready_timestamps_'[i] # Unset => handler.kind = "immediate"
        /\ i \notin sync_sets_' => handler.kind = "sync_set"
        /\ ready_timestamps_'[i] = Done \/ i \notin sync_sets_' => Ended(i)
    BY <1>0, <1>1, <1>2, <2>1, <2>2
  <2> QED
    BY <1>1, <1>6, <2>2, <2>3, <2>4, <2>5, <2>6, SetAfter
<1>13. Sets'
  BY <1>7, <1>11, <1>12 DEF Sets
<1>14. CloseSound'
  BY <1>1, <1>7, <1>8 DEF FillAt, ReadyForProcess, NotReady, Used, Ended, CloseSound, Frontier
<1> QED
  BY <1>13, <1>14

LEMMA SyncSetsSets ==
  ASSUME TInv, TInv', SeenSound, Sets, SyncSetsReadiness
  PROVE  Sets' /\ CloseSound'
<1>0. handler \in Handlers /\ handler.kind = "sync_set" /\ HandlerTyped /\ Looked
  BY DEF TInv, StreamsTyped, SyncSetsReadiness
<1>10. PICK r : r = [i \in sync_sets_ |-> ReadinessOf(i)] /\ SyncSetsReadinessOf(r)
  BY DEF SyncSetsReadiness
<1> DEFINE live == {i \in sync_sets_ : r[i].readiness # "kReadyForClose"}
           prepared == {i \in live : r[i].readiness = "kReadyForProcess"}
           earliest == Min({r[i].timestamp : i \in prepared})
           first == {i \in prepared : r[i].timestamp = earliest}
           chosen == Min(first)
<1>1. /\ \/ /\ prepared # {} /\ ready' = {chosen}
            /\ ReadyForProcess(earliest, handler.sync_sets[chosen])
         \/ prepared = {} /\ live = {} /\ ReadyForClose /\ ready' = {}
         \/ /\ prepared = {} /\ live # {} /\ ready' = {}
            /\ NotReady(r[Max(sync_sets_)].timestamp)
      /\ sync_sets_' = live
      /\ last_processed_ts_' = [i \in Indices |-> IF i \in sync_sets_ THEN r[i].last ELSE last_processed_ts_[i]]
      /\ UNCHANGED <<handler, stream, ready_timestamps_>>
  BY <1>10 DEF SyncSetsReadiness, SyncSetsReadinessOf
<1>2. \A i \in Indices : SetInv(i) /\ ready_timestamps_[i] = Unset
  BY <1>0 DEF Sets, SetInv, SetEnds
<1>3. Unset # Done /\ sync_sets_ \in SUBSET Indices
  BY <1>0, Constant DEF HandlerTyped
<1>4. ASSUME NEW i \in sync_sets_
      PROVE  /\ r[i].timestamp \in Timestamp /\ r[i].last \in Timestamp /\ i \in Indices
             /\ r[i].timestamp \in Int /\ r[i].last \in Int /\ last_processed_ts_[i] \in Int
             /\ \/ /\ r[i].readiness = "kReadyForProcess" /\ MayFill(i, r[i].timestamp)
                   /\ r[i].last = r[i].timestamp
                   /\ handler.process_timestamps => last_processed_ts_[i] < r[i].timestamp
                \/ /\ r[i].readiness = "kReadyForClose" /\ Ended(i)
                \/ /\ r[i].readiness = "kNotReady" /\ r[i].last = last_processed_ts_[i]
  BY <1>0, <1>2, <1>3, <1>10, ReadinessSound, Constant DEF HandlerTyped
<1>5. live \in SUBSET sync_sets_ /\ prepared \in SUBSET live
  OBVIOUS
<1>6. \A i \in sync_sets_ : i \notin live => r[i].readiness = "kReadyForClose"
  OBVIOUS
<1>7. \A i \in live : r[i].readiness # "kReadyForClose"
  OBVIOUS
<1>8. \A i \in prepared : r[i].readiness = "kReadyForProcess"
  OBVIOUS
<1>9. \A i \in live : i \notin prepared => r[i].readiness # "kReadyForProcess"
  OBVIOUS
<1> HIDE DEF live, prepared
<1>11. ASSUME prepared # {} PROVE chosen \in prepared /\ r[chosen].timestamp = earliest
  <2>1. {r[i].timestamp : i \in prepared} \in SUBSET Timestamp /\ {r[i].timestamp : i \in prepared} # {}
    BY <1>4, <1>5, <1>11
  <2>2. earliest \in {r[i].timestamp : i \in prepared}
    BY <2>1, TimestampMin
  <2>3. first # {}
    BY <2>2
  <2>4. first \in SUBSET Int /\ 1 \in Int /\ \A i \in first : 1 <= i
    <3>1. first \in SUBSET Indices
      BY <1>3, <1>5
    <3>2. Indices = 1 .. Len(handler.sync_sets) /\ Len(handler.sync_sets) \in Nat
      BY <1>0, HandlerIs, HandlersAssumption, LenProperties
    <3> HIDE DEF first
    <3> QED
      BY <3>1, <3>2
  <2>5. chosen \in first
    <3> HIDE DEF first
    <3> QED
      BY <2>3, <2>4, MinIs
  <2> QED
    BY <2>5
<1> HIDE DEF chosen, earliest
<1>12. /\ pc = "look" /\ ~Closing /\ Indices' = Indices /\ Used' = Used
       /\ \A i : StreamsOf(i)' = StreamsOf(i)
  BY <1>0, <1>1, SameSets DEF Looked, Closing
<1>13. ASSUME pc' = "pop"
       PROVE  /\ prepared # {} /\ ready' = {chosen} /\ todo' = StreamsOf(chosen)
              /\ input_timestamp' = earliest
  BY <1>1, <1>13 DEF ReadyForClose, NotReady, ReadyForProcess, StreamsOf
<1>14. ASSUME NEW i \in Indices PROVE SetInv(i)'
  <2>1. InFlight(i)' => /\ i \in prepared /\ input_timestamp' = r[i].timestamp /\ todo' = StreamsOf(i)
    BY <1>11, <1>13 DEF InFlight
  <2>2. last_processed_ts_'[i] = (IF i \in sync_sets_ THEN r[i].last ELSE last_processed_ts_[i])
        /\ last_processed_ts_[i] \in Int
    BY <1>0, <1>1, Constant DEF HandlerTyped
  <2>3. InFlight(i)' => /\ MayFill(i, input_timestamp') /\ StreamsOf(i) \in SUBSET todo'
                        /\ Processed => input_timestamp' <= last_processed_ts_'[i]
    <3>1. ASSUME i \in prepared
          PROVE  MayFill(i, r[i].timestamp) /\ r[i].timestamp <= last_processed_ts_'[i]
      BY <1>4, <1>5, <1>8, <2>2, <3>1
    <3> QED
      BY <2>1, <3>1
  <2>4. i \notin sync_sets_' \/ ~Processed \/ last_processed_ts_[i] <= last_processed_ts_'[i]
    BY <1>1, <1>4, <1>5, <1>7, <2>2 DEF Processed
  <2>5. i \notin sync_sets_' => Ended(i)
    BY <1>1, <1>2, <1>4, <1>6 DEF SetInv, SetEnds
  <2>6. ready_timestamps_'[i] = Unset /\ ready_timestamps_[i] = Unset /\ SetInv(i)
        /\ sync_sets_' \in SUBSET sync_sets_
    BY <1>1, <1>2, <1>5
  <2> QED
    BY <1>0, <1>1, <1>3, <1>12, <2>3, <2>4, <2>5, <2>6, SetAfter
<1>15. Sets'
  BY <1>12, <1>13, <1>14 DEF Sets
<1>16. CloseSound'
  <2>1. pc' = "close" => live = {}
    BY <1>1 DEF NotReady, ReadyForProcess
  <2>2. ASSUME live = {}, NEW i \in Indices PROVE Ended(i)
    BY <1>2, <1>4, <1>6, <2>2 DEF SetInv, SetEnds
  <2>3. pc' = "close" => \A s \in Used : Frontier(s) >= OneOverPostStream
    BY <2>1, <2>2 DEF Used, Ended
  <2> QED
    BY <1>1, <1>12, <2>3 DEF CloseSound, Frontier
<1> QED
  BY <1>15, <1>16

-----------------------------------------------------------------------------
(* Close(), and the handlers that erase nothing and have no offsets. *)

LEMMA ClosedRises ==
  ASSUME NEW h \in Handlers, NEW a, InOrder(h, a)
  PROVE  MinTimestampOrBound(a) <= MinTimestampOrBound(Close(a)) /\ Close(a).closed_
<1>1. a \in StreamRecords
  BY DEF InOrder
<1>2. Close(a).queue = a.queue /\ Close(a).next_timestamp_bound_ = Done /\ Close(a).closed_
  BY <1>1 DEF Close, StreamRecords
<1>3. MinTimestampOrBound(a) \in Int /\ MinTimestampOrBound(a) <= Done
  BY FrontIs, Constant
<1>4. CASE IsEmpty(a)
  BY <1>2, <1>3, <1>4 DEF MinTimestampOrBound, IsEmpty
<1>5. CASE ~IsEmpty(a)
  BY <1>2, <1>3, <1>5 DEF MinTimestampOrBound, IsEmpty
<1> QED
  BY <1>2, <1>4, <1>5

LEMMA CloseRises ==
  ASSUME TInv, TInv', Upstreams, CloseStream
  PROVE  /\ Upstreams' /\ Closing /\ Closing' /\ UNCHANGED <<handler, handlerVars, crashed, seen, surplus, erase_mutex_, notify>>
         /\ pc' = "close" => pc = "close"
         /\ \A s \in Streams : Frontier(s) <= Frontier(s)' /\ Frontier(s) \in Int /\ Frontier(s)' \in Int
<1>0. StreamsTyped /\ SchedulerTyped /\ handler \in Handlers
  BY DEF TInv, StreamsTyped
<1>1. PICK s : s = First
  OBVIOUS
<1>2. /\ pc = "close" /\ todo # {} /\ stream' = [stream EXCEPT ![s] = Close(stream[s])]
      /\ pc' \in {"close", "closed"}
      /\ UNCHANGED <<handler, upstreamVars, handlerVars, crashed, seen, surplus, erase_mutex_, notify>>
  BY <1>1 DEF CloseStream, surplusVars, upstreamVars
<1>3. s \in Streams
  BY <1>0, <1>1, <1>2, FirstIs DEF SchedulerTyped
<1>4. InOrder(handler, stream[s])
  BY <1>0, <1>3 DEF StreamsTyped
<1>5. stream'[s] = Close(stream[s]) /\ \A u \in Streams : u # s => stream'[u] = stream[u]
  BY <1>0, <1>2, <1>3 DEF StreamsTyped
<1>6. Closing /\ Closing'
  BY <1>2 DEF Closing
<1>7. Close(stream[s]).closed_ /\ MinTimestampOrBound(stream[s]) <= MinTimestampOrBound(Close(stream[s]))
  BY <1>0, <1>4, ClosedRises
<1>8. Upstreams'
  <2> DEFINE b == Close(stream[s])
  <2>1. b.closed_ /\ stream' = [stream EXCEPT ![s] = b]
    BY <1>2, <1>7
  <2> HIDE DEF b
  <2> QED
    BY <1>0, <1>2, <1>3, <1>6, <2>1, UpstreamsKept
<1>9. ASSUME NEW u \in Streams PROVE Frontier(u) <= Frontier(u)' /\ Frontier(u) \in Int /\ Frontier(u)' \in Int
  <2>1. Frontier(u) \in Int
    BY <1>0, StreamIs
  <2>2. InOrder(handler, stream'[u])
    BY <1>2 DEF TInv, StreamsTyped
  <2>3. Frontier(u)' \in Int
    BY <1>0, <2>2, FrontIs DEF Frontier
  <2>4. CASE u = s
    BY <1>5, <1>7, <2>1, <2>3, <2>4 DEF Frontier
  <2>5. CASE u # s
    BY <1>5, <2>1, <2>3, <2>5 DEF Frontier
  <2> QED
    BY <2>1, <2>3, <2>4, <2>5
<1> QED
  BY <1>2, <1>6, <1>8, <1>9

\* Streams that end stay so.
LEMMA ClosesSound ==
  ASSUME TInv, CloseSound, UNCHANGED handler, pc' = "close" => pc = "close",
         \A s \in Streams : Frontier(s) <= Frontier(s)' /\ Frontier(s) \in Int /\ Frontier(s)' \in Int
  PROVE  CloseSound'
<1>1. Used' = Used /\ OneOverPostStream \in Int /\ \A s \in Used : s \in Streams
  BY HandlerIs, SameSets, Constant DEF TInv, StreamsTyped
<1>2. ASSUME pc' = "close", handler.kind \notin {"early_close", "barrier", "mux"}, NEW s \in Used
      PROVE  Frontier(s)' >= OneOverPostStream
  BY <1>1, <1>2 DEF CloseSound
<1> QED
  BY <1>1, <1>2 DEF CloseSound

LEMMA SetsClose ==
  ASSUME TInv, TInv', Upstreams, Sets, CloseSound, CloseStream
  PROVE  Upstreams' /\ Sets' /\ CloseSound'
<1>1. /\ Upstreams' /\ Closing /\ Closing' /\ UNCHANGED <<handler, handlerVars>>
      /\ pc' = "close" => pc = "close"
      /\ \A s \in Streams : Frontier(s) <= Frontier(s)' /\ Frontier(s) \in Int /\ Frontier(s)' \in Int
  BY CloseRises
<1>2. CloseSound'
  BY <1>1, ClosesSound
<1>3. pc' # "pop"
  BY <1>1 DEF Closing
<1>4. ASSUME NEW i \in Indices PROVE SetInv(i)'
  <2>1. SetInv(i) /\ StreamsOf(i)' = StreamsOf(i)
    BY <1>1, SameSets DEF Sets
  <2>2. Ended(i) => Ended(i)'
    BY <1>1, <2>1, SetIs, Constant DEF Ended
  <2>3. SetKept(i)' /\ SetFlying(i)' /\ SetLast(i)' /\ SetWaits(i)'
    BY <1>1, <1>3 DEF SetKept, SetFlying, SetLast, SetWaits, InFlight
  <2>4. SetEnds(i)'
    BY <1>1, <2>1, <2>2 DEF SetInv, SetEnds, handlerVars
  <2> QED
    BY <2>3, <2>4 DEF SetInv
<1> QED
  BY <1>1, <1>2, <1>3, <1>4, SameSets DEF Sets

\* The steps in which no stream changes.
LEMMA StreamsRest ==
  ASSUME TInv, Upstreams, UNCHANGED <<stream, upstreamVars>>, ~Closing
  PROVE  Upstreams'
BY DEF Upstreams, upstreamVars

LEMMA UpstreamClose ==
  ASSUME TInv, TInv', CloseSound, Grown, UNCHANGED <<handler, pc>>
  PROVE  CloseSound'
<1>1. ASSUME NEW s \in Streams
      PROVE  Frontier(s) <= Frontier(s)' /\ Frontier(s) \in Int /\ Frontier(s)' \in Int
  BY FrontIs DEF TInv, StreamsTyped, Frontier, Grown, Grows
<1> QED
  BY <1>1, ClosesSound

PlainSets == handler.kind \in {"default", "early_close", "immediate", "sync_set"}

LEMMA SetsStep ==
  ASSUME TInv, TInv', Upstreams, SeenSound, Sets, CloseSound, Plain, PlainSets, Next, crashed = "none"
  PROVE  Upstreams' /\ SeenSound' /\ Sets' /\ CloseSound' /\ Plain' /\ crashed' = "none"
<1>0. /\ Plain'
      /\ ~(EraseSurplusStep \/ FillInputSet \/ Measure \/ LookAfterErasing \/ FixedSizeReadiness)
  BY PlainKept DEF PlainSets
<1>1. /\ ~MuxLooksAtControl /\ ~MuxLooksAtData /\ ~BarrierReadiness /\ ~AlignBeforeOffsets /\ ~AlignWithOffsets
      /\ Synced
  BY DEF MuxLooksAtControl, MuxLooksAtData, BarrierReadiness, AlignBeforeOffsets, AlignWithOffsets,
         PlainSets, Synced
<1>2. SeenSound'
  BY <1>0, <1>1, SeenKept
<1>3. ASSUME NEW s \in Streams, Upstream(s) PROVE Upstreams' /\ Sets' /\ CloseSound' /\ crashed' = "none"
  BY <1>3, UpstreamGrows, SetsGrow, UpstreamClose DEF PlainSets
<1>4. CASE StartScheduling \/ Look
  BY <1>0, <1>2, <1>4, SetsSame, StreamsRest DEF StartScheduling, Look, handlerVars, Closing, CloseSound
<1>5. CASE GetNodeReadiness
  <2>1. DefaultReadiness \/ EarlyCloseReadiness \/ ImmediateReadiness \/ SyncSetsReadiness
    BY <1>0, <1>1, <1>5 DEF GetNodeReadiness
  <2>2. UNCHANGED <<stream, upstreamVars, crashed>> /\ ~Closing
    BY <2>1 DEF DefaultReadiness, EarlyCloseReadiness, ImmediateReadiness, SyncSetsReadiness, Looked, Closing
  <2>3. Sets' /\ CloseSound'
    BY <2>1, DefaultSets, EarlyCloseSets, ImmediateSets, SyncSetsSets
  <2> QED
    BY <1>0, <1>2, <2>2, <2>3, StreamsRest
<1>6. CASE Pop
  BY <1>0, <1>1, <1>2, <1>6, SetsPop DEF Pop, CloseSound
<1>7. CASE Invoke
  BY <1>0, <1>2, <1>7, SetsInvoke, StreamsRest DEF Invoke, EndInvocation, Closing, CloseSound
<1>8. CASE CloseStream
  BY <1>0, <1>2, <1>8, CloseRises, SetsClose
<1> QED
  BY <1>0, <1>2, <1>3, <1>4, <1>5, <1>6, <1>7, <1>8 DEF Next, Schedule

-----------------------------------------------------------------------------
(* BarrierInputStreamHandler. *)

Allowed == pc = "pop" => IsAllowedInStream(input_timestamp)

LEMMA BarrierReady ==
  ASSUME TInv, BarrierReadiness
  PROVE  Allowed'
<1>0. handler \in Handlers /\ SchedulerTyped /\ Used \in SUBSET Streams /\ Used # {}
  BY HandlerIs DEF TInv, StreamsTyped
<1>1. PICK t : /\ t = Earlier(MinPacket(Used), MinBound(Used))
               /\ pc' = "pop" => (\A s \in Used : ~seen[s].empty) /\ input_timestamp' = t
  BY DEF BarrierReadiness, NotReady, ReadyForProcess, ReadyForClose
<1>2. ASSUME \A s \in Used : ~seen[s].empty PROVE t \in Carried
  <2>1. \A s \in Used : seen[s].empty = FALSE /\ seen[s].timestamp \in Carried /\ seen[s].timestamp \in Int
                        /\ seen[s].timestamp < Done
    BY <1>0, <1>2, HandlerIs, Constant DEF SchedulerTyped, Looks
  <2>2. /\ MinPacket(Used) \in {Done} \cup {seen[s].timestamp : s \in {s \in Used : seen[s].empty = FALSE}}
        /\ MinPacket(Used) \in Int /\ MinPacket(Used) <= Done
        /\ \A s \in Used : seen[s].empty = FALSE => MinPacket(Used) <= seen[s].timestamp
    BY <1>0, SeenIs DEF MinPacket
  <2>3. /\ MinBound(Used) \in {Done} \cup {seen[s].timestamp : s \in {s \in Used : seen[s].empty = TRUE}}
        /\ MinBound(Used) \in Int
    BY <1>0, SeenIs DEF MinBound
  <2>4. MinBound(Used) = Done /\ Done \in Int
    BY <2>1, <2>3, Constant
  <2>5. MinPacket(Used) # Done
    BY <1>0, <2>1, <2>2, <2>4
  <2>6. t = MinPacket(Used)
    BY <1>1, <2>2, <2>4 DEF Earlier
  <2> QED
    BY <2>1, <2>2, <2>5, <2>6
<1>3. \A u \in Carried : IsAllowedInStream(u)
  BY Constant DEF IsAllowedInStream
<1> QED
  BY <1>1, <1>2, <1>3 DEF Allowed, IsAllowedInStream

LEMMA BarrierPop ==
  ASSUME TInv, TInv', Upstreams, Allowed, Pop, handler.kind = "barrier"
  PROVE  Upstreams' /\ Allowed' /\ crashed' = "none"
<1>0. StreamsTyped /\ SchedulerTyped /\ handler \in Handlers
  BY DEF TInv, StreamsTyped
<1>1. PICK s : s = First
  OBVIOUS
<1>2. /\ pc = "pop" /\ todo # {} /\ crashed' = FailedCheck(s)
      /\ stream' = [stream EXCEPT ![s] = Popped(s)]
      /\ UNCHANGED <<handler, upstreamVars, pc, input_timestamp>>
  BY <1>1 DEF Pop
<1>3. s \in Streams
  BY <1>0, <1>1, <1>2, FirstIs DEF SchedulerTyped
<1>4. Popped(s) = PopQueueHead(stream[s])
  BY DEF Popped, OnlyErases
<1>5. /\ Popped(s).closed_ = stream[s].closed_
      /\ Popped(s).next_timestamp_bound_ = stream[s].next_timestamp_bound_
  BY <1>0, <1>3, <1>4 DEF StreamsTyped, InOrder, PopQueueHead, StreamRecords
<1>6. Upstreams'
  BY <1>0, <1>2, <1>3, <1>5, UpstreamsKept DEF Closing
<1>7. FailedCheck(s) = "none"
  BY <1>2 DEF FailedCheck, Allowed
<1> QED
  BY <1>2, <1>6, <1>7 DEF Allowed

LEMMA BarrierStep ==
  ASSUME TInv, TInv', Upstreams, SeenSound, Allowed, Plain, handler.kind = "barrier", Next, crashed = "none"
  PROVE  Upstreams' /\ SeenSound' /\ Allowed' /\ Plain' /\ crashed' = "none"
<1>0. /\ Plain'
      /\ ~(EraseSurplusStep \/ FillInputSet \/ Measure \/ LookAfterErasing \/ FixedSizeReadiness)
  BY PlainKept
<1>1. /\ ~MuxLooksAtControl /\ ~MuxLooksAtData /\ ~DefaultReadiness /\ ~EarlyCloseReadiness
      /\ ~ImmediateReadiness /\ ~SyncSetsReadiness /\ ~AlignBeforeOffsets /\ ~AlignWithOffsets
  BY DEF MuxLooksAtControl, MuxLooksAtData, DefaultReadiness, EarlyCloseReadiness, ImmediateReadiness,
         SyncSetsReadiness, AlignBeforeOffsets, AlignWithOffsets
<1>2. SeenSound'
  BY <1>0, <1>1, SeenKept
<1>3. ASSUME NEW s \in Streams, Upstream(s) PROVE Upstreams' /\ Allowed' /\ crashed' = "none"
  BY <1>3, UpstreamGrows DEF Allowed
<1>4. CASE StartScheduling \/ Look \/ Invoke
  BY <1>0, <1>2, <1>4, StreamsRest DEF StartScheduling, Look, Invoke, EndInvocation, Closing, Allowed
<1>5. CASE BarrierReadiness
  BY <1>0, <1>2, <1>5, StreamsRest, BarrierReady DEF BarrierReadiness, Looked, Closing
<1>6. CASE Pop
  BY <1>0, <1>2, <1>6, BarrierPop
<1>7. CASE CloseStream
  BY <1>0, <1>2, <1>7, CloseRises DEF Closing, Allowed
<1> QED
  BY <1>0, <1>1, <1>2, <1>3, <1>4, <1>5, <1>6, <1>7 DEF Next, Schedule, GetNodeReadiness

-----------------------------------------------------------------------------
(* What the invariants say of the properties. *)

LEMMA RefusedLeft ==
  ASSUME TInv, Upstreams, CloseSound
  PROVE  NothingRefused /\ NothingLeftBehind
<1>1. NothingRefused
  BY DEF Upstreams, NothingRefused
<1>2. ASSUME pc = "close", handler.kind \notin {"early_close", "barrier", "mux"}, NEW s \in Used
      PROVE  IsEmpty(stream[s]) /\ stream[s].next_timestamp_bound_ >= OneOverPostStream
  BY <1>2, HandlerIs, FinishedIs DEF CloseSound, TInv, StreamsTyped, Frontier
<1> QED
  BY <1>1, <1>2 DEF NothingLeftBehind

LEMMA OnceOfSets ==
  ASSUME TInv, Sets, handler.kind # "timestamp_align"
  PROVE  SelectedOnce
BY DEF SelectedOnce, Sets, TInv, HandlerTyped, SetInv, SetFlying, InFlight, Taken, Selected,
   SelectTimestamp

-----------------------------------------------------------------------------
(* Erased packets. *)

\* The packets on a stream come at its frontier or later.
LEMMA QueueAfter ==
  ASSUME NEW h \in Handlers, NEW a, InOrder(h, a), a.enable_timestamps_, NEW u \in Range(a.queue)
  PROVE  /\ MinTimestampOrBound(a) <= u /\ u \in Int /\ u \in Carried /\ u \in h.packets
         /\ MinTimestampOrBound(a) \in Int
<1>1. PICK i \in 1 .. Len(a.queue) : u = a.queue[i]
  BY Fields DEF Range
<1>2. /\ u \in Int /\ u \in Carried /\ u \in h.packets /\ Len(a.queue) \in Nat
      /\ MinTimestampOrBound(a) \in Int
  BY <1>1, Fields, FrontIs
<1>3. ~IsEmpty(a)
  BY <1>1, <1>2, FrontIs
<1>4. MinTimestampOrBound(a) = a.queue[1] /\ 1 \in 1 .. Len(a.queue)
  BY <1>3, FrontIs
<1>5. 1 < i => a.queue[1] < a.queue[i]
  BY <1>1, <1>4, Increases
<1> QED
  BY <1>1, <1>2, <1>4, <1>5

\* What is erased comes before the timestamp.
LEMMA EraseLoses ==
  ASSUME NEW h \in Handlers, NEW a, InOrder(h, a), NEW t \in Int,
         NEW u \in Range(a.queue) \ Range(ErasePacketsEarlierThan(a, t).queue)
  PROVE  u < t
<1> DEFINE b == ErasePacketsEarlierThan(a, t)
<1>1. PICK i \in 1 .. Len(a.queue) : u = a.queue[i]
  BY Fields DEF Range
<1>2. b.queue = From(a.queue, t) /\ InOrder(h, b)
  BY EraseInOrder
<1>3. PICK k : k = CountBefore(a.queue, t)
  OBVIOUS
<1>4. a.queue \in Seq(Carried) /\ Len(a.queue) \in Nat
  BY Fields
<1>5. /\ k \in 0 .. Len(a.queue) /\ Len(b.queue) = Len(a.queue) - k
      /\ \A j \in 1 .. Len(b.queue) : b.queue[j] = a.queue[j + k]
      /\ \A j \in 1 .. k : a.queue[j] < t
  BY <1>2, <1>3, <1>4, FromIs
<1>6. CASE i <= k
  BY <1>1, <1>5, <1>6
<1>7. CASE ~(i <= k)
  <2>1. i - k \in 1 .. Len(b.queue) /\ (i - k) + k = i
    BY <1>4, <1>5, <1>7
  <2>2. b.queue[i - k] = a.queue[(i - k) + k]
    BY <1>5, <2>1
  <2>3. b.queue[i - k] = u
    BY <1>1, <2>1, <2>2
  <2>4. DOMAIN b.queue = 1 .. Len(b.queue)
    BY <1>2, Fields
  <2>5. u \in Range(b.queue)
    BY <2>1, <2>3, <2>4 DEF Range
  <2> QED
    BY <2>5
<1> QED
  BY <1>6, <1>7

\* Erase, on a stream of the handler.
LEMMA StreamErased ==
  ASSUME TInv, NEW s \in Streams, NEW t \in Int, handler.kind # "barrier",
         stream' = [stream EXCEPT ![s] = ErasePacketsEarlierThan(stream[s], t)]
  PROVE  /\ \A u \in Streams : Rises(stream[u], stream'[u])
         /\ \A u \in Streams : stream'[u].closed_ = stream[u].closed_
         /\ \A u \in Streams : u # s => stream'[u] = stream[u]
         /\ \A u \in Streams : Selected(u)' = Selected(u) /\ Frontier(u) <= Frontier(u)'
         /\ UNCHANGED upstreamVars /\ ~Closing /\ ~Closing' /\ Upstreams => Upstreams'
<1>0. StreamsTyped /\ handler \in Handlers /\ \A u \in Streams : InOrder(handler, stream[u])
  BY DEF TInv, StreamsTyped
<1> DEFINE b == ErasePacketsEarlierThan(stream[s], t)
<1>1. InOrder(handler, stream[s]) /\ stream[s].enable_timestamps_
  BY <1>0, StreamIs
<1>2. /\ b.next_timestamp_bound_ = stream[s].next_timestamp_bound_ /\ b.closed_ = stream[s].closed_
      /\ b.last_select_timestamp_ = stream[s].last_select_timestamp_
      /\ MinTimestampOrBound(stream[s]) <= MinTimestampOrBound(b)
  BY <1>0, <1>1, EraseIs
<1>3. stream' = [stream EXCEPT ![s] = b]
  OBVIOUS
<1> HIDE DEF b
<1>4. stream'[s] = b /\ \A u \in Streams : u # s => stream'[u] = stream[u]
  BY <1>0, <1>3 DEF StreamsTyped
<1>5. \A u \in Streams : Rises(stream[u], stream'[u]) /\ stream'[u].closed_ = stream[u].closed_
  BY <1>0, <1>2, <1>4, GrowsSame DEF Rises
<1>6. UNCHANGED upstreamVars /\ ~Closing /\ ~Closing' /\ Upstreams => Upstreams'
  BY <1>0, <1>2, <1>3, UpstreamsKept
<1>7. \A u \in Streams : Selected(u)' = Selected(u) /\ Frontier(u) <= Frontier(u)'
  BY <1>5 DEF Rises, Selected, Frontier
<1> QED
  BY <1>4, <1>5, <1>6, <1>7

-----------------------------------------------------------------------------
(* MuxInputStreamHandler. *)

ErasedBefore(t) == \A s \in Used : \A e \in erased[s] : e < t

\* The control stream was selected last of all the streams, and what it selected has not
\* been erased.
MuxOrder == ~Closing => \A s \in Used : Selected(s) <= Selected(Control)
MuxErased ==
  Selected(Control) \in handler.packets =>
    Selected(Control) \notin erased[DataStream(Selected(Control))]
MuxRest ==
  pc # "pop" /\ ~Closing =>
    /\ Selected(Control) < Frontier(Control)
    /\ Selected(Control) \in handler.packets => Selected(Control) < Frontier(DataStream(Selected(Control)))
    /\ ErasedBefore(Frontier(Control))
\* The control stream is looked at before the stream it selects.
MuxLook ==
  /\ pc = "idle" => ready = {}
  /\ pc = "look" =>
       IF ready = {} THEN todo \in SUBSET {Control} /\ \A s \in Streams \ {Control} : seen[s] = NothingSeen[s]
       ELSE ~seen[Control].empty /\ todo \in SUBSET {DataStream(seen[Control].timestamp)}
\* FillInputSet pops the control stream, then the one it selects, then it erases from the others.
MuxPop ==
  LET t == input_timestamp
      data == DataStream(t)
  IN pc = "pop" =>
       /\ t \in handler.packets
       /\ data \in todo => /\ Settled(stream[data], t) /\ Selected(data) < t
                           /\ \A e \in erased[data] : e < t
       /\ data \notin todo => t < Frontier(data)
       /\ Control \in todo =>
            /\ ~IsEmpty(stream[Control]) /\ Frontier(Control) = t /\ Selected(Control) < t
            /\ data \in todo /\ ErasedBefore(t)
       /\ Control \notin todo =>
            /\ Selected(Control) = t /\ NextAllowedInStream(t) <= Frontier(Control)
            /\ ErasedBefore(NextAllowedInStream(t))
Muxed == MuxOrder /\ MuxErased /\ MuxRest /\ MuxLook /\ MuxPop

\* The names that do not change, and the types.
LEMMA MuxSame ==
  ASSUME TInv, TInv', handler.kind = "mux", UNCHANGED handler
  PROVE  /\ Control' = Control /\ Used' = Used /\ Control \in Used /\ Control \in Streams
         /\ \A t : DataStream(t)' = DataStream(t)
         /\ \A t \in handler.packets : DataStream(t) \in Used /\ DataStream(t) # Control
         /\ Used \in SUBSET Streams /\ handler.packets \in SUBSET Carried /\ handler \in Handlers
         /\ \A s \in Streams : /\ InOrder(handler, stream[s]) /\ stream[s].enable_timestamps_
                               /\ Frontier(s) \in Int /\ Frontier(s)' \in Int
                               /\ Selected(s) \in Int /\ Selected(s)' \in Int
         /\ \A t \in Carried : /\ t \in Int /\ t \in Timestamp /\ NextAllowedInStream(t) \in Int
                               /\ t < NextAllowedInStream(t) /\ IsAllowedInStream(t)
         /\ \A s \in Streams : erased[s] \in SUBSET Int
<1>1. handler \in Handlers /\ Used \in SUBSET Streams /\ handler.packets \in SUBSET Carried
  BY HandlerIs DEF TInv, StreamsTyped
<1>2. Control' = Control /\ Used' = Used /\ \A t : DataStream(t)' = DataStream(t)
  BY DEF Control, Used, Indices, StreamsOf, DataStream
<1>3. /\ Control \in Used /\ Control \in Streams
      /\ \A t \in handler.packets : DataStream(t) \in Used /\ DataStream(t) # Control
  <2>1. Streams \in SUBSET Int
    BY StreamsAssumption
  <2>2. Control \in Used /\ Control \in Streams
    BY <1>1, MuxIs
  <2>3. ASSUME NEW t \in handler.packets PROVE DataStream(t) \in Used /\ DataStream(t) # Control
    BY <1>1, <2>1, <2>2, MuxIs
  <2> QED
    BY <2>2, <2>3
<1>4. ASSUME NEW s \in Streams
      PROVE  /\ InOrder(handler, stream[s]) /\ stream[s].enable_timestamps_
             /\ Frontier(s) \in Int /\ Frontier(s)' \in Int
             /\ Selected(s) \in Int /\ Selected(s)' \in Int
  BY <1>1, FrontIs DEF TInv, StreamsTyped, InOrder, Frontier, Selected
<1>5. ASSUME NEW t \in Carried
      PROVE  /\ t \in Int /\ t \in Timestamp /\ NextAllowedInStream(t) \in Int
             /\ t < NextAllowedInStream(t) /\ IsAllowedInStream(t)
  BY Constant, NextIs DEF IsAllowedInStream
<1>6. \A s \in Streams : erased[s] \in SUBSET Int
  BY <1>5 DEF TInv, HandlerTyped
<1> QED
  BY <1>1, <1>2, <1>3, <1>4, <1>5, <1>6

\* A step in which streams only grow, and the thread does nothing.
LEMMA MuxGrows ==
  ASSUME TInv, TInv', handler.kind = "mux", Muxed, Grown,
         UNCHANGED <<handler, pc, todo, seen, input_timestamp, ready, erased>>
  PROVE  Muxed'
<1>1. /\ Control' = Control /\ Used' = Used /\ Control \in Used /\ Control \in Streams
      /\ \A t : DataStream(t)' = DataStream(t)
      /\ \A t \in handler.packets : DataStream(t) \in Used /\ DataStream(t) # Control
      /\ Used \in SUBSET Streams /\ handler.packets \in SUBSET Carried /\ handler \in Handlers
      /\ \A s \in Streams : /\ InOrder(handler, stream[s])
                            /\ Frontier(s) \in Int /\ Frontier(s)' \in Int
                            /\ Selected(s) \in Int /\ Selected(s)' \in Int
      /\ \A t \in Carried : t \in Int /\ NextAllowedInStream(t) \in Int
      /\ \A s \in Streams : erased[s] \in SUBSET Int
  BY MuxSame
<1>2. \A s \in Streams : /\ Selected(s)' = Selected(s) /\ Frontier(s) <= Frontier(s)'
                         /\ ~IsEmpty(stream[s]) => ~IsEmpty(stream'[s]) /\ Frontier(s)' = Frontier(s)
  BY DEF Grown, Grows, Selected, Frontier
<1>3. ASSUME NEW s \in Streams, NEW t \in Int, Settled(stream[s], t) PROVE Settled(stream'[s], t)
  BY <1>1, <1>3, GrownIs DEF TInv, StreamsTyped, Grown
<1>4. Closing' = Closing
  BY DEF Closing
<1>5. MuxOrder'
  BY <1>1, <1>2, <1>4 DEF Muxed, MuxOrder
<1>6. MuxErased'
  BY <1>1, <1>2 DEF Muxed, MuxErased
<1>7. MuxRest'
  <2> SUFFICES ASSUME pc # "pop", ~Closing
               PROVE  /\ Selected(Control) < Frontier(Control)'
                      /\ Selected(Control) \in handler.packets =>
                           Selected(Control) < Frontier(DataStream(Selected(Control)))'
                      /\ \A s \in Used : \A e \in erased[s] : e < Frontier(Control)'
    BY <1>1, <1>2, <1>4 DEF MuxRest, ErasedBefore
  <2>1. /\ Selected(Control) < Frontier(Control)
        /\ Selected(Control) \in handler.packets => Selected(Control) < Frontier(DataStream(Selected(Control)))
        /\ ErasedBefore(Frontier(Control))
    BY DEF Muxed, MuxRest
  <2>2. Selected(Control) < Frontier(Control)'
    BY <1>1, <1>2, <2>1
  <2>3. ASSUME Selected(Control) \in handler.packets, NEW d \in Streams, d = DataStream(Selected(Control))
        PROVE  Selected(Control) < Frontier(d)'
    BY <1>1, <1>2, <2>1, <2>3
  <2>4. ASSUME NEW s \in Used, NEW e \in erased[s] PROVE e < Frontier(Control)'
    BY <1>1, <1>2, <2>1 DEF ErasedBefore
  <2>5. Selected(Control) \in handler.packets =>
          Selected(Control) < Frontier(DataStream(Selected(Control)))'
    <3>1. ASSUME Selected(Control) \in handler.packets
          PROVE  Selected(Control) < MinTimestampOrBound(stream'[DataStream(Selected(Control))])
      BY <1>1, <2>3, <3>1 DEF Frontier
    <3>2. DataStream(Selected(Control))' = DataStream(Selected(Control))
      BY <1>1, <1>2 DEF DataStream
    <3> QED
      BY <3>1, <3>2 DEF Frontier
  <2> QED
    BY <2>2, <2>4, <2>5
<1>8. MuxLook'
  BY <1>1 DEF Muxed, MuxLook, NothingSeen
<1>9. MuxPop'
  <2> SUFFICES ASSUME pc = "pop"
               PROVE  MuxPop'
    BY DEF MuxPop
  <2>1. PICK t, d : t = input_timestamp /\ d = DataStream(t)
    OBVIOUS
  <2>2. /\ t \in handler.packets
        /\ d \in todo => Settled(stream[d], t) /\ Selected(d) < t /\ \A e \in erased[d] : e < t
        /\ d \notin todo => t < Frontier(d)
        /\ Control \in todo =>
             /\ ~IsEmpty(stream[Control]) /\ Frontier(Control) = t /\ Selected(Control) < t
             /\ d \in todo /\ ErasedBefore(t)
        /\ Control \notin todo =>
             /\ Selected(Control) = t /\ NextAllowedInStream(t) <= Frontier(Control)
             /\ ErasedBefore(NextAllowedInStream(t))
    BY <2>1 DEF Muxed, MuxPop
  <2>3. d \in Streams /\ t \in Int /\ NextAllowedInStream(t) \in Int
    BY <1>1, <2>1, <2>2
  <2>4. \A u : ErasedBefore(u)' <=> ErasedBefore(u)
    BY <1>1 DEF ErasedBefore
  <2>5. /\ d \in todo => Settled(stream'[d], t) /\ Selected(d)' < t
        /\ d \notin todo => t < Frontier(d)'
    BY <1>1, <1>2, <1>3, <2>2, <2>3
  <2>6. Control \in todo =>
             /\ ~IsEmpty(stream'[Control]) /\ Frontier(Control)' = t /\ Selected(Control)' < t
             /\ d \in todo /\ ErasedBefore(t)
    BY <1>1, <1>2, <2>2
  <2>7. Control \notin todo =>
             /\ Selected(Control)' = t /\ NextAllowedInStream(t) <= Frontier(Control)'
             /\ ErasedBefore(NextAllowedInStream(t))
    BY <1>1, <1>2, <2>2, <2>3
  <2>8. DataStream(input_timestamp)' = d /\ input_timestamp' = t /\ Control' = Control
    BY <1>1, <2>1
  <2>9. /\ d \in todo' => Settled(stream'[d], t) /\ Selected(d)' < t /\ \A e \in erased'[d] : e < t
        /\ d \notin todo' => t < Frontier(d)'
        /\ Control' \in todo' =>
             /\ ~IsEmpty(stream'[Control']) /\ Frontier(Control)' = t /\ Selected(Control)' < t
             /\ d \in todo' /\ ErasedBefore(t)'
        /\ Control' \notin todo' =>
             /\ Selected(Control)' = t /\ NextAllowedInStream(t) <= Frontier(Control)'
             /\ ErasedBefore(NextAllowedInStream(t))'
    BY <2>2, <2>4, <2>5, <2>6, <2>7, <2>8
  <2> QED
    BY <2>2, <2>8, <2>9 DEF MuxPop, ErasedBefore, Frontier, Selected
<1> QED
  BY <1>5, <1>6, <1>7, <1>8, <1>9 DEF Muxed

\* What the thread knows of the control packet it has seen.
LEMMA MuxSees ==
  ASSUME TInv, SeenSound, handler.kind = "mux", ~seen[Control].empty, pc \in {"look"}
  PROVE  LET t == seen[Control].timestamp
         IN  /\ t \in handler.packets /\ Frontier(Control) = t /\ ~IsEmpty(stream[Control])
             /\ DataStream(t) \in Used /\ DataStream(t) # Control /\ DataStream(t) \in Streams
             /\ Control \in Streams /\ t \in Int
<1>1. handler \in Handlers /\ Control \in Streams
  BY MuxIs DEF TInv, StreamsTyped
<1>2. Sight(Control) /\ seen[Control].timestamp \in handler.packets
  BY <1>1 DEF SeenSound, TInv, SchedulerTyped
<1>3. PICK t : t = seen[Control].timestamp
  OBVIOUS
<1>4. t \in handler.packets /\ handler.packets \in SUBSET Int /\ Streams \in SUBSET Int
  BY <1>1, <1>2, <1>3, HandlerIs, StreamsAssumption
<1>5. DataStream(t) \in Used /\ DataStream(t) \in Streams /\ DataStream(t) < Control
  BY <1>1, <1>4, MuxIs
<1>6. DataStream(t) # Control
  BY <1>1, <1>4, <1>5
<1> QED
  BY <1>1, <1>2, <1>3, <1>4, <1>5, <1>6 DEF Sight

\* The steps of the thread in which no stream changes and it does not pop.
LEMMA MuxStarts ==
  ASSUME TInv, TInv', handler.kind = "mux", SeenSound, Muxed, StartScheduling \/ Look
  PROVE  Muxed'
<1>1. /\ UNCHANGED <<handler, stream, ready, erased, input_timestamp>> /\ pc \in {"idle", "look"} /\ pc' = "look"
      /\ ~Closing /\ ~Closing'
  BY DEF StartScheduling, Look, Limited, handlerVars, Closing
<1>2. /\ Control' = Control /\ Used' = Used /\ Control \in Used /\ Control \in Streams
      /\ \A t : DataStream(t)' = DataStream(t)
      /\ \A t \in handler.packets : DataStream(t) \in Used /\ DataStream(t) # Control
      /\ \A s : Selected(s)' = Selected(s) /\ Frontier(s)' = Frontier(s)
  BY <1>1, MuxSame DEF Selected, Frontier
<1>3. MuxOrder' /\ MuxErased' /\ MuxPop'
  BY <1>1, <1>2 DEF Muxed, MuxOrder, MuxErased, MuxPop
<1>4. MuxRest'
  BY <1>1, <1>2 DEF Muxed, MuxRest, ErasedBefore
<1>5. MuxLook'
  <2>1. CASE StartScheduling
    BY <1>1, <1>2, <2>1 DEF StartScheduling, StreamsToLookAt, Limited, Muxed, MuxLook, SeenSound, NothingSeen
  <2>2. CASE Look
    <3>1. PICK s : s = First
      OBVIOUS
    <3>2. todo # {} /\ pc = "look" /\ todo' = todo \ {s}
          /\ \E look : seen' = [seen EXCEPT ![s] = look]
      BY <2>2, <3>1 DEF Look
    <3>3. s \in todo
      BY <3>1, <3>2, FirstIs DEF TInv, StreamsTyped, SchedulerTyped
    <3>4. \A u \in Streams : u # s => seen'[u] = seen[u]
      BY <3>2 DEF TInv, SchedulerTyped
    <3>5. CASE ready = {}
      BY <1>1, <1>2, <3>2, <3>3, <3>4, <3>5 DEF Muxed, MuxLook, NothingSeen
    <3>6. CASE ready # {}
      BY <1>1, <1>2, <3>2, <3>3, <3>4, <3>6, MuxSees DEF Muxed, MuxLook, DataStream
    <3> QED
      BY <3>5, <3>6
  <2> QED
    BY <2>1, <2>2
<1> QED
  BY <1>3, <1>4, <1>5 DEF Muxed

\* The outdated packets of the stream that the control packet selects are erased.
LEMMA MuxControls ==
  ASSUME TInv, TInv', Upstreams, SeenSound, Muxed, MuxLooksAtControl
  PROVE  Upstreams' /\ SeenSound' /\ Muxed' /\ crashed' = crashed
<1>0. /\ handler.kind = "mux" /\ pc = "look" /\ ready = {} /\ todo = {} /\ ~Closing
      /\ UNCHANGED <<handler, upstreamVars, crashed>>
  BY DEF MuxLooksAtControl, Looked, Closing
<1>1. /\ Control' = Control /\ Used' = Used /\ Control \in Used /\ Control \in Streams
      /\ \A t : DataStream(t)' = DataStream(t)
      /\ \A t \in handler.packets : DataStream(t) \in Used /\ DataStream(t) # Control
      /\ Used \in SUBSET Streams /\ handler.packets \in SUBSET Carried /\ handler \in Handlers
      /\ \A s \in Streams : /\ InOrder(handler, stream[s]) /\ stream[s].enable_timestamps_
                            /\ Frontier(s) \in Int /\ Frontier(s)' \in Int
                            /\ Selected(s) \in Int /\ Selected(s)' \in Int
      /\ \A t \in Carried : t \in Int
      /\ \A s \in Streams : erased[s] \in SUBSET Int
  BY <1>0, MuxSame
<1>2. /\ \A s \in Used : Selected(s) <= Selected(Control)
      /\ Selected(Control) \in handler.packets => Selected(Control) \notin erased[DataStream(Selected(Control))]
      /\ Selected(Control) < Frontier(Control)
      /\ Selected(Control) \in handler.packets => Selected(Control) < Frontier(DataStream(Selected(Control)))
      /\ ErasedBefore(Frontier(Control))
      /\ \A s \in Streams \ {Control} : seen[s] = NothingSeen[s]
  BY <1>0 DEF Muxed, MuxOrder, MuxErased, MuxRest, MuxLook
<1>3. CASE UNCHANGED <<stream, ready, erased>> /\ (ReadyForClose \/ NotReady(seen[Control].timestamp))
  <2>1. pc' \in {"idle", "close"} /\ seen' = NothingSeen
    BY <1>3 DEF ReadyForClose, NotReady
  <2>2. \A s : Selected(s)' = Selected(s) /\ Frontier(s)' = Frontier(s)
    BY <1>3 DEF Selected, Frontier
  <2>3. MuxOrder' /\ MuxErased'
    BY <1>0, <1>1, <1>2, <1>3, <2>2 DEF MuxOrder, MuxErased
  <2>4. MuxRest'
    BY <1>0, <1>1, <1>2, <1>3, <2>2 DEF MuxRest, ErasedBefore
  <2>5. MuxLook' /\ MuxPop'
    BY <1>0, <1>3, <2>1 DEF MuxLook, MuxPop
  <2>6. Upstreams'
    BY <1>0, <1>3, StreamsRest
  <2>7. SeenSound'
    BY <2>1, NotLookingThen DEF TInv
  <2> QED
    BY <1>0, <2>3, <2>4, <2>5, <2>6, <2>7 DEF Muxed
<1>4. CASE /\ ~seen[Control].empty
           /\ Erase(DataStream(seen[Control].timestamp), seen[Control].timestamp)
           /\ todo' = {DataStream(seen[Control].timestamp)} /\ ready' = {1}
           /\ UNCHANGED <<pc, seen, input_timestamp, input_bound>>
  <2>1. PICK t, d : t = seen[Control].timestamp /\ d = DataStream(t)
    OBVIOUS
  <2>2. /\ t \in handler.packets /\ Frontier(Control) = t /\ ~IsEmpty(stream[Control])
        /\ d \in Used /\ d # Control /\ d \in Streams /\ t \in Int
    BY <1>0, <1>4, <2>1, MuxSees
  <2>3. /\ stream' = [stream EXCEPT ![d] = ErasePacketsEarlierThan(stream[d], t)]
        /\ erased' = [erased EXCEPT ![d] = erased[d] \cup {u \in Range(stream[d].queue) : u < t}]
        /\ todo' = {d} /\ ready' = {1} /\ UNCHANGED <<pc, seen, input_timestamp>>
    BY <1>4, <2>1 DEF Erase
  <2>4. ~Closing'
    BY <1>0, <2>3 DEF Closing
  <2>5. /\ \A u \in Streams : u # d => stream'[u] = stream[u]
        /\ \A u \in Streams : Selected(u)' = Selected(u) /\ Frontier(u) <= Frontier(u)'
        /\ Upstreams'
    BY <1>0, <2>2, <2>3, <2>4, StreamErased
  <2>6. stream'[Control] = stream[Control] /\ Frontier(Control)' = t
    BY <1>1, <2>2, <2>5 DEF Frontier
  <2>7. erased'[d] = erased[d] \cup {u \in Range(stream[d].queue) : u < t}
        /\ \A s \in Streams : s # d => erased'[s] = erased[s]
    BY <2>2, <2>3 DEF TInv, HandlerTyped
  <2>8. MuxOrder'
    BY <1>1, <1>2, <2>5 DEF MuxOrder
  <2>9. MuxErased'
    <3> SUFFICES ASSUME Selected(Control) \in handler.packets
                 PROVE  Selected(Control) \notin erased'[DataStream(Selected(Control))]
      BY <1>0, <1>1, <2>5 DEF MuxErased
    <3>1. PICK c, e : c = Selected(Control) /\ e = DataStream(c)
      OBVIOUS
    <3>2. c \notin erased[e] /\ c < Frontier(e) /\ e \in Streams /\ c \in Int
      BY <1>1, <1>2, <3>1
    <3>3. ASSUME e = d PROVE c \notin Range(stream[d].queue)
      BY <1>1, <2>2, <3>2, <3>3, QueueAfter DEF Frontier
    <3> QED
      BY <2>7, <3>1, <3>2, <3>3
  <2>10. MuxRest'
    <3>1. Selected(Control)' = Selected(Control) /\ Selected(Control) < Frontier(Control)'
      BY <1>1, <1>2, <2>2, <2>5, <2>6
    <3>2. ASSUME NEW c, c = Selected(Control), c \in handler.packets
          PROVE  c < Frontier(DataStream(c))'
      BY <1>1, <1>2, <2>5, <3>2 DEF Frontier
    <3>3. ASSUME NEW s \in Used, NEW e \in erased'[s] PROVE e < Frontier(Control)'
      BY <1>1, <1>2, <2>2, <2>6, <2>7 DEF ErasedBefore
    <3>4. PICK c : c = Selected(Control)
      OBVIOUS
    <3>5. c \in handler.packets => c < Frontier(DataStream(c))'
      BY <3>2, <3>4
    <3>6. Selected(Control)' = c
      BY <3>1, <3>4
    <3> QED
      BY <1>0, <1>1, <3>1, <3>3, <3>4, <3>5, <3>6 DEF MuxRest, ErasedBefore, Selected, Frontier
  <2>11. MuxLook' /\ MuxPop'
    BY <1>0, <1>1, <1>4, <2>1, <2>3 DEF MuxLook, MuxPop
  <2>12. SeenSound'
    <3>1. \A s \in Streams : Sight(s)
      BY <1>0 DEF SeenSound
    <3>2. ASSUME NEW s \in Streams PROVE Sight(s)'
      <4>1. CASE s # d
        BY <2>3, <2>5, <3>1, <4>1 DEF Sight, Frontier
      <4>2. CASE s = d
        <5>1. seen'[s].empty = TRUE /\ seen'[s].timestamp = -3
          BY <1>2, <2>2, <2>3, <4>2, NothingSeenIs
        <5>2. Frontier(s)' \in Int /\ Frontier(s)' >= -3
          BY <1>0, <1>1, FrontIs, Constant DEF TInv, StreamsTyped, Frontier
        <5> QED
          BY <5>1, <5>2 DEF Sight
      <4> QED
        BY <4>1, <4>2
    <3> QED
      BY <1>0, <2>3, <3>2 DEF SeenSound
  <2> QED
    BY <1>0, <2>5, <2>8, <2>9, <2>10, <2>11, <2>12 DEF Muxed
<1>5. \/ UNCHANGED <<stream, ready, erased>> /\ (ReadyForClose \/ NotReady(seen[Control].timestamp))
      \/ /\ ~seen[Control].empty
         /\ Erase(DataStream(seen[Control].timestamp), seen[Control].timestamp)
         /\ todo' = {DataStream(seen[Control].timestamp)} /\ ready' = {1}
         /\ UNCHANGED <<pc, seen, input_timestamp, input_bound>>
  BY DEF MuxLooksAtControl
<1> QED
  BY <1>3, <1>4, <1>5

\* The stream that the control packet selects has been looked at.
LEMMA MuxReady ==
  ASSUME TInv, TInv', Upstreams, SeenSound, Muxed, MuxLooksAtData, crashed = "none"
  PROVE  Upstreams' /\ Muxed' /\ crashed' \in {"none", MuxCheck}
<1>0. /\ handler.kind = "mux" /\ pc = "look" /\ ready # {} /\ ready' = {} /\ ~Closing
      /\ UNCHANGED <<handler, stream, upstreamVars, erased>>
  BY DEF MuxLooksAtData, Looked, Closing
<1>1. /\ Control' = Control /\ Used' = Used /\ Control \in Used /\ Control \in Streams
      /\ \A t : DataStream(t)' = DataStream(t)
      /\ \A s \in Streams : Frontier(s) \in Int /\ Selected(s) \in Int
      /\ \A s : Selected(s)' = Selected(s) /\ Frontier(s)' = Frontier(s)
      /\ Used \in SUBSET Streams
  BY <1>0, MuxSame DEF Selected, Frontier
<1>2. /\ \A s \in Used : Selected(s) <= Selected(Control)
      /\ Selected(Control) \in handler.packets => Selected(Control) \notin erased[DataStream(Selected(Control))]
      /\ Selected(Control) < Frontier(Control)
      /\ Selected(Control) \in handler.packets => Selected(Control) < Frontier(DataStream(Selected(Control)))
      /\ ErasedBefore(Frontier(Control))
      /\ ~seen[Control].empty
  BY <1>0 DEF Muxed, MuxOrder, MuxErased, MuxRest, MuxLook
<1>3. PICK t, d : t = seen[Control].timestamp /\ d = DataStream(t)
  OBVIOUS
<1>4. /\ t \in handler.packets /\ Frontier(Control) = t /\ ~IsEmpty(stream[Control])
      /\ d \in Used /\ d # Control /\ d \in Streams /\ t \in Int
  BY <1>0, <1>2, <1>3, MuxSees
<1>5. Upstreams'
  BY <1>0, StreamsRest
<1>6. CASE pc' = "idle" /\ crashed' \in {"none", MuxCheck}
  <2>1. ~Closing' /\ pc' # "pop" /\ pc' # "look"
    BY <1>6 DEF Closing
  <2>2. MuxOrder' /\ MuxErased'
    BY <1>0, <1>1, <1>2 DEF MuxOrder, MuxErased
  <2>3. MuxRest'
    BY <1>0, <1>1, <1>2 DEF MuxRest, ErasedBefore
  <2>4. MuxLook' /\ MuxPop'
    BY <1>0, <2>1 DEF MuxLook, MuxPop
  <2> QED
    BY <1>5, <1>6, <2>2, <2>3, <2>4 DEF Muxed
<1>7. CASE /\ ~(~seen[d].empty /\ seen[d].timestamp < t) /\ ~(seen[d].empty /\ seen[d].timestamp <= t)
           /\ ReadyForProcess(t, Used) /\ crashed' = "none"
  <2>1. pc' = "pop" /\ input_timestamp' = t /\ todo' = Used
    BY <1>7 DEF ReadyForProcess
  <2>2. Settled(stream[d], t)
    <3>1. Sight(d)
      BY <1>0, <1>4 DEF SeenSound
    <3>2. seen[d].timestamp \in Int /\ Frontier(d) \in Int
      BY <1>1, <1>4, Constant DEF TInv, SchedulerTyped, Looks
    <3>3. CASE seen[d].empty
      BY <1>4, <1>7, <3>1, <3>2, <3>3 DEF Sight, Settled, Frontier
    <3>4. CASE ~seen[d].empty
      BY <1>4, <1>7, <3>1, <3>2, <3>4 DEF Sight, Settled, Frontier
    <3> QED
      BY <3>3, <3>4
  <2>3. Selected(Control) < t /\ Selected(d) < t
    BY <1>1, <1>2, <1>4
  <2>4. ErasedBefore(t) /\ \A e \in erased[d] : e < t
    BY <1>2, <1>4 DEF ErasedBefore
  <2>5. MuxOrder' /\ MuxErased'
    BY <1>0, <1>1, <1>2 DEF MuxOrder, MuxErased
  <2>6. MuxRest' /\ MuxLook'
    BY <2>1 DEF MuxRest, MuxLook
  <2>7. MuxPop'
    <3>1. DataStream(input_timestamp)' = d /\ ErasedBefore(input_timestamp)' /\ d \in todo' /\ Control' \in todo'
      BY <1>0, <1>1, <1>3, <1>4, <2>1, <2>4 DEF DataStream, ErasedBefore
    <3>2. Settled(stream'[d], t) /\ Selected(d)' < t /\ \A e \in erased'[d] : e < t
      BY <1>0, <1>1, <2>2, <2>3, <2>4
    <3>3. ~IsEmpty(stream'[Control']) /\ Frontier(Control)' = t /\ Selected(Control)' < t
      BY <1>0, <1>1, <1>4, <2>3
    <3> QED
      BY <1>0, <1>1, <1>4, <2>1, <3>1, <3>2, <3>3 DEF MuxPop, Selected, Frontier
  <2> QED
    BY <1>5, <1>7, <2>5, <2>6, <2>7 DEF Muxed
<1>8. \/ pc' = "idle" /\ crashed' \in {"none", MuxCheck}
      \/ /\ ~(~seen[d].empty /\ seen[d].timestamp < t) /\ ~(seen[d].empty /\ seen[d].timestamp <= t)
         /\ ReadyForProcess(t, Used) /\ crashed' = "none"
  BY <1>3 DEF MuxLooksAtData, NotReady, MuxCheck
<1> QED
  BY <1>6, <1>7, <1>8

\* Which stream a mux pops, and how.
LEMMA MuxFirst ==
  ASSUME TInv, TInv', handler.kind = "mux", Muxed, pc = "pop", todo # {}, NEW s, s = First,
         NEW t, t = input_timestamp, NEW d, d = DataStream(t)
  PROVE  /\ s \in todo /\ s \in Used /\ s \in Streams
         /\ Control \in todo => s = Control
         /\ Control \notin todo /\ d \in todo => s = d
         /\ Control \notin todo /\ d \notin todo => s # Control /\ s # d
         /\ OnlyErases(s) <=> s \notin {Control, d}
         /\ SelectTimestamp(s) = t /\ IsAllowedInStream(t)
<1>1. handler \in Handlers /\ todo \in SUBSET Used /\ t \in handler.packets /\ Used \in SUBSET Streams
      /\ (Control \in todo => d \in todo) /\ handler.packets \in SUBSET Carried
  BY HandlerIs DEF TInv, StreamsTyped, SchedulerTyped, Muxed, MuxPop
<1>2. s \in todo /\ s \in Used /\ s \in Streams
  BY <1>1, FirstIs
<1>3. /\ Control \in Streams /\ d \in Streams /\ d < Control /\ Streams \in SUBSET Int
  BY <1>1, MuxIs, StreamsAssumption
<1>4. PICK selected : selected = {Control, d} \cap todo
  OBVIOUS
<1>5. selected # {} => s = Max(selected) /\ Max(selected) \in selected /\ \A u \in selected : u <= Max(selected)
  BY <1>3, <1>4, SetMin DEF First
<1>6. Control \in todo => s = Control
  BY <1>3, <1>4, <1>5
<1>7. Control \notin todo /\ d \in todo => s = d
  BY <1>4, <1>5
<1>8. Control \notin todo /\ d \notin todo => s # Control /\ s # d
  BY <1>2
<1>9. OnlyErases(s) <=> s \notin {Control, d}
  BY DEF OnlyErases
<1>10. SelectTimestamp(s) = t /\ IsAllowedInStream(t)
  BY <1>1, Constant DEF SelectTimestamp, IsAllowedInStream
<1> QED
  BY <1>2, <1>6, <1>7, <1>8, <1>9, <1>10

\* MuxPop after a step, with the names of the step.
LEMMA MuxPopThen ==
  ASSUME NEW t, NEW d, input_timestamp' = t, DataStream(input_timestamp)' = d, Control' = Control,
         t \in handler.packets, handler' = handler,
         d \in todo' => Settled(stream'[d], t) /\ Selected(d)' < t /\ \A e \in erased'[d] : e < t,
         d \notin todo' => t < Frontier(d)',
         Control \in todo' =>
           /\ ~IsEmpty(stream'[Control]) /\ Frontier(Control)' = t /\ Selected(Control)' < t
           /\ d \in todo' /\ ErasedBefore(t)',
         Control \notin todo' =>
           /\ Selected(Control)' = t /\ NextAllowedInStream(t) <= Frontier(Control)'
           /\ ErasedBefore(NextAllowedInStream(t))'
  PROVE  MuxPop'
BY DEF Selected, Frontier, MuxPop, ErasedBefore

\* FillInputSet takes the control packet and the packet it selects, and erases from the others.
LEMMA MuxTakes ==
  ASSUME TInv, TInv', Upstreams, Muxed, Pop, handler.kind = "mux"
  PROVE  Upstreams' /\ Muxed' /\ crashed' = "none"
<1>0. StreamsTyped /\ SchedulerTyped /\ HandlerTyped /\ handler \in Handlers /\ UNCHANGED handler
  BY DEF TInv, StreamsTyped, Pop
<1>1. PICK s, t, d : s = First /\ t = input_timestamp /\ d = DataStream(t)
  OBVIOUS
<1>2. /\ pc = "pop" /\ todo # {} /\ crashed' = FailedCheck(s)
      /\ stream' = [stream EXCEPT ![s] = Popped(s)]
      /\ erased' = IF OnlyErases(s)
                   THEN [erased EXCEPT ![s] = erased[s] \cup (Range(stream[s].queue) \ Range(Popped(s).queue))]
                   ELSE erased
      /\ todo' = todo \ {s}
      /\ UNCHANGED <<handler, upstreamVars, pc, input_timestamp>>
  BY <1>1 DEF Pop
<1>3. /\ s \in todo /\ s \in Used /\ s \in Streams
      /\ Control \in todo => s = Control
      /\ Control \notin todo /\ d \in todo => s = d
      /\ Control \notin todo /\ d \notin todo => s # Control /\ s # d
      /\ OnlyErases(s) <=> s \notin {Control, d}
      /\ SelectTimestamp(s) = t /\ IsAllowedInStream(t)
  BY <1>1, <1>2, MuxFirst
<1>4. /\ Control' = Control /\ Used' = Used /\ Control \in Used /\ Control \in Streams
      /\ \A u : DataStream(u)' = DataStream(u)
      /\ \A u \in handler.packets : DataStream(u) \in Used /\ DataStream(u) # Control
      /\ Used \in SUBSET Streams /\ handler.packets \in SUBSET Carried
      /\ \A u \in Streams : /\ InOrder(handler, stream[u]) /\ stream[u].enable_timestamps_
                            /\ Frontier(u) \in Int /\ Frontier(u)' \in Int
                            /\ Selected(u) \in Int /\ Selected(u)' \in Int
      /\ \A u \in Carried : /\ u \in Int /\ u \in Timestamp /\ NextAllowedInStream(u) \in Int
                            /\ u < NextAllowedInStream(u)
      /\ \A u \in Streams : erased[u] \in SUBSET Int
  BY <1>2, MuxSame
<1>5. /\ t \in handler.packets
      /\ d \in todo => Settled(stream[d], t) /\ Selected(d) < t /\ \A e \in erased[d] : e < t
      /\ d \notin todo => t < Frontier(d)
      /\ Control \in todo =>
           /\ ~IsEmpty(stream[Control]) /\ Frontier(Control) = t /\ Selected(Control) < t
           /\ d \in todo /\ ErasedBefore(t)
      /\ Control \notin todo =>
           /\ Selected(Control) = t /\ NextAllowedInStream(t) <= Frontier(Control)
           /\ ErasedBefore(NextAllowedInStream(t))
  BY <1>1, <1>2 DEF Muxed, MuxPop
<1>6. t \in Int /\ t \in Timestamp /\ NextAllowedInStream(t) \in Int /\ t < NextAllowedInStream(t)
      /\ d \in Used /\ d \in Streams /\ d # Control
  BY <1>1, <1>4, <1>5
<1>7. ~Closing /\ ~Closing' /\ MuxRest' /\ MuxLook'
  BY <1>2 DEF Closing, MuxRest, MuxLook
<1>8. \A u \in Used : Selected(u) <= Selected(Control)
  BY <1>7 DEF Muxed, MuxOrder
\* The stream is popped at the input timestamp, or loses the packets up to it.
<1>9. ASSUME s \in {Control, d}
      PROVE  /\ Popped(s) = PopPacketAtTimestamp(stream[s], t) /\ ~OnlyErases(s)
             /\ Settled(stream[s], t) /\ Selected(s) < t
             /\ s = Control => ~IsEmpty(stream[s]) /\ MinTimestampOrBound(stream[s]) = t
  BY <1>2, <1>3, <1>5, <1>6, <1>9 DEF Popped, Settled, Frontier
<1>10. ASSUME s \in {Control, d}
       PROVE  /\ Popped(s).next_timestamp_bound_ = stream[s].next_timestamp_bound_
              /\ Popped(s).closed_ = stream[s].closed_ /\ Popped(s).last_select_timestamp_ = t
              /\ MinTimestampOrBound(Popped(s)) > t
              /\ s = Control => MinTimestampOrBound(Popped(s)) >= NextAllowedInStream(t)
              /\ ~DropsPackets(stream[s], t)
  BY <1>0, <1>3, <1>4, <1>6, <1>9, <1>10, PopSettled
<1>11. ASSUME s \notin {Control, d}
       PROVE  /\ Popped(s) = ErasePacketsEarlierThan(stream[s], NextAllowedInStream(t)) /\ OnlyErases(s)
              /\ Popped(s).next_timestamp_bound_ = stream[s].next_timestamp_bound_
              /\ Popped(s).closed_ = stream[s].closed_
              /\ Popped(s).last_select_timestamp_ = stream[s].last_select_timestamp_
              /\ \A u \in Range(stream[s].queue) \ Range(Popped(s).queue) : u < NextAllowedInStream(t)
  BY <1>0, <1>1, <1>2, <1>3, <1>4, <1>6, <1>11, EraseIs, EraseLoses DEF Popped, OnlyErases
<1>12. /\ Popped(s).closed_ = stream[s].closed_
       /\ Popped(s).next_timestamp_bound_ = stream[s].next_timestamp_bound_
  BY <1>10, <1>11
<1>13. Upstreams'
  BY <1>0, <1>2, <1>3, <1>7, <1>12, UpstreamsKept
<1>14. crashed' = "none"
  <2>1. FailedCheck(s) = "none"
    <3>1. CASE OnlyErases(s)
      BY <1>1, <1>3, <3>1 DEF FailedCheck, OnlyErases
    <3>2. CASE ~OnlyErases(s)
      <4>1. ~(stream[s].last_select_timestamp_ > t) /\ ~DropsPackets(stream[s], t)
        BY <1>3, <1>4, <1>6, <1>9, <1>10, <3>2 DEF Selected
      <4>2. s = Control => MinTimestampOrBound(stream[s]) = t
        BY <1>3, <1>9
      <4> QED
        BY <1>1, <1>3, <3>2, <4>1, <4>2 DEF FailedCheck
    <3> QED
      BY <3>1, <3>2
  <2> QED
    BY <1>2, <2>1
<1>15. stream'[s] = Popped(s) /\ \A u \in Streams : u # s => stream'[u] = stream[u]
  BY <1>0, <1>2, <1>3 DEF StreamsTyped
<1>16. /\ \A u \in Streams : u # s => Selected(u)' = Selected(u) /\ Frontier(u)' = Frontier(u)
       /\ Selected(s)' = Popped(s).last_select_timestamp_ /\ Frontier(s)' = MinTimestampOrBound(Popped(s))
  BY <1>15 DEF Selected, Frontier
<1>17. DataStream(input_timestamp)' = d /\ input_timestamp' = t /\ pc' = "pop"
  BY <1>1, <1>2, <1>4
<1>18. CASE s = Control
  <2>1. erased' = erased /\ Selected(Control)' = t /\ NextAllowedInStream(t) <= Frontier(Control)'
    BY <1>2, <1>4, <1>6, <1>9, <1>10, <1>16, <1>18
  <2>2. s # d /\ d \in todo' /\ Control \notin todo' /\ Control \in todo /\ d \in todo
    BY <1>2, <1>3, <1>5, <1>6, <1>18
  <2>3. \A u \in Used : Selected(u)' <= Selected(Control)'
    <3> SUFFICES ASSUME NEW u \in Used PROVE Selected(u)' <= t
      BY <2>1
    <3>1. CASE u = s
      BY <1>6, <1>10, <1>16, <1>18, <3>1
    <3>2. CASE u # s
      BY <1>4, <1>5, <1>6, <1>8, <1>16, <2>2, <3>2
    <3> QED
      BY <3>1, <3>2
  <2>4. MuxOrder'
    BY <1>4, <2>3 DEF MuxOrder
  <2>5. MuxErased'
    BY <1>1, <1>4, <1>5, <1>6, <2>1, <2>2 DEF MuxErased, Selected, DataStream
  <2>6. MuxPop'
    <3>1. Settled(stream'[d], t) /\ Selected(d)' < t /\ \A e \in erased'[d] : e < t
      BY <1>5, <1>6, <1>15, <1>16, <2>1, <2>2
    <3>2. ErasedBefore(NextAllowedInStream(t))'
      <4>1. ASSUME NEW u \in Used, NEW e \in erased[u] PROVE e < NextAllowedInStream(t)
        BY <1>4, <1>5, <1>6, <2>2 DEF ErasedBefore
      <4> QED
        BY <1>4, <2>1, <4>1 DEF ErasedBefore
    <3> QED
      BY <1>0, <1>4, <1>5, <1>17, <2>1, <2>2, <3>1, <3>2, MuxPopThen
  <2> QED
    BY <1>7, <1>13, <1>14, <2>4, <2>5, <2>6 DEF Muxed
<1>19. CASE s # Control
  <2>1. /\ Control \notin todo /\ Control \notin todo' /\ Selected(Control) = t /\ Selected(Control)' = t
        /\ NextAllowedInStream(t) <= Frontier(Control)' /\ ErasedBefore(NextAllowedInStream(t))
    BY <1>2, <1>3, <1>4, <1>5, <1>16, <1>19
  <2>2. Selected(s)' <= t
    <3>1. CASE s = d
      BY <1>6, <1>10, <1>16, <3>1
    <3>2. CASE s # d
      BY <1>3, <1>8, <1>11, <1>16, <1>19, <2>1, <3>2 DEF Selected
    <3> QED
      BY <3>1, <3>2
  <2>3. \A u \in Used : Selected(u)' <= t
    BY <1>4, <1>8, <1>16, <2>1, <2>2
  <2>4. MuxOrder'
    BY <1>4, <2>1, <2>3 DEF MuxOrder
  <2>5. /\ \A e \in erased'[s] : e \in erased[s] \/ e < NextAllowedInStream(t)
        /\ \A u \in Streams : u # s => erased'[u] = erased[u]
        /\ s = d => erased' = erased
    <3>1. CASE s = d
      BY <1>2, <1>9, <3>1
    <3>2. CASE s # d
      BY <1>0, <1>2, <1>3, <1>11, <1>19, <3>2 DEF HandlerTyped
    <3> QED
      BY <3>1, <3>2
  <2>6. MuxErased'
    BY <1>1, <1>4, <1>5, <1>6, <2>1, <2>5 DEF Muxed, MuxErased, Selected, DataStream
  <2>7. MuxPop'
    <3>1. d \notin todo' /\ t < Frontier(d)'
      BY <1>2, <1>3, <1>5, <1>6, <1>10, <1>16, <2>1
    <3>2. ErasedBefore(NextAllowedInStream(t))'
      <4>1. ASSUME NEW u \in Used, NEW e \in erased'[u] PROVE e < NextAllowedInStream(t)
        BY <1>4, <2>1, <2>5 DEF ErasedBefore
      <4> QED
        BY <1>4, <4>1 DEF ErasedBefore
    <3> QED
      BY <1>0, <1>4, <1>5, <1>17, <2>1, <3>1, <3>2, MuxPopThen
  <2> QED
    BY <1>7, <1>13, <1>14, <2>4, <2>6, <2>7 DEF Muxed
<1> QED
  BY <1>18, <1>19

LEMMA MuxEnds ==
  ASSUME TInv, TInv', Upstreams, Muxed, Invoke, handler.kind = "mux"
  PROVE  Upstreams' /\ Muxed' /\ crashed' = crashed
<1>0. /\ pc = "pop" /\ todo = {} /\ pc' = "idle" /\ ready' = {}
      /\ UNCHANGED <<handler, stream, upstreamVars, erased, crashed>>
  BY DEF Invoke, EndInvocation
<1>1. ~Closing /\ ~Closing'
  BY <1>0 DEF Closing
<1>2. /\ Control' = Control /\ Used' = Used /\ Control \in Streams
      /\ \A u : DataStream(u)' = DataStream(u)
      /\ \A s : Selected(s)' = Selected(s) /\ Frontier(s)' = Frontier(s)
      /\ handler.packets \in SUBSET Carried /\ \A s \in Streams : erased[s] \in SUBSET Int
      /\ \A u \in Carried : u \in Int /\ NextAllowedInStream(u) \in Int /\ u < NextAllowedInStream(u)
      /\ \A s \in Streams : Frontier(s) \in Int /\ Selected(s) \in Int
      /\ Used \in SUBSET Streams
  BY <1>0, MuxSame DEF Selected, Frontier
<1>3. PICK t, d : t = input_timestamp /\ d = DataStream(t)
  OBVIOUS
<1>4. /\ t \in handler.packets /\ t < Frontier(d) /\ Selected(Control) = t
      /\ NextAllowedInStream(t) <= Frontier(Control) /\ ErasedBefore(NextAllowedInStream(t))
  BY <1>0, <1>3 DEF Muxed, MuxPop
<1>5. MuxOrder' /\ MuxErased' /\ MuxLook' /\ MuxPop'
  BY <1>0, <1>1, <1>2 DEF Muxed, MuxOrder, MuxErased, MuxLook, MuxPop
<1>6. MuxRest'
  <2>1. t < Frontier(Control) /\ ErasedBefore(Frontier(Control))
    <3>1. t \in Int /\ NextAllowedInStream(t) \in Int /\ t < NextAllowedInStream(t) /\ Frontier(Control) \in Int
      BY <1>2, <1>4
    <3>2. ASSUME NEW u \in Used, NEW e \in erased[u] PROVE e < Frontier(Control)
      BY <1>2, <1>4, <3>1 DEF ErasedBefore
    <3> QED
      BY <1>4, <3>1, <3>2 DEF ErasedBefore
  <2> QED
    BY <1>0, <1>2, <1>3, <1>4, <2>1 DEF MuxRest, ErasedBefore
<1>7. Upstreams'
  BY <1>0, <1>1, StreamsRest
<1> QED
  BY <1>0, <1>5, <1>6, <1>7 DEF Muxed

\* Close() selects the streams at Done, which no packet carries.
LEMMA MuxCloses ==
  ASSUME TInv, TInv', Upstreams, Muxed, CloseStream, handler.kind = "mux"
  PROVE  Upstreams' /\ Muxed' /\ crashed' = crashed
<1>0. /\ Upstreams' /\ Closing' /\ UNCHANGED <<handler, handlerVars, crashed>> /\ erased' = erased
  BY CloseRises DEF CloseStream
<1>1. pc' \in {"close", "closed"}
  BY <1>0 DEF Closing
<1>2. MuxOrder' /\ MuxRest' /\ MuxLook' /\ MuxPop'
  BY <1>0, <1>1 DEF MuxOrder, MuxRest, MuxLook, MuxPop
<1>3. MuxErased'
  <2>1. /\ Control' = Control /\ Control \in Streams /\ \A u : DataStream(u)' = DataStream(u)
        /\ handler.packets \in SUBSET Carried /\ handler \in Handlers /\ InOrder(handler, stream[Control])
    BY <1>0, MuxSame
  <2>2. PICK s : s = First
    OBVIOUS
  <2>3. stream' = [stream EXCEPT ![s] = Close(stream[s])] /\ s \in Streams
    BY <2>1, <2>2, FirstIs DEF CloseStream, TInv, SchedulerTyped
  <2>4. Selected(Control)' = Selected(Control) \/ Selected(Control)' = Done
    BY <2>1, <2>3 DEF InOrder, Close, StreamRecords, Selected, TInv, StreamsTyped
  <2>5. Done \notin handler.packets
    BY <2>1, Constant
  <2>6. PICK c : c = Selected(Control)'
    OBVIOUS
  <2>7. c \in handler.packets => c \notin erased[DataStream(c)]
    BY <2>4, <2>5, <2>6 DEF Muxed, MuxErased
  <2> QED
    BY <1>0, <2>1, <2>6, <2>7 DEF MuxErased, DataStream
<1> QED
  BY <1>0, <1>2, <1>3 DEF Muxed

LEMMA MuxStep ==
  ASSUME TInv, TInv', Upstreams, SeenSound, Muxed, Plain, handler.kind = "mux", Next, crashed = "none"
  PROVE  Upstreams' /\ SeenSound' /\ Muxed' /\ Plain' /\ crashed' \in {"none", MuxCheck}
<1>0. /\ Plain'
      /\ ~(EraseSurplusStep \/ FillInputSet \/ Measure \/ LookAfterErasing \/ FixedSizeReadiness)
  BY PlainKept
<1>1. /\ ~DefaultReadiness /\ ~EarlyCloseReadiness /\ ~BarrierReadiness
      /\ ~ImmediateReadiness /\ ~SyncSetsReadiness /\ ~AlignBeforeOffsets /\ ~AlignWithOffsets
  BY DEF DefaultReadiness, EarlyCloseReadiness, ImmediateReadiness, BarrierReadiness,
         SyncSetsReadiness, AlignBeforeOffsets, AlignWithOffsets
<1>2. ~MuxLooksAtControl => SeenSound'
  BY <1>0, SeenKept
<1>3. ASSUME NEW s \in Streams, Upstream(s) PROVE Upstreams' /\ Muxed' /\ crashed' = crashed
  BY <1>3, UpstreamGrows, MuxGrows DEF handlerVars
<1>4. CASE StartScheduling \/ Look
  BY <1>0, <1>2, <1>4, MuxStarts, StreamsRest DEF StartScheduling, Look, Closing, MuxLooksAtControl, Looked
<1>5. CASE MuxLooksAtControl
  BY <1>0, <1>5, MuxControls
<1>6. CASE MuxLooksAtData
  BY <1>0, <1>2, <1>6, MuxReady DEF MuxLooksAtControl, MuxLooksAtData
<1>7. CASE Pop \/ Invoke \/ CloseStream
  <2>1. ~MuxLooksAtControl
    BY <1>7 DEF MuxLooksAtControl, Looked, Pop, Invoke, EndInvocation, CloseStream
  <2> QED
    BY <1>0, <1>2, <1>7, <2>1, MuxTakes, MuxEnds, MuxCloses
<1>8. CASE \E s \in Streams : Upstream(s)
  <2>1. ~MuxLooksAtControl \/ SeenSound'
    BY MuxControls
  <2> QED
    BY <1>0, <1>2, <1>3, <1>8, <2>1
<1> QED
  BY <1>0, <1>1, <1>4, <1>5, <1>6, <1>7, <1>8 DEF Next, Schedule, GetNodeReadiness

LEMMA MuxSound ==
  ASSUME TInv, Muxed, handler.kind = "mux"
  PROVE  SelectedOnce /\ ErasedEverywhere
<1>1. ErasedEverywhere
  BY DEF Muxed, MuxErased, ErasedEverywhere, Selected
<1>2. SelectedOnce
  BY DEF SelectedOnce, SelectTimestamp, OnlyErases, Muxed, MuxPop, Selected
<1> QED
  BY <1>1, <1>2

-----------------------------------------------------------------------------
(* TimestampAlignInputStreamHandler. *)

Off(s) == timestamp_offsets_[s]

\* The timestamps of the packets are so few that none is shifted out of the range.
Spread(h) == h.packets \subseteq 0 .. MaxTime /\ \A t, u, v \in h.packets : t + u - v < MaxTime

\* The bounds that may come of the packets.
Fits(b) == b = PreStream \/ b >= OneOverPostStream \/ \E v \in handler.packets : b = v \/ b = v + 1
Bounded == ~Closing => \A s \in Streams : Fits(stream[s].next_timestamp_bound_)

\* The frontier of a stream, and what was selected of it, shifted to the base stream.
Shifted(s) == IF IsRangeValue(Frontier(s)) THEN Frontier(s) + Off(s) ELSE Frontier(s)
Behind(s, t) == Selected(s) = Unstarted \/ Selected(s) + Off(s) < t
NotAfter(s, t) == Selected(s) = Unstarted \/ Selected(s) + Off(s) <= t

\* Shifted by their offsets, all the streams are at b or after it.
From0(s, b) ==
  b - Off(s) >= 0 /\ (Frontier(s) >= b - Off(s) \/ (Frontier(s) = PreStream /\ b = 0 /\ Off(s) = 0))
ShiftTaken(s) ==
  /\ input_timestamp - Off(s) <= MaxTime
  /\ IF s \in todo THEN Settled(stream[s], input_timestamp - Off(s)) /\ Behind(s, input_timestamp)
     ELSE NotAfter(s, input_timestamp) /\ input_timestamp < Shifted(s)

AlignOffsets == Off(Base) = 0 /\ \A s \in Used : \A v \in handler.packets : v + Off(s) < MaxTime
AlignBefore ==
  ~offsets_initialized_ /\ ~Closing =>
    /\ \A s \in Used \ {Base} : Selected(s) = Unstarted
    /\ pc # "pop" => Selected(Base) < Frontier(Base)
    /\ pc = "pop" => todo \subseteq {Base} /\ Taken(Base)
AlignSpread ==
  offsets_initialized_ /\ ~Closing =>
    /\ \A s, u \in Used : \A v \in handler.packets : v + Off(u) - Off(s) < MaxTime
    /\ \E b \in 0 .. MaxTime : (\A s \in Used : From0(s, b)) /\ (pc = "pop" => b <= input_timestamp)
AlignAfter ==
  offsets_initialized_ /\ ~Closing =>
    /\ pc # "pop" => \A s, u \in Used : Behind(s, Shifted(u))
    /\ pc = "pop" => \A s \in Used : ShiftTaken(s)
NotSynced == sync_sets_ = Indices /\ \A i \in Indices : ready_timestamps_[i] = Unset
Aligns ==
  /\ NotSynced /\ Bounded /\ AlignOffsets /\ AlignBefore /\ AlignSpread /\ AlignAfter
  /\ pc = "pop" => input_timestamp \in 0 .. MaxTime

LEMMA SpreadIs ==
  ASSUME NEW h \in Handlers, Spread(h)
  PROVE  \A v \in h.packets : /\ v \in Int /\ v >= 0 /\ v < MaxTime /\ v + 1 <= MaxTime
                              /\ NextAllowedInStream(v) = v + 1 /\ IsRangeValue(v) /\ v \in Timestamp
BY Constant, NextIs DEF Spread, IsRangeValue

\* The nodes upstream raise a bound to a packet, past one or to Done.
LEMMA FitsKept ==
  ASSUME TInv, Upstreams, Spread(handler), NEW s \in Streams, Upstream(s), Bounded
  PROVE  Bounded'
<1>0. StreamsTyped /\ handler \in Handlers
  BY DEF TInv, StreamsTyped
<1>1. UNCHANGED <<handler, pc>>
  BY UpstreamGrows
<1>2. SUFFICES ASSUME ~Closing, NEW u \in Streams
               PROVE  Fits(stream'[u].next_timestamp_bound_)
  BY <1>1 DEF Bounded, Closing, Fits
<1>3. Fits(stream[u].next_timestamp_bound_)
  BY <1>2 DEF Bounded
<1>4. ~stream[s].closed_ /\ stream[s].next_timestamp_bound_ <= out_bound[s]
  BY <1>2 DEF Upstreams
<1>5. CASE AddPacketsTo(s)
  <2>1. PICK packets \in Batches(s) :
          /\ stream' = [stream EXCEPT ![s] = AddPackets(stream[s], packets).stream]
          /\ Increasing(packets)
    BY <1>5 DEF AddPacketsTo
  <2>2. AddPackets(stream[s], packets).stream.next_timestamp_bound_ = NextAllowedInStream(Last(packets))
    BY <1>0, <1>4, <2>1, AddedInFull
  <2>3. Last(packets) \in handler.packets
    BY BatchesAre
  <2>4. NextAllowedInStream(Last(packets)) = Last(packets) + 1
    BY <1>0, <2>3, SpreadIs
  <2>5. Fits(NextAllowedInStream(Last(packets)))
    BY <2>3, <2>4 DEF Fits
  <2>6. stream'[u] = stream[u] \/ stream'[u] = AddPackets(stream[s], packets).stream
    BY <1>0, <2>1 DEF StreamsTyped
  <2> QED
    BY <1>3, <2>2, <2>5, <2>6
<1>6. CASE SetNextTimestampBoundOf(s)
  <2>1. PICK bound \in handler.packets \cup {Done} :
          stream' = [stream EXCEPT ![s] = SetNextTimestampBound(stream[s], bound)]
    BY <1>6 DEF SetNextTimestampBoundOf
  <2>2. Fits(bound)
    BY Constant DEF Fits
  <2>3. bound \in Marks /\ InOrder(handler, stream[s])
    BY <1>0, HandlerIs, Constant DEF StreamsTyped
  <2>4. \/ SetNextTimestampBound(stream[s], bound).next_timestamp_bound_ = bound
        \/ SetNextTimestampBound(stream[s], bound).next_timestamp_bound_ = stream[s].next_timestamp_bound_
    BY <1>0, <2>3, BoundInOrder
  <2>5. stream'[u] = stream[u] \/ (u = s /\ stream'[u] = SetNextTimestampBound(stream[s], bound))
    BY <1>0, <2>1 DEF StreamsTyped
  <2> QED
    BY <1>3, <2>2, <2>4, <2>5
<1>7. CASE Notify(s) \/ StartErasing(s) \/ EndErasing(s)
  BY <1>3, <1>7 DEF Notify, StartErasing, Erasing, EndErasing
<1> QED
  BY <1>5, <1>6, <1>7 DEF Upstream

\* So do the frontiers.
LEMMA FrontFits ==
  ASSUME TInv, Bounded, ~Closing, NEW s \in Streams
  PROVE  Fits(Frontier(s))
<1>1. InOrder(handler, stream[s]) /\ handler \in Handlers /\ Fits(stream[s].next_timestamp_bound_)
  BY DEF TInv, StreamsTyped, Bounded
<1>2. CASE IsEmpty(stream[s])
  BY <1>1, <1>2, FrontIs DEF Frontier
<1>3. CASE ~IsEmpty(stream[s])
  BY <1>1, <1>3, FrontIs DEF Frontier, Fits
<1> QED
  BY <1>2, <1>3

\* A frontier in the range, shifted, is in the range.
ShiftSound(s) ==
  /\ s \in Streams /\ Off(s) \in Int /\ Frontier(s) \in Int /\ Selected(s) \in Int /\ Shifted(s) \in Int
  /\ IsRangeValue(Frontier(s)) =>
       /\ Shifted(s) = Frontier(s) + Off(s) /\ Shifted(s) <= MaxTime
       /\ Frontier(s) >= 0 /\ Frontier(s) <= MaxTime
  /\ ~IsRangeValue(Frontier(s)) =>
       Shifted(s) = Frontier(s) /\ (Frontier(s) = PreStream \/ Frontier(s) >= OneOverPostStream)

LEMMA ShiftIs == TInv /\ Spread(handler) /\ Bounded /\ ~Closing /\ AlignOffsets => \A s \in Used : ShiftSound(s)
<1> SUFFICES ASSUME TInv, Spread(handler), Bounded, ~Closing, AlignOffsets, NEW s \in Used
             PROVE  ShiftSound(s)
  OBVIOUS
<1>1. handler \in Handlers /\ Used \in SUBSET Streams
  BY HandlerIs DEF TInv, StreamsTyped
<1>2. /\ s \in Streams /\ Frontier(s) \in Int /\ Selected(s) \in Int /\ Off(s) \in Int
  BY <1>1, StreamIs DEF TInv, HandlerTyped, Off
<1>3. Fits(Frontier(s))
  BY <1>2, FrontFits
<1>4. Shifted(s) \in Int
  BY <1>2 DEF Shifted
<1>5. ASSUME NEW v \in handler.packets, Frontier(s) = v \/ Frontier(s) = v + 1
      PROVE  IsRangeValue(Frontier(s)) /\ Frontier(s) + Off(s) <= MaxTime
  BY <1>1, <1>2, <1>5, SpreadIs, Constant DEF AlignOffsets, IsRangeValue
<1>6. IsRangeValue(Frontier(s)) =>
        /\ Shifted(s) = Frontier(s) + Off(s) /\ Frontier(s) >= 0 /\ Frontier(s) <= MaxTime
        /\ Frontier(s) # PreStream /\ ~(Frontier(s) >= OneOverPostStream)
  BY <1>2, Constant DEF IsRangeValue, Shifted
<1>7. ~IsRangeValue(Frontier(s)) =>
              Shifted(s) = Frontier(s) /\ (Frontier(s) = PreStream \/ Frontier(s) >= OneOverPostStream)
  BY <1>3, <1>5 DEF Fits, Shifted
<1>8. IsRangeValue(Frontier(s)) => Shifted(s) <= MaxTime
  BY <1>3, <1>5, <1>6 DEF Fits
<1> QED
  BY <1>2, <1>4, <1>6, <1>7, <1>8 DEF ShiftSound

\* The names that do not change, and the types.
LEMMA AlignSame ==
  ASSUME TInv, TInv', handler.kind = "timestamp_align", UNCHANGED handler
  PROVE  /\ Used' = Used /\ Base \in Used /\ Indices' = Indices /\ Used \in SUBSET Streams /\ handler \in Handlers
         /\ \A s \in Streams : /\ InOrder(handler, stream[s]) /\ InOrder(handler, stream'[s])
                               /\ stream[s].enable_timestamps_
                               /\ Frontier(s) \in Int /\ Frontier(s)' \in Int
                               /\ Selected(s) \in Int /\ Selected(s)' \in Int
                               /\ Off(s) \in Int /\ Off(s)' \in Int
         /\ input_timestamp \in Int /\ input_timestamp' \in Int /\ input_timestamp' \in Timestamp
<1>1. Used' = Used /\ Indices' = Indices
  BY SameSets
<1>2. Used \in SUBSET Streams /\ Base \in Used /\ handler \in Handlers
  BY HandlerIs, AlignIs DEF TInv, StreamsTyped
<1>3. ASSUME NEW s \in Streams
      PROVE  /\ InOrder(handler, stream[s]) /\ InOrder(handler, stream'[s]) /\ stream[s].enable_timestamps_
             /\ Frontier(s) \in Int /\ Frontier(s)' \in Int
             /\ Selected(s) \in Int /\ Selected(s)' \in Int
             /\ Off(s) \in Int /\ Off(s)' \in Int
  <2>1. InOrder(handler, stream[s]) /\ InOrder(handler, stream'[s])
    BY DEF TInv, StreamsTyped
  <2>2. stream[s].enable_timestamps_
    BY <2>1 DEF InOrder
  <2>3. Frontier(s) \in Int /\ Selected(s) \in Int
    BY <1>2, <2>1, FrontIs DEF Frontier, Selected
  <2>4. Frontier(s)' \in Int /\ Selected(s)' \in Int
    BY <1>2, <2>1, FrontIs DEF Frontier, Selected
  <2>5. Off(s) \in Int /\ Off(s)' \in Int
    BY DEF Off, TInv, HandlerTyped
  <2> QED
    BY <2>1, <2>2, <2>3, <2>4, <2>5
<1>4. input_timestamp \in Int /\ input_timestamp' \in Int /\ input_timestamp' \in Timestamp
  BY Constant DEF TInv, SchedulerTyped
<1> QED
  BY <1>1, <1>2, <1>3, <1>4

\* A stream that grows does not go back when it is shifted.
LEMMA ShiftGrows ==
  ASSUME NEW s, ShiftSound(s), ShiftSound(s)', Frontier(s) <= Frontier(s)', Off(s)' = Off(s),
         NEW b \in 0 .. MaxTime, From0(s, b)
  PROVE  Shifted(s) <= Shifted(s)' /\ From0(s, b)'
<1>1. /\ Off(s) \in Int /\ Frontier(s) \in Int /\ Frontier(s)' \in Int /\ b \in Int /\ b >= 0
      /\ PreStream = -1 /\ MaxTime \in Int /\ OneOverPostStream = MaxTime + 2
      /\ Shifted(s) \in Int /\ Shifted(s)' \in Int
  BY Constant DEF ShiftSound
<1>2. /\ IsRangeValue(Frontier(s)) <=> 0 <= Frontier(s) /\ Frontier(s) <= MaxTime
      /\ IsRangeValue(Frontier(s))' <=> 0 <= Frontier(s)' /\ Frontier(s)' <= MaxTime
  BY Constant DEF IsRangeValue
<1>3. From0(s, b)'
  BY <1>1 DEF From0
<1>4. /\ IsRangeValue(Frontier(s)) => Shifted(s) = Frontier(s) + Off(s) /\ Shifted(s) <= MaxTime
      /\ ~IsRangeValue(Frontier(s)) =>
           Shifted(s) = Frontier(s) /\ (Frontier(s) = -1 \/ Frontier(s) >= MaxTime + 2)
  BY <1>1 DEF ShiftSound
<1>5. /\ IsRangeValue(Frontier(s))' => Shifted(s)' = Frontier(s)' + Off(s)
      /\ ~IsRangeValue(Frontier(s))' =>
           Shifted(s)' = Frontier(s)' /\ (Frontier(s)' = -1 \/ Frontier(s)' >= MaxTime + 2)
  BY <1>1 DEF ShiftSound
<1>6. Frontier(s) = -1 => Off(s) = 0
  BY <1>1 DEF From0
<1>7. Shifted(s) <= Shifted(s)'
  BY <1>1, <1>2, <1>4, <1>5, <1>6
<1> QED
  BY <1>3, <1>7

\* A step in which streams only grow, and the thread does nothing.
LEMMA AlignGrows ==
  ASSUME TInv, TInv', handler.kind = "timestamp_align", Spread(handler), Aligns, Bounded', Grown,
         UNCHANGED <<handler, pc, todo, input_timestamp, handlerVars, alignVars>>
  PROVE  Aligns'
<1>0. /\ Used' = Used /\ Base \in Used /\ Indices' = Indices /\ Used \in SUBSET Streams /\ handler \in Handlers
      /\ \A s \in Streams : /\ InOrder(handler, stream[s]) /\ InOrder(handler, stream'[s])
                            /\ Frontier(s) \in Int /\ Frontier(s)' \in Int
                            /\ Selected(s) \in Int /\ Selected(s)' \in Int
                            /\ Off(s) \in Int /\ Off(s)' \in Int
      /\ input_timestamp \in Int
  BY AlignSame
<1>1. /\ \A s : Off(s)' = Off(s) /\ offsets_initialized_' = offsets_initialized_ /\ pc' = pc /\ todo' = todo
      /\ Closing' = Closing /\ input_timestamp' = input_timestamp
  BY DEF alignVars, Off, Closing
<1>2. \A s \in Streams : /\ Selected(s)' = Selected(s) /\ Frontier(s) <= Frontier(s)'
  BY DEF Grown, Grows, Selected, Frontier
<1>3. ASSUME NEW s \in Streams, NEW t \in Int, Settled(stream[s], t) PROVE Settled(stream'[s], t)
  BY <1>0, <1>3, GrownIs DEF Grown
<1>4. NotSynced' /\ AlignOffsets'
  BY <1>0, <1>1 DEF Aligns, NotSynced, AlignOffsets, handlerVars
<1>5. (pc = "pop" => input_timestamp \in 0 .. MaxTime)'
  BY <1>1 DEF Aligns
<1>6. AlignBefore'
  BY <1>0, <1>1, <1>2, <1>3 DEF AlignBefore, Base, Aligns, Taken
<1>7. ASSUME ~Closing PROVE \A s \in Used : ShiftSound(s) /\ ShiftSound(s)'
  <2>1. (TInv /\ Spread(handler) /\ Bounded /\ ~Closing /\ AlignOffsets => \A s \in Used : ShiftSound(s))'
    BY ShiftIs, PTL
  <2>2. Spread(handler)' /\ ~Closing'
    BY <1>1, <1>7 DEF Spread
  <2> QED
    BY <1>0, <1>4, <1>7, <2>1, <2>2, ShiftIs DEF Aligns
<1>8. ASSUME ~Closing, offsets_initialized_, NEW b \in 0 .. MaxTime, \A s \in Used : From0(s, b)
      PROVE  \A s \in Used : Shifted(s) <= Shifted(s)' /\ From0(s, b)'
  BY <1>0, <1>1, <1>2, <1>7, <1>8, ShiftGrows
<1>9. AlignSpread'
  BY <1>0, <1>1, <1>8 DEF Aligns, AlignSpread
<1>10. AlignAfter'
  <2> SUFFICES ASSUME offsets_initialized_, ~Closing
               PROVE  /\ pc # "pop" => \A s, u \in Used : Behind(s, Shifted(u))'
                      /\ pc = "pop" => \A s \in Used : ShiftTaken(s)'
    BY <1>0, <1>1 DEF AlignAfter
  <2>1. PICK b \in 0 .. MaxTime : \A s \in Used : From0(s, b)
    BY DEF Aligns, AlignSpread
  <2>2. \A s \in Used : Shifted(s) <= Shifted(s)' /\ Shifted(s) \in Int /\ Shifted(s)' \in Int
    BY <1>7, <1>8, <2>1 DEF ShiftSound
  <2>3. ASSUME pc # "pop", NEW s \in Used, NEW u \in Used PROVE Behind(s, Shifted(u))'
    BY <1>0, <1>1, <1>2, <2>2, <2>3 DEF Aligns, AlignAfter, Behind
  <2>4. ASSUME pc = "pop", NEW s \in Used PROVE ShiftTaken(s)'
    BY <1>0, <1>1, <1>2, <1>3, <2>2, <2>4 DEF Aligns, AlignAfter, ShiftTaken, Behind, NotAfter
  <2> QED
    BY <2>3, <2>4
<1> QED
  BY <1>4, <1>5, <1>6, <1>9, <1>10 DEF Aligns

\* A step in which no stream changes and which does not pop.
LEMMA AlignRests ==
  ASSUME TInv, TInv', handler.kind = "timestamp_align", Aligns, pc # "pop", ~Closing,
         pc' # "pop" \/ Closing',
         UNCHANGED <<handler, stream, sync_sets_, ready_timestamps_, alignVars>>
  PROVE  Aligns'
<1>0. /\ Used' = Used /\ Indices' = Indices /\ \A s : Off(s)' = Off(s) /\ Selected(s)' = Selected(s) /\ Frontier(s)' = Frontier(s)
      /\ offsets_initialized_' = offsets_initialized_ /\ \A s : Shifted(s)' = Shifted(s)
      /\ pc' # "pop"
  BY AlignSame DEF alignVars, Off, Selected, Frontier, Shifted, Closing
<1>1. NotSynced' /\ AlignOffsets' /\ Bounded' /\ AlignBefore'
  BY <1>0 DEF Aligns, NotSynced, AlignOffsets, AlignBefore, Bounded, Fits, Base
<1>2. AlignSpread'
  BY <1>0 DEF AlignSpread, From0, Aligns
<1>3. AlignAfter'
  BY <1>0 DEF Aligns, AlignAfter, Behind
<1> QED
  BY <1>0, <1>1, <1>2, <1>3 DEF Aligns

\* Every stream has been looked at.
LEMMA AlignSees ==
  ASSUME TInv, SeenSound, NotSynced, Looked, handler.kind = "timestamp_align", NEW s \in Used
  PROVE  /\ seen[s].timestamp >= PreStream /\ seen[s].timestamp \in Int /\ seen[s].timestamp <= Done
         /\ seen[s].empty => seen[s].timestamp <= Frontier(s)
         /\ ~seen[s].empty => /\ ~IsEmpty(stream[s]) /\ Frontier(s) = seen[s].timestamp
                              /\ seen[s].timestamp \in handler.packets
<1>1. handler \in Handlers /\ s \in Streams /\ pc = "look" /\ todo = {}
  BY HandlerIs DEF TInv, StreamsTyped, Looked
<1>2. PICK i \in Indices : s \in StreamsOf(i)
  BY DEF Used
<1>3. s \in StreamsToLookAt
  BY <1>2 DEF StreamsToLookAt, NotSynced
<1>4. seen[s].timestamp >= PreStream /\ Sight(s)
  BY <1>1, <1>3 DEF SeenSound
<1>5. seen[s].timestamp \in Timestamp /\ (~seen[s].empty => seen[s].timestamp \in handler.packets)
  BY <1>1 DEF TInv, SchedulerTyped, Looks
<1>6. seen[s].timestamp \in Int /\ seen[s].timestamp <= Done
  BY <1>5, Constant
<1> QED
  BY <1>4, <1>5, <1>6 DEF Sight

\* The base stream has a packet: it is passed alone, or with the others when all have one.
LEMMA AlignReadyBefore ==
  ASSUME TInv, TInv', Upstreams, SeenSound, Spread(handler), Aligns, AlignBeforeOffsets
  PROVE  Aligns'
<1>0. /\ handler.kind = "timestamp_align" /\ pc = "look" /\ Looked /\ ~offsets_initialized_ /\ ~Closing
      /\ UNCHANGED <<handler, stream, sync_sets_, ready_timestamps_>>
  BY DEF AlignBeforeOffsets, Looked, Closing
<1>1. /\ Used' = Used /\ Base \in Used /\ Indices' = Indices /\ Used \in SUBSET Streams /\ handler \in Handlers
      /\ \A s \in Streams : /\ Frontier(s) \in Int /\ Selected(s) \in Int /\ Off(s) \in Int
      /\ \A s : Selected(s)' = Selected(s) /\ Frontier(s)' = Frontier(s)
  BY <1>0, AlignSame DEF Selected, Frontier
<1>2. /\ \A s \in Used \ {Base} : Selected(s) = Unstarted
      /\ Selected(Base) < Frontier(Base)
      /\ NotSynced /\ Bounded /\ AlignOffsets
  BY <1>0 DEF Aligns, AlignBefore
<1>3. \A s \in Used : ~seen[s].empty => /\ ~IsEmpty(stream[s]) /\ Frontier(s) = seen[s].timestamp
                                        /\ seen[s].timestamp \in handler.packets
  BY <1>0, <1>2, AlignSees
<1>4. CASE seen[Base].empty
  BY <1>0, <1>4, AlignRests DEF AlignBeforeOffsets, NotReady
<1>5. CASE ~seen[Base].empty
  <2>1. PICK base, others, known :
          /\ base = seen[Base].timestamp /\ others = Used \ {Base} /\ known = {s \in others : ~seen[s].empty}
    OBVIOUS
  <2>2. /\ timestamp_offsets_' = [s \in Streams |-> IF s \in known THEN base - seen[s].timestamp ELSE timestamp_offsets_[s]]
        /\ offsets_initialized_' = (known = others)
        /\ pc' = "pop" /\ input_timestamp' = base /\ todo' = IF known = others THEN Used ELSE {Base}
    BY <1>5, <2>1 DEF AlignBeforeOffsets, ReadyForProcess
  <2>3. ~Closing'
    BY <2>2 DEF Closing
  <2>4. base \in handler.packets /\ base = Frontier(Base) /\ base \in Int /\ base >= 0 /\ base < MaxTime
        /\ ~IsEmpty(stream[Base]) /\ IsRangeValue(base) /\ base \in 0 .. MaxTime /\ MaxTime \in Int
    BY <1>1, <1>3, <1>5, <2>1, SpreadIs, Constant
  <2>5. \A s \in Used : /\ s \in known => /\ Off(s)' = base - Frontier(s) /\ Frontier(s) \in handler.packets
                                          /\ ~IsEmpty(stream[s]) /\ s # Base
                        /\ s \notin known => Off(s)' = Off(s)
    BY <1>1, <1>3, <2>1, <2>2 DEF Off
  <2>6. \A v \in handler.packets : v \in Int /\ v >= 0 /\ v < MaxTime /\ IsRangeValue(v)
    BY <1>1, SpreadIs
  <2>7. AlignOffsets'
    <3>1. Off(Base)' = 0
      BY <1>1, <1>2, <2>1, <2>5 DEF AlignOffsets
    <3>2. ASSUME NEW s \in Used, NEW v \in handler.packets PROVE v + Off(s)' < MaxTime
      <4>1. CASE s \in known
        BY <2>4, <2>5, <2>6, <4>1 DEF Spread
      <4>2. CASE s \notin known
        BY <1>2, <2>5, <4>2 DEF AlignOffsets
      <4> QED
        BY <4>1, <4>2
    <3> QED
      BY <1>0, <1>1, <3>1, <3>2 DEF AlignOffsets, Off, Base
  <2>8. NotSynced' /\ Bounded'
    BY <1>0, <1>1, <1>2, <2>3 DEF NotSynced, Bounded, Fits
  <2>9. AlignBefore'
    BY <1>0, <1>1, <1>2, <2>2, <2>3, <2>4 DEF AlignBefore, Base, Settled, Frontier, Taken
  <2>10. ASSUME known = others, NEW s \in Used
         PROVE  /\ Off(s)' = base - Frontier(s) /\ Frontier(s) \in handler.packets /\ ~IsEmpty(stream[s])
                /\ Frontier(s) \in Int /\ Frontier(s) >= 0 /\ Frontier(s) < MaxTime
    <3>1. Off(s)' = base - Frontier(s) /\ Frontier(s) \in handler.packets /\ ~IsEmpty(stream[s])
      BY <1>2, <2>1, <2>4, <2>5, <2>10 DEF AlignOffsets
    <3> QED
      BY <2>6, <3>1
  <2>11. AlignSpread'
    <3> SUFFICES ASSUME known = others
                 PROVE  /\ \A s, u \in Used : \A v \in handler.packets : v + Off(u)' - Off(s)' < MaxTime
                        /\ \E b \in 0 .. MaxTime : (\A s \in Used : From0(s, b)') /\ b <= base
      BY <1>0, <1>1, <2>2, <2>3 DEF AlignSpread
    <3>1. ASSUME NEW s \in Used, NEW u \in Used, NEW v \in handler.packets
          PROVE  v + Off(u)' - Off(s)' < MaxTime
      BY <2>4, <2>6, <2>10 DEF Spread
    <3>2. ASSUME NEW s \in Used PROVE From0(s, base)'
      BY <1>1, <2>4, <2>10 DEF From0
    <3> QED
      BY <2>4, <3>1, <3>2
  <2>12. AlignAfter'
    <3> SUFFICES ASSUME known = others, NEW s \in Used PROVE ShiftTaken(s)'
      BY <1>1, <2>2, <2>3 DEF AlignAfter
    <3>1. Off(s)' = base - Frontier(s) /\ Frontier(s) \in Int /\ Frontier(s) < MaxTime /\ ~IsEmpty(stream[s])
          /\ s \in todo'
      BY <2>2, <2>10
    <3>2. base - Off(s)' = Frontier(s) /\ base - Off(s)' <= MaxTime
      BY <2>4, <3>1
    <3>3. Settled(stream'[s], base - Off(s)')
      BY <1>0, <3>1, <3>2 DEF Settled, Frontier
    <3>4. Behind(s, base)'
      <4>1. CASE s = Base
        BY <1>1, <1>2, <2>1, <2>4, <2>5, <4>1 DEF AlignOffsets, Behind
      <4>2. CASE s # Base
        BY <1>1, <1>2, <4>2 DEF Behind
      <4> QED
        BY <4>1, <4>2
    <3> QED
      BY <2>2, <3>1, <3>2, <3>3, <3>4 DEF ShiftTaken, Behind
  <2>13. input_timestamp' \in 0 .. MaxTime
    BY <2>2, <2>4
  <2> QED
    BY <2>7, <2>8, <2>9, <2>11, <2>12, <2>13 DEF Aligns
<1> QED
  BY <1>4, <1>5

\* What was seen of a stream, shifted to the base stream.
AlignedSound(s, b) ==
  /\ Aligned(s) \in Timestamp /\ Aligned(s) \in Int
  /\ Aligned(s) >= Done => Frontier(s) >= OneOverPostStream
  /\ ~seen[s].empty => /\ ~IsEmpty(stream[s]) /\ Frontier(s) \in handler.packets
                       /\ Aligned(s) = Frontier(s) + Off(s) /\ Aligned(s) = Shifted(s)
                       /\ Aligned(s) \in 0 .. MaxTime /\ b <= Aligned(s)
  /\ seen[s].empty => \A t \in 0 .. MaxTime :
       t < Aligned(s) /\ t - Off(s) <= MaxTime => Frontier(s) > t - Off(s)

LEMMA AlignedSees ==
  ASSUME TInv, SeenSound, Spread(handler), NotSynced, AlignOffsets, Looked, handler.kind = "timestamp_align",
         NEW s \in Used, NEW b \in 0 .. MaxTime, From0(s, b)
  PROVE  AlignedSound(s, b)
<1>0. s \in Streams /\ handler \in Handlers /\ Frontier(s) \in Int /\ Off(s) \in Int
  BY HandlerIs, StreamIs DEF TInv, StreamsTyped, HandlerTyped, Off
<1>1. PICK t0 : t0 = seen[s].timestamp
  OBVIOUS
<1>2. /\ t0 >= PreStream /\ t0 \in Int /\ t0 <= Done
      /\ seen[s].empty => t0 <= Frontier(s)
      /\ ~seen[s].empty => ~IsEmpty(stream[s]) /\ Frontier(s) = t0 /\ t0 \in handler.packets
  BY <1>1, AlignSees
<1>3. MaxTime \in Int /\ PreStream = -1 /\ Done = MaxTime + 3 /\ OneOverPostStream = MaxTime + 2 /\ MaxTime >= 0
      /\ MinTime = 0
  BY Constant
<1>4. /\ IsRangeValue(t0) <=> 0 <= t0 /\ t0 <= MaxTime
      /\ Aligned(s) = IF IsRangeValue(t0) THEN Plus(t0, Off(s)) ELSE t0
  BY <1>1, <1>3 DEF IsRangeValue, Aligned, Off
<1>5. Plus(t0, Off(s)) = IF Off(s) >= 0 /\ t0 >= MaxTime - Off(s) THEN MaxTime
                         ELSE IF Off(s) <= 0 /\ t0 <= 0 - Off(s) THEN 0 ELSE t0 + Off(s)
  BY <1>3 DEF Plus
<1>6. IsRangeValue(t0) => Aligned(s) \in Int /\ 0 <= Aligned(s) /\ Aligned(s) <= MaxTime
  BY <1>0, <1>2, <1>3, <1>4, <1>5
<1>7. ~IsRangeValue(t0) => Aligned(s) = t0 /\ (t0 = -1 \/ t0 > MaxTime)
  BY <1>2, <1>3, <1>4
<1>8. Aligned(s) \in Int /\ -1 <= Aligned(s) /\ Aligned(s) <= MaxTime + 3
  BY <1>2, <1>3, <1>6, <1>7
<1>9. Aligned(s) \in Timestamp
  BY <1>8, Constant
<1>10. \A v \in handler.packets : v \in Int /\ v >= 0 /\ v < MaxTime /\ IsRangeValue(v)
  BY <1>0, SpreadIs
<1>11. ASSUME Aligned(s) >= Done PROVE Frontier(s) >= OneOverPostStream
  BY <1>0, <1>2, <1>3, <1>6, <1>7, <1>10, <1>11
<1>12. ASSUME ~seen[s].empty
       PROVE  /\ ~IsEmpty(stream[s]) /\ Frontier(s) \in handler.packets
              /\ Aligned(s) = Frontier(s) + Off(s) /\ Aligned(s) = Shifted(s)
              /\ Aligned(s) \in 0 .. MaxTime /\ b <= Aligned(s)
  BY <1>0, <1>2, <1>3, <1>4, <1>5, <1>10, <1>12 DEF AlignOffsets, From0, Shifted
<1>13. ASSUME seen[s].empty, NEW t \in 0 .. MaxTime, t < Aligned(s), t - Off(s) <= MaxTime
       PROVE  Frontier(s) > t - Off(s)
  <2>1. t \in Int /\ t >= 0 /\ t0 <= Frontier(s)
    BY <1>2, <1>3, <1>13
  <2>2. CASE IsRangeValue(t0)
    BY <1>0, <1>2, <1>3, <1>4, <1>5, <1>13, <2>1, <2>2
  <2>3. CASE ~IsRangeValue(t0)
    BY <1>0, <1>2, <1>3, <1>7, <1>13, <2>1, <2>3
  <2> QED
    BY <2>2, <2>3
<1>14. seen[s].empty => \A t \in 0 .. MaxTime :
              t < Aligned(s) /\ t - Off(s) <= MaxTime => Frontier(s) > t - Off(s)
  BY <1>13
<1> QED
  BY <1>8, <1>9, <1>11, <1>12, <1>14 DEF AlignedSound

\* The offsets are known.
LEMMA AlignReadyAfter ==
  ASSUME TInv, TInv', Upstreams, SeenSound, Spread(handler), Aligns, AlignWithOffsets
  PROVE  Aligns' /\ CloseSound'
<1>0. /\ handler.kind = "timestamp_align" /\ pc = "look" /\ Looked /\ offsets_initialized_ /\ ~Closing
      /\ UNCHANGED <<handler, stream, sync_sets_, ready_timestamps_, alignVars>>
  BY DEF AlignWithOffsets, Looked, Closing
<1>1. /\ Used' = Used /\ Base \in Used /\ Indices' = Indices /\ Used \in SUBSET Streams /\ handler \in Handlers
      /\ \A s \in Streams : /\ Frontier(s) \in Int /\ Selected(s) \in Int /\ Off(s) \in Int
      /\ \A s : Selected(s)' = Selected(s) /\ Frontier(s)' = Frontier(s) /\ Off(s)' = Off(s)
      /\ offsets_initialized_' = offsets_initialized_ /\ Used # {}
  BY <1>0, AlignSame DEF Selected, Frontier, alignVars, Off
<1>2. PICK b \in 0 .. MaxTime : \A s \in Used : From0(s, b)
  BY <1>0 DEF Aligns, AlignSpread
<1>3. \A s \in Used : AlignedSound(s, b)
  BY <1>0, <1>2, AlignedSees DEF Aligns
<1>4. PICK min_bound, t :
        /\ min_bound = Min({Done} \cup {Aligned(s) : s \in {s \in Used : seen[s].empty}})
        /\ t = Min({Aligned(s) : s \in Used})
  OBVIOUS
<1>5. /\ min_bound \in Int /\ \A s \in Used : seen[s].empty => min_bound <= Aligned(s)
  <2>1. PICK bounds : bounds = {Done} \cup {Aligned(s) : s \in {s \in Used : seen[s].empty}}
    OBVIOUS
  <2>2. bounds \in SUBSET Timestamp /\ bounds # {}
    BY <1>3, <2>1, Constant DEF AlignedSound
  <2>3. \A s \in Used : seen[s].empty => Aligned(s) \in bounds
    BY <2>1
  <2>4. Min(bounds) \in Int /\ \A u \in bounds : Min(bounds) <= u
    BY <2>2, TimestampMin
  <2> QED
    BY <1>4, <2>1, <2>3, <2>4
<1>6. /\ t \in Int /\ (\E u \in Used : t = Aligned(u)) /\ \A s \in Used : t <= Aligned(s)
  <2>1. PICK times : times = {Aligned(s) : s \in Used}
    OBVIOUS
  <2>2. times \in SUBSET Timestamp /\ times # {} /\ \A s \in Used : Aligned(s) \in times
    BY <1>1, <1>3, <2>1 DEF AlignedSound
  <2>3. Min(times) \in times /\ Min(times) \in Int /\ \A u \in times : Min(times) <= u
    BY <2>2, TimestampMin
  <2> QED
    BY <1>4, <2>1, <2>2, <2>3
<1>7. CASE pc' \in {"idle", "close"} /\ (pc' = "close" => t = Done)
  <2>1. pc' # "pop"
    BY <1>7
  <2>2. Aligns'
    BY <1>0, <2>1, AlignRests
  <2>3. CloseSound'
    <3>1. ASSUME t = Done, NEW s \in Used PROVE Frontier(s)' >= OneOverPostStream
      BY <1>1, <1>3, <1>6, <3>1 DEF AlignedSound
    <3> QED
      BY <1>1, <1>7, <3>1 DEF CloseSound
  <2> QED
    BY <2>2, <2>3
<1>8. CASE t # Done /\ min_bound > t /\ ReadyForProcess(t, Used)
  <2>1. pc' = "pop" /\ input_timestamp' = t /\ todo' = Used
    BY <1>8 DEF ReadyForProcess
  <2>2. ~Closing' /\ CloseSound'
    BY <2>1 DEF Closing, CloseSound
  <2>3. PICK u \in Used : t = Aligned(u)
    BY <1>6
  <2>4. ~seen[u].empty
    BY <1>5, <1>6, <1>8, <2>3
  <2>5. /\ Frontier(u) \in handler.packets /\ t = Frontier(u) + Off(u) /\ t = Shifted(u) /\ t \in 0 .. MaxTime /\ b <= t
        /\ MaxTime \in Int /\ t \in Int
    BY <1>3, <1>6, <2>3, <2>4, Constant DEF AlignedSound
  <2>6. NotSynced' /\ AlignOffsets' /\ Bounded' /\ AlignBefore'
    BY <1>0, <1>1, <2>2 DEF Aligns, NotSynced, AlignOffsets, AlignBefore, Bounded, Fits, Base
  <2>7. AlignSpread'
    BY <1>0, <1>1, <1>2, <2>1, <2>5 DEF AlignSpread, From0, Aligns
  <2>8. ASSUME NEW s \in Used PROVE ShiftTaken(s)'
    <3>1. s \in Streams /\ Off(s) \in Int /\ Frontier(s) \in Int /\ Frontier(u) \in Int /\ Off(u) \in Int
      BY <1>1
    <3>2. t - Off(s) < MaxTime
      BY <1>0, <2>5, <3>1 DEF Aligns, AlignSpread
    <3>3. Settled(stream[s], t - Off(s))
      <4>1. CASE seen[s].empty
        BY <1>3, <1>5, <1>6, <1>8, <2>5, <3>1, <3>2, <4>1 DEF AlignedSound, Settled, Frontier
      <4>2. CASE ~seen[s].empty
        BY <1>3, <1>6, <2>5, <3>1, <4>2 DEF AlignedSound, Settled, Frontier
      <4> QED
        BY <4>1, <4>2
    <3>4. Behind(s, t)
      BY <1>0, <2>5 DEF Aligns, AlignAfter
    <3>5. t - Off(s) <= MaxTime
      BY <2>5, <3>1, <3>2
    <3> QED
      BY <1>0, <1>1, <2>1, <3>3, <3>4, <3>5 DEF ShiftTaken, Behind
  <2>9. AlignAfter'
    BY <1>1, <2>1, <2>8 DEF AlignAfter
  <2> QED
    BY <2>1, <2>2, <2>5, <2>6, <2>7, <2>9 DEF Aligns
<1>9. \/ pc' \in {"idle", "close"} /\ (pc' = "close" => t = Done)
      \/ t # Done /\ min_bound > t /\ ReadyForProcess(t, Used)
  BY <1>4 DEF AlignWithOffsets, NotReady, ReadyForClose
<1> QED
  BY <1>7, <1>8, <1>9

\* The timestamp of the base stream, shifted back to a stream.
LEMMA ShiftedBack ==
  ASSUME NEW t \in 0 .. MaxTime, NEW o \in Int, t - o <= MaxTime, t - o >= 0
  PROVE  Plus(t, -o) = t - o /\ t - o \in Timestamp /\ t - o \in Int /\ t \in Int /\ IsRangeValue(t)
         /\ IsAllowedInStream(t)
BY Constant DEF Plus, IsRangeValue, IsAllowedInStream

\* A stream is popped at the timestamp that, shifted, is the input timestamp.
AlignPops(s, q) ==
  /\ q \in Timestamp /\ q \in Int /\ q >= 0
  /\ SelectTimestamp(s) = q /\ q + Off(s) = input_timestamp
  /\ Settled(stream[s], q) /\ Selected(s) < q
  /\ IsAllowedInStream(input_timestamp) /\ IsRangeValue(input_timestamp)

LEMMA AlignPopIs ==
  ASSUME TInv, Aligns, handler.kind = "timestamp_align", pc = "pop", NEW s \in todo
  PROVE  s \in Used /\ s \in Streams /\ (~offsets_initialized_ => s = Base) /\ AlignPops(s, input_timestamp - Off(s))
<1>0. /\ handler \in Handlers /\ Used \in SUBSET Streams /\ Base \in Used /\ ~Closing /\ todo \in SUBSET Streams
  BY HandlerIs, AlignIs DEF TInv, StreamsTyped, SchedulerTyped, Closing
<1>1. input_timestamp \in 0 .. MaxTime /\ MaxTime \in Int /\ input_timestamp \in Int /\ input_timestamp >= 0
      /\ input_timestamp <= MaxTime
  BY Constant DEF Aligns
<1>2. Off(s) \in Int /\ Selected(s) \in Int /\ Unstarted \in Int /\ Unstarted < 0
  BY <1>0, StreamIs, Constant DEF Off, TInv, HandlerTyped
<1>3. SelectTimestamp(s) = IF IsRangeValue(input_timestamp) THEN Plus(input_timestamp, -Off(s)) ELSE input_timestamp
  BY DEF SelectTimestamp, Off
<1>4. CASE offsets_initialized_
  <2>1. s \in Used
    BY DEF TInv, SchedulerTyped
  <2>2. ShiftTaken(s)
    BY <1>0, <1>4, <2>1 DEF Aligns, AlignAfter
  <2>3. /\ input_timestamp - Off(s) <= MaxTime /\ Settled(stream[s], input_timestamp - Off(s))
        /\ Behind(s, input_timestamp)
    BY <2>2 DEF ShiftTaken
  <2>4. PICK b \in 0 .. MaxTime : From0(s, b) /\ b <= input_timestamp
    BY <1>0, <1>4, <2>1 DEF Aligns, AlignSpread
  <2>5. b \in Int /\ b - Off(s) >= 0 /\ b <= input_timestamp
    BY <1>1, <2>4 DEF From0
  <2>6. input_timestamp - Off(s) >= 0
    BY <1>1, <1>2, <2>5
  <2>7. /\ Plus(input_timestamp, -Off(s)) = input_timestamp - Off(s) /\ input_timestamp - Off(s) \in Timestamp
        /\ IsRangeValue(input_timestamp) /\ IsAllowedInStream(input_timestamp)
    BY <1>1, <1>2, <2>3, <2>6, ShiftedBack
  <2>8. Selected(s) < input_timestamp - Off(s)
    BY <1>1, <1>2, <2>3, <2>6 DEF Behind
  <2>9. input_timestamp - Off(s) + Off(s) = input_timestamp /\ input_timestamp - Off(s) \in Int
    BY <1>1, <1>2
  <2> QED
    BY <1>0, <1>3, <1>4, <2>1, <2>3, <2>6, <2>7, <2>8, <2>9 DEF AlignPops
<1>5. CASE ~offsets_initialized_
  <2>1. todo \subseteq {Base} /\ Taken(Base) /\ Off(Base) = 0
    BY <1>0, <1>5 DEF Aligns, AlignBefore, AlignOffsets
  <2>2. s = Base
    BY <2>1
  <2>3. Selected(s) < input_timestamp /\ Settled(stream[s], input_timestamp)
    BY <2>1, <2>2 DEF Taken
  <2>4. input_timestamp - Off(s) = input_timestamp /\ input_timestamp + 0 = input_timestamp
    BY <1>1, <2>1, <2>2
  <2>5. /\ Plus(input_timestamp, -Off(s)) = input_timestamp /\ input_timestamp \in Timestamp
        /\ IsRangeValue(input_timestamp) /\ IsAllowedInStream(input_timestamp)
    BY <1>1, <1>2, <2>4, ShiftedBack
  <2> QED
    BY <1>0, <1>1, <1>3, <2>1, <2>2, <2>3, <2>4, <2>5 DEF AlignPops
<1> QED
  BY <1>4, <1>5

LEMMA ShiftIsThen ==
  (TInv /\ Spread(handler) /\ Bounded /\ ~Closing /\ AlignOffsets => \A s \in Used : ShiftSound(s))'
BY ShiftIs, PTL

LEMMA AlignTakes ==
  ASSUME TInv, TInv', Upstreams, Spread(handler), Aligns, Pop, handler.kind = "timestamp_align"
  PROVE  Upstreams' /\ Aligns' /\ crashed' = "none"
<1>1. PICK s : s = First
  OBVIOUS
<1>2. /\ pc = "pop" /\ todo # {} /\ crashed' = FailedCheck(s)
      /\ stream' = [stream EXCEPT ![s] = Popped(s)] /\ todo' = todo \ {s}
      /\ UNCHANGED <<handler, upstreamVars, pc, input_timestamp, handlerVars, alignVars>>
  BY <1>1 DEF Pop
<1>3. s \in todo
  BY <1>1, <1>2, FirstIs DEF TInv, StreamsTyped, SchedulerTyped
<1>4. PICK q : q = input_timestamp - Off(s)
  OBVIOUS
<1>5. s \in Used /\ s \in Streams /\ (~offsets_initialized_ => s = Base) /\ AlignPops(s, q)
  BY <1>2, <1>3, <1>4, AlignPopIs
<1>6. /\ Used' = Used /\ Base \in Used /\ Indices' = Indices /\ Used \in SUBSET Streams /\ handler \in Handlers
      /\ \A u \in Streams : /\ Frontier(u) \in Int /\ Frontier(u)' \in Int
                            /\ Selected(u) \in Int /\ Off(u) \in Int
      /\ InOrder(handler, stream[s]) /\ stream[s].enable_timestamps_
  BY <1>2, <1>5, AlignSame
<1>7. ~Closing /\ ~Closing' /\ (\A u : Off(u)' = Off(u)) /\ offsets_initialized_' = offsets_initialized_
  BY <1>2 DEF Closing, alignVars, Off
<1>8. Popped(s) = PopPacketAtTimestamp(stream[s], q)
  BY <1>5 DEF Popped, OnlyErases, AlignPops
<1>9. /\ ~DropsPackets(stream[s], q)
      /\ Popped(s).next_timestamp_bound_ = stream[s].next_timestamp_bound_
      /\ Popped(s).closed_ = stream[s].closed_
      /\ Popped(s).last_select_timestamp_ = q
      /\ MinTimestampOrBound(Popped(s)) > q
  BY <1>5, <1>6, <1>8, PopSettled DEF AlignPops
<1>10. crashed' = "none"
  <2>1. ~(stream[s].last_select_timestamp_ > q)
    BY <1>5, <1>6 DEF Selected, AlignPops
  <2> QED
    BY <1>2, <1>5, <1>9, <2>1 DEF FailedCheck, AlignPops
<1>11. stream'[s] = Popped(s) /\ \A u \in Streams : u # s => stream'[u] = stream[u]
  BY <1>2, <1>5 DEF TInv, StreamsTyped
<1>12. Upstreams'
  BY <1>2, <1>5, <1>7, <1>9, UpstreamsKept DEF TInv
<1>13. Selected(s)' = q /\ Frontier(s)' > q
  BY <1>9, <1>11 DEF Selected, Frontier
<1>14. \A u \in Streams : u # s => /\ Selected(u)' = Selected(u) /\ Frontier(u)' = Frontier(u) /\ Shifted(u)' = Shifted(u)
                                   /\ (\A t : Settled(stream'[u], t) <=> Settled(stream[u], t))
  BY <1>7, <1>11 DEF Selected, Frontier, Shifted
<1>15. NotSynced' /\ AlignOffsets'
  BY <1>2, <1>6, <1>7 DEF Aligns, NotSynced, AlignOffsets, handlerVars, Base
<1>16. Bounded'
  BY <1>2, <1>7, <1>9, <1>11 DEF Aligns, Bounded, Fits
<1>17. /\ q \in Int /\ q >= 0 /\ q + Off(s) = input_timestamp /\ input_timestamp \in 0 .. MaxTime
       /\ input_timestamp \in Int /\ MaxTime \in Int /\ OneOverPostStream = MaxTime + 2 /\ PreStream = -1
       /\ input_timestamp <= MaxTime
  BY <1>2, <1>5, Constant DEF AlignPops, Aligns
<1>18. AlignBefore'
  <2> SUFFICES ASSUME ~offsets_initialized_
               PROVE  /\ \A u \in Used \ {Base} : Selected(u)' = Unstarted
                      /\ todo' \subseteq {Base} /\ Taken(Base)'
    BY <1>2, <1>6, <1>7 DEF AlignBefore, Base
  <2>1. s = Base /\ Off(s) = 0 /\ todo' = {}
    BY <1>2, <1>3, <1>5, <1>7 DEF Aligns, AlignBefore, AlignOffsets
  <2>2. q = input_timestamp
    BY <1>6, <1>17, <2>1
  <2>3. Taken(Base)'
    BY <1>2, <1>13, <1>17, <2>1, <2>2 DEF Taken, Base, Selected, Frontier
  <2> QED
    BY <1>2, <1>6, <1>7, <1>14, <2>1, <2>3 DEF Aligns, AlignBefore
<1>19. AlignSpread'
  <2> SUFFICES ASSUME offsets_initialized_
               PROVE  /\ \A u, w \in Used : \A v \in handler.packets : v + Off(w) - Off(u) < MaxTime
                      /\ \E b \in 0 .. MaxTime : (\A u \in Used : From0(u, b)') /\ b <= input_timestamp
    BY <1>2, <1>6, <1>7 DEF AlignSpread
  <2>1. PICK b \in 0 .. MaxTime : (\A u \in Used : From0(u, b)) /\ b <= input_timestamp
    BY <1>2, <1>7 DEF Aligns, AlignSpread
  <2>2. ASSUME NEW u \in Used PROVE From0(u, b)'
    <3>1. From0(u, b)
      BY <2>1
    <3>2. CASE u # s
      BY <1>6, <1>7, <1>14, <3>1, <3>2 DEF From0
    <3>3. CASE u = s
      BY <1>5, <1>6, <1>7, <1>13, <1>17, <2>1, <3>1, <3>3 DEF From0
    <3> QED
      BY <3>2, <3>3
  <2> QED
    BY <1>2, <1>7, <2>1, <2>2 DEF Aligns, AlignSpread
<1>20. AlignAfter'
  <2> SUFFICES ASSUME offsets_initialized_, NEW u \in Used PROVE ShiftTaken(u)'
    BY <1>2, <1>6, <1>7 DEF AlignAfter
  <2>1. ShiftTaken(u) /\ u \in Streams
    BY <1>2, <1>6, <1>7 DEF Aligns, AlignAfter
  <2>2. CASE u # s
    BY <1>2, <1>7, <1>14, <2>1, <2>2 DEF ShiftTaken, Behind, NotAfter
  <2>3. CASE u = s
    <3>1. ShiftSound(s)'
      BY <1>2, <1>5, <1>6, <1>7, <1>15, <1>16, ShiftIsThen DEF Spread
    <3>2. Off(s) \in Int /\ Off(s)' = Off(s) /\ Frontier(s)' \in Int
      BY <1>5, <1>6, <1>7
    <3>3. input_timestamp < Shifted(s)'
      <4>1. CASE IsRangeValue(Frontier(s))'
        BY <1>13, <1>17, <3>1, <3>2, <4>1 DEF ShiftSound
      <4>2. CASE ~IsRangeValue(Frontier(s))'
        BY <1>13, <1>17, <3>1, <3>2, <4>2 DEF ShiftSound
      <4> QED
        BY <4>1, <4>2
    <3>4. NotAfter(s, input_timestamp)'
      BY <1>2, <1>13, <1>17, <3>2 DEF NotAfter
    <3>5. s \notin todo' /\ input_timestamp' - Off(s)' <= MaxTime
      BY <1>2, <2>1, <2>3, <3>2 DEF ShiftTaken
    <3> QED
      BY <1>2, <2>3, <3>3, <3>4, <3>5 DEF ShiftTaken
  <2> QED
    BY <2>2, <2>3
<1> QED
  BY <1>2, <1>10, <1>12, <1>15, <1>16, <1>17, <1>18, <1>19, <1>20 DEF Aligns

\* The invocation ends: every stream was selected at the input timestamp, and goes on after it.
LEMMA AlignEnds ==
  ASSUME TInv, TInv', Spread(handler), Aligns, Invoke, handler.kind = "timestamp_align"
  PROVE  Aligns'
<1>0. /\ pc = "pop" /\ todo = {} /\ pc' = "idle" /\ ~Closing /\ ~Closing'
      /\ UNCHANGED <<handler, stream, sync_sets_, alignVars>>
      /\ ready_timestamps_' = [i \in Indices |-> IF i \in ready THEN Unset ELSE ready_timestamps_[i]]
  BY DEF Invoke, EndInvocation, Closing
<1>1. /\ Used' = Used /\ Base \in Used /\ Indices' = Indices /\ Used \in SUBSET Streams /\ handler \in Handlers
      /\ \A s \in Streams : Frontier(s) \in Int /\ Selected(s) \in Int /\ Off(s) \in Int
      /\ input_timestamp \in Int
  BY <1>0, AlignSame
<1>2. /\ \A s : Off(s)' = Off(s) /\ Selected(s)' = Selected(s) /\ Frontier(s)' = Frontier(s) /\ Shifted(s)' = Shifted(s)
      /\ offsets_initialized_' = offsets_initialized_
  BY <1>0 DEF alignVars, Off, Selected, Frontier, Shifted
<1>3. NotSynced'
  BY <1>0, <1>1 DEF Aligns, NotSynced
<1>4. AlignOffsets' /\ Bounded'
  BY <1>0, <1>1, <1>2 DEF Aligns, AlignOffsets, Bounded, Fits, Base
<1>5. AlignBefore'
  BY <1>0, <1>1, <1>2 DEF AlignBefore, Base, Aligns, Taken
<1>6. AlignSpread'
  BY <1>0, <1>1, <1>2 DEF AlignSpread, From0, Aligns
<1>7. AlignAfter'
  BY <1>0, <1>1, <1>2, ShiftIs DEF AlignAfter, Behind, Aligns, ShiftTaken, ShiftSound, NotAfter
<1> QED
  BY <1>0, <1>3, <1>4, <1>5, <1>6, <1>7 DEF Aligns

LEMMA AlignCloses ==
  ASSUME TInv, TInv', Upstreams, Aligns, CloseSound, CloseStream, handler.kind = "timestamp_align"
  PROVE  Upstreams' /\ Aligns' /\ CloseSound' /\ crashed' = crashed
<1>1. /\ Upstreams' /\ Closing' /\ UNCHANGED <<handler, handlerVars, crashed>>
      /\ pc' = "close" => pc = "close"
      /\ \A s \in Streams : Frontier(s) <= Frontier(s)' /\ Frontier(s) \in Int /\ Frontier(s)' \in Int
  BY CloseRises
<1>2. UNCHANGED alignVars /\ pc' # "pop"
  BY <1>1 DEF CloseStream, Closing
<1>3. CloseSound'
  BY <1>1, ClosesSound
<1>4. NotSynced' /\ AlignOffsets'
  BY <1>1, <1>2, SameSets DEF Aligns, NotSynced, AlignOffsets, handlerVars, alignVars, Off, Base
<1>5. Bounded' /\ AlignBefore' /\ AlignSpread' /\ AlignAfter'
  BY <1>1 DEF Bounded, AlignBefore, AlignSpread, AlignAfter
<1> QED
  BY <1>1, <1>2, <1>3, <1>4, <1>5 DEF Aligns

LEMMA AlignStep ==
  ASSUME TInv, TInv', Upstreams, SeenSound, Aligns, CloseSound, Plain, handler.kind = "timestamp_align",
         Spread(handler), Next, crashed = "none"
  PROVE  Upstreams' /\ SeenSound' /\ Aligns' /\ CloseSound' /\ Plain' /\ crashed' = "none"
<1>0. /\ Plain'
      /\ ~(EraseSurplusStep \/ FillInputSet \/ Measure \/ LookAfterErasing \/ FixedSizeReadiness)
  BY PlainKept
<1>1. /\ ~MuxLooksAtControl /\ ~MuxLooksAtData /\ ~DefaultReadiness /\ ~EarlyCloseReadiness
      /\ ~ImmediateReadiness /\ ~SyncSetsReadiness /\ ~BarrierReadiness
  BY DEF MuxLooksAtControl, MuxLooksAtData, DefaultReadiness, EarlyCloseReadiness, ImmediateReadiness,
         SyncSetsReadiness, BarrierReadiness
<1>2. SeenSound'
  BY <1>0, <1>1, SeenKept
<1>3. ASSUME NEW s \in Streams, Upstream(s)
      PROVE  Upstreams' /\ Aligns' /\ CloseSound' /\ crashed' = "none"
  BY <1>3, UpstreamGrows, FitsKept, AlignGrows, UpstreamClose DEF Aligns
<1>4. CASE StartScheduling \/ Look
  BY <1>0, <1>2, <1>4, AlignRests, StreamsRest DEF StartScheduling, Look, handlerVars, Closing, CloseSound
<1>5. CASE AlignBeforeOffsets
  BY <1>0, <1>2, <1>5, AlignReadyBefore, StreamsRest
     DEF AlignBeforeOffsets, Looked, Closing, NotReady, ReadyForProcess, CloseSound
<1>6. CASE AlignWithOffsets
  BY <1>0, <1>2, <1>6, AlignReadyAfter, StreamsRest DEF AlignWithOffsets, Looked, Closing
<1>7. CASE Pop
  BY <1>0, <1>2, <1>7, AlignTakes DEF Pop, CloseSound
<1>8. CASE Invoke
  BY <1>0, <1>2, <1>8, AlignEnds, StreamsRest DEF Invoke, EndInvocation, Closing, CloseSound
<1>9. CASE CloseStream
  BY <1>0, <1>2, <1>9, AlignCloses
<1> QED
  BY <1>0, <1>1, <1>2, <1>3, <1>4, <1>5, <1>6, <1>7, <1>8, <1>9 DEF Next, Schedule, GetNodeReadiness

LEMMA AlignOnce ==
  ASSUME TInv, Aligns, handler.kind = "timestamp_align"
  PROVE  SelectedOnce
BY AlignPopIs DEF SelectedOnce, AlignPops, Selected

-----------------------------------------------------------------------------
(* The invariant of every handler but the one that erases surplus packets. *)

\* What is asked of a handler.
Proved(h) == h.kind # "fixed_size" /\ (h.kind = "timestamp_align" => Spread(h))

KindInv ==
  /\ PlainSets => Sets
  /\ handler.kind = "barrier" => Allowed
  /\ handler.kind = "mux" => Muxed
  /\ handler.kind = "timestamp_align" => Aligns
  /\ crashed \in {"none", MuxCheck}

SInv == Upstreams /\ SeenSound /\ CloseSound /\ Plain /\ KindInv

LEMMA KindIs ==
  ASSUME NEW h \in Handlers, Proved(h)
  PROVE  \/ h.kind \in {"default", "early_close", "immediate", "sync_set"}
         \/ h.kind = "barrier"
         \/ h.kind = "mux"
         \/ h.kind = "timestamp_align" /\ Spread(h)
BY HandlersAssumption DEF Proved, Kinds

\* Nothing has been sent, and the thread has not started.
InitialStream(s) ==
  /\ Selected(s) = Unstarted /\ Frontier(s) = PreStream /\ erased[s] = {} /\ timestamp_offsets_[s] = 0
  /\ stream[s].next_timestamp_bound_ = PreStream /\ ~stream[s].closed_

LEMMA InitialStreams ==
  ASSUME Init, NEW s \in Streams
  PROVE  InitialStream(s)
BY DEF Init, NewStream, InitialStream, Selected, Frontier, MinTimestampOrBound, IsEmpty

LEMMA InitSets ==
  ASSUME Init, TInv, PlainSets
  PROVE  Sets
<1>1. pc = "idle" /\ sync_sets_ = Indices /\ ready_timestamps_ = [i \in Indices |-> Unset] /\ ready = {}
  BY DEF Init
<1>2. \A s \in Streams : InitialStream(s)
  BY InitialStreams
<1>3. ASSUME NEW i \in Indices PROVE SetInv(i)
  <2>1. ready_timestamps_[i] = Unset /\ Unset # Done /\ Unstarted < PreStream /\ Unstarted \in Int
    BY <1>1, Constant
  <2>2. \A s \in StreamsOf(i) : InitialStream(s) /\ last_processed_ts_[i] \in Int
    BY <1>2, SetIs
  <2>3. SetKept(i)
    BY <2>1, <2>2 DEF SetKept, InitialStream
  <2>4. SetFlying(i) /\ SetWaits(i) /\ SetEnds(i)
    BY <1>1, <2>1 DEF SetFlying, InFlight, SetWaits, SetEnds
  <2>5. SetLast(i)
    BY <2>1, <2>2 DEF SetLast, Later, InitialStream
  <2> QED
    BY <2>3, <2>4, <2>5 DEF SetInv
<1> QED
  BY <1>1, <1>3 DEF Sets

LEMMA InitMux ==
  ASSUME Init, TInv, handler.kind = "mux"
  PROVE  Muxed
<1>1. pc = "idle" /\ ready = {}
  BY DEF Init
<1>2. \A s \in Streams : InitialStream(s)
  BY InitialStreams
<1>3. /\ Used \in SUBSET Streams /\ Control \in Streams /\ handler.packets \in SUBSET Carried
      /\ Unstarted < PreStream /\ Unstarted \in Int /\ Unstarted \notin Carried
  BY MuxIs, HandlerIs, Constant DEF TInv, StreamsTyped
<1>4. MuxOrder /\ MuxErased /\ MuxRest
  BY <1>2, <1>3 DEF MuxOrder, MuxErased, MuxRest, ErasedBefore, InitialStream
<1> QED
  BY <1>1, <1>4 DEF Muxed, MuxLook, MuxPop

LEMMA InitAlign ==
  ASSUME Init, TInv, handler.kind = "timestamp_align", Spread(handler)
  PROVE  Aligns
<1>1. pc = "idle" /\ sync_sets_ = Indices /\ ready_timestamps_ = [i \in Indices |-> Unset] /\ ready = {}
  BY DEF Init
<1>2. \A s \in Streams : InitialStream(s)
  BY InitialStreams
<1>3. handler \in Handlers /\ Used \in SUBSET Streams /\ Base \in Used
      /\ Unstarted < PreStream /\ Unstarted \in Int /\ 0 \in 0 .. MaxTime /\ MaxTime \in Int
  BY HandlerIs, AlignIs, Constant DEF TInv, StreamsTyped
<1>4. \A v \in handler.packets : v \in Int /\ v < MaxTime
  BY <1>3, SpreadIs
<1>5. NotSynced /\ Bounded
  BY <1>1, <1>2 DEF NotSynced, Bounded, Fits, InitialStream
<1>6. \A s \in Used : Off(s) = 0 /\ Selected(s) = Unstarted /\ Frontier(s) = PreStream
  BY <1>2, <1>3 DEF InitialStream, Off
<1>7. AlignOffsets
  BY <1>3, <1>4, <1>6 DEF AlignOffsets
<1>8. AlignBefore /\ AlignAfter
  BY <1>1, <1>3, <1>6 DEF AlignBefore, AlignAfter, Behind
<1>9. AlignSpread
  BY <1>1, <1>3, <1>4, <1>6 DEF From0, AlignSpread
<1> QED
  BY <1>1, <1>5, <1>7, <1>8, <1>9 DEF Aligns

LEMMA InitSound ==
  ASSUME Init, TInv, Proved(handler)
  PROVE  SInv
<1>1. /\ pc = "idle" /\ crashed = "none" /\ seen = NothingSeen /\ has_error_ = FALSE
      /\ surplus = NoSurplus /\ erase_mutex_ = 0 /\ notify = [s \in Streams |-> "none"]
      /\ out_bound = [s \in Streams |-> IF s \in Used THEN PreStream ELSE Done]
  BY DEF Init
<1>2. Upstreams
  BY <1>1, Constant, InitialStreams DEF Upstreams, InitialStream
<1>3. SeenSound
  BY <1>1, NotLooking DEF TInv
<1>4. CloseSound /\ Plain
  BY <1>1 DEF CloseSound, Plain
<1>5. handler \in Handlers /\ Proved(handler)
  BY DEF TInv, StreamsTyped
<1>6. KindInv
  BY <1>1, <1>5, InitAlign, InitSets, InitMux DEF Proved, Allowed, KindInv
<1> QED
  BY <1>2, <1>3, <1>4, <1>6 DEF SInv

LEMMA NextRuns == Next => crashed = "none"
BY DEF Next, Schedule, GetNodeReadiness, Upstream, StartScheduling, Look, Looked, Running,
       DefaultReadiness, EarlyCloseReadiness, BarrierReadiness, ImmediateReadiness, SyncSetsReadiness,
       AlignBeforeOffsets, AlignWithOffsets, MuxLooksAtControl, MuxLooksAtData, FixedSizeReadiness,
       FillInputSet, Measure, Pop, Invoke, EndInvocation, CloseStream, LookAfterErasing, EraseSurplusStep,
       AddPacketsTo, SetNextTimestampBoundOf, Notify, StartErasing, Erasing, EndErasing

LEMMA HandlerStays == Next => UNCHANGED handler
BY DEF Next, Schedule, GetNodeReadiness, Upstream, StartScheduling, Look,
       DefaultReadiness, EarlyCloseReadiness, BarrierReadiness, ImmediateReadiness, SyncSetsReadiness,
       AlignBeforeOffsets, AlignWithOffsets, MuxLooksAtControl, MuxLooksAtData, FixedSizeReadiness,
       FillInputSet, Measure, Pop, Invoke, EndInvocation, CloseStream, LookAfterErasing, EraseSurplusStep,
       AddPacketsTo, SetNextTimestampBoundOf, Notify, StartErasing, Erasing, EndErasing

LEMMA SoundStep ==
  ASSUME TInv, TInv', SInv, Proved(handler), Next
  PROVE  SInv'
<1>0. /\ handler' = handler /\ crashed = "none" /\ handler \in Handlers
      /\ Upstreams /\ SeenSound /\ CloseSound /\ Plain /\ KindInv
  BY NextRuns, HandlerStays DEF SInv, TInv, StreamsTyped
<1>1. CASE handler.kind \in {"default", "early_close", "immediate", "sync_set"}
  BY <1>0, <1>1, SetsStep DEF PlainSets, KindInv, SInv
<1>2. CASE handler.kind = "barrier"
  BY <1>0, <1>2, BarrierStep DEF KindInv, CloseSound, SInv, PlainSets
<1>3. CASE handler.kind = "mux"
  BY <1>0, <1>3, MuxStep DEF KindInv, CloseSound, SInv, PlainSets
<1>4. CASE handler.kind = "timestamp_align" /\ Spread(handler)
  BY <1>0, <1>4, AlignStep DEF KindInv, SInv, PlainSets
<1> QED
  BY <1>0, <1>1, <1>2, <1>3, <1>4, KindIs

LEMMA SoundRests ==
  ASSUME SInv, UNCHANGED vars
  PROVE  SInv'
<1>1. UNCHANGED <<handler, stream, out_bound, has_error_, notify, pc, todo, seen, input_timestamp, handlerVars,
                  alignVars, surplusVars, erased, crashed>>
  BY DEF vars, upstreamVars, scheduleVars
<1>2. /\ Used' = Used /\ Indices' = Indices /\ Control' = Control /\ StreamsToLookAt' = StreamsToLookAt
      /\ \A s : Selected(s)' = Selected(s) /\ Frontier(s)' = Frontier(s) /\ DataStream(s)' = DataStream(s)
  BY <1>1 DEF Used, Indices, Control, StreamsToLookAt, StreamsOf, Selected, Frontier, DataStream, handlerVars
<1>4. Upstreams' /\ CloseSound' /\ Plain'
  BY <1>1, <1>2 DEF SInv, Upstreams, CloseSound, Plain, Closing, surplusVars, NoSurplus
<1>5. SeenSound'
  BY <1>1, <1>2 DEF SInv, SeenSound, Sight, NothingSeen
<1>3. KindInv'
  <2>1. Sets => Sets'
    BY <1>1 DEF Sets, SetInv, SetKept, SetFlying, SetLast, SetWaits, SetEnds, InFlight, Closing, StreamsOf, Indices,
       Selected, Frontier, Taken, Processed, MayFill, Ended, handlerVars
  <2>2. Muxed => Muxed'
    <3>1. MuxOrder' /\ MuxErased' /\ MuxRest' <=> MuxOrder /\ MuxErased /\ MuxRest
      BY <1>1, <1>2 DEF MuxOrder, MuxErased, MuxRest, Closing, ErasedBefore
    <3>2. MuxLook => MuxLook'
      BY <1>1, <1>2 DEF MuxLook, handlerVars, NothingSeen
    <3>3. MuxPop => MuxPop'
      BY <1>1, <1>2 DEF MuxPop, ErasedBefore
    <3> QED
      BY <3>1, <3>2, <3>3 DEF Muxed
  <2>3. Aligns => Aligns'
    BY <1>1 DEF Aligns, NotSynced, Bounded, AlignOffsets, AlignBefore, AlignSpread, AlignAfter, Closing, Used, StreamsOf,
       Indices, Selected, Frontier, Off, Base, Taken, Fits, From0, ShiftTaken, Behind, NotAfter, Shifted, handlerVars, alignVars
  <2> QED
    BY <1>1, <2>1, <2>2, <2>3 DEF SInv, KindInv, PlainSets, Allowed
<1> QED
  BY <1>3, <1>4, <1>5 DEF SInv

LEMMA SoundIs ==
  ASSUME TInv, SInv, Proved(handler)
  PROVE  InputSetsSound
<1>0. handler \in Handlers /\ Upstreams /\ CloseSound /\ KindInv
  BY DEF SInv, TInv, StreamsTyped
<1>1. NothingRefused /\ NothingLeftBehind
  BY <1>0, RefusedLeft
<1>2. ChecksHold
  BY <1>0 DEF KindInv, ChecksHold
<1>3. ErasedEverywhere
  BY <1>0, MuxSound DEF KindInv, Proved, ErasedEverywhere
<1>4. SelectedOnce
  BY <1>0, OnceOfSets, MuxSound, AlignOnce, KindIs DEF KindInv, PlainSets, SelectedOnce
<1> QED
  BY <1>1, <1>2, <1>3, <1>4 DEF InputSetsSound

(* InputSetsSound holds in every state of a node with any of the handlers of Proved, for
   any streams, sync sets and packets: however packets and bounds come in while the node
   looks at its streams one at a time, the CHECKs of FillInputSet hold, no packet is
   refused or delivered twice, and none is left behind when the node is closed. *)
THEOREM InputSets == Spec /\ Proved(handler) => []InputSetsSound
<1>1. TInv => handler \in Handlers
  BY DEF TInv, StreamsTyped
<1>2. Init /\ Proved(handler) => TInv /\ SInv /\ Proved(handler)
  BY InitTyped, InitSound
<1>3. TInv /\ SInv /\ Proved(handler) /\ [Next]_vars => (TInv /\ SInv /\ Proved(handler))'
  <2> SUFFICES ASSUME TInv, SInv, Proved(handler), [Next]_vars PROVE TInv' /\ SInv' /\ Proved(handler)'
    OBVIOUS
  <2>1. TInv'
    BY NextTyped
  <2>2. CASE Next
    BY <2>1, <2>2, HandlerStays, SoundStep DEF Proved, Spread
  <2>3. CASE UNCHANGED vars
    BY <2>1, <2>3, SoundRests DEF vars, Proved, Spread
  <2> QED
    BY <2>1, <2>2, <2>3
<1>4. TInv /\ SInv /\ Proved(handler) => InputSetsSound
  BY <1>1, SoundIs
<1> QED
  BY <1>2, <1>3, <1>4, PTL DEF Spec

-----------------------------------------------------------------------------
(* A stream whose frontier does not go back, whoever changes it. *)

\* b is a after packets came at its end or left it at its head.
Moves(a, b) ==
  /\ MinTimestampOrBound(a) <= MinTimestampOrBound(b)
  /\ ~IsEmpty(a) /\ MinTimestampOrBound(b) = MinTimestampOrBound(a) => ~IsEmpty(b)

\* The packets come in the order of their timestamps, and before the bound.
Strict(a) ==
  /\ \A i, j \in 1 .. Len(a.queue) : i < j => a.queue[i] < a.queue[j]
  /\ \A i \in 1 .. Len(a.queue) : a.queue[i] < a.next_timestamp_bound_

\* What was settled stays so.
LEMMA MoveKeeps ==
  ASSUME NEW h \in Handlers, NEW a, NEW b, InOrder(h, a), InOrder(h, b), Moves(a, b), NEW t \in Int
  PROVE  /\ Settled(a, t) => Settled(b, t)
         /\ t <= MinTimestampOrBound(a) => t <= MinTimestampOrBound(b)
<1>1. MinTimestampOrBound(a) \in Int /\ MinTimestampOrBound(b) \in Int
  BY FrontIs
<1> QED
  BY <1>1 DEF Moves, Settled

\* A stream that does not change moves, and so does one that grows.
LEMMA StaysMoves ==
  ASSUME NEW h \in Handlers, NEW a, InOrder(h, a)
  PROVE  Moves(a, a)
BY FrontIs DEF Moves

LEMMA GrowsMoves == ASSUME NEW a, NEW b, Grows(a, b) PROVE Moves(a, b)
BY DEF Grows, Moves

\* One that loses packets from the head of its queue moves.
LEMMA SuffixMoves ==
  ASSUME NEW h \in Handlers, NEW a, NEW b, InOrder(h, a), InOrder(h, b), Strict(a),
         NEW n \in Nat, n + Len(b.queue) = Len(a.queue),
         \A i \in 1 .. Len(b.queue) : i + n \in 1 .. Len(a.queue) /\ b.queue[i] = a.queue[i + n],
         a.next_timestamp_bound_ <= b.next_timestamp_bound_
  PROVE  Moves(a, b) /\ Strict(b)
<1>1. /\ Len(a.queue) \in Nat /\ Len(b.queue) \in Nat
      /\ a.next_timestamp_bound_ \in Int /\ b.next_timestamp_bound_ \in Int
      /\ MinTimestampOrBound(a) \in Int /\ MinTimestampOrBound(b) \in Int
      /\ \A i \in 1 .. Len(a.queue) : a.queue[i] \in Int
  BY Fields, FrontIs
<1>2. ASSUME IsEmpty(b) PROVE Moves(a, b)
  <2>1. MinTimestampOrBound(b) = b.next_timestamp_bound_
    BY <1>2, FrontIs
  <2>2. CASE IsEmpty(a)
    <3>1. MinTimestampOrBound(a) = a.next_timestamp_bound_
      BY <2>2, FrontIs
    <3> QED
      BY <1>1, <2>1, <2>2, <3>1 DEF Moves
  <2>3. CASE ~IsEmpty(a)
    <3>1. MinTimestampOrBound(a) = a.queue[1] /\ 1 \in 1 .. Len(a.queue)
      BY <2>3, FrontIs
    <3>2. a.queue[1] < a.next_timestamp_bound_
      BY <3>1 DEF Strict
    <3>3. MinTimestampOrBound(a) < MinTimestampOrBound(b)
      BY <1>1, <2>1, <3>1, <3>2
    <3> QED
      BY <1>1, <3>3 DEF Moves
  <2> QED
    BY <2>2, <2>3
<1>3. ASSUME ~IsEmpty(b) PROVE Moves(a, b)
  <2>1. MinTimestampOrBound(b) = b.queue[1] /\ 1 \in 1 .. Len(b.queue)
    BY <1>3, FrontIs
  <2>2. 1 + n \in 1 .. Len(a.queue) /\ b.queue[1] = a.queue[1 + n] /\ 1 \in 1 .. Len(a.queue)
        /\ Len(a.queue) # 0
    BY <1>1, <2>1
  <2>3. ~IsEmpty(a)
    BY <1>1, <2>2, FrontIs
  <2>4. MinTimestampOrBound(a) = a.queue[1]
    BY <2>3, FrontIs
  <2>5. a.queue[1] <= a.queue[1 + n]
    <3>1. 1 < 1 + n => a.queue[1] < a.queue[1 + n]
      BY <2>2 DEF Strict
    <3>2. CASE n = 0
      <4>1. a.queue[1 + n] = a.queue[1] /\ a.queue[1] \in Int
        BY <1>1, <2>2, <3>2
      <4> QED
        BY <4>1
    <3>3. CASE n # 0
      <4>1. 1 < 1 + n /\ a.queue[1] \in Int /\ a.queue[1 + n] \in Int
        BY <1>1, <2>2, <3>3
      <4> QED
        BY <3>1, <4>1
    <3> QED
      BY <3>2, <3>3
  <2> QED
    BY <1>3, <2>1, <2>2, <2>4, <2>5 DEF Moves
<1>4. Strict(b)
  <2>1. ASSUME NEW i \in 1 .. Len(b.queue), NEW j \in 1 .. Len(b.queue), i < j
        PROVE  b.queue[i] < b.queue[j]
    <3>1. i + n \in 1 .. Len(a.queue) /\ j + n \in 1 .. Len(a.queue) /\ i + n < j + n
          /\ b.queue[i] = a.queue[i + n] /\ b.queue[j] = a.queue[j + n]
      BY <2>1, <1>1
    <3> QED
      BY <3>1 DEF Strict
  <2>2. ASSUME NEW i \in 1 .. Len(b.queue) PROVE b.queue[i] < b.next_timestamp_bound_
    <3>1. a.queue[i + n] < a.next_timestamp_bound_ /\ a.queue[i + n] \in Int
      BY <1>1 DEF Strict
    <3> QED
      BY SMTT(30), <1>1, <3>1
  <2> QED
    BY <2>1, <2>2 DEF Strict
<1> QED
  BY <1>2, <1>3, <1>4

\* So does one from which the packets before a timestamp are erased,
LEMMA EraseMoves ==
  ASSUME NEW h \in Handlers, NEW a, InOrder(h, a), a.enable_timestamps_, NEW t \in Int
  PROVE  Moves(a, ErasePacketsEarlierThan(a, t))
<1>1. PICK b : b = ErasePacketsEarlierThan(a, t)
  OBVIOUS
<1>2. InOrder(h, b) /\ b.queue = From(a.queue, t) /\ b.next_timestamp_bound_ = a.next_timestamp_bound_
  BY <1>1, EraseInOrder
<1>3. PICK n : n = CountBefore(a.queue, t)
  OBVIOUS
<1>4. a.queue \in Seq(Carried) /\ Len(a.queue) \in Nat /\ a.next_timestamp_bound_ \in Int
  BY Fields
<1>5. /\ n \in 0 .. Len(a.queue) /\ Len(b.queue) = Len(a.queue) - n
      /\ \A i \in 1 .. Len(b.queue) : i + n \in 1 .. Len(a.queue) /\ b.queue[i] = a.queue[i + n]
  BY <1>2, <1>3, <1>4, FromIs
<1>6. Strict(a)
  BY Increases DEF Strict
<1>7. n \in Nat /\ n + Len(b.queue) = Len(a.queue) /\ a.next_timestamp_bound_ <= b.next_timestamp_bound_
  BY <1>2, <1>4, <1>5
<1> QED
  BY <1>1, <1>2, <1>5, <1>6, <1>7, SuffixMoves

\* or that is popped at a timestamp,
LEMMA PopMoves ==
  ASSUME NEW h \in Handlers, NEW a, InOrder(h, a), a.enable_timestamps_, NEW t \in Timestamp, t <= PostStream
  PROVE  Moves(a, PopPacketAtTimestamp(a, t))
<1>1. PICK b : b = PopPacketAtTimestamp(a, t)
  OBVIOUS
<1>2. /\ InOrder(h, b) /\ b.queue = From(a.queue, t + 1)
      /\ b.next_timestamp_bound_ =
           (IF a.next_timestamp_bound_ <= t THEN NextAllowedInStream(t) ELSE a.next_timestamp_bound_)
  BY <1>1, PopInOrder
<1>3. PICK n : n = CountBefore(a.queue, t + 1)
  OBVIOUS
<1>4. a.queue \in Seq(Carried) /\ Len(a.queue) \in Nat /\ a.next_timestamp_bound_ \in Int /\ t + 1 \in Int /\ t \in Int
  BY Fields, Constant
<1>5. /\ n \in 0 .. Len(a.queue) /\ Len(b.queue) = Len(a.queue) - n
      /\ \A i \in 1 .. Len(b.queue) : i + n \in 1 .. Len(a.queue) /\ b.queue[i] = a.queue[i + n]
  BY <1>2, <1>3, <1>4, FromIs
<1>6. Strict(a)
  BY Increases DEF Strict
<1>7. n \in Nat /\ n + Len(b.queue) = Len(a.queue)
  BY <1>4, <1>5
<1>8. NextAllowedInStream(t) > t /\ NextAllowedInStream(t) \in Int
  BY NextIs, Constant
<1>9. a.next_timestamp_bound_ <= b.next_timestamp_bound_
  BY <1>2, <1>4, <1>8
<1> QED
  BY <1>1, <1>2, <1>5, <1>6, <1>7, <1>9, SuffixMoves

\* or, its packets being in order, popped at the head,
LEMMA HeadMoves ==
  ASSUME NEW h \in Handlers, NEW a, InOrder(h, a), Strict(a)
  PROVE  Moves(a, PopQueueHead(a)) /\ Strict(PopQueueHead(a))
<1>1. PICK b : b = PopQueueHead(a)
  OBVIOUS
<1>2. InOrder(h, b) /\ b.next_timestamp_bound_ = a.next_timestamp_bound_
  BY <1>1, PopHeadInOrder
<1>3. a.queue \in Seq(Carried) /\ Len(a.queue) \in Nat /\ a.next_timestamp_bound_ \in Int /\ a \in StreamRecords
  BY Fields
<1>4. CASE a.queue = <<>>
  <2>1. b.queue = a.queue
    BY <1>1, <1>3, <1>4 DEF PopQueueHead, StreamRecords
  <2>2. 0 + Len(b.queue) = Len(a.queue) /\ a.next_timestamp_bound_ <= b.next_timestamp_bound_
        /\ \A i \in 1 .. Len(b.queue) : i + 0 \in 1 .. Len(a.queue) /\ b.queue[i] = a.queue[i + 0]
    BY <1>2, <1>3, <2>1
  <2> QED
    BY <1>1, <1>2, <2>2, SuffixMoves
<1>5. CASE a.queue # <<>>
  <2>1. b.queue = Tail(a.queue)
    BY <1>1, <1>3, <1>5 DEF PopQueueHead, StreamRecords
  <2>2. /\ Len(Tail(a.queue)) = Len(a.queue) - 1
        /\ \A i \in 1 .. Len(Tail(a.queue)) : Tail(a.queue)[i] = a.queue[i + 1]
    BY <1>3, <1>5, HeadTailProperties
  <2>3. 1 + Len(b.queue) = Len(a.queue) /\ a.next_timestamp_bound_ <= b.next_timestamp_bound_
    BY <1>2, <1>3, <2>1, <2>2
  <2>4. \A i \in 1 .. Len(b.queue) : i + 1 \in 1 .. Len(a.queue) /\ b.queue[i] = a.queue[i + 1]
    BY <1>3, <2>1, <2>2
  <2> QED
    BY <1>1, <1>2, <2>3, <2>4, SuffixMoves
<1> QED
  BY <1>4, <1>5

\* A packet that does not come before the bound.
LEMMA AcceptMoves ==
  ASSUME NEW h \in Handlers, NEW a, InOrder(h, a), Strict(a), NEW t \in h.packets,
         ~RefusesPacket(a, t), a.next_timestamp_bound_ <= t
  PROVE  LET b == Accept(a, t)
         IN  InOrder(h, b) /\ Moves(a, b) /\ Strict(b) /\ b.next_timestamp_bound_ = NextAllowedInStream(t)
<1>1. PICK b : b = Accept(a, t)
  OBVIOUS
<1>2. /\ InOrder(h, b) /\ Len(b.queue) = Len(a.queue) + 1
      /\ \A i \in 1 .. Len(b.queue) : b.queue[i] = IF i = Len(a.queue) + 1 THEN t ELSE a.queue[i]
      /\ b.next_timestamp_bound_ = NextAllowedInStream(t)
  BY <1>1, AcceptInOrder
<1>3. /\ t \in Int /\ NextAllowedInStream(t) \in Int /\ t < NextAllowedInStream(t)
      /\ a.next_timestamp_bound_ \in Int /\ Len(a.queue) \in Nat
      /\ \A i \in 1 .. Len(a.queue) : a.queue[i] \in Int
  <2>1. t \in Carried /\ t \in Timestamp /\ t \in Int
    BY HandlersAssumption, Constant DEF Carried
  <2>2. NextAllowedInStream(t) \in Marks /\ t < NextAllowedInStream(t)
    BY <2>1, NextIs
  <2> QED
    BY <2>1, <2>2, Fields, Constant
<1>4. ~IsEmpty(b)
  BY <1>2, <1>3, FrontIs
<1>5. MinTimestampOrBound(b) = b.queue[1] /\ 1 \in 1 .. Len(b.queue)
  BY <1>2, <1>4, FrontIs
<1>6. MinTimestampOrBound(a) <= MinTimestampOrBound(b)
  <2>1. CASE IsEmpty(a)
    <3>1. Len(a.queue) = 0 /\ MinTimestampOrBound(a) = a.next_timestamp_bound_
      BY <2>1, FrontIs
    <3> QED
      BY <1>2, <1>3, <1>5, <3>1
  <2>2. CASE ~IsEmpty(a)
    <3>1. MinTimestampOrBound(a) = a.queue[1] /\ 1 \in 1 .. Len(a.queue)
      BY <2>2, FrontIs
    <3> QED
      BY <1>2, <1>3, <1>5, <3>1
  <2> QED
    BY <2>1, <2>2
<1>7. Strict(b)
  <2>1. \A i \in 1 .. Len(a.queue) : b.queue[i] = a.queue[i] /\ a.queue[i] < t
    <3>1. \A i \in 1 .. Len(a.queue) : a.queue[i] < a.next_timestamp_bound_
      BY DEF Strict
    <3> QED
      BY <1>2, <1>3, <3>1
  <2>2. b.queue[Len(a.queue) + 1] = t
    BY <1>2, <1>3
  <2>3. ASSUME NEW i \in 1 .. Len(b.queue), NEW j \in 1 .. Len(b.queue), i < j
        PROVE  b.queue[i] < b.queue[j]
    <3>1. i \in 1 .. Len(a.queue)
      BY <1>2, <1>3, <2>3
    <3>2. CASE j = Len(a.queue) + 1
      BY <2>1, <2>2, <3>1, <3>2
    <3>3. CASE j # Len(a.queue) + 1
      <4>1. j \in 1 .. Len(a.queue)
        BY <1>2, <1>3, <3>3
      <4> QED
        BY <2>1, <2>3, <3>1, <4>1 DEF Strict
    <3> QED
      BY <3>2, <3>3
  <2>4. ASSUME NEW i \in 1 .. Len(b.queue) PROVE b.queue[i] < b.next_timestamp_bound_
    <3>1. CASE i = Len(a.queue) + 1
      BY <1>2, <1>3, <2>2, <3>1
    <3>2. CASE i # Len(a.queue) + 1
      <4>1. i \in 1 .. Len(a.queue)
        BY <1>2, <1>3, <3>2
      <4> QED
        BY <1>2, <1>3, <2>1, <4>1
    <3> QED
      BY <3>1, <3>2
  <2> QED
    BY <2>3, <2>4 DEF Strict
<1> QED
  BY <1>1, <1>2, <1>4, <1>6, <1>7 DEF Moves

-----------------------------------------------------------------------------
(* No step takes a frontier back, but for closing and for a failed CHECK. *)

\* The barrier handler takes packets in any order; the nodes upstream send them in order.
InLine == handler.kind = "barrier" => \A s \in Streams : Strict(stream[s])
Moved == \A u \in Streams : Moves(stream[u], stream'[u])

\* Moves one after the other are a move.
LEMMA MovesTransitive ==
  ASSUME NEW h \in Handlers, NEW a, NEW b, NEW c, InOrder(h, a), InOrder(h, b), InOrder(h, c),
         Moves(a, b), Moves(b, c)
  PROVE  Moves(a, c)
<1>1. MinTimestampOrBound(a) \in Int /\ MinTimestampOrBound(b) \in Int /\ MinTimestampOrBound(c) \in Int
  BY FrontIs
<1> QED
  BY <1>1 DEF Moves

\* The packets of one call of PropagateUpdatesToMirrors move a stream.
LEMMA AddedMoves ==
  ASSUME StreamsTyped, NEW s \in Streams, NEW packets \in Batches(s), Increasing(packets),
         ~stream[s].closed_, stream[s].next_timestamp_bound_ <= out_bound[s], Strict(stream[s])
  PROVE  LET b == AddPackets(stream[s], packets).stream
         IN  Moves(stream[s], b) /\ Strict(b)
<1> DEFINE a == stream[s]
           start == [stream |-> a, ok |-> TRUE]
           result == AddPackets(a, packets)
<1>1. InOrder(handler, a) /\ handler \in Handlers /\ out_bound[s] \in Int
      /\ a.next_timestamp_bound_ \in Int
  BY Constant, Fields DEF StreamsTyped
<1>2. PICK k \in {1, 2} : Len(packets) = k
  BY BatchesAre
<1>3. start.stream = a /\ start.ok = TRUE
  OBVIOUS
<1>4. result = IF k = 1 THEN Adding(start, packets[1])
               ELSE Adding(Adding(start, packets[1]), packets[2])
  <2> HIDE DEF a
  <2>1. ~a.closed_
    BY DEF a
  <2> QED
    BY <1>2, <2>1, AddsUpToTwo
<1> DEFINE first == Adding(start, packets[1])
           second == Adding(first, packets[2])
<1>5. result = IF k = 1 THEN first ELSE second
  BY <1>4
<1>6. /\ packets[1] \in handler.packets /\ (k = 2 => packets[2] \in handler.packets)
      /\ packets[1] >= out_bound[s]
      /\ \A t \in handler.packets : t \in Int
  <2>1. /\ packets[1] \in handler.packets /\ packets[1] >= out_bound[s]
        /\ \/ Len(packets) = 1
           \/ Len(packets) = 2 /\ packets[2] \in handler.packets
    BY BatchesAre
  <2>2. \A t \in handler.packets : t \in Int
    BY <1>1, HandlerIs
  <2> QED
    BY <2>1, <2>2, <1>2
<1>7. a.next_timestamp_bound_ <= packets[1]
  BY <1>1, <1>6 DEF a
<1> HIDE DEF start, a, result
<1>8. Strict(a)
  BY DEF a
<1>9. /\ first.ok \in BOOLEAN /\ InOrder(handler, first.stream)
      /\ Moves(a, first.stream) /\ Strict(first.stream)
      /\ first.ok => first.stream.next_timestamp_bound_ = NextAllowedInStream(packets[1])
  <2>1. CASE RefusesPacket(a, packets[1])
    <3>1. first.ok = FALSE /\ first.stream = a
      BY <1>3, <2>1 DEF Adding
    <3> QED
      BY <3>1, <1>1, <1>8, StaysMoves
  <2>2. CASE ~RefusesPacket(a, packets[1])
    <3>1. first.ok = TRUE /\ first.stream = Accept(a, packets[1])
      BY <1>3, <2>2 DEF Adding
    <3>2. PICK b : b = Accept(a, packets[1])
      OBVIOUS
    <3>3. InOrder(handler, b) /\ Moves(a, b) /\ Strict(b)
          /\ b.next_timestamp_bound_ = NextAllowedInStream(packets[1])
      BY <3>2, <1>1, <1>6, <1>7, <1>8, <2>2, AcceptMoves
    <3> HIDE DEF first
    <3> QED
      BY <3>1, <3>2, <3>3
  <2> QED
    BY <2>1, <2>2
<1> HIDE DEF first
<1>10. ASSUME k = 2 PROVE Moves(a, second.stream) /\ Strict(second.stream)
  <2>1. CASE ~first.ok \/ RefusesPacket(first.stream, packets[2])
    <3>1. second.stream = first.stream
      BY <2>1 DEF Adding
    <3> QED
      BY <3>1, <1>9
  <2>2. CASE ~(~first.ok \/ RefusesPacket(first.stream, packets[2]))
    <3>1. packets[2] >= NextAllowedInStream(packets[1])
      <4>1. 2 \in 2 .. Len(packets) /\ 2 - 1 = 1
        BY <1>10, <1>2
      <4> QED
        BY <4>1 DEF Increasing
    <3>2. first.stream.next_timestamp_bound_ \in Int
      BY <1>1, <1>9, Fields
    <3>3. first.stream.next_timestamp_bound_ <= packets[2] /\ packets[2] \in handler.packets
      BY <1>6, <1>9, <1>10, <2>2, <3>1, <3>2
    <3>4. second.stream = Accept(first.stream, packets[2])
      BY <2>2 DEF Adding
    <3>5. PICK b : b = Accept(first.stream, packets[2])
      OBVIOUS
    <3>6. InOrder(handler, b) /\ Moves(first.stream, b) /\ Strict(b)
      BY <3>5, <3>3, <1>1, <1>9, <2>2, AcceptMoves
    <3>7. Moves(a, b)
      BY <1>1, <1>9, <3>6, MovesTransitive
    <3> HIDE DEF second
    <3> QED
      BY <3>4, <3>5, <3>6, <3>7
  <2> QED
    BY <2>1, <2>2
<1> HIDE DEF second
<1> QED
  BY <1>2, <1>5, <1>9, <1>10 DEF result, a

\* A step that moves one stream, and one that moves none.
LEMMA OneMoves ==
  ASSUME TInv, InLine, NEW s \in Streams, NEW b, stream' = [stream EXCEPT ![s] = b], UNCHANGED handler,
         Moves(stream[s], b), handler.kind = "barrier" => Strict(b)
  PROVE  Moved /\ InLine'
<1>1. handler \in Handlers /\ stream \in [Streams -> StreamRecords]
      /\ \A u \in Streams : InOrder(handler, stream[u])
  BY DEF TInv, StreamsTyped
<1>2. ASSUME NEW u \in Streams PROVE stream'[u] = IF u = s THEN b ELSE stream[u]
  BY <1>1
<1>3. ASSUME NEW u \in Streams PROVE Moves(stream[u], stream'[u])
  BY <1>1, <1>2, StaysMoves
<1>4. ASSUME handler.kind = "barrier", NEW u \in Streams PROVE Strict(stream'[u])
  BY <1>2, <1>4 DEF InLine
<1>5. InLine'
  BY <1>4 DEF InLine
<1> QED
  BY <1>3, <1>5 DEF Moved

LEMMA NoneMoves ==
  ASSUME TInv, InLine, UNCHANGED <<handler, stream>>
  PROVE  Moved /\ InLine'
<1>1. handler \in Handlers /\ \A u \in Streams : InOrder(handler, stream[u])
  BY DEF TInv, StreamsTyped
<1> QED
  BY <1>1, StaysMoves DEF Moved, InLine

\* A step of a node upstream.
LEMMA UpstreamMoves ==
  ASSUME TInv, InLine, handler.kind = "barrier" => Upstreams, ~Closing, NEW s \in Streams, Upstream(s)
  PROVE  Moved /\ InLine'
<1>0. StreamsTyped /\ handler \in Handlers /\ InOrder(handler, stream[s])
  BY DEF TInv, StreamsTyped
<1>1. CASE AddPacketsTo(s)
  <2>1. PICK packets \in Batches(s) :
          /\ Increasing(packets)
          /\ stream' = [stream EXCEPT ![s] = AddPackets(stream[s], packets).stream]
          /\ UNCHANGED handler
    BY <1>1 DEF AddPacketsTo
  <2>2. PICK b : b = AddPackets(stream[s], packets).stream
    OBVIOUS
  <2>3. CASE handler.kind = "barrier"
    <3>1. ~stream[s].closed_ /\ stream[s].next_timestamp_bound_ <= out_bound[s] /\ Strict(stream[s])
      BY <2>3 DEF Upstreams, InLine
    <3>2. Moves(stream[s], b) /\ Strict(b)
      BY <1>0, <2>1, <2>2, <3>1, AddedMoves
    <3> QED
      BY <2>1, <2>2, <3>2, OneMoves
  <2>4. CASE handler.kind # "barrier"
    <3>1. InOrder(handler, b) /\ Extends(handler, stream[s], b)
      BY <1>0, <2>2, AddedInOrder
    <3>2. stream[s].enable_timestamps_
      BY <1>0, <2>4 DEF InOrder
    <3>3. Moves(stream[s], b)
      BY <1>0, <3>1, <3>2, ExtendsGrows, GrowsMoves
    <3> QED
      BY <2>1, <2>2, <2>4, <3>3, OneMoves
  <2> QED
    BY <2>3, <2>4
<1>2. CASE SetNextTimestampBoundOf(s)
  <2>1. PICK bound \in (handler.packets \cup {Done}) :
          /\ stream' = [stream EXCEPT ![s] = SetNextTimestampBound(@, bound)]
          /\ UNCHANGED handler
    BY <1>2 DEF SetNextTimestampBoundOf
  <2>2. PICK b : b = SetNextTimestampBound(stream[s], bound)
    OBVIOUS
  <2>3. stream' = [stream EXCEPT ![s] = b]
    BY <2>1, <2>2
  <2>4. bound \in Marks
    <3>1. handler.packets \in SUBSET Carried
      BY <1>0, HandlerIs
    <3> QED
      BY <3>1, Constant
  <2>5. /\ InOrder(handler, b) /\ b.queue = stream[s].queue
        /\ stream[s].next_timestamp_bound_ <= b.next_timestamp_bound_
        /\ stream[s].next_timestamp_bound_ \in Int /\ b.next_timestamp_bound_ \in Int
    <3>1. /\ InOrder(handler, b) /\ b.queue = stream[s].queue
          /\ b.next_timestamp_bound_ = (IF stream[s].closed_ \/ bound <= stream[s].next_timestamp_bound_
                                        THEN stream[s].next_timestamp_bound_ ELSE bound)
      BY <1>0, <2>2, <2>4, BoundInOrder
    <3>2. stream[s].next_timestamp_bound_ \in Int /\ b.next_timestamp_bound_ \in Int /\ bound \in Int
      BY <1>0, <2>4, <3>1, FrontIs, Constant
    <3> QED
      BY <3>1, <3>2
  <2>6. Moves(stream[s], b)
    <3>1. CASE IsEmpty(stream[s])
      BY <1>0, <2>5, <3>1, FrontIs DEF IsEmpty, Moves
    <3>2. CASE ~IsEmpty(stream[s])
      BY <1>0, <2>5, <3>2, FrontIs DEF IsEmpty, Moves
    <3> QED
      BY <3>1, <3>2
  <2>7. handler.kind = "barrier" => Strict(b)
    <3> SUFFICES ASSUME handler.kind = "barrier" PROVE Strict(b)
      OBVIOUS
    <3>1. Strict(stream[s])
      BY DEF InLine
    <3>2. \A i \in 1 .. Len(b.queue) : b.queue[i] \in Int
      BY <1>0, <2>5, Fields
    <3> QED
      BY <2>5, <3>1, <3>2 DEF Strict
  <2> QED
    BY <2>1, <2>3, <2>6, <2>7, OneMoves
<1>3. CASE Notify(s) \/ StartErasing(s) \/ EndErasing(s)
  <2>1. UNCHANGED <<handler, stream>>
    BY <1>3 DEF Notify, StartErasing, Erasing, EndErasing
  <2> QED
    BY <2>1, NoneMoves
<1> QED
  BY <1>1, <1>2, <1>3 DEF Upstream

\* FillInputSet takes a packet, or erases some.
LEMMA PopsMove ==
  ASSUME TInv, InLine, Pop, crashed' = "none"
  PROVE  Moved /\ InLine'
<1>0. StreamsTyped /\ SchedulerTyped /\ HandlerTyped /\ handler \in Handlers
  BY DEF TInv, StreamsTyped
<1>1. PICK s : s = First
  OBVIOUS
<1>2. PICK b : b = Popped(s)
  OBVIOUS
<1>3. /\ todo # {} /\ FailedCheck(s) = "none"
      /\ stream' = [stream EXCEPT ![s] = b] /\ UNCHANGED handler
  BY <1>1, <1>2 DEF Pop
<1>4. s \in Streams
  BY <1>0, <1>1, <1>3, FirstIs DEF SchedulerTyped
<1>5. InOrder(handler, stream[s]) /\ stream[s].enable_timestamps_ = (handler.kind # "barrier")
  BY <1>0, <1>4 DEF StreamsTyped, InOrder
<1>6. IsAllowedInStream(input_timestamp) /\ input_timestamp \in Timestamp
  BY <1>0, <1>3 DEF FailedCheck, SchedulerTyped
<1>7. CASE handler.kind = "barrier"
  BY <1>0, <1>2, <1>3, <1>4, <1>5, <1>7, HeadMoves, OneMoves DEF Popped, OnlyErases, InLine
<1>8. CASE handler.kind # "barrier" /\ OnlyErases(s)
  <2>1. b = ErasePacketsEarlierThan(stream[s], NextAllowedInStream(input_timestamp))
    BY <1>2, <1>8 DEF Popped
  <2>2. NextAllowedInStream(input_timestamp) \in Int
    BY <1>6, NextIs, Constant
  <2>3. Moves(stream[s], b)
    BY <1>0, <1>5, <1>8, <2>1, <2>2, EraseMoves
  <2> QED
    BY <1>3, <1>4, <1>8, <2>3, OneMoves
<1>9. CASE handler.kind # "barrier" /\ ~OnlyErases(s)
  <2>1. PICK t : t = SelectTimestamp(s)
    OBVIOUS
  <2>2. b = PopPacketAtTimestamp(stream[s], t)
    BY <1>2, <1>9, <2>1 DEF Popped
  <2>3. t \in Timestamp /\ t <= PostStream
    <3>1. t \in Timestamp
      BY <1>0, <1>4, <2>1, SelectIs
    <3>2. CASE handler.kind = "timestamp_align" /\ IsRangeValue(input_timestamp)
      BY <1>0, <1>4, <1>6, <2>1, <3>1, <3>2, Constant, PlusIs DEF SelectTimestamp, IsRangeValue, HandlerTyped
    <3>3. CASE ~(handler.kind = "timestamp_align" /\ IsRangeValue(input_timestamp))
      BY <1>6, <2>1, <3>1, <3>3 DEF SelectTimestamp, IsAllowedInStream
    <3> QED
      BY <3>2, <3>3
  <2>4. Moves(stream[s], b)
    BY <1>0, <1>5, <1>9, <2>2, <2>3, PopMoves
  <2> QED
    BY <1>3, <1>4, <1>9, <2>4, OneMoves
<1> QED
  BY <1>7, <1>8, <1>9

LEMMA ErasesMove ==
  ASSUME TInv, InLine, handler.kind # "barrier", NEW s \in Streams, NEW t \in Int, Erase(s, t), UNCHANGED handler
  PROVE  Moved /\ InLine'
BY EraseMoves, OneMoves DEF Erase, TInv, StreamsTyped, InOrder

\* Streams only move, but for a CHECK that fails.
LEMMA StepMoves ==
  ASSUME TInv, InLine, handler.kind = "barrier" => Upstreams, Plain \/ handler.kind = "fixed_size", Next,
         crashed' = "none", ~Closing, ~Closing'
  PROVE  Moved /\ InLine'
<1>0. StreamsTyped /\ SchedulerTyped /\ HandlerTyped /\ handler \in Handlers
  BY DEF TInv, StreamsTyped
<1>1. ASSUME NEW s \in Streams, Upstream(s) PROVE Moved /\ InLine'
  BY <1>1, UpstreamMoves
<1>2. CASE Pop
  BY <1>2, PopsMove
<1>3. CASE EraseSurplusStep
  <2>1. surplus.op # "done" /\ UNCHANGED handler
    BY <1>3 DEF EraseSurplusStep
  <2>2. handler.kind # "barrier"
    BY <2>1 DEF Plain, NoSurplus
  <2>3. PICK s : s = Min(surplus.todo)
    OBVIOUS
  <2>4. UNCHANGED stream \/ Erase(s, surplus.bound) \/ Erase(s, kept_timestamp_)
    BY <1>3, <2>3 DEF EraseSurplusStep
  <2>5. s \in Streams /\ surplus.bound \in Int /\ kept_timestamp_ \in Int
    BY <1>0, <2>1, <2>3, HandlerIs, SetMin, Constant DEF HandlerTyped, SurplusRecords
  <2> QED
    BY <2>1, <2>2, <2>4, <2>5, ErasesMove, NoneMoves
<1>4. CASE MuxLooksAtControl
  <2>1. handler.kind = "mux" /\ UNCHANGED handler
    BY <1>4 DEF MuxLooksAtControl
  <2>2. PICK t, d : t = seen[Control].timestamp /\ d = DataStream(t)
    OBVIOUS
  <2>3. UNCHANGED stream \/ (~seen[Control].empty /\ Erase(d, t))
    BY <1>4, <2>2 DEF MuxLooksAtControl
  <2>4. ~seen[Control].empty => d \in Streams /\ t \in Int
    BY <1>0, <2>1, <2>2, MuxIs, HandlerIs DEF SchedulerTyped
  <2> QED
    BY <2>1, <2>3, <2>4, ErasesMove, NoneMoves
<1>5. CASE GetNodeReadiness /\ ~MuxLooksAtControl
  <2>1. UNCHANGED <<handler, stream>>
    BY <1>5 DEF GetNodeReadiness, DefaultReadiness, EarlyCloseReadiness, BarrierReadiness, ImmediateReadiness,
       SyncSetsReadiness, AlignBeforeOffsets, AlignWithOffsets, MuxLooksAtData, FixedSizeReadiness
  <2> QED
    BY <2>1, NoneMoves
<1>6. CASE StartScheduling \/ Look \/ FillInputSet \/ Measure \/ Invoke \/ LookAfterErasing
  BY <1>6, NoneMoves DEF StartScheduling, Look, FillInputSet, Measure, Invoke, EndInvocation, LookAfterErasing
<1>7. ~CloseStream
  BY DEF CloseStream, Closing
<1> QED
  BY <1>1, <1>2, <1>3, <1>4, <1>5, <1>6, <1>7 DEF Next, Schedule

-----------------------------------------------------------------------------
(* The bound reported when the node is not ready, but for timestamp_align. *)

OneSet == handler.kind \in {"default", "early_close", "barrier", "fixed_size"}

\* No sync set is forgotten, and only the immediate handler keeps one waiting.
Whole ==
  /\ sync_sets_ = Indices
  /\ \A i \in Indices : ready_timestamps_[i] # Unset => handler.kind = "immediate"
  /\ \A i \in ready : ready_timestamps_[i] # Done

\* The streams on which a packet may still come.
Awaited ==
  IF handler.kind = "mux" THEN {Control}
  ELSE UNION {StreamsOf(i) : i \in {i \in Indices : ready_timestamps_[i] # Done}}
Ahead == \A s \in Awaited : input_bound <= Frontier(s)

\* What is seen of a stream is between the last bound reported and what is there.
SeenBetween(s) ==
  /\ input_bound <= seen[s].timestamp /\ seen[s].timestamp <= Frontier(s)
  /\ ~seen[s].empty /\ Frontier(s) = seen[s].timestamp => ~IsEmpty(stream[s])
LookedAt == pc = "look" => \A s \in StreamsToLookAt \ todo : SeenBetween(s)

\* A handler that processes timestamps takes the one before the bound of an empty stream.
\* It does not do so when that is before a bound reported at a packet: then the packet is
\* the next, on every stream of the set.
Steps == handler.process_timestamps /\ handler.kind \in {"default", "immediate", "fixed_size"}
Caught(i) ==
  /\ Steps /\ ready_timestamps_[i] # Done
  /\ input_bound \in 1 .. MaxTime /\ last_processed_ts_[i] < input_bound - 1
EmptyAt(s) == pc = "look" /\ s \in StreamsToLookAt \ todo /\ seen[s].empty /\ seen[s].timestamp = input_bound
Passed ==
  \A i \in Indices : Caught(i) =>
    \A s \in StreamsOf(i) : Settled(stream[s], input_bound) /\ ~EmptyAt(s)

\* A sync set is not kept waiting at a timestamp before the bound.
Waiting ==
  \A i \in Indices :
    ready_timestamps_[i] \notin {Unset, Done} /\ IsRangeValue(input_bound) =>
      input_bound <= ready_timestamps_[i]

Kept == Whole /\ Ahead /\ LookedAt /\ Passed /\ Waiting

\* The streams looked at.
LEMMA LooksAt ==
  ASSUME TInv, Whole
  PROVE  /\ StreamsToLookAt \in SUBSET Awaited /\ Awaited \in SUBSET Streams
         /\ OneSet => StreamsToLookAt = Used /\ Used = StreamsOf(1) /\ Indices = {1}
         /\ handler.kind # "mux" =>
              \A i \in Indices :
                /\ ready_timestamps_[i] = Unset => StreamsOf(i) \in SUBSET StreamsToLookAt
                /\ ready_timestamps_[i] # Done => StreamsOf(i) \in SUBSET Awaited
<1>0. handler \in Handlers /\ Unset # Done
  BY Constant DEF TInv, StreamsTyped
<1>1. \A i \in Indices : StreamsOf(i) \in SUBSET Streams
  BY <1>0, HandlerIs
<1>2. CASE handler.kind = "mux"
  BY <1>0, <1>2, MuxIs DEF StreamsToLookAt, Awaited, OneSet
<1>3. CASE handler.kind # "mux"
  <2>1. /\ StreamsToLookAt = UNION {StreamsOf(i) : i \in {i \in Indices : ready_timestamps_[i] = Unset}}
        /\ Awaited = UNION {StreamsOf(i) : i \in {i \in Indices : ready_timestamps_[i] # Done}}
    BY <1>3 DEF StreamsToLookAt, Awaited, Whole
  <2>2. OneSet => StreamsToLookAt = Used /\ Used = StreamsOf(1) /\ Indices = {1}
    BY <1>0, <2>1, HandlerIs DEF OneSet, Whole
  <2> QED
    BY <1>0, <1>1, <1>3, <2>1, <2>2
<1> QED
  BY <1>2, <1>3

\* The types of what is compared.
LEMMA FrontsAre ==
  ASSUME TInv, TInv', UNCHANGED handler, NEW s \in Streams
  PROVE  /\ handler \in Handlers /\ InOrder(handler, stream[s]) /\ InOrder(handler, stream'[s])
         /\ Frontier(s) \in Int /\ Frontier(s)' \in Int /\ input_bound \in Int /\ input_bound' \in Int
         /\ seen[s].timestamp \in Int /\ seen'[s].timestamp \in Int
<1>1. handler \in Handlers /\ InOrder(handler, stream[s]) /\ InOrder(handler, stream'[s])
  BY DEF TInv, StreamsTyped
<1>2. Frontier(s) \in Int /\ Frontier(s)' \in Int
  BY <1>1, FrontIs DEF Frontier
<1>3. input_bound \in Int /\ input_bound' \in Int
  BY Constant DEF TInv, SchedulerTyped
<1>4. seen[s].timestamp \in Int /\ seen'[s].timestamp \in Int
  BY Constant DEF TInv, SchedulerTyped, Looks
<1> QED
  BY <1>1, <1>2, <1>3, <1>4

\* A step that says nothing of a sync set.
LEMMA KeptStays ==
  ASSUME TInv, TInv', Kept, Moved,
         UNCHANGED <<handler, input_bound, sync_sets_, last_processed_ts_, ready_timestamps_>>,
         \A i \in ready' : i \in ready \/ handler.kind # "immediate",
         pc' = "look" =>
           \A s \in StreamsToLookAt \ todo' :
             \/ pc = "look" /\ s \notin todo /\ seen'[s] = seen[s]
             \/ seen'[s] = [empty |-> IsEmpty(stream[s]), timestamp |-> Frontier(s)]
  PROVE  Kept'
<1>1. /\ Indices' = Indices /\ \A i : StreamsOf(i)' = StreamsOf(i)
      /\ StreamsToLookAt' = StreamsToLookAt /\ Awaited' = Awaited
      /\ StreamsToLookAt \in SUBSET Awaited /\ Awaited \in SUBSET Streams
      /\ Unset # Done
  BY LooksAt, Constant DEF Indices, StreamsOf, StreamsToLookAt, Awaited, Control, Used, Kept
<1>2. ASSUME NEW s \in Streams
      PROVE  /\ Moves(stream[s], stream'[s]) /\ Frontier(s) <= Frontier(s)'
             /\ ~IsEmpty(stream[s]) /\ Frontier(s)' = Frontier(s) => ~IsEmpty(stream'[s])
             /\ handler \in Handlers /\ InOrder(handler, stream[s]) /\ InOrder(handler, stream'[s])
             /\ Frontier(s) \in Int /\ Frontier(s)' \in Int /\ input_bound \in Int
             /\ seen[s].timestamp \in Int /\ seen'[s].timestamp \in Int
  BY FrontsAre DEF Moved, Moves, Frontier
<1>3. Whole'
  <2>1. ASSUME NEW i \in ready' PROVE ready_timestamps_[i] # Done
    BY <1>1 DEF TInv, HandlerTyped, Kept, Whole
  <2> QED
    BY <1>1, <2>1 DEF Kept, Whole
<1>4. Ahead'
  <2>1. ASSUME NEW s \in Awaited PROVE input_bound <= Frontier(s)'
    BY <1>1, <1>2 DEF Kept, Ahead
  <2> QED
    BY <1>1, <2>1 DEF Ahead
<1>5. ASSUME pc' = "look", NEW s \in StreamsToLookAt \ todo'
      PROVE  /\ SeenBetween(s)'
             /\ \/ pc = "look" /\ s \notin todo /\ seen'[s] = seen[s]
                \/ seen'[s].empty = IsEmpty(stream[s]) /\ seen'[s].timestamp = Frontier(s)
  <2>1. s \in Streams /\ input_bound <= Frontier(s)
    BY <1>1 DEF Kept, Ahead
  <2>2. CASE pc = "look" /\ s \notin todo /\ seen'[s] = seen[s]
    <3>1. SeenBetween(s)
      BY <2>2 DEF Kept, LookedAt
    <3>2. input_bound <= seen'[s].timestamp /\ seen'[s].timestamp <= Frontier(s)'
      BY <1>2, <2>1, <2>2, <3>1 DEF SeenBetween
    <3>3. ASSUME ~seen'[s].empty, Frontier(s)' = seen'[s].timestamp PROVE ~IsEmpty(stream'[s])
      BY <1>2, <2>1, <2>2, <3>1, <3>3 DEF SeenBetween
    <3> QED
      BY <2>2, <3>2, <3>3 DEF SeenBetween
  <2>3. CASE seen'[s] = [empty |-> IsEmpty(stream[s]), timestamp |-> Frontier(s)]
    BY <1>2, <2>1, <2>3 DEF SeenBetween
  <2> QED
    BY <1>5, <2>2, <2>3
<1>6. LookedAt'
  BY <1>1, <1>5 DEF LookedAt
<1>7. Passed'
  <2> SUFFICES ASSUME NEW i \in Indices, Caught(i)', NEW s \in StreamsOf(i)
               PROVE  Settled(stream'[s], input_bound) /\ ~EmptyAt(s)'
    BY <1>1 DEF Passed
  <2>1. s \in Streams
    BY <1>2, HandlerIs DEF TInv, StreamsTyped
  <2>2. Caught(i)
    BY DEF Caught, Steps
  <2>3. Settled(stream[s], input_bound) /\ ~EmptyAt(s)
    BY <2>2 DEF Kept, Passed
  <2>4. Settled(stream'[s], input_bound)
    BY <1>2, <2>1, <2>3, MoveKeeps
  <2>5. ASSUME EmptyAt(s)' PROVE FALSE
    BY <1>1, <1>2, <1>5, <2>1, <2>3, <2>5 DEF EmptyAt, Settled, Frontier
  <2> QED
    BY <2>4, <2>5
<1>8. Waiting'
  BY <1>1 DEF Kept, Waiting
<1> QED
  BY <1>3, <1>4, <1>6, <1>7, <1>8 DEF Kept

\* The invocation forgets which sync sets were ready.
LEMMA KeptInvokes ==
  ASSUME TInv, TInv', Kept, Invoke
  PROVE  Kept'
<1>0. handler \in Handlers /\ Unset # Done /\ ready \in SUBSET Indices
  BY Constant DEF TInv, StreamsTyped, HandlerTyped
<1>1. /\ UNCHANGED <<handler, stream, input_bound, sync_sets_, last_processed_ts_>> /\ pc' = "idle"
      /\ ready' = {}
      /\ ready_timestamps_' = [i \in Indices |-> IF i \in ready THEN Unset ELSE ready_timestamps_[i]]
  BY DEF Invoke, EndInvocation
<1>2. Indices' = Indices /\ (\A i : StreamsOf(i)' = StreamsOf(i)) /\ Control' = Control
  BY <1>1 DEF Indices, StreamsOf, Control, Used
<1>3. ASSUME NEW i \in Indices
      PROVE  /\ ready_timestamps_'[i] \in {Unset, ready_timestamps_[i]}
             /\ ready_timestamps_'[i] # Done => ready_timestamps_[i] # Done
  BY <1>0, <1>1, <1>3 DEF Kept, Whole
<1>4. Whole'
  BY <1>1, <1>2, <1>3 DEF Kept, Whole
<1>5. Awaited' \in SUBSET Awaited
  <2>1. CASE handler.kind = "mux"
    BY <1>1, <1>2, <2>1 DEF Awaited
  <2>2. CASE handler.kind # "mux"
    BY <1>1, <1>2, <1>3, <2>2 DEF Awaited
  <2> QED
    BY <2>1, <2>2
<1>6. Ahead'
  BY <1>1, <1>5 DEF Kept, Ahead, Frontier
<1>7. LookedAt'
  BY <1>1 DEF LookedAt
<1>8. Passed'
  BY <1>1, <1>2, <1>3 DEF Passed, Caught, Steps, Kept, EmptyAt
<1>9. Waiting'
  BY <1>1, <1>2, <1>3 DEF Kept, Waiting
<1> QED
  BY <1>4, <1>6, <1>7, <1>8, <1>9 DEF Kept

\* The steps in which no handler is asked.
LEMMA KeptGoes ==
  ASSUME TInv, TInv', Kept, Moved,
         \/ \E s \in Streams : Upstream(s)
         \/ StartScheduling \/ Look \/ FillInputSet \/ Measure \/ Pop \/ LookAfterErasing
         \/ EraseSurplusStep
  PROVE  Kept' /\ UNCHANGED input_bound /\ (pc = "look" => pc' \notin {"pop", "fill"})
<1>0. handler \in Handlers /\ SchedulerTyped /\ Whole
  BY DEF TInv, StreamsTyped, Kept
<1>1. CASE (\E s \in Streams : Upstream(s)) \/ EraseSurplusStep
  <2>1. UNCHANGED <<handler, pc, todo, seen, input_bound, handlerVars>>
    BY <1>1 DEF Upstream, AddPacketsTo, SetNextTimestampBoundOf, Notify, StartErasing, Erasing, EndErasing,
       EraseSurplusStep, scheduleVars
  <2>2. UNCHANGED <<handler, pc, todo, seen, input_bound, sync_sets_, last_processed_ts_, ready_timestamps_, ready>>
    BY <2>1 DEF handlerVars
  <2> QED
    BY <2>2, KeptStays
<1>2. CASE Look
  <2>1. PICK s : s = First
    OBVIOUS
  <2>2. /\ UNCHANGED <<handler, stream, pc, input_bound, handlerVars>> /\ pc = "look" /\ todo # {}
        /\ seen' = [seen EXCEPT ![s] = [empty |-> IsEmpty(stream[s]), timestamp |-> Frontier(s)]]
        /\ todo' = todo \ {s}
    BY <1>2, <2>1 DEF Look, Frontier
  <2>3. UNCHANGED <<handler, input_bound, sync_sets_, last_processed_ts_, ready_timestamps_, ready>>
    BY <2>2 DEF handlerVars
  <2>4. ASSUME NEW u \in StreamsToLookAt \ todo'
        PROVE  \/ pc = "look" /\ u \notin todo /\ seen'[u] = seen[u]
               \/ seen'[u] = [empty |-> IsEmpty(stream[u]), timestamp |-> Frontier(u)]
    <3>1. u \in Streams /\ seen \in [Streams -> Looks]
      BY <1>0, LooksAt DEF SchedulerTyped
    <3> HIDE DEF Looks
    <3> QED
      BY <2>2, <3>1
  <2> QED
    BY <2>2, <2>3, <2>4, KeptStays
<1>3. CASE StartScheduling \/ FillInputSet \/ Measure \/ Pop \/ LookAfterErasing
  <2>1. /\ UNCHANGED <<handler, input_bound, handlerVars>> /\ pc # "look"
        /\ pc' = "look" => todo' = StreamsToLookAt \/ todo' = Used
    BY <1>3 DEF StartScheduling, FillInputSet, Measure, Pop, LookAfterErasing
  <2>2. UNCHANGED <<handler, input_bound, sync_sets_, last_processed_ts_, ready_timestamps_, ready>>
    BY <2>1 DEF handlerVars
  <2>3. StreamsToLookAt \in SUBSET Used
    BY <1>0, MuxIs DEF StreamsToLookAt, Used, Whole
  <2>4. pc' = "look" => StreamsToLookAt \ todo' = {}
    BY <2>1, <2>3
  <2> QED
    BY <2>1, <2>2, <2>4, KeptStays
<1> QED
  BY <1>1, <1>2, <1>3

\* What is seen of a set that is waited for, and what GetReadiness says of it.
LEMMA SeenAhead ==
  ASSUME TInv, Kept, Looked, NEW T \in SUBSET StreamsToLookAt
  PROVE  /\ \A s \in T : /\ s \in Streams /\ SeenBetween(s) /\ Frontier(s) \in Int
                         /\ seen[s].timestamp \in Int /\ seen[s].empty \in BOOLEAN
                         /\ seen[s].empty => MinBound(T) <= seen[s].timestamp
                         /\ ~seen[s].empty => MinPacket(T) <= seen[s].timestamp
                         /\ Earlier(MinPacket(T), MinBound(T)) <= Frontier(s)
         /\ input_bound \in Int /\ MinBound(T) \in Timestamp /\ MinPacket(T) \in Timestamp
         /\ MinBound(T) \in Int /\ MinPacket(T) \in Int
         /\ MinBound(T) # Done => \E s \in T : seen[s].empty /\ seen[s].timestamp = MinBound(T)
         /\ input_bound <= MinBound(T) /\ input_bound <= MinPacket(T) /\ PreStream <= MinPacket(T)
         /\ input_bound <= Earlier(MinPacket(T), MinBound(T)) /\ Earlier(MinPacket(T), MinBound(T)) \in Int
<1> DEFINE mb == MinBound(T)
           mp == MinPacket(T)
<1>0. handler \in Handlers /\ SchedulerTyped /\ Whole /\ pc = "look" /\ todo = {}
  BY DEF TInv, StreamsTyped, Kept, Looked
<1>1. T \in SUBSET Streams
  BY <1>0, LooksAt
<1>2. ASSUME NEW s \in T
      PROVE  s \in Streams /\ SeenBetween(s) /\ Frontier(s) \in Int /\ seen[s].timestamp \in Int
             /\ seen[s].empty \in BOOLEAN /\ seen[s].timestamp \in Timestamp
  BY <1>0, <1>1, LookIs, Constant DEF Kept, LookedAt, SchedulerTyped, TInv, Frontier, Looks
<1>3. /\ mb \in {Done} \cup {seen[s].timestamp : s \in {s \in T : seen[s].empty = TRUE}}
      /\ mb \in Timestamp /\ mb \in Int
      /\ \A s \in T : seen[s].empty = TRUE => mb <= seen[s].timestamp
  BY <1>0, <1>1, SeenIs DEF MinBound
<1>4. /\ mp \in {Done} \cup {seen[s].timestamp : s \in {s \in T : seen[s].empty = FALSE}}
      /\ mp \in Timestamp /\ mp \in Int
      /\ \A s \in T : seen[s].empty = FALSE => mp <= seen[s].timestamp
  BY <1>0, <1>1, SeenIs DEF MinPacket
<1> HIDE DEF mb, mp
<1>5. input_bound \in Int /\ input_bound <= Done
  BY <1>0, Constant DEF SchedulerTyped
<1>6. mb # Done => \E s \in T : seen[s].empty /\ seen[s].timestamp = mb
  BY <1>3
<1>7. mp # Done => \E s \in T : seen[s].timestamp = mp
  BY <1>4
<1>8. input_bound <= mb /\ input_bound <= mp
  <2>1. input_bound <= mb
    BY <1>2, <1>5, <1>6 DEF SeenBetween
  <2>2. input_bound <= mp
    BY <1>2, <1>5, <1>7 DEF SeenBetween
  <2> QED
    BY <2>1, <2>2
<1>12. PreStream <= mp
  <2>1. mp # Done => mp \in handler.packets
    BY <1>0, <1>1, <1>4 DEF SchedulerTyped
  <2> QED
    BY <1>0, <2>1, HandlerIs, Constant
<1>9. Earlier(mp, mb) \in Int /\ Earlier(mp, mb) <= mp /\ Earlier(mp, mb) <= mb /\ Earlier(mp, mb) \in {mp, mb}
  BY <1>3, <1>4, EarlierIs
<1>10. input_bound <= Earlier(mp, mb)
  BY <1>8, <1>9
<1>11. ASSUME NEW s \in T PROVE Earlier(mp, mb) <= Frontier(s)
  BY <1>2, <1>3, <1>4, <1>9 DEF SeenBetween
<1> QED
  BY <1>2, <1>3, <1>4, <1>5, <1>6, <1>8, <1>9, <1>10, <1>11, <1>12 DEF mb, mp

(* A set that is ready is ready at the last bound reported or later; one that is not
   is not ready before the bound reported next. *)
LEMMA BoundOfSet ==
  ASSUME TInv, Kept, Looked, handler.kind \in {"default", "immediate", "fixed_size"},
         NEW i \in Indices, ready_timestamps_[i] = Unset
  PROVE  LET r == ReadinessOf(i)
         IN  /\ r.timestamp \in Timestamp /\ r.last \in Timestamp /\ r.timestamp \in Int /\ r.last \in Int
             /\ \/ /\ r.readiness = "kReadyForProcess" /\ r.timestamp # Unset
                   /\ IsRangeValue(input_bound) => input_bound <= r.timestamp
                   /\ handler.process_timestamps => last_processed_ts_[i] < r.last
                \/ r.readiness = "kReadyForClose" /\ r.last = MaxTimestamp
                \/ /\ r.readiness = "kNotReady" /\ r.last = last_processed_ts_[i]
                   /\ input_bound <= r.timestamp /\ r.timestamp < OneOverPostStream
                   /\ \A s \in StreamsOf(i) : r.timestamp <= Frontier(s)
                   /\ handler.process_timestamps /\ r.timestamp \in 1 .. MaxTime
                        /\ last_processed_ts_[i] < r.timestamp - 1 =>
                          \A s \in StreamsOf(i) : Settled(stream[s], r.timestamp)
<1> DEFINE T == StreamsOf(i)
           r == ReadinessOf(i)
           last == last_processed_ts_[i]
           mb == MinBound(T)
           mp == MinPacket(T)
<1>0. handler \in Handlers /\ SchedulerTyped /\ Whole /\ pc = "look" /\ todo = {} /\ HandlerTyped
      /\ handler.process_timestamps \in BOOLEAN /\ Unset # Done
  BY HandlerIs, Constant DEF TInv, StreamsTyped, Kept, Looked
<1>1. T \in SUBSET StreamsToLookAt /\ T \in SUBSET Streams
  BY <1>0, LooksAt, HandlerIs
<1>2. last \in Timestamp /\ last \in Int
  BY <1>0, Constant DEF HandlerTyped
<1>3. /\ \A s \in T : /\ s \in Streams /\ SeenBetween(s) /\ Frontier(s) \in Int
                      /\ seen[s].timestamp \in Int /\ seen[s].empty \in BOOLEAN
                      /\ seen[s].empty => mb <= seen[s].timestamp
                      /\ ~seen[s].empty => mp <= seen[s].timestamp
                      /\ Earlier(mp, mb) <= Frontier(s)
      /\ input_bound \in Int /\ mb \in Timestamp /\ mp \in Timestamp /\ mb \in Int /\ mp \in Int
      /\ mb # Done => \E s \in T : seen[s].empty /\ seen[s].timestamp = mb
      /\ input_bound <= mb /\ input_bound <= mp /\ PreStream <= mp
      /\ input_bound <= Earlier(mp, mb) /\ Earlier(mp, mb) \in Int
  BY <1>1, SeenAhead
<1>4. /\ r.timestamp \in Timestamp /\ r.last \in Timestamp
      /\ \/ /\ r.readiness = "kReadyForClose" /\ r.timestamp = Done /\ r.last = MaxTimestamp
            /\ mb >= OneOverPostStream /\ mp >= OneOverPostStream
         \/ /\ r.readiness = "kReadyForProcess" /\ r.last = r.timestamp
            /\ ~handler.process_timestamps /\ mb > mp /\ r.timestamp = mp
            /\ mp < OneOverPostStream
         \/ /\ r.readiness = "kReadyForProcess" /\ r.last = r.timestamp
            /\ handler.process_timestamps
            /\ r.timestamp > last /\ r.timestamp > Unstarted /\ r.timestamp <= mp
            /\ r.timestamp = Earlier(mp, IF mp = PostStream /\ mb > mp THEN mp
                                         ELSE PreviousAllowedInStream(mb))
         \/ /\ r.readiness = "kNotReady" /\ r.last = last /\ r.timestamp = Earlier(mp, mb)
            /\ r.timestamp < OneOverPostStream /\ r.timestamp <= mb /\ r.timestamp <= mp
            /\ ~handler.process_timestamps => r.timestamp = mb
  BY <1>0, <1>1, <1>2, ReadinessIs DEF ReadinessOf
<1>5. r = SyncSetReadiness(T, last)
  BY DEF ReadinessOf
<1> DEFINE settled == IF mp = PostStream /\ mb > mp THEN mp ELSE PreviousAllowedInStream(mb)
<1>6. /\ PreviousAllowedInStream(mb) = (IF mb <= 0 \/ mb = MaxTimestamp + 1 THEN -2
                                       ELSE IF mb > MaxTimestamp THEN MaxTimestamp ELSE mb - 1)
      /\ settled \in Int
  <2>1. mb \in Timestamp /\ mp \in Int
    BY <1>3
  <2> HIDE DEF mb, mp
  <2>2. /\ PreviousAllowedInStream(mb) = (IF mb <= 0 \/ mb = MaxTimestamp + 1 THEN -2
                                         ELSE IF mb > MaxTimestamp THEN MaxTimestamp ELSE mb - 1)
        /\ PreviousAllowedInStream(mb) \in Timestamp
    BY <2>1, PreviousIs
  <2> QED
    BY <2>1, <2>2, Constant
<1>7. ASSUME r.readiness = "kNotReady", handler.process_timestamps
      PROVE  Earlier(mp, settled) <= Later(last, Unstarted)
  BY <1>2, <1>3, <1>5, <1>6, <1>7, Constant DEF SyncSetReadiness, Readiness, Earlier, Later
<1> HIDE DEF r, T, mb, mp, last, settled
<1>8. ASSUME r.readiness = "kNotReady", handler.process_timestamps, r.timestamp \in 1 .. MaxTime,
             last < r.timestamp - 1, NEW s \in T
      PROVE  Settled(stream[s], r.timestamp)
  <2>1. r.timestamp = Earlier(mp, mb) /\ r.timestamp <= mb /\ r.timestamp <= mp
    BY <1>4, <1>8
  <2>2. mb > r.timestamp
    BY <1>2, <1>3, <1>4, <1>6, <1>7, <1>8, <2>1, Constant DEF Earlier, Later, settled
  <2>3. r.timestamp = mp
    BY <1>3, <2>1, <2>2 DEF Earlier
  <2>4. /\ seen[s].timestamp <= Frontier(s) /\ Frontier(s) \in Int /\ seen[s].timestamp \in Int
        /\ ~seen[s].empty /\ Frontier(s) = seen[s].timestamp => ~IsEmpty(stream[s])
        /\ seen[s].empty => mb <= seen[s].timestamp
        /\ ~seen[s].empty => mp <= seen[s].timestamp
        /\ seen[s].empty \in BOOLEAN /\ mb \in Int /\ mp \in Int
    BY <1>3 DEF SeenBetween
  <2>5. Frontier(s) > r.timestamp \/ (~IsEmpty(stream[s]) /\ Frontier(s) = r.timestamp)
    BY <2>2, <2>3, <2>4
  <2> QED
    BY <2>5 DEF Settled, Frontier
<1>9. ASSUME r.readiness = "kReadyForProcess", IsRangeValue(input_bound)
      PROVE  input_bound <= r.timestamp
  <2>0. input_bound \in 0 .. MaxTimestamp
    BY <1>3, <1>9, Constant DEF IsRangeValue
  <2>1. CASE ~handler.process_timestamps
    BY <1>3, <1>4, <1>9, <2>1
  <2>2. CASE handler.process_timestamps
    <3>1. /\ r.timestamp = Earlier(mp, settled) /\ r.timestamp > last /\ r.timestamp > -2
      BY <1>4, <1>9, <2>2, Constant DEF settled
    <3>2. CASE r.timestamp = mp
      BY <1>3, <3>2
    <3>3. CASE r.timestamp = settled /\ r.timestamp # mp
      <4>1. r.timestamp = PreviousAllowedInStream(mb)
        BY <3>3 DEF settled
      <4>2. CASE mb # input_bound
        BY <1>3, <1>6, <2>0, <3>1, <4>1, <4>2, Constant
      <4>3. CASE mb = input_bound
        <5>1. input_bound \in 1 .. MaxTime /\ r.timestamp = input_bound - 1
          BY <1>3, <1>6, <2>0, <3>1, <4>1, <4>3, Constant
        <5>2. Caught(i)
          BY <1>0, <1>2, <2>2, <3>1, <5>1 DEF Caught, Steps, last
        <5>3. PICK s \in T : seen[s].empty /\ seen[s].timestamp = mb
          BY <1>3, <4>3, <5>1, Constant
        <5>4. EmptyAt(s)
          BY <1>0, <1>1, <4>3, <5>3 DEF EmptyAt
        <5> QED
          BY <5>2, <5>3, <5>4 DEF Kept, Passed, T
      <4> QED
        BY <4>2, <4>3
    <3> QED
      BY <1>3, <1>6, <3>1, <3>2, <3>3 DEF Earlier
  <2> QED
    BY <1>0, <2>1, <2>2
<1>10. r.timestamp \in Int /\ r.last \in Int
  BY <1>4, Constant
<1>11. CASE r.readiness = "kReadyForProcess"
  BY <1>2, <1>3, <1>4, <1>9, <1>10, <1>11, Constant DEF r, last
<1>12. CASE r.readiness = "kReadyForClose"
  BY <1>4, <1>10, <1>12 DEF r
<1>13. CASE r.readiness = "kNotReady"
  BY <1>3, <1>4, <1>8, <1>10, <1>13 DEF r, last, T
<1> QED
  BY <1>4, <1>11, <1>12, <1>13

\* What a readiness leaves of the bound, and of what is taken next.
Reported ==
  /\ input_bound <= input_bound'
  /\ pc' \in {"pop", "fill"} /\ IsRangeValue(input_bound) => input_bound <= input_timestamp'

\* A handler with one sync set that is not kept waiting.
LEMMA OneSetReports ==
  ASSUME TInv, TInv', Kept, OneSet, UNCHANGED <<handler, stream, sync_sets_, ready_timestamps_>>,
         pc' # "look",
         \/ /\ input_bound' = input_bound
            /\ Steps => last_processed_ts_[1] <= last_processed_ts_'[1]
         \/ /\ \A s \in Used : input_bound' <= Frontier(s)
            /\ last_processed_ts_'[1] = last_processed_ts_[1]
            /\ Steps /\ input_bound' \in 1 .. MaxTime /\ last_processed_ts_[1] < input_bound' - 1 =>
                 \A s \in Used : Settled(stream[s], input_bound')
  PROVE  Kept'
<1>0. handler \in Handlers /\ Whole /\ ready' \in SUBSET Indices'
  BY DEF TInv, StreamsTyped, HandlerTyped, Kept
<1>1. /\ Indices' = Indices /\ (\A i : StreamsOf(i)' = StreamsOf(i)) /\ Awaited' = Awaited
      /\ Indices = {1} /\ Used = StreamsOf(1) /\ StreamsToLookAt = Used /\ Unset # Done
  BY LooksAt, Constant DEF Indices, StreamsOf, Awaited, Control, Used, Kept
<1>2. ready_timestamps_[1] = Unset /\ ready_timestamps_' = ready_timestamps_ /\ handler.kind # "mux"
  BY <1>0, <1>1 DEF Whole, OneSet
<1>3. Awaited = Used
  BY <1>1, <1>2 DEF Awaited
<1>4. Whole'
  BY <1>0, <1>1, <1>2 DEF Whole
<1>5. Ahead'
  BY <1>1, <1>3 DEF Kept, Ahead, Frontier
<1>6. LookedAt'
  BY DEF LookedAt
<1>7. last_processed_ts_[1] \in Int /\ last_processed_ts_'[1] \in Int /\ input_bound \in Int
  BY <1>1, Constant DEF TInv, HandlerTyped, SchedulerTyped
<1>8. Passed'
  <2> SUFFICES ASSUME Caught(1)', NEW s \in StreamsOf(1)
               PROVE  Settled(stream[s], input_bound') /\ ~EmptyAt(s)'
    BY <1>1 DEF Passed
  <2>1. ~EmptyAt(s)'
    BY DEF EmptyAt
  <2>2. Steps /\ input_bound' \in 1 .. MaxTime /\ last_processed_ts_'[1] < input_bound' - 1
    BY DEF Caught, Steps
  <2>3. CASE input_bound' = input_bound /\ last_processed_ts_[1] <= last_processed_ts_'[1]
    BY <1>1, <1>2, <1>7, <2>1, <2>2, <2>3 DEF Caught, Kept, Passed
  <2>4. CASE /\ last_processed_ts_'[1] = last_processed_ts_[1]
             /\ Steps /\ input_bound' \in 1 .. MaxTime /\ last_processed_ts_[1] < input_bound' - 1 =>
                  \A u \in Used : Settled(stream[u], input_bound')
    BY <1>1, <2>1, <2>2, <2>4
  <2> QED
    BY <2>2, <2>3, <2>4
<1>9. Waiting'
  BY <1>1, <1>2 DEF Waiting
<1> QED
  BY <1>4, <1>5, <1>6, <1>8, <1>9 DEF Kept

\* The types of the bounds.
LEMMA BoundsAre ==
  ASSUME TInv, TInv'
  PROVE  /\ input_bound \in Int /\ input_bound' \in Int /\ input_timestamp' \in Int
         /\ handler \in Handlers
BY Constant DEF TInv, SchedulerTyped, StreamsTyped

\* The handlers that ask the sync set,
LEMMA DefaultReports ==
  ASSUME TInv, TInv', Kept, DefaultReadiness \/ FixedSizeReadiness, ~Closing'
  PROVE  Kept' /\ Reported
<1>1. PICK r : r = ReadinessOf(1)
  OBVIOUS
<1>2. /\ Looked /\ handler.kind \in {"default", "fixed_size"}
      /\ UNCHANGED <<handler, stream, sync_sets_, ready_timestamps_>>
      /\ last_processed_ts_' = [last_processed_ts_ EXCEPT ![1] = r.last]
      /\ \/ r.readiness = "kNotReady" /\ NotReady(r.timestamp)
         \/ /\ r.readiness = "kReadyForProcess" /\ UNCHANGED input_bound /\ pc' # "look"
            /\ pc' \in {"pop", "fill"} => input_timestamp' = r.timestamp
         \/ ReadyForClose
  BY <1>1 DEF DefaultReadiness, FixedSizeReadiness, Outcome, ReadyForProcess, Limited
<1>3. OneSet /\ Whole /\ handler.kind \in {"default", "immediate", "fixed_size"}
  BY <1>2 DEF OneSet, Kept
<1>4. 1 \in Indices /\ Used = StreamsOf(1) /\ Indices = {1} /\ ready_timestamps_[1] = Unset
  BY <1>2, <1>3, LooksAt DEF Whole
<1>5. last_processed_ts_'[1] = r.last
  BY <1>2, <1>4 DEF TInv, HandlerTyped
<1>6. /\ r.timestamp \in Timestamp /\ r.last \in Timestamp /\ r.timestamp \in Int /\ r.last \in Int
      /\ \/ /\ r.readiness = "kReadyForProcess"
            /\ IsRangeValue(input_bound) => input_bound <= r.timestamp
            /\ handler.process_timestamps => last_processed_ts_[1] < r.last
         \/ r.readiness = "kReadyForClose" /\ r.last = MaxTimestamp
         \/ /\ r.readiness = "kNotReady" /\ r.last = last_processed_ts_[1]
            /\ input_bound <= r.timestamp /\ r.timestamp < OneOverPostStream
            /\ \A s \in StreamsOf(1) : r.timestamp <= Frontier(s)
            /\ handler.process_timestamps /\ r.timestamp \in 1 .. MaxTime
                 /\ last_processed_ts_[1] < r.timestamp - 1 =>
                   \A s \in StreamsOf(1) : Settled(stream[s], r.timestamp)
  BY <1>1, <1>2, <1>3, <1>4, BoundOfSet
<1>7. /\ input_bound \in Int /\ last_processed_ts_[1] \in Int
  BY <1>4, BoundsAre, Constant DEF TInv, HandlerTyped
<1>8. CASE r.readiness = "kNotReady" /\ NotReady(r.timestamp)
  BY <1>2, <1>3, <1>4, <1>5, <1>6, <1>8, OneSetReports DEF NotReady, Steps, Reported
<1>9. CASE /\ r.readiness = "kReadyForProcess" /\ UNCHANGED input_bound /\ pc' # "look"
           /\ pc' \in {"pop", "fill"} => input_timestamp' = r.timestamp
  BY <1>2, <1>3, <1>5, <1>6, <1>7, <1>9, OneSetReports DEF Steps, Reported
<1>10. ~ReadyForClose
  BY DEF ReadyForClose, Closing
<1> QED
  BY <1>2, <1>8, <1>9, <1>10

\* those that take the earliest timestamp,
LEMMA EarliestReports ==
  ASSUME TInv, TInv', Kept, EarlyCloseReadiness \/ BarrierReadiness, ~Closing'
  PROVE  Kept' /\ Reported
<1>1. PICK e : e = Earlier(MinPacket(Used), MinBound(Used))
  OBVIOUS
<1>2. /\ Looked /\ handler.kind \in {"early_close", "barrier"}
      /\ UNCHANGED <<handler, stream, sync_sets_, ready_timestamps_, last_processed_ts_>>
      /\ NotReady(e) \/ ReadyForProcess(e, Used) \/ ReadyForClose
  BY <1>1 DEF EarlyCloseReadiness, BarrierReadiness
<1>3. OneSet /\ ~Steps /\ Whole
  BY <1>2 DEF OneSet, Steps, Kept
<1>4. StreamsToLookAt = Used /\ Used \in SUBSET StreamsToLookAt
  BY <1>3, LooksAt
<1>5. input_bound <= e /\ e \in Int /\ input_bound \in Int /\ \A s \in Used : e <= Frontier(s)
  BY <1>1, <1>2, <1>4, SeenAhead
<1>6. CASE NotReady(e)
  BY <1>2, <1>3, <1>5, <1>6, OneSetReports DEF NotReady, Reported
<1>7. CASE ReadyForProcess(e, Used)
  BY <1>2, <1>3, <1>5, <1>7, OneSetReports DEF ReadyForProcess, Reported
<1>8. ~ReadyForClose
  BY DEF ReadyForClose, Closing
<1> QED
  BY <1>2, <1>6, <1>7, <1>8

\* a mux: the bound is the frontier of the control stream, or before it.
LEMMA MuxReports ==
  ASSUME TInv, TInv', Kept, handler.kind = "mux", Looked, NEW t, t = seen[Control].timestamp,
         UNCHANGED <<handler, stream, sync_sets_, ready_timestamps_, last_processed_ts_>>,
         NotReady(t) \/ ReadyForProcess(t, Used)
  PROVE  Kept' /\ Reported
<1>0. handler \in Handlers /\ Whole /\ ready' \in SUBSET Indices' /\ Unset # Done
  BY Constant DEF TInv, StreamsTyped, HandlerTyped, Kept
<1>1. StreamsToLookAt = {Control} /\ Awaited = {Control} /\ Control \in Streams /\ Awaited' = Awaited
      /\ Indices' = Indices
  BY <1>0, MuxIs DEF StreamsToLookAt, Awaited, Control, Used, Indices, StreamsOf
<1>2. pc = "look" /\ todo = {}
  BY DEF Looked
<1>3. SeenBetween(Control)
  BY <1>1, <1>2 DEF Kept, LookedAt
<1>4. input_bound \in Int /\ t \in Int /\ Frontier(Control) \in Int
  BY <1>1, FrontsAre
<1>5. /\ input_bound' = input_bound \/ input_bound' = t
      /\ pc' \in {"idle", "pop"}
      /\ pc' = "pop" => input_timestamp' = t
  BY DEF NotReady, ReadyForProcess
<1>6. input_bound <= t /\ t <= Frontier(Control)
  BY <1>3 DEF SeenBetween
<1>7. Whole'
  BY <1>0, <1>1 DEF Whole
<1>8. Ahead'
  BY <1>1, <1>4, <1>5, <1>6 DEF Ahead, Frontier
<1>9. LookedAt' /\ Passed' /\ Waiting'
  BY <1>0, <1>1, <1>5 DEF Whole, Caught, Steps, LookedAt, Passed, Waiting
<1>10. Reported
  BY <1>4, <1>5, <1>6 DEF Reported
<1> QED
  BY <1>7, <1>8, <1>9, <1>10 DEF Kept

\* A mux that has looked at the control stream, and then at the data stream.
LEMMA MuxControlReports ==
  ASSUME TInv, TInv', Kept, Moved, MuxLooksAtControl, ~Closing'
  PROVE  Kept' /\ Reported
<1>1. PICK t : t = seen[Control].timestamp
  OBVIOUS
<1>2. /\ handler.kind = "mux" /\ Looked
      /\ UNCHANGED <<handler, sync_sets_, ready_timestamps_, last_processed_ts_>>
      /\ \/ ReadyForClose
         \/ NotReady(t) /\ UNCHANGED stream
         \/ /\ UNCHANGED <<pc, seen, input_timestamp, input_bound>>
  BY <1>1 DEF MuxLooksAtControl
<1>3. CASE NotReady(t) /\ UNCHANGED stream
  BY <1>1, <1>2, <1>3, MuxReports
<1>4. CASE UNCHANGED <<pc, seen, input_timestamp, input_bound>>
  BY <1>2, <1>4, KeptStays, BoundsAre DEF Looked, Reported
<1>5. ~ReadyForClose
  BY DEF ReadyForClose, Closing
<1> QED
  BY <1>2, <1>3, <1>4, <1>5

LEMMA MuxDataReports ==
  ASSUME TInv, TInv', Kept, MuxLooksAtData, crashed' = "none"
  PROVE  Kept' /\ Reported
<1>1. PICK t : t = seen[Control].timestamp
  OBVIOUS
<1>2. /\ handler.kind = "mux" /\ Looked
      /\ UNCHANGED <<handler, stream, sync_sets_, ready_timestamps_, last_processed_ts_>>
      /\ NotReady(t) \/ ReadyForProcess(t, Used)
  BY <1>1 DEF MuxLooksAtData
<1> QED
  BY <1>1, <1>2, MuxReports

\* What becomes of one sync set of the immediate handler.
LEMMA ImmediateBound ==
  ASSUME TInv, Kept, Looked, handler.kind = "immediate", NEW i \in Indices, NEW r, r = ReadinessOf(i),
         NEW t, t = ReadyTimestamp(i, r), NEW last, last = IF Fresh(i) THEN r.last ELSE last_processed_ts_[i]
  PROVE  /\ t \in Timestamp /\ r.timestamp \in Timestamp /\ last \in Int
         /\ t # Done => ready_timestamps_[i] # Done
         /\ t \notin {Unset, Done} /\ IsRangeValue(input_bound) => input_bound <= t
         /\ handler.process_timestamps /\ input_bound \in 1 .. MaxTime /\ last < input_bound - 1 =>
              last_processed_ts_[i] < input_bound - 1
         /\ t = Unset =>
              /\ last = last_processed_ts_[i]
              /\ input_bound <= r.timestamp /\ r.timestamp < OneOverPostStream
              /\ \A s \in StreamsOf(i) : r.timestamp <= Frontier(s)
              /\ handler.process_timestamps /\ r.timestamp \in 1 .. MaxTime
                   /\ last_processed_ts_[i] < r.timestamp - 1 =>
                     \A s \in StreamsOf(i) : Settled(stream[s], r.timestamp)
<1>0. handler \in Handlers /\ SchedulerTyped /\ HandlerTyped /\ Unset # Done /\ Unset \in Timestamp
  BY Constant DEF TInv, StreamsTyped
<1>1. /\ last_processed_ts_[i] \in Int /\ last_processed_ts_[i] \in Timestamp
      /\ ready_timestamps_[i] \in Timestamp /\ input_bound \in Int
  BY <1>0, Constant DEF HandlerTyped, SchedulerTyped
<1>2. StreamsOf(i) \in SUBSET Streams
  BY <1>0, HandlerIs
<1>3. r.timestamp \in Timestamp /\ r.last \in Timestamp
  BY <1>0, <1>1, <1>2, ReadinessIs DEF ReadinessOf
<1>4. CASE ~Fresh(i)
  BY <1>1, <1>3, <1>4 DEF ReadyTimestamp, Fresh, Kept, Waiting
<1>5. CASE Fresh(i)
  <2>1. ready_timestamps_[i] = Unset /\ last = r.last
    BY <1>5 DEF Fresh
  <2>2. /\ r.timestamp \in Timestamp /\ r.last \in Timestamp /\ r.timestamp \in Int /\ r.last \in Int
        /\ \/ /\ r.readiness = "kReadyForProcess" /\ r.timestamp # Unset
              /\ IsRangeValue(input_bound) => input_bound <= r.timestamp
              /\ handler.process_timestamps => last_processed_ts_[i] < r.last
           \/ r.readiness = "kReadyForClose" /\ r.last = MaxTimestamp
           \/ /\ r.readiness = "kNotReady" /\ r.last = last_processed_ts_[i]
              /\ input_bound <= r.timestamp /\ r.timestamp < OneOverPostStream
              /\ \A s \in StreamsOf(i) : r.timestamp <= Frontier(s)
              /\ handler.process_timestamps /\ r.timestamp \in 1 .. MaxTime
                   /\ last_processed_ts_[i] < r.timestamp - 1 =>
                     \A s \in StreamsOf(i) : Settled(stream[s], r.timestamp)
    BY <2>1, BoundOfSet
  <2>3. CASE r.readiness = "kReadyForProcess"
    <3>1. t = r.timestamp
      BY <1>5, <2>3 DEF ReadyTimestamp
    <3> QED
      BY <1>0, <1>1, <2>1, <2>2, <2>3, <3>1
  <2>4. CASE r.readiness = "kReadyForClose"
    <3>1. t = PreviousAllowedInStream(Done) \/ t = Done
      BY <1>5, <2>4 DEF ReadyTimestamp
    <3>2. t \in {MaxTimestamp, Done} /\ t \in Timestamp /\ t # Unset
      BY SMTT(30), <3>1, PreviousIs, Constant
    <3>3. IsRangeValue(input_bound) => input_bound <= t
      BY <1>1, <3>2, Constant DEF IsRangeValue
    <3>4. last = MaxTimestamp
      BY <2>1, <2>2, <2>4
    <3> QED
      BY <1>0, <1>1, <2>1, <2>2, <3>2, <3>3, <3>4, Constant
  <2>5. CASE r.readiness = "kNotReady"
    BY <1>0, <1>1, <1>5, <2>1, <2>2, <2>5 DEF ReadyTimestamp
  <2> QED
    BY <2>2, <2>3, <2>4, <2>5
<1> QED
  BY <1>4, <1>5

\* The immediate handler reports the least of the bounds of the sync sets.
LEMMA ImmediateReports ==
  ASSUME TInv, TInv', Kept, ImmediateReadiness, ~Closing'
  PROVE  Kept' /\ Reported
<1>0. handler \in Handlers /\ SchedulerTyped /\ HandlerTyped /\ Whole /\ ready' \in SUBSET Indices'
      /\ Unset # Done /\ handler.kind = "immediate" /\ Looked
  BY Constant DEF TInv, StreamsTyped, HandlerTyped, Kept, ImmediateReadiness
<1>1. PICK r, timestamps :
        /\ r = [i \in Indices |-> ReadinessOf(i)]
        /\ timestamps = [i \in Indices |-> ReadyTimestamp(i, r[i])]
        /\ ImmediateReadinessOf(r, timestamps)
        /\ UNCHANGED <<handler, stream, sync_sets_>>
  BY DEF ImmediateReadiness
<1> DEFINE waiting == {i \in Indices : timestamps[i] = Unset}
           earliest == Min({Done} \cup {timestamps[i] : i \in Indices \ waiting})
           min_bound == Min({earliest} \cup {r[i].timestamp : i \in waiting})
           last == [i \in Indices |-> IF Fresh(i) THEN r[i].last ELSE last_processed_ts_[i]]
<1>2. /\ ready_timestamps_' = timestamps /\ last_processed_ts_' = last
      /\ \/ ReadyForClose
         \/ /\ earliest < Done /\ input_timestamp' = earliest /\ pc' = "pop" /\ UNCHANGED input_bound
            /\ ready' = {i \in Indices : timestamps[i] = earliest}
         \/ /\ min_bound # Done /\ earliest = Done
            /\ input_timestamp' = min_bound /\ pc' = "pop" /\ UNCHANGED input_bound
            /\ ready' = {i \in Indices : timestamps[i] = min_bound}
         \/ /\ earliest = Done /\ NotReady(min_bound) /\ ready' = {}
  BY <1>1 DEF ImmediateReadinessOf, FillAt, ReadyForProcess
<1>3. ASSUME NEW i \in Indices
      PROVE  /\ timestamps[i] \in Timestamp /\ r[i].timestamp \in Timestamp /\ last[i] \in Int
             /\ timestamps[i] # Done => ready_timestamps_[i] # Done
             /\ timestamps[i] \notin {Unset, Done} /\ IsRangeValue(input_bound) => input_bound <= timestamps[i]
             /\ handler.process_timestamps /\ input_bound \in 1 .. MaxTime /\ last[i] < input_bound - 1 =>
                  last_processed_ts_[i] < input_bound - 1
             /\ timestamps[i] = Unset =>
                  /\ last[i] = last_processed_ts_[i]
                  /\ input_bound <= r[i].timestamp /\ r[i].timestamp < OneOverPostStream
                  /\ \A s \in StreamsOf(i) : r[i].timestamp <= Frontier(s)
                  /\ handler.process_timestamps /\ r[i].timestamp \in 1 .. MaxTime
                       /\ last_processed_ts_[i] < r[i].timestamp - 1 =>
                         \A s \in StreamsOf(i) : Settled(stream[s], r[i].timestamp)
  <2>1. /\ r[i] = ReadinessOf(i) /\ timestamps[i] = ReadyTimestamp(i, r[i])
        /\ last[i] = IF Fresh(i) THEN r[i].last ELSE last_processed_ts_[i]
    BY <1>1
  <2> HIDE DEF last
  <2> QED
    BY <1>0, <2>1, ImmediateBound
<1> HIDE DEF last
<1>4. input_bound \in Int /\ input_bound <= Done /\ Done \in Timestamp
  BY <1>0, Constant DEF SchedulerTyped
<1>5. /\ earliest \in Timestamp /\ earliest <= Done /\ \A i \in Indices \ waiting : earliest <= timestamps[i]
      /\ earliest # Done => \E i \in Indices \ waiting : timestamps[i] = earliest
  <2> DEFINE times == {timestamps[i] : i \in Indices \ waiting}
  <2>1. times \in SUBSET Timestamp
    BY <1>3
  <2>2. \A i \in Indices \ waiting : timestamps[i] \in times
    OBVIOUS
  <2>3. \A t \in times : \E i \in Indices \ waiting : timestamps[i] = t
    OBVIOUS
  <2>4. earliest = Min({Done} \cup times)
    OBVIOUS
  <2> HIDE DEF times, earliest
  <2>5. /\ earliest \in Timestamp /\ earliest \in {Done} \cup times /\ earliest <= Done
        /\ \A t \in times : earliest <= t
    BY <2>1, <2>4, TimestampsMin
  <2> QED
    BY <2>2, <2>3, <2>5
<1> HIDE DEF earliest
<1>6. /\ min_bound \in Timestamp /\ min_bound \in Int /\ \A i \in waiting : min_bound <= r[i].timestamp
      /\ min_bound # earliest => \E i \in waiting : r[i].timestamp = min_bound
  <2> DEFINE bounds == {earliest} \cup {r[i].timestamp : i \in waiting}
  <2>1. bounds \in SUBSET Timestamp /\ bounds # {}
    BY <1>3, <1>5
  <2>2. \A i \in waiting : r[i].timestamp \in bounds
    OBVIOUS
  <2>3. \A t \in bounds : t = earliest \/ \E i \in waiting : r[i].timestamp = t
    OBVIOUS
  <2>4. min_bound = Min(bounds)
    OBVIOUS
  <2> HIDE DEF bounds, min_bound
  <2>5. min_bound \in bounds /\ min_bound \in Timestamp /\ min_bound \in Int /\ \A t \in bounds : min_bound <= t
    BY <2>1, <2>4, TimestampMin
  <2> QED
    BY <2>2, <2>3, <2>5
<1> HIDE DEF min_bound
<1>7. IsRangeValue(input_bound) => input_bound <= earliest
  <2>1. CASE earliest = Done
    BY <1>4, <2>1
  <2>2. CASE earliest # Done
    BY <1>3, <1>5, <2>2
  <2> QED
    BY <2>1, <2>2
<1>8. earliest = Done => input_bound <= min_bound
  BY <1>3, <1>4, <1>6
<1>9. /\ Indices' = Indices /\ (\A i : StreamsOf(i)' = StreamsOf(i)) /\ handler.kind # "mux"
      /\ Awaited = UNION {StreamsOf(i) : i \in {i \in Indices : ready_timestamps_[i] # Done}}
      /\ Awaited' = UNION {StreamsOf(i) : i \in {i \in Indices : timestamps[i] # Done}}
  BY <1>0, <1>1, <1>2 DEF Indices, StreamsOf, Awaited
<1>10. pc' # "look" /\ ~ReadyForClose
  BY <1>2 DEF ReadyForClose, NotReady, Closing
<1>11. LookedAt' /\ \A s : ~EmptyAt(s)'
  BY <1>10 DEF LookedAt, EmptyAt
<1>12. Whole'
  <2>1. \A i \in ready' : timestamps[i] # Done
    BY <1>2, <1>5, <1>10, Constant
  <2> QED
    BY <1>0, <1>1, <1>2, <1>9, <2>1 DEF Whole
<1>13. CASE UNCHANGED input_bound
  <2>1. Awaited' \in SUBSET Awaited
    BY <1>3, <1>9
  <2>2. Ahead'
    BY <1>1, <1>13, <2>1 DEF Kept, Ahead, Frontier
  <2>3. Passed'
    BY <1>0, <1>1, <1>2, <1>3, <1>9, <1>11, <1>13 DEF Passed, Caught, Steps, Kept
  <2>4. Waiting'
    BY <1>2, <1>3, <1>9, <1>13 DEF Waiting
  <2>5. Reported
    BY <1>2, <1>4, <1>7, <1>8, <1>10, <1>13 DEF Reported, NotReady
  <2> QED
    BY <1>11, <1>12, <2>2, <2>3, <2>4, <2>5 DEF Kept
<1>14. CASE earliest = Done /\ NotReady(min_bound)
  <2>1. input_bound' = min_bound /\ pc' = "idle"
    BY <1>14 DEF NotReady
  <2>2. ASSUME NEW i \in Indices, timestamps[i] # Done PROVE i \in waiting
    BY <1>3, <1>5, <1>14, <2>2, Constant
  <2>3. Ahead'
    <3>1. ASSUME NEW i \in waiting, NEW s \in StreamsOf(i) PROVE min_bound <= Frontier(s)
      <4>1. s \in Streams
        BY <1>0, HandlerIs
      <4>2. Frontier(s) \in Int /\ r[i].timestamp \in Int
        BY <1>1, <1>3, <4>1, FrontsAre, Constant
      <4> QED
        BY <1>3, <1>6, <4>2
    <3> QED
      BY <1>1, <1>9, <2>1, <2>2, <3>1 DEF Ahead, Frontier
  <2>4. Passed'
    <3> SUFFICES ASSUME NEW i \in Indices, Caught(i)', NEW s \in StreamsOf(i)
                 PROVE  Settled(stream[s], min_bound)
      BY <1>1, <1>9, <1>11, <2>1 DEF Passed
    <3>1. handler.process_timestamps /\ min_bound \in 1 .. MaxTime /\ last[i] < min_bound - 1
          /\ i \in waiting
      BY <1>1, <1>2, <2>1, <2>2 DEF Caught, Steps
    <3>2. /\ last[i] = last_processed_ts_[i] /\ r[i].timestamp <= Frontier(s) /\ min_bound <= r[i].timestamp
          /\ handler.process_timestamps /\ r[i].timestamp \in 1 .. MaxTime
                /\ last_processed_ts_[i] < r[i].timestamp - 1 => Settled(stream[s], r[i].timestamp)
      BY <1>3, <1>6, <3>1
    <3>3. Frontier(s) \in Int /\ r[i].timestamp \in Int
      BY <1>0, <1>1, <1>3, HandlerIs, FrontsAre, Constant
    <3>4. CASE r[i].timestamp = min_bound
      BY <3>1, <3>2, <3>4
    <3>5. CASE r[i].timestamp # min_bound
      BY <1>6, <3>2, <3>3, <3>5 DEF Settled, Frontier
    <3> QED
      BY <3>4, <3>5
  <2>5. Waiting'
    BY <1>2, <1>9, <2>2 DEF Waiting
  <2>6. Reported
    BY <1>8, <1>14, <2>1 DEF Reported
  <2> QED
    BY <1>11, <1>12, <2>3, <2>4, <2>5, <2>6 DEF Kept
<1> QED
  BY <1>2, <1>10, <1>13, <1>14

\* What a step does to the bound reported.
StepKept ==
  /\ input_bound <= input_bound'
  /\ pc = "look" /\ pc' \in {"pop", "fill"} /\ IsRangeValue(input_bound) => input_bound <= input_timestamp'

\* A step of a node that runs: no CHECK fails, and the streams are not being closed.
LEMMA KeptStep ==
  ASSUME TInv, TInv', Kept, InLine, handler.kind = "barrier" => Upstreams, Plain \/ handler.kind = "fixed_size",
         handler.kind \notin {"timestamp_align", "sync_set"}, Next, crashed' = "none", ~Closing, ~Closing'
  PROVE  Kept' /\ InLine' /\ StepKept
<1>1. Moved /\ InLine'
  BY StepMoves
<1>2. input_bound \in Int /\ input_bound' \in Int
  BY BoundsAre
<1>3. CASE \/ \E s \in Streams : Upstream(s)
           \/ StartScheduling \/ Look \/ FillInputSet \/ Measure \/ Pop \/ LookAfterErasing
           \/ EraseSurplusStep
  BY <1>1, <1>2, <1>3, KeptGoes DEF StepKept
<1>4. CASE Invoke
  BY <1>1, <1>2, <1>4, KeptInvokes DEF Invoke, EndInvocation, StepKept
<1>5. CASE GetNodeReadiness
  <2>1. ~SyncSetsReadiness /\ ~AlignBeforeOffsets /\ ~AlignWithOffsets
    BY DEF SyncSetsReadiness, AlignBeforeOffsets, AlignWithOffsets
  <2>2. Kept' /\ Reported
    BY <1>1, <1>5, <2>1, DefaultReports, EarliestReports, ImmediateReports, MuxControlReports, MuxDataReports
       DEF GetNodeReadiness
  <2> QED
    BY <1>1, <2>2 DEF StepKept, Reported
<1>6. ~CloseStream
  BY DEF CloseStream, Closing
<1> QED
  BY <1>3, <1>4, <1>5, <1>6 DEF Next, Schedule

\* A node that closes its streams reports no bound any more.
LEMMA ClosingStays == TInv /\ Closing /\ Next => Closing' /\ input_bound' = input_bound /\ pc # "look"
BY DEF Closing, Next, Schedule, GetNodeReadiness, Upstream, StartScheduling, Look, Looked,
       DefaultReadiness, EarlyCloseReadiness, BarrierReadiness, ImmediateReadiness, SyncSetsReadiness,
       AlignBeforeOffsets, AlignWithOffsets, MuxLooksAtControl, MuxLooksAtData, FixedSizeReadiness,
       FillInputSet, Measure, Pop, Invoke, EndInvocation, CloseStream, LookAfterErasing, EraseSurplusStep,
       AddPacketsTo, SetNextTimestampBoundOf, Notify, StartErasing, Erasing, EndErasing, scheduleVars

\* Nor does a step that fails, or with which the closing begins.
LEMMA QuietStep ==
  ASSUME TInv, TInv', Next, crashed' # "none" \/ Closing', handler.kind # "sync_set"
  PROVE  StepKept
<1>0. crashed = "none" /\ input_bound \in Int /\ input_bound' \in Int /\ input_bound <= input_bound
  BY NextRuns, BoundsAre
<1>1. CASE Closing
  BY <1>0, <1>1, ClosingStays DEF StepKept
<1>2. CASE Closing' /\ ~Closing
  <2>1. pc' \in {"close", "closed"} /\ pc \notin {"close", "closed"}
    BY <1>2 DEF Closing
  <2>2. GetNodeReadiness
    BY <2>1 DEF Next, Schedule, Upstream, StartScheduling, Look, FillInputSet, Measure, Pop, Invoke,
       EndInvocation, CloseStream, LookAfterErasing, EraseSurplusStep, AddPacketsTo, SetNextTimestampBoundOf, Notify,
       StartErasing, Erasing, EndErasing, scheduleVars
  <2>3. input_bound' = input_bound
    BY <2>1, <2>2 DEF GetNodeReadiness, DefaultReadiness, EarlyCloseReadiness, BarrierReadiness, ImmediateReadiness,
       ImmediateReadinessOf, FillAt, SyncSetsReadiness, SyncSetsReadinessOf, AlignBeforeOffsets, AlignWithOffsets,
       MuxLooksAtControl, MuxLooksAtData, FixedSizeReadiness, Outcome, NotReady, ReadyForProcess, ReadyForClose
  <2> QED
    BY <1>0, <2>1, <2>3 DEF StepKept
<1>3. CASE crashed' # "none"
  <2>1. Pop \/ MuxLooksAtData
    BY <1>0, <1>3 DEF Next, Schedule, GetNodeReadiness, Upstream, StartScheduling, Look,
       DefaultReadiness, EarlyCloseReadiness, BarrierReadiness, ImmediateReadiness, SyncSetsReadiness,
       AlignBeforeOffsets, AlignWithOffsets, MuxLooksAtControl, FixedSizeReadiness,
       FillInputSet, Measure, Invoke, EndInvocation, CloseStream, LookAfterErasing, EraseSurplusStep,
       AddPacketsTo, SetNextTimestampBoundOf, Notify, StartErasing, Erasing, EndErasing
  <2> QED
    BY <1>0, <1>3, <2>1 DEF Pop, MuxLooksAtData, NotReady, StepKept
<1> QED
  BY <1>1, <1>2, <1>3

-----------------------------------------------------------------------------
(* The bound reported by timestamp_align. *)

\* It is not after what may come, shifted to the base stream, nor after what is seen of it.
AlignAhead ==
  IF offsets_initialized_ THEN \A s \in Used : input_bound <= Shifted(s)
  ELSE input_bound <= Frontier(Base)
AlignLooked ==
  pc = "look" =>
    IF offsets_initialized_ THEN \A s \in Used \ todo : input_bound <= Aligned(s)
    ELSE Base \notin todo => input_bound <= seen[Base].timestamp
AlignKept == AlignAhead /\ AlignLooked

\* The timestamps outside the range are not shifted, and the shift stops at its ends.
LEMMA ShiftedBy ==
  ASSUME NEW t \in Int, NEW o \in Int
  PROVE  /\ MaxTime \in Int /\ MaxTime >= 0 /\ PreStream = -1 /\ OneOverPostStream = MaxTime + 2
         /\ IsRangeValue(t) <=> 0 <= t /\ t <= MaxTime
         /\ Plus(t, o) = IF o >= 0 /\ t >= MaxTime - o THEN MaxTime
                         ELSE IF o <= 0 /\ t <= 0 - o THEN 0 ELSE t + o
BY Constant DEF IsRangeValue, Plus

\* What was seen of a stream, shifted, is not after what is there, shifted.
LEMMA AlignedLow ==
  ASSUME TInv, SeenSound, Spread(handler), Aligns, Looked, handler.kind = "timestamp_align", ~Closing,
         NEW s \in Used, NEW b \in 0 .. MaxTime, From0(s, b)
  PROVE  Aligned(s) \in Int /\ Shifted(s) \in Int /\ Aligned(s) <= Shifted(s) /\ Aligned(s) \in Timestamp
<1>1. ShiftSound(s)
  BY ShiftIs DEF Aligns
<1>2. AlignedSound(s, b)
  BY AlignedSees DEF Aligns
<1>3. Aligned(s) \in Int /\ Shifted(s) \in Int /\ Off(s) \in Int /\ Frontier(s) \in Int /\ Aligned(s) \in Timestamp
  BY <1>1, <1>2 DEF ShiftSound, AlignedSound
<1>4. CASE ~seen[s].empty
  BY <1>2, <1>3, <1>4 DEF AlignedSound
<1>5. CASE seen[s].empty
  <2>1. PICK t : t = seen[s].timestamp
    OBVIOUS
  <2>2. t \in Int /\ t >= PreStream /\ t <= Frontier(s)
    BY <1>5, <2>1, AlignSees DEF Aligns
  <2>3. Aligned(s) = IF IsRangeValue(t) THEN Plus(t, Off(s)) ELSE t
    BY <2>1 DEF Aligned, Off
  <2>4. /\ MaxTime \in Int /\ MaxTime >= 0 /\ PreStream = -1 /\ OneOverPostStream = MaxTime + 2
        /\ IsRangeValue(t) <=> 0 <= t /\ t <= MaxTime
        /\ IsRangeValue(Frontier(s)) <=> 0 <= Frontier(s) /\ Frontier(s) <= MaxTime
        /\ Plus(t, Off(s)) = IF Off(s) >= 0 /\ t >= MaxTime - Off(s) THEN MaxTime
                             ELSE IF Off(s) <= 0 /\ t <= 0 - Off(s) THEN 0 ELSE t + Off(s)
    BY <1>3, <2>2, ShiftedBy
  <2>5. b \in Int /\ b >= 0 /\ (Frontier(s) = -1 \/ Frontier(s) + Off(s) >= b)
    BY <1>3, <2>4 DEF From0
  <2>6. /\ IsRangeValue(Frontier(s)) => Shifted(s) = Frontier(s) + Off(s) /\ Shifted(s) <= MaxTime
        /\ ~IsRangeValue(Frontier(s)) =>
             Shifted(s) = Frontier(s) /\ (Frontier(s) = -1 \/ Frontier(s) >= MaxTime + 2)
    BY <1>1, <2>4 DEF ShiftSound
  <2>7. CASE IsRangeValue(Frontier(s))
    BY <1>3, <2>2, <2>3, <2>4, <2>5, <2>6, <2>7
  <2>8. CASE ~IsRangeValue(Frontier(s))
    <3>1. Shifted(s) = Frontier(s) /\ (Frontier(s) = -1 \/ Frontier(s) >= MaxTime + 2)
      BY <2>6, <2>8
    <3>2. CASE IsRangeValue(t)
      BY <1>3, <2>2, <2>3, <2>4, <3>1, <3>2
    <3>3. CASE ~IsRangeValue(t)
      BY <1>3, <2>2, <2>3, <3>1, <3>3
    <3> QED
      BY <3>2, <3>3
  <2> QED
    BY <2>7, <2>8
<1> QED
  BY <1>3, <1>4, <1>5

\* What is seen of a stream now, shifted, is not before what is there, shifted.
LEMMA AlignedNow ==
  ASSUME NEW s, ShiftSound(s), seen'[s].timestamp = Frontier(s), Off(s)' = Off(s)
  PROVE  Aligned(s)' \in Int /\ Shifted(s) <= Aligned(s)'
BY ShiftedBy DEF ShiftSound, Aligned, Off

\* A step that computes no input timestamp.
LEMMA AlignStays ==
  ASSUME TInv, TInv', handler.kind = "timestamp_align", Spread(handler), Aligns, Aligns', AlignKept, Moved,
         ~Closing, ~Closing', UNCHANGED <<handler, input_bound, offsets_initialized_, timestamp_offsets_>>,
         pc' = "look" =>
           \A s \in Used \ todo' :
             \/ pc = "look" /\ s \notin todo /\ seen'[s] = seen[s]
             \/ seen'[s].timestamp = Frontier(s)
  PROVE  AlignKept'
<1>0. /\ Used' = Used /\ Base \in Used /\ Base' = Base /\ Used \in SUBSET Streams /\ handler \in Handlers
      /\ (\A s : Off(s)' = Off(s)) /\ input_bound \in Int
      /\ \A s \in Streams : Frontier(s) \in Int /\ Frontier(s)' \in Int
  BY AlignSame, BoundsAre DEF Base, Off
<1>1. \A s \in Streams : Frontier(s) <= Frontier(s)'
  BY DEF Moved, Moves, Frontier
<1>2. \A s \in Used : ShiftSound(s) /\ ShiftSound(s)'
  BY <1>0, ShiftIs, ShiftIsThen DEF Spread, Aligns
<1>3. AlignAhead'
  <2>1. CASE offsets_initialized_
    <3>1. PICK b \in 0 .. MaxTime : \A s \in Used : From0(s, b)
      BY <2>1 DEF Aligns, AlignSpread
    <3>2. ASSUME NEW s \in Used PROVE input_bound <= Shifted(s)'
      <4>1. Shifted(s) <= Shifted(s)' /\ Shifted(s) \in Int /\ Shifted(s)' \in Int
        BY <1>0, <1>1, <1>2, <3>1, ShiftGrows DEF ShiftSound
      <4>2. input_bound <= Shifted(s)
        BY <2>1 DEF AlignKept, AlignAhead
      <4> QED
        BY <1>0, <4>1, <4>2
    <3> QED
      BY <1>0, <2>1, <3>2 DEF AlignAhead
  <2>2. CASE ~offsets_initialized_
    BY <1>0, <1>1, <2>2 DEF AlignKept, AlignAhead
  <2> QED
    BY <2>1, <2>2
<1>4. AlignLooked'
  <2>1. CASE pc' = "look" /\ offsets_initialized_
    <3>1. ASSUME NEW s \in Used, s \notin todo' PROVE input_bound <= Aligned(s)'
      <4>1. CASE pc = "look" /\ s \notin todo /\ seen'[s] = seen[s]
        BY <2>1, <3>1, <4>1 DEF Aligned, AlignKept, AlignLooked
      <4>2. CASE seen'[s].timestamp = Frontier(s)
        BY <1>0, <1>2, <2>1, <4>2, AlignedNow DEF ShiftSound, AlignKept, AlignAhead
      <4> QED
        BY <2>1, <3>1, <4>1, <4>2
    <3> QED
      BY <1>0, <2>1, <3>1 DEF AlignLooked
  <2>2. CASE pc' = "look" /\ ~offsets_initialized_
    BY <1>0, <2>2 DEF AlignKept, AlignLooked, AlignAhead
  <2> QED
    BY <2>1, <2>2 DEF AlignLooked
<1> QED
  BY <1>3, <1>4 DEF AlignKept

\* Before the offsets are known the bound is that of the base stream,
LEMMA AlignBeforeReports ==
  ASSUME TInv, TInv', SeenSound, Spread(handler), Aligns, AlignKept, AlignBeforeOffsets
  PROVE  AlignKept' /\ Reported
<1>0. /\ handler.kind = "timestamp_align" /\ pc = "look" /\ Looked /\ todo = {} /\ ~offsets_initialized_ /\ ~Closing
      /\ UNCHANGED <<handler, stream, sync_sets_, ready_timestamps_>>
  BY DEF AlignBeforeOffsets, Looked, Closing
<1>1. /\ Used' = Used /\ Base \in Used /\ Base' = Base /\ Used \in SUBSET Streams /\ handler \in Handlers
      /\ (\A s \in Streams : Frontier(s) \in Int /\ Off(s) \in Int) /\ \A s : Frontier(s)' = Frontier(s)
  BY <1>0, AlignSame DEF Base, Frontier
<1>2. PICK base, others, known :
        /\ base = seen[Base].timestamp /\ others = Used \ {Base} /\ known = {s \in others : ~seen[s].empty}
  OBVIOUS
<1>3. \A s \in Used : /\ seen[s].timestamp \in Int /\ seen[s].timestamp <= Frontier(s)
                      /\ ~seen[s].empty => Frontier(s) = seen[s].timestamp /\ seen[s].timestamp \in handler.packets
  BY <1>0, <1>1, AlignSees DEF Aligns
<1>4. /\ base \in Int /\ base <= Frontier(Base) /\ input_bound <= base /\ input_bound \in Int
      /\ input_bound <= Frontier(Base)
  BY <1>0, <1>1, <1>2, <1>3, BoundsAre DEF AlignKept, AlignLooked, AlignAhead
<1>5. CASE seen[Base].empty
  <2>1. NotReady(base) /\ UNCHANGED offsets_initialized_
    BY <1>2, <1>5 DEF AlignBeforeOffsets, alignVars
  <2>2. input_bound' = base /\ pc' = "idle"
    BY <2>1 DEF NotReady
  <2> QED
    BY <1>0, <1>1, <1>4, <2>1, <2>2 DEF AlignKept, AlignAhead, AlignLooked, Reported
<1>6. CASE ~seen[Base].empty
  <2>1. /\ timestamp_offsets_' = [s \in Streams |-> IF s \in known THEN base - seen[s].timestamp ELSE timestamp_offsets_[s]]
        /\ offsets_initialized_' = (known = others)
        /\ pc' = "pop" /\ input_timestamp' = base /\ input_bound' = input_bound
    BY <1>2, <1>6 DEF AlignBeforeOffsets, ReadyForProcess
  <2>2. Reported
    BY <1>4, <2>1 DEF Reported
  <2>3. ASSUME offsets_initialized_', NEW s \in Used PROVE input_bound <= Shifted(s)'
    <3>1. Frontier(s) = seen[s].timestamp /\ seen[s].timestamp \in handler.packets /\ Off(s)' = base - Frontier(s)
      <4>1. CASE s = Base
        BY <1>1, <1>2, <1>3, <1>4, <1>6, <2>1, <4>1 DEF Off, Aligns, AlignOffsets
      <4>2. CASE s # Base
        BY <1>1, <1>2, <1>3, <2>1, <2>3, <4>2 DEF Off
      <4> QED
        BY <4>1, <4>2
    <3>2. IsRangeValue(Frontier(s)) /\ Frontier(s) \in Int
      BY <1>1, <3>1, SpreadIs
    <3>3. Shifted(s)' = base
      BY <1>1, <1>4, <3>1, <3>2 DEF Shifted
    <3> QED
      BY <1>4, <3>3
  <2>4. AlignAhead'
    BY <1>1, <1>4, <2>1, <2>3 DEF AlignAhead
  <2> QED
    BY <2>1, <2>2, <2>4 DEF AlignKept, AlignLooked
<1> QED
  BY <1>5, <1>6

\* and then the least of those of the streams, shifted.
LEMMA AlignWithReports ==
  ASSUME TInv, TInv', SeenSound, Spread(handler), Aligns, AlignKept, AlignWithOffsets
  PROVE  AlignKept' /\ Reported
<1>0. /\ handler.kind = "timestamp_align" /\ pc = "look" /\ Looked /\ todo = {} /\ offsets_initialized_ /\ ~Closing
      /\ UNCHANGED <<handler, stream, sync_sets_, ready_timestamps_, alignVars>>
  BY DEF AlignWithOffsets, Looked, Closing
<1>1. /\ Used' = Used /\ Used # {} /\ input_bound \in Int /\ input_bound' \in Int
      /\ offsets_initialized_' = offsets_initialized_ /\ \A s : Shifted(s)' = Shifted(s)
  BY <1>0, AlignSame, BoundsAre DEF alignVars, Shifted, Frontier, Off
<1>2. PICK b \in 0 .. MaxTime : \A s \in Used : From0(s, b)
  BY <1>0 DEF Aligns, AlignSpread
<1>3. \A s \in Used : Aligned(s) \in Int /\ Shifted(s) \in Int /\ Aligned(s) <= Shifted(s) /\ Aligned(s) \in Timestamp
  BY <1>0, <1>2, AlignedLow
<1>4. PICK t : t = Min({Aligned(s) : s \in Used})
  OBVIOUS
<1>5. t \in Int /\ (\E u \in Used : t = Aligned(u)) /\ \A s \in Used : t <= Aligned(s)
  <2>1. PICK times : times = {Aligned(s) : s \in Used}
    OBVIOUS
  <2>2. times \in SUBSET Timestamp /\ times # {} /\ \A s \in Used : Aligned(s) \in times
    BY <1>1, <1>3, <2>1
  <2>3. Min(times) \in times /\ Min(times) \in Int /\ \A u \in times : Min(times) <= u
    BY <2>2, TimestampMin
  <2> QED
    BY <1>4, <2>1, <2>2, <2>3
<1>6. input_bound <= t /\ \A s \in Used : t <= Shifted(s) /\ input_bound <= Shifted(s)
  BY <1>0, <1>3, <1>5 DEF AlignKept, AlignLooked, AlignAhead
<1>7. \/ pc' = "close" /\ input_bound' = input_bound
      \/ pc' = "pop" /\ input_timestamp' = t /\ input_bound' = input_bound
      \/ pc' = "idle" /\ input_bound' = t
  BY <1>4 DEF AlignWithOffsets, NotReady, ReadyForClose, ReadyForProcess
<1>8. Reported
  BY <1>1, <1>6, <1>7 DEF Reported
<1>9. AlignKept'
  BY <1>0, <1>1, <1>6, <1>7 DEF AlignKept, AlignAhead, AlignLooked
<1> QED
  BY <1>8, <1>9

\* A step of a node that aligns its streams.
LEMMA AlignKeptStep ==
  ASSUME TInv, TInv', SInv, SInv', handler.kind = "timestamp_align", Spread(handler), AlignKept, InLine, Next,
         crashed' = "none", ~Closing, ~Closing'
  PROVE  AlignKept' /\ StepKept
<1>0. /\ Aligns /\ Aligns' /\ SeenSound /\ Plain /\ handler' = handler
      /\ Base \in Used /\ handler \in Handlers /\ input_bound \in Int
  BY HandlerStays, AlignIs, BoundsAre DEF TInv, StreamsTyped, SInv, KindInv
<1>1. Moved
  BY <1>0, StepMoves
<1>2. /\ ~(EraseSurplusStep \/ FillInputSet \/ Measure \/ LookAfterErasing \/ FixedSizeReadiness)
      /\ ~MuxLooksAtControl /\ ~MuxLooksAtData /\ ~DefaultReadiness /\ ~EarlyCloseReadiness
      /\ ~ImmediateReadiness /\ ~SyncSetsReadiness /\ ~BarrierReadiness /\ ~CloseStream
  BY <1>0, PlainKept DEF MuxLooksAtControl, MuxLooksAtData, DefaultReadiness, EarlyCloseReadiness, ImmediateReadiness,
         SyncSetsReadiness, BarrierReadiness, CloseStream, Closing
<1>3. CASE (\E s \in Streams : Upstream(s)) \/ Pop \/ Invoke
  <2>1. /\ UNCHANGED <<input_bound, offsets_initialized_, timestamp_offsets_>>
        /\ (pc = "look" => pc' = "look" /\ UNCHANGED <<todo, seen>>) /\ (pc' = "look" => pc = "look")
    BY <1>3 DEF Upstream, AddPacketsTo, SetNextTimestampBoundOf, Notify, StartErasing, Erasing, EndErasing,
       Pop, Invoke, EndInvocation, scheduleVars, alignVars
  <2>2. pc' = "look" => \A s \in Used \ todo' : pc = "look" /\ s \notin todo /\ seen'[s] = seen[s]
    BY <2>1
  <2>3. AlignKept'
    BY <1>0, <1>1, <2>1, <2>2, AlignStays
  <2> QED
    BY <1>0, <2>1, <2>3 DEF StepKept
<1>4. CASE StartScheduling
  BY <1>0, <1>1, <1>4, AlignStays
     DEF StartScheduling, alignVars, Aligns, NotSynced, StreamsToLookAt, Used, StepKept
<1>5. CASE Look
  <2>1. PICK f : f = First
    OBVIOUS
  <2>2. /\ UNCHANGED <<input_bound, offsets_initialized_, timestamp_offsets_>> /\ pc = "look" /\ pc' = "look"
        /\ todo' = todo \ {f} /\ seen' = [seen EXCEPT ![f] = [empty |-> IsEmpty(stream[f]), timestamp |-> Frontier(f)]]
    BY <1>5, <2>1 DEF Look, alignVars, Frontier
  <2>3. DOMAIN seen = Streams /\ Used \in SUBSET Streams
    BY <1>0, HandlerIs DEF TInv, SchedulerTyped
  <2>4. ASSUME NEW s \in Used \ todo'
        PROVE  (s \notin todo /\ seen'[s] = seen[s]) \/ seen'[s].timestamp = Frontier(s)
    BY <2>2, <2>3
  <2>5. AlignKept'
    BY <1>0, <1>1, <2>2, <2>4, AlignStays
  <2> QED
    BY <1>0, <2>2, <2>5 DEF StepKept
<1>6. CASE AlignBeforeOffsets \/ AlignWithOffsets
  BY <1>0, <1>6, AlignBeforeReports, AlignWithReports DEF Reported, StepKept
<1> QED
  BY <1>2, <1>3, <1>4, <1>5, <1>6 DEF Next, Schedule, GetNodeReadiness

-----------------------------------------------------------------------------
(* The invariant of the bound reported, for every handler. *)

Bound(h) == h.kind = "timestamp_align" => Spread(h)

KInv ==
  crashed = "none" /\ ~Closing =>
    /\ handler.kind = "timestamp_align" => AlignKept /\ InLine
    /\ handler.kind \notin {"timestamp_align", "sync_set"} => Kept /\ InLine
BoundInv == TInv /\ (Proved(handler) => SInv) /\ KInv

\* Nothing has been reported.
LEMMA InitKept ==
  ASSUME Init, TInv
  PROVE  Kept /\ InLine /\ (handler.kind = "timestamp_align" => AlignKept)
<1>1. /\ pc = "idle" /\ input_bound = Unset /\ sync_sets_ = Indices /\ ready = {}
      /\ ready_timestamps_ = [i \in Indices |-> Unset]
  BY DEF Init
<1>2. \A s \in Streams : InitialStream(s) /\ stream[s].queue = <<>>
  BY InitialStreams DEF Init, NewStream
<1>3. Unset = -3 /\ PreStream = -1 /\ Unset # Done /\ ~IsRangeValue(Unset) /\ ~(Unset \in 1 .. MaxTime) /\ MaxTime \in Int
  BY Constant DEF IsRangeValue
<1>4. handler \in Handlers /\ Used \in SUBSET Streams
  BY HandlerIs DEF TInv, StreamsTyped
<1>5. Whole /\ LookedAt /\ Passed /\ Waiting
  BY <1>1, <1>3 DEF Whole, LookedAt, Passed, Waiting, Caught
<1>6. Ahead
  BY <1>1, <1>2, <1>3, <1>5, LooksAt DEF Ahead, InitialStream
<1>7. InLine
  BY <1>2 DEF InLine, Strict
<1>8. ASSUME handler.kind = "timestamp_align" PROVE AlignKept
  <2>1. Base \in Streams
    BY <1>4, <1>8, AlignIs
  <2>2. \A s \in Streams : Frontier(s) = -1 /\ Shifted(s) = -1
    BY <1>2, <1>3, Constant DEF InitialStream, Shifted, IsRangeValue
  <2> QED
    BY <1>1, <1>3, <1>4, <2>1, <2>2 DEF AlignKept, AlignAhead, AlignLooked
<1> QED
  BY <1>5, <1>6, <1>7, <1>8 DEF Kept

\* A step keeps the invariant and the bound; so does a step that changes nothing.
LEMMA BoundStep ==
  ASSUME BoundInv, TInv', Next, Bound(handler)
  PROVE  BoundInv' /\ (handler.kind # "sync_set" => StepKept)
<1>0. handler' = handler /\ crashed = "none" /\ handler \in Handlers /\ TInv /\ (Closing => Closing')
  BY HandlerStays, NextRuns, ClosingStays DEF BoundInv, TInv, StreamsTyped
<1>1. Proved(handler) => SInv /\ SInv'
  BY <1>0, SoundStep DEF BoundInv
<1>2. (Proved(handler) => SInv)'
  BY <1>0, <1>1 DEF Proved, Spread
<1>3. CASE crashed' # "none" \/ Closing'
  BY <1>0, <1>2, <1>3, QuietStep DEF KInv, BoundInv
<1>4. CASE crashed' = "none" /\ ~Closing' /\ ~Closing
  <2>1. CASE handler.kind = "timestamp_align"
    <3>1. Spread(handler) /\ Proved(handler)
      BY <2>1 DEF Bound, Proved
    <3>2. AlignKept /\ InLine
      BY <1>0, <1>4, <2>1 DEF BoundInv, KInv
    <3>3. AlignKept' /\ StepKept
      BY <1>0, <1>1, <1>4, <2>1, <3>1, <3>2, AlignKeptStep
    <3>4. InLine'
      BY <1>0, <2>1 DEF InLine
    <3>5. KInv'
      BY <1>0, <2>1, <3>3, <3>4 DEF KInv
    <3> QED
      BY <1>2, <3>3, <3>5 DEF BoundInv
  <2>2. CASE handler.kind = "sync_set"
    BY <1>0, <1>2, <2>2 DEF BoundInv, KInv
  <2>3. CASE handler.kind \notin {"timestamp_align", "sync_set"}
    BY <1>0, <1>1, <1>2, <1>4, <2>3, KeptStep DEF BoundInv, KInv, Proved, SInv
  <2> QED
    BY <2>1, <2>2, <2>3
<1> QED
  BY <1>0, <1>3, <1>4

LEMMA BoundRests ==
  ASSUME BoundInv, TInv', UNCHANGED vars
  PROVE  BoundInv' /\ StepKept
<1>1. UNCHANGED <<handler, stream, pc, todo, seen, input_timestamp, input_bound, sync_sets_, last_processed_ts_,
                  ready_timestamps_, ready, offsets_initialized_, timestamp_offsets_, crashed>>
  BY DEF vars, upstreamVars, scheduleVars, handlerVars, alignVars
<1>2. /\ Used' = Used /\ Indices' = Indices /\ Control' = Control /\ StreamsToLookAt' = StreamsToLookAt
      /\ Awaited' = Awaited /\ \A s : Frontier(s)' = Frontier(s) /\ StreamsOf(s)' = StreamsOf(s)
  BY <1>1 DEF Used, Indices, Control, StreamsToLookAt, StreamsOf, Awaited, Frontier
<1>3. Kept => Kept'
  <2>1. (Whole => Whole') /\ (Ahead => Ahead') /\ (Waiting => Waiting')
    BY <1>1, <1>2 DEF Whole, Ahead, Waiting
  <2>2. LookedAt => LookedAt'
    BY <1>1, <1>2 DEF LookedAt, SeenBetween
  <2>3. Passed => Passed'
    BY <1>1, <1>2 DEF Passed, Caught, Steps, EmptyAt
  <2> QED
    BY <2>1, <2>2, <2>3 DEF Kept
<1>4. AlignKept => AlignKept'
  BY <1>1, <1>2 DEF AlignKept, AlignAhead, AlignLooked, Aligned, Shifted, Off, Base
<1>5. InLine => InLine'
  BY <1>1 DEF InLine
<1>6. KInv'
  BY <1>1, <1>3, <1>4, <1>5 DEF BoundInv, KInv, Closing
<1>7. (Proved(handler) => SInv)'
  BY <1>1, SoundRests DEF BoundInv, Proved, Spread
<1>8. TInv /\ input_bound \in Int
  BY BoundsAre DEF BoundInv
<1> QED
  BY <1>1, <1>6, <1>7, <1>8 DEF BoundInv, StepKept

(* InputBoundKept holds of every step of a node with any of the handlers, for any
   streams, sync sets and packets: the bound reported when the node is not ready never
   decreases, and no input timestamp before it is taken afterwards.  Nodes with a
   sync_set handler are let off by the property; those with a timestamp_align one must
   carry packets that are not shifted out of the range. *)
THEOREM InputBound == Spec /\ (handler.kind = "timestamp_align" => Spread(handler)) => InputBoundKept
<1>1. Init /\ Bound(handler) => BoundInv /\ Bound(handler)
  BY InitTyped, InitSound, InitKept DEF BoundInv, KInv
<1>2. BoundInv /\ Bound(handler) /\ [Next]_vars =>
        /\ (BoundInv /\ Bound(handler))'
        /\ [handler.kind # "sync_set" =>
              /\ input_bound' >= input_bound
              /\ pc = "look" /\ pc' \in {"pop", "fill"} /\ IsRangeValue(input_bound) =>
                   input_timestamp' >= input_bound]_vars
  <2> SUFFICES ASSUME BoundInv, Bound(handler), [Next]_vars
               PROVE  /\ BoundInv' /\ Bound(handler)'
                      /\ handler.kind # "sync_set" =>
                           /\ input_bound' >= input_bound
                           /\ pc = "look" /\ pc' \in {"pop", "fill"} /\ IsRangeValue(input_bound) =>
                                input_timestamp' >= input_bound
    OBVIOUS
  <2>1. TInv'
    BY NextTyped DEF BoundInv
  <2>2. BoundInv' /\ handler' = handler /\ (handler.kind # "sync_set" => StepKept)
    BY <2>1, BoundStep, HandlerStays, BoundRests DEF vars
  <2>3. input_bound \in Int /\ input_bound' \in Int /\ input_timestamp' \in Int
    BY <2>1, BoundsAre DEF BoundInv
  <2> QED
    BY <2>2, <2>3 DEF StepKept, Bound, Spread
<1>3. (handler.kind = "timestamp_align" => Spread(handler)) <=> Bound(handler)
  BY DEF Bound
<1> QED
  BY <1>1, <1>2, <1>3, PTL DEF Spec, InputBoundKept
=============================================================================
