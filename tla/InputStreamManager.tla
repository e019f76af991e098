------------------------ MODULE InputStreamManager ------------------------
(***************************************************************************)
(* InputStreamManager, in input_stream_manager.cc: the queue of packets    *)
(* and the timestamp bound of one input stream.  Each operator is what one *)
(* method does under stream_mutex_, as a function of the stream before.    *)
(* A packet is its timestamp.  The limit of a queue and its callbacks are  *)
(* in Throttling.                                                          *)
(***************************************************************************)
EXTENDS Timestamps, Sequences, SequencesExt

NewStream(enable_timestamps_) ==
  [queue |-> <<>>, next_timestamp_bound_ |-> PreStream, last_select_timestamp_ |-> Unstarted,
   used |-> FALSE,        \* num_packets_added_ > 0
   closed_ |-> FALSE, enable_timestamps_ |-> enable_timestamps_]

IsEmpty(stream) == stream.queue = <<>>

MinTimestampOrBound(stream) ==
  IF IsEmpty(stream) THEN stream.next_timestamp_bound_ ELSE Head(stream.queue)

IsDone(stream) == IsEmpty(stream) /\ stream.next_timestamp_bound_ = Done

\* A packet that AddPackets answers with an error.
RefusesPacket(stream, t) ==
  \/ ~IsAllowedInStream(t)
  \/ stream.enable_timestamps_ /\ \/ t = PostStream /\ stream.used
                                  \/ t < stream.next_timestamp_bound_

\* Mutant of Accept: the bound is left as it was.
AcceptKeepingBound(stream, t) == [stream EXCEPT !.queue = Append(@, t), !.used = TRUE]
Accept(stream, t) ==
  [stream EXCEPT !.queue = Append(@, t), !.used = TRUE,
                 !.next_timestamp_bound_ = NextAllowedInStream(t)]

\* The packets up to the first refused one are added.
AddPackets(stream, packets) ==
  LET Add[n \in 0 .. Len(packets)] ==
        IF n = 0 THEN [stream |-> stream, ok |-> TRUE]
        ELSE LET before == Add[n - 1]
             IN IF ~before.ok \/ RefusesPacket(before.stream, packets[n])
                THEN [stream |-> before.stream, ok |-> FALSE]
                ELSE [stream |-> Accept(before.stream, packets[n]), ok |-> TRUE]
  IN IF stream.closed_ THEN [stream |-> stream, ok |-> TRUE] ELSE Add[Len(packets)]

RefusesBound(stream, bound) ==
  stream.enable_timestamps_ /\ bound < stream.next_timestamp_bound_

SetNextTimestampBound(stream, bound) ==
  IF stream.closed_ \/ bound <= stream.next_timestamp_bound_ THEN stream
  ELSE [stream EXCEPT !.next_timestamp_bound_ = bound]

Close(stream) ==
  [stream EXCEPT !.next_timestamp_bound_ = Done, !.last_select_timestamp_ = Done, !.closed_ = TRUE]

\* Packets leave the queue at its head: those before t, up to the first that is not.
CountBefore(queue, t) ==
  CHOOSE n \in 0 .. Len(queue) :
    /\ \A i \in 1 .. n : queue[i] < t
    /\ n < Len(queue) => queue[n + 1] >= t
From(queue, t) == SubSeq(queue, CountBefore(queue, t) + 1, Len(queue))

\* Whether PopPacketAtTimestamp(t) loses packets on its way to t.
DropsPackets(stream, t) ==
  LET popped == CountBefore(stream.queue, t + 1)
  IN popped > 1 \/ (popped = 1 /\ Head(stream.queue) # t)

PopPacketAtTimestamp(stream, t) ==
  [stream EXCEPT !.last_select_timestamp_ = t, !.queue = From(@, t + 1),
                 !.next_timestamp_bound_ = IF @ <= t THEN NextAllowedInStream(t) ELSE @]

PopQueueHead(stream) == [stream EXCEPT !.queue = IF @ = <<>> THEN @ ELSE Tail(@)]

GetMinTimestampAmongNLatest(stream, n) ==
  IF IsEmpty(stream) THEN Unset
  ELSE stream.queue[IF n >= Len(stream.queue) THEN 1 ELSE Len(stream.queue) - n + 1]

ErasePacketsEarlierThan(stream, t) == [stream EXCEPT !.queue = From(@, t)]
=============================================================================
