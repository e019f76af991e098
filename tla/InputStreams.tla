---------------------------- MODULE InputStreams ----------------------------
(***************************************************************************)
(* The input streams of one node and the input stream handler that turns   *)
(* the packets on them into input sets: GetNodeReadiness looks at the      *)
(* streams, FillInputSet takes packets from them, while the nodes upstream *)
(* go on adding packets and raising timestamp bounds.                      *)
(*                                                                         *)
(* Each stream has a mutex of its own, so what a method does to one stream *)
(* is one action, and looking at three streams is three.  An upstream node *)
(* is known by its output stream's bound; it sends packets in the order of *)
(* their timestamps, and after a packet or a bound it notifies the node.   *)
(* The scheduling of the node is reduced to what CalculatorNode shows: one *)
(* thread schedules at a time, a notification makes it look again, and so  *)
(* does the end of an invocation; there is one invocation at a time.       *)
(*                                                                         *)
(* The handlers are those of stream_handler/; handler.kind says which.     *)
(***************************************************************************)
EXTENDS InputStreamManager, FiniteSetsExt

CONSTANTS
  Streams,      \* the input streams, numbered in the order of their ids
  Handlers      \* bound: the handlers tried, each with what may be sent to it

ASSUME StreamsAssumption == Cardinality(Streams) \in Nat /\ Streams = 1 .. Cardinality(Streams)

Kinds == {"default", "early_close", "barrier", "immediate", "sync_set", "timestamp_align", "mux",
          "fixed_size"}

ASSUME HandlersAssumption ==
  \A h \in Handlers :
    /\ h.kind \in Kinds
    /\ h.process_timestamps \in BOOLEAN
    /\ h.sync_sets \in Seq(SUBSET Streams) \ {<<>>}
    /\ \A i \in DOMAIN h.sync_sets : h.sync_sets[i] # {}
    /\ \A i, j \in DOMAIN h.sync_sets : i # j => h.sync_sets[i] \cap h.sync_sets[j] = {}
    /\ h.kind \notin {"immediate", "sync_set"} => Len(h.sync_sets) = 1
    /\ h.kind = "immediate" => \A i \in DOMAIN h.sync_sets : \E s \in Streams : h.sync_sets[i] = {s}
    /\ h.kind = "timestamp_align" => 1 \in h.sync_sets[1]
    /\ h.packets \subseteq PreStream .. PostStream    \* bound: the timestamps of packets
    /\ h.batch \in {1, 2}                   \* bound: how many packets are added at once
    /\ h.kind = "mux" =>                    \* a control packet selects another stream
         \A t \in h.packets : h.select[t] \in h.sync_sets[1] \ {Max(h.sync_sets[1])}
    /\ h.trigger \in Nat \ {0} /\ h.target \in Nat \ {0} /\ h.fixed_min_size \in BOOLEAN

VARIABLES
  handler,
  stream,               \* the InputStreamManager of each stream
  out_bound,            \* of the output stream upstream of each
  notify,               \* what each upstream thread has yet to do for what it added
  has_error_,           \* a packet or a bound was refused
  pending,              \* the node has to look (again) at its streams
  pc,                   \* of the scheduling thread
  todo,                 \* the streams it has yet to look at, to pop or to close
  seen,                 \* what MinTimestampOrBound gave for each stream looked at
  input_timestamp,      \* of the invocation being prepared
  input_bound,          \* the last one that a handler reported when not ready
  sync_sets_,           \* the indices of the sync sets that are not done
  last_processed_ts_, ready_timestamps_,                \* of each sync set
  ready,                \* the sync sets that FillInputSet takes packets of
  offsets_initialized_, timestamp_offsets_,             \* TimestampAlignInputStreamHandler
  kept_timestamp_, erase_mutex_, surplus,               \* FixedSizeInputStreamHandler
  erased,               \* history: the timestamps of the packets erased from each stream
  crashed               \* the CHECK that failed

handlerVars == <<sync_sets_, last_processed_ts_, ready_timestamps_, ready>>
alignVars == <<offsets_initialized_, timestamp_offsets_>>
surplusVars == <<kept_timestamp_, erase_mutex_, surplus>>
upstreamVars == <<out_bound, notify, has_error_>>
scheduleVars == <<pending, pc, todo, seen, input_timestamp, input_bound>>
vars == <<handler, stream, upstreamVars, scheduleVars, handlerVars, alignVars, surplusVars,
          erased, crashed>>

Indices == DOMAIN handler.sync_sets
StreamsOf(i) == handler.sync_sets[i]
Used == UNION {StreamsOf(i) : i \in Indices}

Node == -1                       \* the scheduling thread, as the holder of erase_mutex_
Base == 1                        \* timestamp_base_stream_id_: whichever it is, it is named 1
Control == Max(Used)             \* the control stream of a mux
DataStream(t) == handler.select[t]    \* the value of the control packet at t

(* FixedSizeInputStreamHandler: what whoever holds erase_mutex_ does next, to which
   streams, the lowest timestamp found so far, and the size of a queue to keep. *)
NoSurplus == [op |-> "done", todo |-> {}, bound |-> Done, limit |-> 0]

NothingSeen == [s \in Streams |-> [empty |-> TRUE, timestamp |-> Unset]]

Init ==
  /\ handler \in Handlers
  /\ stream = [s \in Streams |-> NewStream(handler.kind # "barrier")]
  /\ out_bound = [s \in Streams |-> IF s \in Used THEN PreStream ELSE Done]
  /\ notify = [s \in Streams |-> "none"]
  /\ has_error_ = FALSE
  /\ pending = TRUE /\ pc = "idle" /\ todo = {}
  /\ seen = NothingSeen
  /\ input_timestamp = Unset /\ input_bound = Unset
  /\ sync_sets_ = Indices
  /\ last_processed_ts_ = [i \in Indices |-> Unset]
  /\ ready_timestamps_ = [i \in Indices |-> Unset]
  /\ ready = {}
  /\ offsets_initialized_ = (Cardinality(Used) = 1)
  /\ timestamp_offsets_ = [s \in Streams |-> 0]
  /\ kept_timestamp_ = Unset /\ erase_mutex_ = 0 /\ surplus = NoSurplus
  /\ erased = [s \in Streams |-> {}]
  /\ crashed = "none"
-----------------------------------------------------------------------------
(* The nodes upstream. *)

Running == crashed = "none"

\* What one call of PropagateUpdatesToMirrors may add.
Batches(s) ==
  LET allowed == {t \in handler.packets : t >= out_bound[s] /\ (t = PostStream => ~stream[s].used)}
  IN {<<t>> : t \in allowed}
     \cup {<<t, u>> : t \in allowed, u \in {u \in handler.packets : handler.batch = 2 /\ u # PostStream}}

Increasing(packets) ==
  \A n \in 2 .. Len(packets) : packets[n] >= NextAllowedInStream(packets[n - 1])

AfterAdding == IF handler.kind = "fixed_size" THEN "notify_erase" ELSE "notify"

AddPacketsTo(s) ==
  \E packets \in Batches(s) :
    LET result == AddPackets(stream[s], packets)
        became_non_empty == ~stream[s].closed_ /\ IsEmpty(stream[s]) /\ result.ok
    IN /\ Running /\ notify[s] = "none"
       /\ Increasing(packets)
       /\ stream' = [stream EXCEPT ![s] = result.stream]
       /\ out_bound' = [out_bound EXCEPT ![s] = NextAllowedInStream(Last(packets))]
       /\ has_error_' = (has_error_ \/ ~result.ok)
       /\ notify' = [notify EXCEPT ![s] =
                       IF became_non_empty THEN AfterAdding
                       ELSE IF handler.kind = "fixed_size" THEN "erase" ELSE "none"]
       /\ UNCHANGED <<handler, scheduleVars, handlerVars, alignVars, surplusVars, erased,
                      crashed>>

SetNextTimestampBoundOf(s) ==
  \E bound \in (handler.packets \cup {Done}) :
    /\ Running /\ notify[s] = "none"
    /\ bound > out_bound[s]
    /\ out_bound' = [out_bound EXCEPT ![s] = bound]
    /\ stream' = [stream EXCEPT ![s] = SetNextTimestampBound(@, bound)]
    /\ has_error_' = (has_error_ \/ (~stream[s].closed_ /\ RefusesBound(stream[s], bound)))
    /\ notify' = IF IsEmpty(stream[s]) /\ stream'[s] # stream[s]
                 THEN [notify EXCEPT ![s] = "notify"] ELSE notify
    /\ UNCHANGED <<handler, scheduleVars, handlerVars, alignVars, surplusVars, erased,
                   crashed>>

\* The notification, CheckIfBecameReady.
Notify(s) ==
  /\ Running /\ notify[s] \in {"notify", "notify_erase"}
  /\ pending' = TRUE
  /\ notify' = [notify EXCEPT ![s] = IF @ = "notify" THEN "none" ELSE "erase"]
  /\ UNCHANGED <<handler, stream, out_bound, has_error_, pc, todo, seen, input_timestamp,
                 input_bound, handlerVars, alignVars, surplusVars, erased, crashed>>
-----------------------------------------------------------------------------
(* ScheduleInvocations: the node looks at its streams, one after the other. *)

IsSyncSetHandler == handler.kind \in {"immediate", "sync_set"}
Limited == handler.kind = "fixed_size"

\* The streams GetNodeReadiness looks at, those of a mux as far as they are known.
StreamsToLookAt ==
  IF handler.kind = "mux" THEN {Control}
  ELSE UNION {StreamsOf(i) : i \in {i \in sync_sets_ : ready_timestamps_[i] = Unset}}

\* Streams are taken in the order of their ids, but a mux pops the control stream and
\* then the one selected before the others.
First ==
  LET selected == {Control, DataStream(input_timestamp)} \cap todo
  IN IF handler.kind # "mux" \/ pc # "pop" \/ selected = {} THEN Min(todo) ELSE Max(selected)

\* EraseAllSurplus and EraseAnySurplus go over the streams several times, one lock at a
\* time; each op is a step on one stream (keep_one, on none).
EraseSurplusPackets ==
  [op |-> IF handler.fixed_min_size THEN "triggered" ELSE "limit", todo |-> Used,
   bound |-> IF handler.fixed_min_size THEN MaxTime ELSE Done, limit |-> 0]

StartScheduling ==
  /\ Running /\ pc = "idle" /\ pending
  /\ pending' = FALSE
  /\ IF Limited
     THEN /\ erase_mutex_ = 0 /\ erase_mutex_' = Node
          /\ pc' = "surplus" /\ todo' = todo
          /\ surplus' = EraseSurplusPackets
          /\ UNCHANGED kept_timestamp_
     ELSE pc' = "look" /\ todo' = StreamsToLookAt /\ UNCHANGED surplusVars
  /\ UNCHANGED <<handler, stream, upstreamVars, seen, input_timestamp, input_bound, handlerVars,
                 alignVars, erased, crashed>>

Look ==
  /\ Running /\ pc = "look" /\ todo # {}
  /\ seen' = [seen EXCEPT ![First] = [empty |-> IsEmpty(stream[First]),
                                      timestamp |-> MinTimestampOrBound(stream[First])]]
  /\ todo' = todo \ {First}
  /\ UNCHANGED <<handler, stream, upstreamVars, pending, pc, input_timestamp, input_bound,
                 handlerVars, alignVars, surplusVars, erased, crashed>>

Looked == Running /\ pc = "look" /\ todo = {}

MinSeen(set, empty) ==
  Min({Done} \cup {seen[s].timestamp : s \in {s \in set : seen[s].empty = empty}})
MinBound(set) == MinSeen(set, TRUE)
MinPacket(set) == MinSeen(set, FALSE)
SeenDone(set) == \E s \in set : seen[s].empty /\ seen[s].timestamp = Done

Readiness(readiness, timestamp, last) ==
  [readiness |-> readiness, timestamp |-> timestamp, last |-> last]

\* Mutant of SyncSetReadiness: the bound reported is that of the packets.
SyncSetReadinessReportsPacket(set, last) ==
  IF MinBound(set) > MinPacket(set)
  THEN Readiness("kReadyForProcess", MinPacket(set), MinPacket(set))
  ELSE Readiness("kNotReady", MinPacket(set), last)

\* SyncSet::GetReadiness, for a sync set whose last_processed_ts_ is last.
SyncSetReadiness(set, last) ==
  LET min_bound == MinBound(set)
      min_packet == MinPacket(set)
      earliest == Earlier(min_packet, min_bound)
      settled == IF min_packet = PostStream /\ min_bound > min_packet THEN min_packet
                 ELSE PreviousAllowedInStream(min_bound)
      settled_packet == Earlier(min_packet, settled)
  IN IF earliest >= OneOverPostStream
     THEN Readiness("kReadyForClose", Done, PreviousAllowedInStream(Done))
     ELSE IF ~handler.process_timestamps /\ min_bound > min_packet
     THEN Readiness("kReadyForProcess", earliest, earliest)
     ELSE IF handler.process_timestamps /\ settled_packet > Later(last, Unstarted)
     THEN Readiness("kReadyForProcess", settled_packet, settled_packet)
     ELSE Readiness("kNotReady", earliest, last)

ReadinessOf(i) == SyncSetReadiness(StreamsOf(i), last_processed_ts_[i])

\* What the scheduling thread does next, and with which streams.
NotReady(bound) ==
  /\ input_bound' = bound /\ pc' = "idle" /\ todo' = {} /\ seen' = NothingSeen
  /\ UNCHANGED input_timestamp
ReadyForProcess(timestamp, streams) ==
  /\ input_timestamp' = timestamp /\ pc' = "pop" /\ todo' = streams /\ seen' = NothingSeen
  /\ UNCHANGED input_bound
\* No invocation is in flight, so Close() is run at once.
ReadyForClose ==
  /\ pc' = "close" /\ todo' = Used /\ seen' = NothingSeen
  /\ UNCHANGED <<input_timestamp, input_bound>>

Outcome(readiness, timestamp) ==
  \/ readiness = "kNotReady" /\ NotReady(timestamp)
  \/ readiness = "kReadyForProcess" /\ ReadyForProcess(timestamp, Used)
  \/ readiness = "kReadyForClose" /\ ReadyForClose

DefaultReadiness ==
  LET r == ReadinessOf(1)
  IN /\ Looked /\ handler.kind = "default"
     /\ Outcome(r.readiness, r.timestamp)
     /\ last_processed_ts_' = [last_processed_ts_ EXCEPT ![1] = r.last]
     /\ ready' = {1}
     /\ UNCHANGED <<handler, stream, upstreamVars, pending, sync_sets_, ready_timestamps_,
                    alignVars, surplusVars, erased, crashed>>

EarlyCloseReadiness ==
  LET min_bound == MinBound(Used)
      earliest == Earlier(MinPacket(Used), min_bound)
  IN /\ Looked /\ handler.kind = "early_close"
     /\ \/ SeenDone(Used) /\ ReadyForClose
        \/ ~SeenDone(Used) /\ min_bound > earliest /\ ReadyForProcess(earliest, Used)
        \/ ~SeenDone(Used) /\ min_bound = earliest /\ NotReady(earliest)
     /\ ready' = {1}
     /\ UNCHANGED <<handler, stream, upstreamVars, pending, sync_sets_, last_processed_ts_,
                    ready_timestamps_, alignVars, surplusVars, erased, crashed>>

BarrierReadiness ==
  LET earliest == Earlier(MinPacket(Used), MinBound(Used))
      all_available == \A s \in Used : ~seen[s].empty
  IN /\ Looked /\ handler.kind = "barrier"
     /\ \/ SeenDone(Used) /\ ReadyForClose
        \/ ~SeenDone(Used) /\ all_available /\ ReadyForProcess(earliest, Used)
        \/ ~SeenDone(Used) /\ ~all_available /\ NotReady(earliest)
     /\ ready' = {1}
     /\ UNCHANGED <<handler, stream, upstreamVars, pending, sync_sets_, last_processed_ts_,
                    ready_timestamps_, alignVars, surplusVars, erased, crashed>>

(* ImmediateInputStreamHandler: each stream is a sync set, and one that is ready
   stays so until FillInputSet takes its packet. *)
Fresh(i) == ready_timestamps_[i] = Unset
ReadyTimestamp(i, r) ==
  IF ~Fresh(i) THEN ready_timestamps_[i]
  ELSE CASE r.readiness = "kReadyForProcess" -> r.timestamp
         [] r.readiness = "kReadyForClose" ->
              IF handler.process_timestamps /\ last_processed_ts_[i] < PreviousAllowedInStream(Done)
              THEN PreviousAllowedInStream(Done) ELSE Done
         [] OTHER -> Unset
BecameDone(i, r) ==
  /\ Fresh(i) /\ ~handler.process_timestamps
  /\ r.readiness = "kReadyForClose" /\ last_processed_ts_[i] < Done

FillAt(t, sync_sets) ==
  /\ ready' = sync_sets
  /\ ReadyForProcess(t, UNION {StreamsOf(i) : i \in sync_sets})

\* What r says of the sync sets, and when each is ready.
ImmediateReadinessOf(r, timestamps) ==
  LET readyAt(t) == {i \in Indices : timestamps[i] = t}
      waiting == readyAt(Unset)
      earliest == Min({Done} \cup {timestamps[i] : i \in Indices \ waiting})
      min_bound == Min({earliest} \cup {r[i].timestamp : i \in waiting})
  IN /\ \/ min_bound = Done /\ ReadyForClose /\ ready' = {}
        \/ min_bound # Done /\ earliest < Done /\ FillAt(earliest, readyAt(earliest))
        \/ /\ min_bound # Done /\ earliest = Done
           /\ IF \E i \in Indices : BecameDone(i, r[i]) THEN FillAt(min_bound, readyAt(min_bound))
              ELSE NotReady(min_bound) /\ ready' = {}
     /\ ready_timestamps_' = timestamps
     /\ last_processed_ts_' =
          [i \in Indices |-> IF Fresh(i) THEN r[i].last ELSE last_processed_ts_[i]]

ImmediateReadiness ==
  /\ Looked /\ handler.kind = "immediate"
  /\ \E r \in {[i \in Indices |-> ReadinessOf(i)]} :
     \E timestamps \in {[i \in Indices |-> ReadyTimestamp(i, r[i])]} :
       ImmediateReadinessOf(r, timestamps)
  /\ UNCHANGED <<handler, stream, upstreamVars, pending, sync_sets_, alignVars, surplusVars,
                 erased, crashed>>

(* SyncSetInputStreamHandler: of the sync sets that are ready the earliest is taken,
   and those that are done are forgotten. *)
SyncSetsReadinessOf(r) ==
  LET live == {i \in sync_sets_ : r[i].readiness # "kReadyForClose"}
      prepared == {i \in live : r[i].readiness = "kReadyForProcess"}
      earliest == Min({r[i].timestamp : i \in prepared})
      chosen == Min({i \in prepared : r[i].timestamp = earliest})
  IN /\ \/ /\ prepared # {} /\ ready' = {chosen}
           /\ ReadyForProcess(earliest, handler.sync_sets[chosen])
        \/ prepared = {} /\ live = {} /\ ReadyForClose /\ ready' = {}
        \/ /\ prepared = {} /\ live # {} /\ ready' = {}
           /\ NotReady(r[Max(sync_sets_)].timestamp)
     /\ sync_sets_' = live
     /\ last_processed_ts_' =
          [i \in Indices |-> IF i \in sync_sets_ THEN r[i].last ELSE last_processed_ts_[i]]

SyncSetsReadiness ==
  /\ Looked /\ handler.kind = "sync_set"
  /\ \E r \in {[i \in sync_sets_ |-> ReadinessOf(i)]} : SyncSetsReadinessOf(r)
  /\ UNCHANGED <<handler, stream, upstreamVars, pending, ready_timestamps_, alignVars, surplusVars,
                 erased, crashed>>

(* TimestampAlignInputStreamHandler: until every stream has had a packet, those of
   the base stream are passed; then the others are shifted to it. *)
Aligned(s) ==
  IF IsRangeValue(seen[s].timestamp) THEN Plus(seen[s].timestamp, timestamp_offsets_[s])
  ELSE seen[s].timestamp

AlignBeforeOffsets ==
  LET base == seen[Base].timestamp
      others == Used \ {Base}
      known == {s \in others : ~seen[s].empty}
  IN /\ Looked /\ handler.kind = "timestamp_align" /\ ~offsets_initialized_
     /\ IF seen[Base].empty THEN NotReady(base) /\ UNCHANGED <<alignVars, ready>>
        ELSE /\ timestamp_offsets_' = [s \in Streams |->
                  IF s \in known THEN base - seen[s].timestamp ELSE timestamp_offsets_[s]]
             /\ offsets_initialized_' = (known = others)
             /\ ReadyForProcess(base, IF known = others THEN Used ELSE {Base})
             /\ ready' = {1}
     /\ UNCHANGED <<handler, stream, upstreamVars, pending, sync_sets_, last_processed_ts_,
                    ready_timestamps_, surplusVars, erased, crashed>>

AlignWithOffsets ==
  LET min_bound == Min({Done} \cup {Aligned(s) : s \in {s \in Used : seen[s].empty}})
      earliest == Min({Aligned(s) : s \in Used})
  IN /\ Looked /\ handler.kind = "timestamp_align" /\ offsets_initialized_
     /\ \/ earliest = Done /\ ReadyForClose
        \/ earliest # Done /\ min_bound > earliest /\ ReadyForProcess(earliest, Used)
        \/ earliest # Done /\ min_bound = earliest /\ NotReady(earliest)
     /\ ready' = {1}
     /\ UNCHANGED <<handler, stream, upstreamVars, pending, sync_sets_, last_processed_ts_,
                    ready_timestamps_, alignVars, surplusVars, erased, crashed>>

Erase(s, t) ==
  /\ stream' = [stream EXCEPT ![s] = ErasePacketsEarlierThan(@, t)]
  /\ erased' = [erased EXCEPT ![s] = @ \cup {u \in Range(stream[s].queue) : u < t}]

(* MuxInputStreamHandler: the packet of the control stream says which data stream
   is looked at, after its outdated packets have been erased. *)
MuxLooksAtControl ==
  LET control == seen[Control]
      data == DataStream(control.timestamp)
  IN /\ Looked /\ handler.kind = "mux" /\ ready = {}
     /\ \/ control.empty /\ control.timestamp = Done /\ ReadyForClose
           /\ UNCHANGED <<stream, ready, erased>>
        \/ /\ control.empty /\ control.timestamp # Done
           /\ NotReady(control.timestamp) /\ UNCHANGED <<stream, ready, erased>>
        \/ /\ ~control.empty
           /\ Erase(data, control.timestamp)
           /\ todo' = {data} /\ ready' = {1}
           /\ UNCHANGED <<pc, seen, input_timestamp, input_bound>>
     /\ UNCHANGED <<handler, upstreamVars, pending, sync_sets_, last_processed_ts_,
                    ready_timestamps_, alignVars, surplusVars, crashed>>

MuxLooksAtData ==
  LET control == seen[Control].timestamp
      data == seen[DataStream(control)]
  IN /\ Looked /\ handler.kind = "mux" /\ ready # {}
     /\ IF ~data.empty /\ data.timestamp < control
        THEN crashed' = "CHECK_EQ(stream_timestamp, *min_stream_timestamp)" /\ NotReady(input_bound)
        ELSE /\ UNCHANGED crashed
             /\ IF data.empty /\ data.timestamp <= control THEN NotReady(control)
                ELSE ReadyForProcess(control, Used)
     /\ ready' = {}
     /\ UNCHANGED <<handler, stream, upstreamVars, pending, sync_sets_, last_processed_ts_,
                    ready_timestamps_, alignVars, surplusVars, erased>>
-----------------------------------------------------------------------------
(* FillInputSet takes the packets of the input set, one stream after the other. *)

\* The timestamp at which stream s is popped.
SelectTimestamp(s) ==
  IF handler.kind = "timestamp_align" /\ IsRangeValue(input_timestamp)
  THEN Plus(input_timestamp, -timestamp_offsets_[s]) ELSE input_timestamp

OnlyErases(s) == handler.kind = "mux" /\ s \notin {Control, DataStream(input_timestamp)}

Popped(s) ==
  CASE handler.kind = "barrier" -> PopQueueHead(stream[s])
    [] OnlyErases(s) -> ErasePacketsEarlierThan(stream[s], NextAllowedInStream(input_timestamp))
    [] OTHER -> PopPacketAtTimestamp(stream[s], SelectTimestamp(s))

\* The CHECK that fails when s is popped.
FailedCheck(s) ==
  IF ~IsAllowedInStream(input_timestamp) THEN "CHECK(input_timestamp.IsAllowedInStream())"
  ELSE IF handler.kind = "timestamp_align" /\ offsets_initialized_ /\ ~IsRangeValue(input_timestamp)
  THEN "CHECK(IsRangeValue())"
  ELSE IF handler.kind = "barrier" \/ OnlyErases(s) THEN "none"
  ELSE IF stream[s].last_select_timestamp_ > SelectTimestamp(s)
  THEN "CHECK_LE(last_select_timestamp_, timestamp)"
  ELSE IF DropsPackets(stream[s], SelectTimestamp(s)) THEN "CHECK_EQ(num_packets_dropped, 0)"
  ELSE IF handler.kind = "mux" /\ s = Control /\ MinTimestampOrBound(stream[s]) # input_timestamp
  THEN "CHECK(!control_packet.IsEmpty())" ELSE "none"

Pop ==
  LET s == First
      popped == Range(stream[s].queue) \ Range(Popped(s).queue)
  IN /\ Running /\ pc = "pop" /\ todo # {}
     /\ crashed' = FailedCheck(s)
     /\ stream' = [stream EXCEPT ![s] = Popped(s)]
     /\ erased' = IF OnlyErases(s) THEN [erased EXCEPT ![s] = @ \cup popped] ELSE erased
     /\ todo' = todo \ {s}
     /\ UNCHANGED <<handler, upstreamVars, pending, pc, seen, input_timestamp, input_bound,
                    handlerVars, alignVars, surplusVars>>

\* The invocation; when it ends the node looks at its streams again.
EndInvocation(look_again) ==
  /\ Running /\ pc = "pop" /\ todo = {}
  /\ pc' = "idle" /\ pending' = (pending \/ look_again)
  /\ ready' = {} /\ input_timestamp' = Unset
  /\ ready_timestamps_' =
       [i \in Indices |-> IF i \in ready THEN Unset ELSE ready_timestamps_[i]]
  /\ erase_mutex_' = 0
  /\ UNCHANGED <<handler, stream, upstreamVars, todo, seen, input_bound, sync_sets_,
                 last_processed_ts_, alignVars, kept_timestamp_, surplus, erased, crashed>>

\* Mutant of Invoke: the node does not look again.
InvokeOnce == EndInvocation(FALSE)
Invoke == EndInvocation(TRUE)

CloseStream ==
  /\ Running /\ pc = "close" /\ todo # {}
  /\ stream' = [stream EXCEPT ![First] = Close(@)]
  /\ todo' = todo \ {First}
  /\ pc' = IF todo' = {} THEN "closed" ELSE pc
  /\ UNCHANGED <<handler, upstreamVars, pending, seen, input_timestamp, input_bound, handlerVars,
                 alignVars, surplusVars, erased, crashed>>
-----------------------------------------------------------------------------
(* FixedSizeInputStreamHandler: the steps of whoever holds erase_mutex_. *)

\* PreviousAllowedInStream of this handler.
PreviousTimestamp(bound) == IF IsRangeValue(bound) THEN Plus(bound, -1) ELSE bound

\* The next stream of the loop that begins with op first, or the loop that comes after.
NextTurn(state, first, after) ==
  LET rest == state.todo \ {Min(state.todo)}
  IN surplus' = IF rest # {} THEN [state EXCEPT !.op = first, !.todo = rest]
                ELSE [state EXCEPT !.op = after, !.todo = IF after = "done" THEN {} ELSE Used]

AfterKeeping == IF pc = "keep" THEN "last" ELSE "erase"    \* keep_one, in FillInputSet

\* One step on one stream, or the computation in between.
EraseSurplusStep ==
  LET s == Min(surplus.todo)
      size == Len(stream[s].queue)
      last == GetMinTimestampAmongNLatest(stream[s], 1)
      is(op) == surplus.op = op /\ UNCHANGED <<stream, erased, kept_timestamp_>>
      goto(op) == surplus' = [surplus EXCEPT !.op = op]
      lowered(t) == [surplus EXCEPT !.bound = Earlier(@, t)]
  IN /\ Running /\ surplus.op # "done"
     /\ \/ is("triggered") /\ goto(IF size < handler.trigger THEN "done" ELSE "latest")
        \/ /\ is("latest")
           /\ NextTurn(lowered(GetMinTimestampAmongNLatest(stream[s], handler.target)),
                       "triggered", "erase_all")
        \/ /\ surplus.op = "erase_all" /\ UNCHANGED kept_timestamp_
           /\ Erase(s, surplus.bound) /\ NextTurn(surplus, "erase_all", "done")
        \/ /\ is("limit")
           /\ surplus' = [surplus EXCEPT !.op = "over",
                            !.limit = IF size >= handler.trigger THEN handler.target
                                      ELSE handler.trigger - 1]
        \/ /\ is("over")
           /\ IF size > surplus.limit THEN goto("keep_latest")
              ELSE NextTurn(surplus, "limit", AfterKeeping)
        \/ /\ surplus.op = "keep_latest" /\ UNCHANGED <<stream, erased>>
           /\ kept_timestamp_' = Later(kept_timestamp_, NextAllowedInStream(
                GetMinTimestampAmongNLatest(stream[s], surplus.limit + 1)))
           /\ NextTurn(surplus, "limit", AfterKeeping)
        \/ /\ is("last")
           /\ IF last > Unset THEN NextTurn(lowered(NextAllowedInStream(last)), "last", "keep_one")
              ELSE goto("bound")
        \/ is("bound") /\ NextTurn(lowered(MinTimestampOrBound(stream[s])), "last", "keep_one")
        \/ /\ surplus.op = "keep_one" /\ UNCHANGED <<stream, erased>>
           /\ kept_timestamp_' = Earlier(kept_timestamp_, PreviousTimestamp(surplus.bound))
           /\ goto("erase")
        \/ /\ surplus.op = "erase" /\ UNCHANGED kept_timestamp_
           /\ Erase(s, kept_timestamp_) /\ NextTurn(surplus, "erase", "done")
     /\ UNCHANGED <<handler, upstreamVars, scheduleVars, handlerVars, alignVars, erase_mutex_,
                    crashed>>

\* AddPackets erases surplus packets when no input set is about to be filled (pending_).
Erasing(s, pending_) ==
  /\ Running /\ notify[s] = "erase" /\ erase_mutex_ = 0
  /\ IF pending_
     THEN notify' = [notify EXCEPT ![s] = "none"] /\ UNCHANGED <<surplus, erase_mutex_>>
     ELSE /\ notify' = [notify EXCEPT ![s] = "erasing"]
          /\ erase_mutex_' = s /\ surplus' = EraseSurplusPackets
  /\ UNCHANGED <<handler, stream, out_bound, has_error_, scheduleVars, handlerVars, alignVars,
                 kept_timestamp_, erased, crashed>>

\* Mutant of StartErasing: whatever the node is about to do.
EraseAtOnce(s) == Erasing(s, FALSE)
StartErasing(s) == Erasing(s, pc = "fill")

EndErasing(s) ==
  /\ Running /\ surplus.op = "done" /\ erase_mutex_ = s
  /\ notify' = [notify EXCEPT ![s] = "none"]
  /\ erase_mutex_' = 0 /\ surplus' = NoSurplus
  /\ UNCHANGED <<handler, stream, out_bound, has_error_, scheduleVars, handlerVars, alignVars,
                 kept_timestamp_, erased, crashed>>

\* GetNodeReadiness goes on to the DefaultInputStreamHandler, FillInputSet to the
\* timestamp it fills the set at.
LookAfterErasing ==
  /\ Running /\ surplus.op = "done" /\ pc \in {"surplus", "keep"}
  /\ pc' = IF pc = "surplus" THEN "look" ELSE "measure"
  /\ todo' = Used /\ surplus' = NoSurplus
  /\ UNCHANGED <<handler, stream, upstreamVars, pending, seen, input_timestamp, input_bound,
                 handlerVars, alignVars, kept_timestamp_, erase_mutex_, erased, crashed>>

FixedSizeReadiness ==
  LET r == ReadinessOf(1)
      process == r.readiness = "kReadyForProcess"
  IN /\ Looked /\ Limited
     /\ \/ /\ process /\ r.timestamp < kept_timestamp_
           /\ pc' = "surplus" /\ surplus' = EraseSurplusPackets
           /\ seen' = NothingSeen
           /\ UNCHANGED <<todo, input_timestamp, input_bound, erase_mutex_>>
        \/ /\ process /\ r.timestamp >= kept_timestamp_
           /\ pc' = "fill" /\ input_timestamp' = r.timestamp /\ erase_mutex_' = 0
           /\ seen' = NothingSeen
           /\ UNCHANGED <<todo, input_bound, surplus>>
        \/ /\ r.readiness = "kNotReady" /\ NotReady(r.timestamp)
           /\ erase_mutex_' = 0 /\ UNCHANGED surplus
        \/ /\ r.readiness = "kReadyForClose" /\ ReadyForClose
           /\ erase_mutex_' = 0 /\ UNCHANGED surplus
     /\ last_processed_ts_' = [last_processed_ts_ EXCEPT ![1] = r.last]
     /\ ready' = {1}
     /\ UNCHANGED <<handler, stream, upstreamVars, pending, sync_sets_, ready_timestamps_,
                    alignVars, kept_timestamp_, erased, crashed>>

FillInputSet ==
  /\ Running /\ pc = "fill" /\ erase_mutex_ = 0
  /\ erase_mutex_' = Node /\ surplus' = EraseSurplusPackets
  /\ pc' = "keep"
  /\ UNCHANGED <<handler, stream, upstreamVars, pending, todo, seen, input_timestamp, input_bound,
                 handlerVars, alignVars, kept_timestamp_, erased, crashed>>

\* MinTimestampToProcess
Measure ==
  /\ Running /\ pc = "measure"
  /\ \/ /\ todo # {} /\ todo' = todo \ {First}
        /\ seen' = [seen EXCEPT ![First] = [empty |-> IsEmpty(stream[First]),
                                            timestamp |-> MinTimestampOrBound(stream[First])]]
        /\ UNCHANGED <<pc, input_timestamp>>
     \/ /\ todo = {} /\ todo' = Used /\ pc' = "pop" /\ seen' = NothingSeen
        /\ input_timestamp' = Min({IF seen[s].empty THEN PreviousTimestamp(seen[s].timestamp)
                                   ELSE seen[s].timestamp : s \in Used})
  /\ UNCHANGED <<handler, stream, upstreamVars, pending, input_bound, handlerVars, alignVars,
                 surplusVars, erased, crashed>>
-----------------------------------------------------------------------------
Upstream(s) ==
  \/ AddPacketsTo(s) \/ SetNextTimestampBoundOf(s) \/ Notify(s)
  \/ StartErasing(s) \/ EndErasing(s)

GetNodeReadiness ==
  \/ DefaultReadiness \/ EarlyCloseReadiness \/ BarrierReadiness \/ ImmediateReadiness
  \/ SyncSetsReadiness \/ AlignBeforeOffsets \/ AlignWithOffsets
  \/ MuxLooksAtControl \/ MuxLooksAtData \/ FixedSizeReadiness

Schedule ==
  \/ StartScheduling \/ Look \/ GetNodeReadiness \/ FillInputSet \/ Measure \/ Pop \/ Invoke
  \/ CloseStream \/ LookAfterErasing \/ EraseSurplusStep

Next == Schedule \/ \E s \in Streams : Upstream(s)

Spec == Init /\ [][Next]_vars

\* A thread that schedules, notifies or holds a mutex goes on; nobody has to send anything.
GoesOn == Schedule \/ \E s \in Streams : Notify(s) \/ StartErasing(s) \/ EndErasing(s)

FairSpec == Spec /\ WF_vars(GoesOn)
-----------------------------------------------------------------------------
(* Properties. *)

(* The types, and what the methods of a stream rely on: its packets are in order and
   come before its bound, unless it does not care (enable_timestamps_). *)
TypeOK ==
  /\ handler \in Handlers
  /\ \A s \in Streams :
       /\ stream[s].queue \in Seq(Timestamp)
       /\ stream[s].enable_timestamps_ =>
            \A n \in DOMAIN stream[s].queue :
              stream[s].queue[n] < (stream[s].queue \o <<stream[s].next_timestamp_bound_>>)[n + 1]
       /\ stream[s].next_timestamp_bound_ \in Timestamp
       /\ stream[s].last_select_timestamp_ \in Timestamp
       /\ out_bound[s] \in Timestamp /\ erased[s] \subseteq Timestamp
  /\ notify \in [Streams -> {"none", "notify", "notify_erase", "erase", "erasing"}]
  /\ has_error_ \in BOOLEAN /\ pending \in BOOLEAN
  /\ pc \in {"idle", "surplus", "look", "fill", "keep", "measure", "pop", "close", "closed"}
  /\ todo \subseteq Streams
  /\ input_timestamp \in Timestamp /\ input_bound \in Timestamp
  /\ sync_sets_ \subseteq Indices /\ ready \subseteq Indices
  /\ last_processed_ts_ \in [Indices -> Timestamp] /\ ready_timestamps_ \in [Indices -> Timestamp]
  /\ kept_timestamp_ \in Timestamp /\ erase_mutex_ \in Streams \cup {0, Node}

MuxCheck == "CHECK_EQ(stream_timestamp, *min_stream_timestamp)"

(* No packet is dropped on the way to an input timestamp, a stream is never selected
   at an earlier timestamp than before, and the other CHECKs of FillInputSet hold,
   however packets come in while the node looks at its streams.  The CHECK that is left
   out, MuxViewConsistent's, can fail.  Two others can, in nodes that MCHandlers leaves
   out: FilledAtAllowed's where a fixed_size handler processes timestamps, and
   CHECK(IsRangeValue()) where timestamp_align shifts a special value, or a packet that
   the shift takes out of the range. *)
ChecksHold == crashed \in {"none", MuxCheck}

(* The CHECK_EQ in MuxInputStreamHandler::GetNodeReadiness: a data stream whose old
   packets have just been erased has no packet before the control packet. *)
MuxViewConsistent == crashed # MuxCheck

(* The CHECK at the start of FillInputSet: the timestamp at which an input set is taken
   is one that packets may have.  FixedSizeInputStreamHandler computes it anew from the
   streams, which may have been closed since GetNodeReadiness: if it processes
   timestamps the CHECK can fail (MCInputStreams_fixed.cfg). *)
FilledAtAllowed == crashed # "CHECK(input_timestamp.IsAllowedInStream())"

(* A node upstream that sends packets in order is never told that a packet comes too
   late: an input set is filled only when nothing more can come at its timestamp.  A
   fixed_size node whose streams have packets at PreStream is the exception. *)
NothingRefused == ~has_error_

(* A stream is not selected twice at a timestamp. *)
SelectedOnce ==
  pc = "pop" /\ handler.kind # "barrier" =>
    \A s \in todo : ~OnlyErases(s) => stream[s].last_select_timestamp_ < SelectTimestamp(s)

(* A timestamp dropped from a stream is dropped from all of them: nothing is erased
   at a timestamp that is delivered, whether it was erased before or comes later; a
   mux does not erase a packet that a control packet selects. *)
ErasedEverywhere ==
  /\ handler.kind = "fixed_size" =>
       \A s, u \in Used : stream[s].last_select_timestamp_ \notin erased[u]
  /\ handler.kind = "mux" /\ stream[Control].last_select_timestamp_ \in handler.packets =>
       LET t == stream[Control].last_select_timestamp_ IN t \notin erased[DataStream(t)]

(* When the node is closed nothing is left on its streams and nothing more can come,
   unless the handler is one that closes early. *)
NothingLeftBehind ==
  pc = "close" /\ handler.kind \notin {"early_close", "barrier", "mux"} =>
    \A s \in Used : IsEmpty(stream[s]) /\ stream[s].next_timestamp_bound_ >= OneOverPostStream

(* The CHECKs of the handler hold, no packet is refused, delivered twice, dropped from
   one stream and kept on another, or left behind.  So it is with each handler of
   MCHandlers and, by theorem InputSets, with every handler but fixed_size, for any
   streams and packets, if timestamp_align shifts no packet out of the range.  It is
   not so for fixed_size with process_timestamps or with packets at PreStream, nor for
   timestamp_align otherwise (see ChecksHold, FilledAtAllowed and NothingRefused). *)
InputSetsSound ==
  ChecksHold /\ NothingRefused /\ SelectedOnce /\ ErasedEverywhere /\ NothingLeftBehind

(* The bound reported when the node is not ready, from which the bounds of its outputs
   are computed, never decreases, and no earlier input timestamp follows one in the
   range (others are not used); the sync set handler says that its bound is undefined. *)
InputBoundKept ==
  [][handler.kind # "sync_set" =>
       /\ input_bound' >= input_bound
       /\ pc = "look" /\ pc' \in {"pop", "fill"} /\ IsRangeValue(input_bound) =>
            input_timestamp' >= input_bound]_vars

(* A node whose streams are all done is closed in the end.  Two handlers do not see to
   that: one aligns its streams with a base stream that may end before the others have
   begun, the other may pass over a packet of a sync set that was ready, but not the
   earliest, when it processes timestamps. *)
AllDone == \A s \in Used : out_bound[s] = Done
ForgetsStreams ==
  handler.kind = "timestamp_align" \/ (handler.kind = "sync_set" /\ handler.process_timestamps)
DoneStreamsClose == AllDone /\ ~ForgetsStreams ~> pc = "closed" \/ crashed # "none"
=============================================================================
