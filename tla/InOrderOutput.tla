---------------------------- MODULE InOrderOutput ----------------------------
(***************************************************************************)
(* The output side of one node that runs several invocations in parallel:  *)
(* InOrderOutputStreamHandler, the contexts of the invocations, and one    *)
(* output stream with one input stream downstream of it (its mirror).      *)
(*                                                                         *)
(* The thread that ends an invocation, and the scheduling thread when it   *)
(* learns of a new timestamp bound, may become the propagation thread: it  *)
(* sends on what is complete and in order, for the others too, with        *)
(* timestamp_mutex_ released while it sends.  An action is one critical    *)
(* section of a mutex or one call between two.                             *)
(*                                                                         *)
(* A thread is named after the invocation it runs, whose name is its input *)
(* timestamp; Scheduling is whoever is the scheduling thread of the node,  *)
(* of which there is one at a time (CalculatorNode), and Closing runs      *)
(* CloseNode.  A packet is its timestamp.  An invocation outputs at most   *)
(* one packet, at its input timestamp plus the offset.                     *)
(***************************************************************************)
EXTENDS Integers, FiniteSets, FiniteSetsExt

CONSTANTS
  MaxTs,           \* bound: the input timestamps are 1 .. MaxTs
  Offset,          \* of the output stream, if it has one
  max_in_flight_,
  Scheduling, Closing

ASSUME TsAssumption == MaxTs \in Nat /\ Offset \in Nat
ASSUME MaxInFlightAssumption == max_in_flight_ \in Nat \ {0, 1}
ASSUME ThreadsAssumption == {Scheduling, Closing} \cap Int = {} /\ Scheduling # Closing

Inputs == 1 .. MaxTs
Threads == Inputs \cup {Scheduling, Closing}

\* Timestamps: Unset and PreStream come before all others, Done after them; the ones
\* between are the range values.
Unset == -1
PreStream == 0
Done == MaxTs + Offset + 2
Timestamps == Unset .. Done
IsRangeValue(ts) == PreStream < ts /\ ts < Done

VARIABLES
  arrived,         \* the input timestamps that are queued
  input_bound,     \* the least timestamp at which a packet may still arrive
  active_contexts_, prepared_context_for_close_,
  completed_input_timestamps_, task_timestamp_bound_, propagation_state_,
  offset_enabled, next_timestamp_bound_, closed_,   \* the output stream
  shard,           \* of each invocation
  mirror,          \* the input stream downstream: its bound, the last packet it got
  mirror_error,    \* it has refused a packet or a bound, which fails the graph
  has_error,
  pc,              \* what each thread does next
  context_timestamp,  \* in PropagationLoop: the context it sends from
  bound            \* a timestamp bound the thread is about to use

inputVars == <<arrived, input_bound>>
contextVars == <<active_contexts_, prepared_context_for_close_>>
handlerVars == <<completed_input_timestamps_, task_timestamp_bound_, propagation_state_>>
streamVars == <<next_timestamp_bound_, closed_>>
errorVars == <<has_error, mirror_error>>
localVars == <<context_timestamp, bound>>
vars == <<inputVars, contextVars, handlerVars, offset_enabled, streamVars, shard, mirror,
          errorVars, pc, localVars>>

Shard == [next : Timestamps, updated : Timestamps, packet : BOOLEAN, closed : BOOLEAN]
NoShard == [next |-> Unset, updated |-> Unset, packet |-> FALSE, closed |-> FALSE]
SendPCs == {"checkClosed", "setBound", "send", "closeStream", "recycle", "erase",
            "checkBound", "setOnlyBound", "sendBound", "endBound"}
PCs == {"none", "idle", "update", "process", "post", "end", "ended", "dropped",
        "close", "closeAll"} \cup SendPCs

Goto(t, label) == pc' = [pc EXCEPT ![t] = label]
\* From UpdateTaskTimestampBound or PostProcess; the locals are gone.
Return(t) ==
  /\ Goto(t, IF t = Scheduling THEN "idle" ELSE "end")
  /\ context_timestamp' = [context_timestamp EXCEPT ![t] = 0]
  /\ bound' = [bound EXCEPT ![t] = Unset]
InFlight == {t \in Inputs \cup {Closing} : pc[t] \notin {"none", "ended", "dropped"}}
InLoop == {t \in Threads : pc[t] \in SendPCs}

\* A completed invocation has its context, but for the step that follows its recycling.
TypeOK ==
  /\ (\A t \in Threads : pc[t] # "erase") =>
       completed_input_timestamps_ \subseteq active_contexts_
  /\ arrived \subseteq Inputs /\ input_bound \in Timestamps
  /\ active_contexts_ \subseteq Inputs /\ completed_input_timestamps_ \subseteq Inputs
  /\ {prepared_context_for_close_, offset_enabled, closed_, has_error, mirror_error} \subseteq BOOLEAN
  /\ task_timestamp_bound_ \in Timestamps /\ next_timestamp_bound_ \in Timestamps
  /\ propagation_state_ \in
       {"kIdle", "kPropagatingPackets", "kPropagatingBound", "kPropagationPending"}
  /\ shard \in [Inputs -> Shard]
  /\ mirror \in [bound : Timestamps, last : Timestamps]
  /\ pc \in [Threads -> PCs]
  /\ context_timestamp \in [Threads -> 0 .. MaxTs] /\ bound \in [Threads -> Timestamps]

\* What PrepareForRun and an Open without outputs leave.
Init ==
  /\ arrived = {} /\ input_bound = PreStream
  /\ active_contexts_ = {} /\ prepared_context_for_close_ = FALSE
  /\ completed_input_timestamps_ = {} /\ task_timestamp_bound_ = Unset
  /\ propagation_state_ = "kIdle"
  /\ offset_enabled \in BOOLEAN
  /\ next_timestamp_bound_ = PreStream /\ closed_ = FALSE
  /\ shard = [i \in Inputs |-> NoShard]
  /\ mirror = [bound |-> PreStream, last |-> Unset]
  /\ has_error = FALSE /\ mirror_error = FALSE
  /\ pc = [t \in Threads |-> IF t = Scheduling THEN "idle" ELSE "none"]
  /\ context_timestamp = [t \in Threads |-> 0] /\ bound = [t \in Threads |-> Unset]

-----------------------------------------------------------------------------
(* The input streams of the node. *)

PacketArrives(i) ==
  /\ i >= input_bound
  /\ arrived' = arrived \cup {i}
  /\ input_bound' = i + 1
  /\ UNCHANGED <<contextVars, handlerVars, offset_enabled, streamVars, shard, mirror,
                 errorVars, pc, localVars>>

\* A bound without a packet; with Done the stream has ended.
BoundArrives(b) ==
  /\ b > input_bound
  /\ input_bound' = b
  /\ UNCHANGED <<arrived, contextVars, handlerVars, offset_enabled, streamVars, shard,
                 mirror, errorVars, pc, localVars>>

-----------------------------------------------------------------------------
(* The scheduling thread. *)

\* An item of the loop of SchedulingLoop: there is room for another invocation.
MaySchedule == pc[Scheduling] = "idle" /\ Cardinality(InFlight) < max_in_flight_

\* A context is prepared; AddNode drops the invocation if the graph has failed.
ScheduleInvocation ==
  /\ MaySchedule /\ arrived # {}
  /\ LET i == Min(arrived)
     IN  /\ arrived' = arrived \ {i}
         /\ active_contexts_' = active_contexts_ \cup {i}
         /\ Goto(i, IF has_error THEN "dropped" ELSE "process")
  /\ UNCHANGED <<input_bound, prepared_context_for_close_, handlerVars, offset_enabled,
                 streamVars, shard, mirror, errorVars, localVars>>

HasActiveContexts == active_contexts_ # {}

ScheduleClose ==
  /\ MaySchedule /\ arrived = {} /\ input_bound = Done
  /\ ~HasActiveContexts /\ ~prepared_context_for_close_
  /\ prepared_context_for_close_' = TRUE
  /\ Goto(Closing, IF has_error THEN "dropped" ELSE "close")
  /\ UNCHANGED <<inputVars, active_contexts_, handlerVars, offset_enabled, streamVars,
                 shard, mirror, errorVars, localVars>>

\* The node is not ready: input_bound is read here, and used in the next step.
NotReady ==
  /\ MaySchedule /\ arrived = {} /\ input_bound # Done
  /\ bound' = [bound EXCEPT ![Scheduling] = input_bound]
  /\ Goto(Scheduling, "update")
  /\ UNCHANGED <<inputVars, contextVars, handlerVars, offset_enabled, streamVars, shard,
                 mirror, errorVars, context_timestamp>>

-----------------------------------------------------------------------------
(* PropagationLoop. *)

\* Mutant of MaySend: what is complete is sent although an older context is active.
SendsAnyCompleted(completed) == completed # {}
\* Mutant of MaySend: the oldest context is told from the completed one the wrong way round.
SendsAllButOldest(completed) ==
  /\ completed # {} /\ active_contexts_ # {}
  /\ Min(completed) # Min(active_contexts_)
\* The oldest context is complete.
MaySend(completed) ==
  /\ completed # {} /\ active_contexts_ # {}
  /\ Min(completed) = Min(active_contexts_)

\* The propagation thread turns to the packets of the oldest context that is complete.
PropagatesPackets(t, completed) ==
  /\ propagation_state_' = "kPropagatingPackets"
  /\ context_timestamp' = [context_timestamp EXCEPT ![t] = Min(completed)]
  /\ Goto(t, "checkClosed")
  /\ UNCHANGED bound

\* It turns to the bound, which it reads before it unlocks timestamp_mutex_.
PropagatesBound(t, task_bound) ==
  /\ propagation_state_' = "kPropagatingBound"
  /\ bound' = [bound EXCEPT ![t] = task_bound]
  /\ Goto(t, "checkBound")
  /\ UNCHANGED context_timestamp

StopsPropagating(t) == propagation_state_' = "kIdle" /\ Return(t)

\* Mutant of LeavesToPropagationThread: nothing tells it to look again.
LeavesSilently(t) ==
  /\ propagation_state_ # "kIdle" /\ UNCHANGED propagation_state_
  /\ Return(t)
(* There is a propagation thread already.  If it sends a bound it is told to look
   again; if it sends packets it looks again anyway. *)
LeavesToPropagationThread(t) ==
  /\ propagation_state_ # "kIdle"
  /\ propagation_state_' = IF propagation_state_ = "kPropagatingBound"
                             THEN "kPropagationPending" ELSE propagation_state_
  /\ Return(t)

\* The thread becomes the propagation thread, if there is anything to send.
EntersLoop(t, completed, task_bound) ==
  /\ propagation_state_ = "kIdle"
  /\ \/ ~HasActiveContexts /\ PropagatesBound(t, task_bound)
     \/ MaySend(completed) /\ PropagatesPackets(t, completed)
     \/ HasActiveContexts /\ ~MaySend(completed) /\ StopsPropagating(t)

UpdateTaskTimestampBound ==
  /\ pc[Scheduling] = "update"
  /\ task_timestamp_bound_' = bound[Scheduling]
  /\ \/ /\ task_timestamp_bound_ = bound[Scheduling]
        /\ Return(Scheduling) /\ UNCHANGED propagation_state_
     \/ /\ task_timestamp_bound_ # bound[Scheduling]
        /\ \/ LeavesToPropagationThread(Scheduling)
           \/ EntersLoop(Scheduling, completed_input_timestamps_, bound[Scheduling])
  /\ UNCHANGED <<inputVars, contextVars, completed_input_timestamps_, offset_enabled,
                 streamVars, shard, mirror, errorVars>>

PostProcess(i) ==
  /\ pc[i] = "post"
  /\ completed_input_timestamps_' = completed_input_timestamps_ \cup {i}
  /\ \/ LeavesToPropagationThread(i)
     \/ EntersLoop(i, completed_input_timestamps_', task_timestamp_bound_)
  /\ UNCHANGED <<inputVars, contextVars, task_timestamp_bound_, offset_enabled,
                 streamVars, shard, mirror, errorVars>>

-----------------------------------------------------------------------------
(* Sending to the mirror. *)

\* AddPackets and then SetNextTimestampBound of the input stream downstream.
Receive(packet, b) ==
  LET late == packet # Unset /\ packet < mirror.bound
      added == IF packet = Unset \/ late THEN mirror
               ELSE [last |-> packet, bound |-> packet + 1]
      refused == late \/ (b # Unset /\ b < added.bound)
  IN  /\ mirror' = [added EXCEPT !.bound = Max({@, b})]
      /\ mirror_error' = (mirror_error \/ refused)
      /\ has_error' = (has_error \/ refused)

\* Mutant of OutputTimestampBound: one too many.
SkipsTimestamp(i) == IF offset_enabled THEN i + 2 + Offset ELSE shard[i].updated
(* ComputeOutputTimestampBound: what the shard says, or the input bound where it is
   greater. *)
OutputTimestampBound(i) ==
  LET s == shard[i]
      input == IF offset_enabled THEN i + 1 + Offset ELSE Unset
  IN  Max({s.updated} \cup (IF input > s.next THEN {input} ELSE {}))

\* PropagateOutputPackets skips a stream that is closed.
CheckClosed(t) ==
  /\ pc[t] = "checkClosed"
  /\ bound' = [bound EXCEPT ![t] = OutputTimestampBound(context_timestamp[t])]
  /\ Goto(t, IF closed_ THEN "recycle" ELSE "setBound")
  /\ UNCHANGED <<inputVars, contextVars, handlerVars, offset_enabled, streamVars, shard,
                 mirror, errorVars, context_timestamp>>

\* PropagateUpdatesToMirrors: first the bound of the output stream itself, ...
SetBound(t) ==
  /\ pc[t] \in {"setBound", "setOnlyBound"}
  /\ next_timestamp_bound_' = IF bound[t] = Unset THEN next_timestamp_bound_ ELSE bound[t]
  /\ Goto(t, IF pc[t] = "setBound" THEN "send" ELSE "sendBound")
  /\ UNCHANGED <<inputVars, contextVars, handlerVars, offset_enabled, closed_, shard,
                 mirror, errorVars, localVars>>

\* ... and then its mirror.
Send(t) ==
  /\ pc[t] = "send"
  /\ LET s == shard[context_timestamp[t]]
     IN  /\ Receive(IF s.packet THEN context_timestamp[t] + Offset ELSE Unset, bound[t])
         /\ Goto(t, IF s.closed THEN "closeStream" ELSE "recycle")
  /\ UNCHANGED <<inputVars, contextVars, handlerVars, offset_enabled, streamVars, shard, localVars>>

\* OutputStreamManager::Close, if an invocation or CloseNode closes the stream.
CloseStream(t) ==
  /\ pc[t] = "closeStream"
  /\ IF closed_ THEN UNCHANGED <<streamVars, mirror, errorVars>>
     ELSE closed_' = TRUE /\ next_timestamp_bound_' = Done /\ Receive(Unset, Done)
  /\ Goto(t, IF t = Closing THEN "ended" ELSE "recycle")
  /\ UNCHANGED <<inputVars, contextVars, handlerVars, offset_enabled, shard, localVars>>

\* PrepareOutputs resets the shards before the context is used again.
Recycle(t) ==
  /\ pc[t] = "recycle"
  /\ active_contexts_' = active_contexts_ \ {Min(active_contexts_)}
  /\ shard' = [shard EXCEPT ![Min(active_contexts_)] = NoShard]
  /\ Goto(t, "erase")
  /\ UNCHANGED <<inputVars, prepared_context_for_close_, handlerVars, offset_enabled,
                 streamVars, mirror, errorVars, localVars>>

\* The task bound is greater than the one that followed the packets.
NewBound(t) == task_timestamp_bound_ > context_timestamp[t] + 1

\* The end of PropagatePackets, with timestamp_mutex_ locked again.
EraseCompleted(t) ==
  /\ pc[t] = "erase"
  /\ LET completed == completed_input_timestamps_ \ {Min(completed_input_timestamps_)}
         finished == completed = {} /\ ~HasActiveContexts
     IN  /\ completed_input_timestamps_' = completed
         /\ \/ finished /\ NewBound(t) /\ PropagatesBound(t, task_timestamp_bound_)
            \/ ~finished /\ MaySend(completed) /\ PropagatesPackets(t, completed)
            \/ /\ IF finished THEN ~NewBound(t) ELSE ~MaySend(completed)
               /\ StopsPropagating(t)
  /\ UNCHANGED <<inputVars, contextVars, task_timestamp_bound_, offset_enabled,
                 streamVars, shard, mirror, errorVars>>

\* TryPropagateTimestampBound looks at the output stream and then updates it.
CheckBound(t) ==
  /\ pc[t] = "checkBound"
  /\ bound' = [bound EXCEPT ![t] = @ + Offset]
  /\ Goto(t, IF IsRangeValue(bound[t]) /\ offset_enabled /\ ~closed_
                  /\ bound[t] + Offset > next_timestamp_bound_
               THEN "setOnlyBound" ELSE "endBound")
  /\ UNCHANGED <<inputVars, contextVars, handlerVars, offset_enabled, streamVars, shard,
                 mirror, errorVars, context_timestamp>>

SendBound(t) ==
  /\ pc[t] = "sendBound"
  /\ Receive(Unset, bound[t])
  /\ Goto(t, IF t = Closing THEN "closeStream" ELSE "endBound")
  /\ UNCHANGED <<inputVars, contextVars, handlerVars, offset_enabled, streamVars, shard, localVars>>

\* The end of PropagationBound, with timestamp_mutex_ locked again.
EndBound(t) ==
  /\ pc[t] = "endBound"
  /\ \/ /\ propagation_state_ = "kPropagatingBound"
        /\ StopsPropagating(t)
     \/ /\ propagation_state_ # "kPropagatingBound"
        /\ \/ ~HasActiveContexts /\ PropagatesBound(t, task_timestamp_bound_)
           \/ /\ MaySend(completed_input_timestamps_)
              /\ PropagatesPackets(t, completed_input_timestamps_)
           \/ /\ HasActiveContexts /\ ~MaySend(completed_input_timestamps_)
              /\ StopsPropagating(t)
  /\ UNCHANGED <<inputVars, contextVars, completed_input_timestamps_,
                 task_timestamp_bound_, offset_enabled, streamVars, shard, mirror,
                 errorVars>>

-----------------------------------------------------------------------------
(* ProcessNode and CloseNode. *)

\* ResetShard: what PrepareOutputs makes of the shard, from the output stream as it is now.
ResetShard ==
  [next |-> next_timestamp_bound_, updated |-> Unset, packet |-> FALSE, closed |-> closed_]

(* PrepareOutputs and then Process, which outputs a packet or none, and may close the
   stream; it works on its own shard.  A packet for a closed stream is an error. *)
Process(i) ==
  /\ pc[i] = "process"
  /\ \E packet, closes \in BOOLEAN :
       LET added == IF packet /\ ~closed_
                      THEN [ResetShard EXCEPT !.packet = TRUE, !.next = i + Offset + 1,
                                              !.updated = i + Offset + 1]
                      ELSE ResetShard
       IN  /\ shard' = [shard EXCEPT ![i] =
                          IF closes THEN [added EXCEPT !.closed = TRUE, !.next = Done,
                                                       !.updated = Done]
                                    ELSE added]
           /\ has_error' = (has_error \/ (packet /\ closed_))
  /\ Goto(i, "post")
  /\ UNCHANGED <<inputVars, contextVars, handlerVars, offset_enabled, streamVars, mirror,
                 mirror_error, localVars>>

\* The context of an invocation that fails is never recycled.
ProcessFails(i) ==
  /\ pc[i] = "process"
  /\ has_error' = TRUE
  /\ Goto(i, "end")
  /\ UNCHANGED <<inputVars, contextVars, handlerVars, offset_enabled, streamVars, shard,
                 mirror, mirror_error, localVars>>

EndScheduling(i) ==
  /\ pc[i] = "end"
  /\ Goto(i, "ended")
  /\ UNCHANGED <<inputVars, contextVars, handlerVars, offset_enabled, streamVars, shard,
                 mirror, errorVars, localVars>>

\* CloseNode closes its output streams: Done to the mirrors, and then Close.
CloseNode ==
  /\ pc[Closing] = "close"
  /\ bound' = [bound EXCEPT ![Closing] = Done]
  /\ Goto(Closing, "setOnlyBound")
  /\ UNCHANGED <<inputVars, contextVars, handlerVars, offset_enabled, streamVars, shard,
                 mirror, errorVars, context_timestamp>>

-----------------------------------------------------------------------------
\* A thread goes on with what it has begun.
Propagate(t) ==
  \/ CheckClosed(t) \/ SetBound(t) \/ Send(t) \/ CloseStream(t) \/ Recycle(t)
  \/ EraseCompleted(t)
  \/ CheckBound(t) \/ SendBound(t) \/ EndBound(t)

Run(i) ==
  \/ Process(i) \/ ProcessFails(i) \/ PostProcess(i)
  \/ Propagate(i) \/ EndScheduling(i)

Schedule ==
  \/ ScheduleInvocation \/ ScheduleClose \/ NotReady
  \/ UpdateTaskTimestampBound \/ Propagate(Scheduling)

Close == CloseNode \/ Propagate(Closing)

Next ==
  \/ \E i \in Inputs : PacketArrives(i) \/ Run(i)
  \/ \E b \in (2 .. MaxTs) \cup {Done} : BoundArrives(b)
  \/ Schedule \/ Close

(* Threads do not stop inside a call, workers run what is scheduled, and somebody is
   the scheduling thread while there is something to schedule. *)
Fairness == WF_vars(Schedule) /\ WF_vars(Close) /\ \A i \in Inputs : WF_vars(Run(i))

Spec == Init /\ [][Next]_vars
FairSpec == Spec /\ Fairness

-----------------------------------------------------------------------------
(* One thread at a time sends, and none when the state is kIdle: the eight transitions
   of PropagationState see to it although timestamp_mutex_ is released meanwhile. *)
OnePropagationThread ==
  /\ \A t, u \in InLoop \ {Closing} : t = u
  /\ propagation_state_ = "kIdle" <=> InLoop \subseteq {Closing}

(* The CHECKs of the handler: the task bound grows; it has grown when the propagation
   thread was told to look again and finds no context; a context is there when one is
   complete, and none older is complete; contexts are recycled in order. *)
ChecksHold ==
  /\ pc[Scheduling] = "update" => bound[Scheduling] >= task_timestamp_bound_
  /\ \A t \in InLoop \ {Closing} :
       /\ pc[t] = "endBound" /\ propagation_state_ = "kPropagationPending"
            /\ ~HasActiveContexts => bound[t] < task_timestamp_bound_ + Offset
       /\ pc[t] = "recycle" => /\ HasActiveContexts
                               /\ Min(active_contexts_) = context_timestamp[t]
       /\ pc[t] = "erase" => /\ context_timestamp[t] \in completed_input_timestamps_
                             /\ Min(completed_input_timestamps_) = context_timestamp[t]

(* Nothing is stranded: when no thread is at work and nothing failed, every output was
   sent, and the stream downstream knows of the bound the node has learnt. *)
Resting == pc[Scheduling] = "idle" /\ InFlight = {}
NothingStranded ==
  Resting /\ ~has_error =>
    /\ completed_input_timestamps_ = {} /\ ~HasActiveContexts
    /\ offset_enabled /\ IsRangeValue(task_timestamp_bound_)
         => mirror.bound >= task_timestamp_bound_ + Offset

(* "Returns an error status if this decreases the bound", says input_stream_manager.h of
   SetNextTimestampBound: the handler never makes the stream downstream refuse a packet
   or a bound, but for one race with CloseNode. *)
RefusedOnlyAfterClose == mirror_error => offset_enabled /\ prepared_context_for_close_

(* Whoever propagates, and whatever arrives while timestamp_mutex_ is released, the
   handler keeps to its own CHECKs, leaves nothing behind and sends nothing late. *)
PropagationSound ==
  OnePropagationThread /\ ChecksHold /\ NothingStranded /\ RefusedOnlyAfterClose

(* input_stream_handler.cc says of closing: "If any parallel invocations are in progress
   [...] we shouldn't prepare another calculator context for Close()".  So when CloseNode
   has told the stream downstream that it is done, no invocation has something to send. *)
NoSendingAfterClose ==
  pc[Closing] \in {"closeStream", "ended"} => \A i \in Inputs : pc[i] \notin {"send", "sendBound"}

\* What has become of each input, for the specification of ordered output.
Sent(i) ==
  \/ pc[i] # "none" /\ i \notin active_contexts_
  \/ \E t \in Threads : context_timestamp[t] = i /\ pc[t] \in {"closeStream", "recycle"}
Fate(i) ==
  CASE pc[i] = "none" -> "none"
    [] Sent(i) -> "sent"
    [] ~Sent(i) /\ (i \in completed_input_timestamps_ \/ pc[i] = "post") ->
         IF shard[i].packet THEN "packet" ELSE "silent"
    [] OTHER -> "taken"

Ordered == INSTANCE OrderedOutput WITH
  fate <- [i \in Inputs |-> Fate(i)], last <- mirror.last, bound <- mirror.bound

(* Outputs leave in the order of their inputs, each once and none lost, and the bound
   downstream never passes an output that may still come. *)
OutputsInOrder == Ordered!OrderedSpec

(* The output of an invocation that has ended leaves, unless the graph fails. *)
OutputsLeave ==
  \A i \in Inputs :
    i \in completed_input_timestamps_ ~> (i \notin active_contexts_ \/ has_error)
=============================================================================
