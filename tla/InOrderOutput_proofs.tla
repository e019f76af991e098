------------------------- MODULE InOrderOutput_proofs -------------------------
(***************************************************************************)
(* The safety invariants of InOrderOutput hold for any number of inputs,   *)
(* any offset and any number of parallel invocations.                      *)
(*                                                                         *)
(* The argument: whoever enters PropagationLoop finds the state kIdle, so  *)
(* there is one propagation thread (Alone).  What is complete is active,   *)
(* but for the context that was just recycled (Completed), and everything  *)
(* that is active is older than what has not been taken (Order).  The      *)
(* bounds that are sent were less than all inputs still to come when they  *)
(* were read, and stay so (Bounds); so the stream downstream is never      *)
(* ahead of an output that is still to come (Room).                        *)
(***************************************************************************)
EXTENDS InOrderOutput, WellFoundedInduction, TLAPS

PacketPCs == {"checkClosed", "setBound", "send", "closeStream", "recycle", "erase"}
BoundPCs == {"checkBound", "setOnlyBound", "sendBound", "endBound"}
Loopers == Threads \ {Closing}

-----------------------------------------------------------------------------
(* The inductive invariant. *)

\* The input timestamps that have bounds: the last one is for Unset bounds.
InputBounds == 0 .. (MaxTs + 1)

\* What each kind of thread can do.
Places ==
  /\ \A i \in Inputs : pc[i] \in {"none", "process", "post", "end", "ended", "dropped"} \cup SendPCs
  /\ pc[Scheduling] \in {"idle", "update"} \cup SendPCs
  /\ pc[Closing] \in {"none", "close", "setOnlyBound", "sendBound", "closeStream", "ended", "dropped"}
  /\ input_bound \in InputBounds \cup {Done}
  /\ task_timestamp_bound_ \in InputBounds \cup {Unset}

\* The inputs are taken in order.
Order ==
  /\ \A a \in active_contexts_ \cup completed_input_timestamps_, b \in arrived : a < b
  /\ \A x \in active_contexts_ \cup completed_input_timestamps_ \cup arrived : x < input_bound
  /\ \A i \in Inputs : i \in arrived \/ i >= input_bound => pc[i] = "none"
  /\ task_timestamp_bound_ <= input_bound /\ \A x \in arrived : task_timestamp_bound_ <= x
  /\ pc[Scheduling] = "update" =>
       /\ bound[Scheduling] \in InputBounds
       /\ bound[Scheduling] >= task_timestamp_bound_ /\ bound[Scheduling] <= input_bound
       /\ \A x \in arrived : bound[Scheduling] <= x

\* CloseNode runs when nothing is left.
ClosesLast ==
  /\ prepared_context_for_close_ =>
       active_contexts_ = {} /\ arrived = {} /\ input_bound = Done
  /\ ~prepared_context_for_close_ => pc[Closing] = "none"
  /\ pc[Closing] \in {"setOnlyBound", "sendBound"} => bound[Closing] = Done

\* There is one propagation thread, and the state says what it does.
Alone ==
  /\ \A t, u \in Loopers : pc[t] \in SendPCs /\ pc[u] \in SendPCs => t = u
  /\ propagation_state_ = "kIdle" => \A t \in Loopers : pc[t] \notin SendPCs
  /\ propagation_state_ = "kPropagatingPackets" => \E t \in Loopers : pc[t] \in PacketPCs
  /\ propagation_state_ \in {"kPropagatingBound", "kPropagationPending"} =>
       \E t \in Loopers : pc[t] \in BoundPCs

\* What is complete is active, except for the context that was just recycled.
Completed ==
  /\ \A i \in completed_input_timestamps_ :
       i \in active_contexts_ \/ \E t \in Loopers : pc[t] = "erase" /\ context_timestamp[t] = i
  /\ \A i \in Inputs :
       pc[i] \in {"process", "post"} =>
         i \in active_contexts_ /\ i \notin completed_input_timestamps_
  /\ \A a \in active_contexts_ :
       pc[a] \in {"process", "post"} \/ a \in completed_input_timestamps_ \/ has_error
  /\ \A t \in Loopers :
       /\ pc[t] \in PacketPCs => /\ context_timestamp[t] \in completed_input_timestamps_
                                 /\ \A a \in active_contexts_ : context_timestamp[t] <= a
       /\ pc[t] \in PacketPCs \ {"erase"} => context_timestamp[t] \in active_contexts_
       /\ pc[t] = "erase" => context_timestamp[t] \notin active_contexts_
  /\ propagation_state_ = "kIdle" => ~MaySend(completed_input_timestamps_)
  /\ propagation_state_ = "kPropagatingBound" => completed_input_timestamps_ = {}

\* The input bound that the propagation thread is sending downstream.
Source(t) == IF pc[t] = "checkBound" THEN bound[t] ELSE bound[t] - Offset
Told(b) ==
  offset_enabled /\ IsRangeValue(b) =>
    mirror.bound >= b + Offset \/ pc[Closing] = "sendBound"
Bounds ==
  /\ \A t \in Loopers : pc[t] \in BoundPCs =>
       /\ Source(t) \in InputBounds
       /\ \A x \in active_contexts_ \cup arrived : Source(t) <= x
       /\ Source(t) <= task_timestamp_bound_
       /\ propagation_state_ = "kPropagatingBound" => Source(t) = task_timestamp_bound_
       /\ propagation_state_ = "kPropagationPending" =>
            Source(t) < task_timestamp_bound_ \/ HasActiveContexts
       /\ pc[t] \in {"setOnlyBound", "sendBound"} => offset_enabled
       /\ pc[t] = "setOnlyBound" /\ ~prepared_context_for_close_ => bound[t] > next_timestamp_bound_
       /\ pc[t] = "sendBound" /\ ~prepared_context_for_close_ => bound[t] = next_timestamp_bound_
       /\ pc[t] = "endBound" => Told(Source(t))
  /\ propagation_state_ = "kIdle" /\ ~HasActiveContexts => Told(task_timestamp_bound_)

\* What an invocation leaves in its shard.
Outputs ==
  \A i \in active_contexts_ : pc[i] = "post" \/ i \in completed_input_timestamps_ =>
    LET s == shard[i] IN
    /\ s.updated \in {Unset, i + Offset + 1, Done}
    /\ s.packet => s.updated # Unset
    /\ s.updated = Done => s.closed
    /\ s.updated = Unset => s.next <= next_timestamp_bound_

\* What the propagation thread sends for an invocation.
Sends ==
  \A t \in Loopers : LET c == context_timestamp[t] IN
    /\ pc[t] \in {"setBound", "send"} =>
         /\ ~closed_
         /\ bound[t] \in {Unset, c + Offset + 1, Done}
         /\ shard[c].packet => bound[t] # Unset
         /\ bound[t] = Done => shard[c].closed
         /\ offset_enabled => bound[t] > c + Offset \/ mirror.bound > c + Offset
    /\ pc[t] = "send" => bound[t] = Unset \/ bound[t] = next_timestamp_bound_
    /\ pc[t] \in {"recycle", "erase"} /\ offset_enabled => mirror.bound > c + Offset

\* The stream downstream is not ahead of outputs that are still to come.
Ahead(x) == \E t \in Loopers : pc[t] = "recycle" /\ context_timestamp[t] = x
Room ==
  /\ ~prepared_context_for_close_ /\ ~closed_ /\ (\A t \in Threads : pc[t] # "closeStream") =>
       \A x \in active_contexts_ \cup arrived \cup {input_bound} :
         mirror.bound <= x + Offset \/ Ahead(x)
  /\ ~prepared_context_for_close_ => mirror.bound <= next_timestamp_bound_
  /\ \/ next_timestamp_bound_ <= mirror.bound
     \/ \E t \in Threads : pc[t] \in {"send", "sendBound"} /\ bound[t] = next_timestamp_bound_
  /\ closed_ => mirror.bound = Done

IInv ==
  /\ TypeOK /\ Places /\ Order /\ ClosesLast /\ Alone /\ Completed
  /\ Bounds /\ Outputs /\ Sends /\ Room /\ RefusedOnlyAfterClose

-----------------------------------------------------------------------------
(* Threads and timestamps. *)

LEMMA Names ==
  /\ Loopers = Inputs \cup {Scheduling} /\ Threads = Loopers \cup {Closing}
  /\ Scheduling \notin Inputs /\ Closing \notin Inputs /\ Closing \notin Loopers
  /\ Scheduling # Closing
  /\ Inputs \subseteq Int /\ MaxTs \in Nat /\ Offset \in Nat
  BY ThreadsAssumption, TsAssumption DEF Loopers, Threads, Inputs

LEMMA Minimum ==
  ASSUME NEW S \in SUBSET Inputs, S # {}
  PROVE  Min(S) \in S /\ \A x \in S : Min(S) <= x
<1> DEFINE Less == {ss \in Nat \X Nat : ss[1] < ss[2]}
<1>1. IsWellFoundedOn(Less, Nat)
  BY NatLessThanWellFounded DEF OpToRel
<1>2. S \subseteq Nat
  BY DEF Inputs
<1>3. PICK m \in S : \A y \in S : <<y, m>> \notin Less
  BY <1>1, <1>2, WFMin
<1>4. ASSUME NEW y \in S PROVE m <= y
  <2>1. <<y, m>> \in Less <=> y < m
    BY <1>2
  <2> QED
    BY <1>2, <1>3, <2>1
<1> QED
  BY <1>4 DEF Min

LEMMA Least ==
  ASSUME NEW S \in SUBSET Inputs, NEW m \in S, \A x \in S : m <= x
  PROVE  Min(S) = m
<1>1. Min(S) \in S /\ Min(S) <= m
  BY Minimum
<1>2. m <= Min(S) /\ m \in Int /\ Min(S) \in Int
  BY <1>1, Names
<1> QED
  BY <1>1, <1>2

LEMMA Maximum ==
  ASSUME NEW a \in Int, NEW b \in Int
  PROVE  Max({a, b}) = IF a >= b THEN a ELSE b
  BY DEF Max

LEMMA MaximumOfOne ==
  ASSUME NEW a \in Int
  PROVE  Max({a}) = a
  BY DEF Max

-----------------------------------------------------------------------------
(* Which steps there are. *)

\* What one of the threads that may propagate does in PropagationLoop.
LoopStep(t) ==
  \/ CheckClosed(t) \/ SetBound(t) \/ Send(t) \/ CloseStream(t) \/ Recycle(t)
  \/ EraseCompleted(t) \/ CheckBound(t) \/ SendBound(t) \/ EndBound(t)
ClosingStep ==
  CloseNode \/ SetBound(Closing) \/ SendBound(Closing) \/ CloseStream(Closing)
InputStep(i) ==
  PacketArrives(i) \/ Process(i) \/ ProcessFails(i) \/ PostProcess(i) \/ EndScheduling(i)
SchedulingStep ==
  ScheduleInvocation \/ ScheduleClose \/ NotReady \/ UpdateTaskTimestampBound

LEMMA Steps ==
  ASSUME Places, [Next]_vars
  PROVE  \/ UNCHANGED vars
         \/ \E i \in Inputs : InputStep(i)
         \/ \E b \in (2 .. MaxTs) \cup {Done} : BoundArrives(b)
         \/ SchedulingStep
         \/ \E t \in Loopers : LoopStep(t)
         \/ ClosingStep
<1>1. Propagate(Closing) => ClosingStep
  BY DEF Places, Propagate, ClosingStep, CheckClosed, Send, Recycle, EraseCompleted,
         CheckBound, EndBound
<1>2. \A t \in Loopers : Propagate(t) => LoopStep(t)
  BY DEF Propagate, LoopStep
<1>3. Schedule => SchedulingStep \/ Propagate(Scheduling)
  BY DEF Schedule, SchedulingStep
<1>4. \A i \in Inputs : PacketArrives(i) \/ Run(i) => InputStep(i) \/ Propagate(i)
  BY DEF Run, InputStep
<1>5. Close => ClosingStep \/ Propagate(Closing)
  BY DEF Close, ClosingStep
<1> QED
  BY <1>1, <1>2, <1>3, <1>4, <1>5, Names DEF Next

-----------------------------------------------------------------------------
(* Where the threads are, the inputs, and CloseNode. *)

LEMMA PlacesKept ==
  ASSUME IInv, [Next]_vars
  PROVE  Places'
<1> USE Names DEF IInv
<1>0. pc \in [Threads -> PCs]
  BY DEF TypeOK
<1> USE <1>0 DEF Places, SendPCs
<1>1. CASE UNCHANGED vars
  BY <1>1 DEF vars, inputVars, handlerVars
<1>2. ASSUME NEW i \in Inputs, InputStep(i) PROVE Places'
  <2>1. CASE PacketArrives(i)
    BY <2>1 DEF PacketArrives, handlerVars, InputBounds, Inputs
  <2>2. CASE Process(i) \/ ProcessFails(i) \/ EndScheduling(i)
    BY <2>2 DEF Process, ProcessFails, EndScheduling, Goto, inputVars, handlerVars
  <2>3. CASE PostProcess(i)
    BY <2>3 DEF PostProcess, LeavesToPropagationThread, EntersLoop, PropagatesPackets,
                PropagatesBound, StopsPropagating, Return, Goto, inputVars
  <2> QED
    BY <1>2, <2>1, <2>2, <2>3 DEF InputStep
<1>3. ASSUME NEW b \in (2 .. MaxTs) \cup {Done}, BoundArrives(b) PROVE Places'
  BY <1>3 DEF BoundArrives, handlerVars, InputBounds
<1>4. CASE SchedulingStep
  <2>1. CASE ScheduleInvocation
    <3>1. Min(arrived) \in Inputs
      BY <2>1, Minimum DEF ScheduleInvocation, TypeOK
    <3> QED
      BY <2>1, <3>1 DEF ScheduleInvocation, Goto, handlerVars
  <2>2. CASE ScheduleClose
    BY <2>2 DEF ScheduleClose, Goto, inputVars, handlerVars
  <2>3. CASE NotReady
    BY <2>3 DEF NotReady, Goto, inputVars, handlerVars
  <2>4. CASE UpdateTaskTimestampBound
    BY <2>4 DEF UpdateTaskTimestampBound, LeavesToPropagationThread, EntersLoop,
                PropagatesPackets, PropagatesBound, StopsPropagating, Return, Goto,
                inputVars, Order
  <2> QED
    BY <1>4, <2>1, <2>2, <2>3, <2>4 DEF SchedulingStep
<1>5. ASSUME NEW t \in Loopers, LoopStep(t) PROVE Places'
  <2>1. CASE CheckClosed(t) \/ SetBound(t) \/ Send(t)
    BY <2>1 DEF CheckClosed, SetBound, Send, Goto, inputVars, handlerVars
  <2>2. CASE CloseStream(t) \/ Recycle(t)
    BY <2>2 DEF CloseStream, Recycle, Goto, inputVars, handlerVars
  <2>3. CASE CheckBound(t) \/ SendBound(t)
    BY <2>3 DEF CheckBound, SendBound, Goto, inputVars, handlerVars
  <2>4. CASE EraseCompleted(t) \/ EndBound(t)
    BY <2>4 DEF EraseCompleted, EndBound, PropagatesPackets, PropagatesBound,
                StopsPropagating, Return, Goto, inputVars
  <2> QED
    BY <1>5, <2>1, <2>2, <2>3, <2>4 DEF LoopStep
<1>6. CASE ClosingStep
  BY <1>6 DEF ClosingStep, CloseNode, SetBound, SendBound, CloseStream, Goto, inputVars,
              handlerVars
<1> QED
  BY <1>1, <1>2, <1>3, <1>4, <1>5, <1>6, Steps

LEMMA OrderKept ==
  ASSUME IInv, [Next]_vars
  PROVE  Order'
<1> USE Names DEF IInv
<1>0. /\ pc \in [Threads -> PCs] /\ bound \in [Threads -> Timestamps]
      /\ active_contexts_ \subseteq Inputs /\ arrived \subseteq Inputs
      /\ completed_input_timestamps_ \subseteq Inputs
      /\ input_bound \in Timestamps /\ task_timestamp_bound_ \in Timestamps
  BY DEF TypeOK
<1> USE <1>0 DEF Order, Timestamps, Unset, Done
<1> DEFINE Same ==
      /\ UNCHANGED <<inputVars, task_timestamp_bound_>>
      /\ active_contexts_' \subseteq active_contexts_
      /\ completed_input_timestamps_' \subseteq active_contexts_ \cup completed_input_timestamps_
      /\ \A i \in Inputs : pc[i] = "none" => pc'[i] = "none"
      /\ pc'[Scheduling] = "update" =>
           pc[Scheduling] = "update" /\ bound'[Scheduling] = bound[Scheduling]
<1>1. Same => Order'
  BY DEF inputVars
<1> HIDE DEF Order, Timestamps, Unset, Done
<1>2. CASE UNCHANGED vars
  BY <1>1, <1>2 DEF vars, inputVars, contextVars, handlerVars, localVars
<1>3. ASSUME NEW i \in Inputs, InputStep(i) PROVE Order'
  <2>1. CASE PacketArrives(i)
    BY <2>1 DEF PacketArrives, contextVars, handlerVars, localVars, Order, Places,
                InputBounds, Inputs, Timestamps, Done, Unset
  <2>2. CASE Process(i) \/ ProcessFails(i) \/ EndScheduling(i)
    BY <1>1, <2>2 DEF Process, ProcessFails, EndScheduling, Goto, inputVars, contextVars,
                      handlerVars, localVars
  <2>3. CASE PostProcess(i)
    <3>1. i \in active_contexts_
      BY <2>3 DEF PostProcess, Completed
    <3> QED
      BY <1>1, <2>3, <3>1 DEF PostProcess, LeavesToPropagationThread, EntersLoop,
           PropagatesPackets, PropagatesBound, StopsPropagating, Return, Goto, contextVars
  <2> QED
    BY <1>3, <2>1, <2>2, <2>3 DEF InputStep
<1>4. ASSUME NEW b \in (2 .. MaxTs) \cup {Done}, BoundArrives(b) PROVE Order'
  BY <1>4 DEF BoundArrives, contextVars, handlerVars, localVars, Order, Timestamps, Done
<1>5. CASE SchedulingStep
  <2>1. CASE ScheduleInvocation
    <3>1. /\ Min(arrived) \in arrived
          /\ \A x \in arrived : Min(arrived) <= x
      BY <2>1, Minimum DEF ScheduleInvocation
    <3> QED
      BY <2>1, <3>1 DEF ScheduleInvocation, Goto, handlerVars, localVars, MaySchedule,
                        Order, Timestamps, Done
  <2>2. CASE ScheduleClose
    BY <1>1, <2>2 DEF ScheduleClose, Goto, inputVars, handlerVars, localVars
  <2>3. CASE NotReady
    <3>1. /\ input_bound \in InputBounds /\ arrived = {}
          /\ bound'[Scheduling] = input_bound /\ UNCHANGED <<inputVars, contextVars, handlerVars>>
          /\ \A i \in Inputs : pc'[i] = pc[i]
      BY <2>3 DEF NotReady, Goto, Places
    <3> QED
      BY <3>1 DEF inputVars, contextVars, handlerVars, Order, InputBounds
  <2>4. CASE UpdateTaskTimestampBound
    BY <2>4 DEF UpdateTaskTimestampBound, LeavesToPropagationThread, EntersLoop,
                PropagatesPackets, PropagatesBound, StopsPropagating, Return, Goto,
                inputVars, contextVars, Order
  <2> QED
    BY <1>5, <2>1, <2>2, <2>3, <2>4 DEF SchedulingStep
<1>6. ASSUME NEW t \in Loopers, LoopStep(t) PROVE Order'
  <2>1. CASE CheckClosed(t) \/ SetBound(t) \/ Send(t)
    BY <1>1, <2>1 DEF CheckClosed, SetBound, Send, Goto, inputVars, contextVars,
                      handlerVars, localVars
  <2>2. CASE CloseStream(t) \/ Recycle(t)
    BY <1>1, <2>2 DEF CloseStream, Recycle, Goto, inputVars, contextVars, handlerVars,
                      localVars
  <2>3. CASE CheckBound(t) \/ SendBound(t)
    BY <1>1, <2>3 DEF CheckBound, SendBound, Goto, inputVars, contextVars, handlerVars,
                      localVars
  <2>4. CASE EraseCompleted(t) \/ EndBound(t)
    BY <1>1, <2>4 DEF EraseCompleted, EndBound, PropagatesPackets, PropagatesBound,
                      StopsPropagating, Return, Goto, inputVars, contextVars
  <2> QED
    BY <1>6, <2>1, <2>2, <2>3, <2>4 DEF LoopStep
<1>7. CASE ClosingStep
  BY <1>1, <1>7 DEF ClosingStep, CloseNode, SetBound, SendBound, CloseStream, Goto,
                    inputVars, contextVars, handlerVars, localVars
<1> QED
  BY <1>2, <1>3, <1>4, <1>5, <1>6, <1>7, Steps

LEMMA ClosesLastKept ==
  ASSUME IInv, [Next]_vars
  PROVE  ClosesLast'
<1> USE Names DEF IInv
<1>0. /\ pc \in [Threads -> PCs] /\ bound \in [Threads -> Timestamps]
      /\ input_bound \in Timestamps
  BY DEF TypeOK
<1> USE <1>0
<1> DEFINE Same ==
      /\ UNCHANGED <<inputVars, prepared_context_for_close_>>
      /\ active_contexts_' \subseteq active_contexts_
      /\ pc'[Closing] = pc[Closing] /\ bound'[Closing] = bound[Closing]
<1>1. Same => ClosesLast'
  BY DEF inputVars, ClosesLast
<1>2. CASE UNCHANGED vars
  BY <1>1, <1>2 DEF vars, inputVars, contextVars, localVars
<1>3. ASSUME NEW i \in Inputs, InputStep(i) PROVE ClosesLast'
  <2>1. CASE PacketArrives(i)
    BY <2>1 DEF PacketArrives, contextVars, localVars, ClosesLast, Inputs, Done
  <2>2. CASE Process(i) \/ ProcessFails(i) \/ EndScheduling(i)
    BY <1>1, <2>2 DEF Process, ProcessFails, EndScheduling, Goto, inputVars, contextVars,
                      localVars
  <2>3. CASE PostProcess(i)
    BY <1>1, <2>3 DEF PostProcess, LeavesToPropagationThread, EntersLoop,
         PropagatesPackets, PropagatesBound, StopsPropagating, Return, Goto, contextVars
  <2> QED
    BY <1>3, <2>1, <2>2, <2>3 DEF InputStep
<1>4. ASSUME NEW b \in (2 .. MaxTs) \cup {Done}, BoundArrives(b) PROVE ClosesLast'
  BY <1>4 DEF BoundArrives, contextVars, localVars, ClosesLast, Timestamps, Done
<1>5. CASE SchedulingStep
  <2>1. CASE ScheduleInvocation
    <3>1. Min(arrived) \in Inputs
      BY <2>1, Minimum DEF ScheduleInvocation, TypeOK
    <3> QED
      BY <2>1, <3>1 DEF ScheduleInvocation, Goto, localVars, ClosesLast
  <2>2. CASE ScheduleClose
    BY <2>2 DEF ScheduleClose, Goto, inputVars, localVars, HasActiveContexts, ClosesLast
  <2>3. CASE NotReady
    BY <1>1, <2>3 DEF NotReady, Goto, inputVars, contextVars
  <2>4. CASE UpdateTaskTimestampBound
    BY <1>1, <2>4 DEF UpdateTaskTimestampBound, LeavesToPropagationThread, EntersLoop,
         PropagatesPackets, PropagatesBound, StopsPropagating, Return, Goto, contextVars
  <2> QED
    BY <1>5, <2>1, <2>2, <2>3, <2>4 DEF SchedulingStep
<1>6. ASSUME NEW t \in Loopers, LoopStep(t) PROVE ClosesLast'
  <2>1. CASE CheckClosed(t) \/ SetBound(t) \/ Send(t)
    BY <1>1, <2>1 DEF CheckClosed, SetBound, Send, Goto, inputVars, contextVars, localVars
  <2>2. CASE CloseStream(t) \/ Recycle(t)
    BY <1>1, <2>2 DEF CloseStream, Recycle, Goto, inputVars, contextVars, localVars
  <2>3. CASE CheckBound(t) \/ SendBound(t)
    BY <1>1, <2>3 DEF CheckBound, SendBound, Goto, inputVars, contextVars, localVars
  <2>4. CASE EraseCompleted(t) \/ EndBound(t)
    BY <1>1, <2>4 DEF EraseCompleted, EndBound, PropagatesPackets, PropagatesBound,
                      StopsPropagating, Return, Goto, inputVars, contextVars
  <2> QED
    BY <1>6, <2>1, <2>2, <2>3, <2>4 DEF LoopStep
<1>7. CASE ClosingStep
  BY <1>7 DEF ClosingStep, CloseNode, SetBound, SendBound, CloseStream, Goto, inputVars,
              contextVars, localVars, ClosesLast
<1> QED
  BY <1>2, <1>3, <1>4, <1>5, <1>6, <1>7, Steps

-----------------------------------------------------------------------------
(* The propagation thread. *)

\* Whoever propagates is alone, and the state says with what.
LEMMA OnlyOne ==
  ASSUME IInv, NEW t \in Loopers, pc[t] \in SendPCs
  PROVE  /\ \A u \in Loopers : pc[u] \in SendPCs => u = t
         /\ propagation_state_ # "kIdle"
         /\ pc[t] \in PacketPCs => propagation_state_ = "kPropagatingPackets"
         /\ pc[t] \in BoundPCs =>
              propagation_state_ \in {"kPropagatingBound", "kPropagationPending"}
  BY DEF IInv, Alone, TypeOK, PacketPCs, BoundPCs, SendPCs

\* How the head of the loop leaves the state and the thread.
Heads(t) ==
  /\ \A u \in Threads \ {t} : pc'[u] = pc[u]
  /\ \/ propagation_state_' = "kPropagatingPackets" /\ pc'[t] = "checkClosed"
     \/ propagation_state_' = "kPropagatingBound" /\ pc'[t] = "checkBound"
     \/ propagation_state_' = "kIdle" /\ pc'[t] \in {"idle", "end"}

LEMMA AloneKept ==
  ASSUME IInv, [Next]_vars
  PROVE  Alone'
<1> USE Names DEF IInv
<1>0. pc \in [Threads -> PCs]
  BY DEF TypeOK
<1> USE <1>0
<1> DEFINE Same ==
      /\ UNCHANGED propagation_state_
      /\ \A t \in Loopers :
           \/ pc'[t] = pc[t]
           \/ pc[t] \in PacketPCs /\ pc'[t] \in PacketPCs
           \/ pc[t] \in BoundPCs /\ pc'[t] \in BoundPCs
           \/ pc[t] \notin SendPCs /\ pc'[t] \notin SendPCs
<1>1. Same => Alone'
  BY DEF Alone, PacketPCs, BoundPCs, SendPCs
<1>2. ASSUME NEW t \in Loopers, Heads(t), \A u \in Loopers \ {t} : pc[u] \notin SendPCs
      PROVE  Alone'
  BY <1>2 DEF Heads, Alone, PacketPCs, BoundPCs, SendPCs
<1>3. ASSUME NEW t \in Loopers, pc[t] \in {"update", "post"}, LeavesToPropagationThread(t)
      PROVE  Alone'
  BY <1>3 DEF LeavesToPropagationThread, Return, Goto, Alone, PacketPCs, BoundPCs, SendPCs
<1>4. ASSUME NEW t \in Loopers, NEW completed, NEW b, EntersLoop(t, completed, b)
      PROVE  Alone'
  <2>1. Heads(t)
    BY <1>4 DEF EntersLoop, PropagatesPackets, PropagatesBound, StopsPropagating, Return,
                Goto, Heads
  <2> QED
    BY <1>2, <1>4, <2>1 DEF EntersLoop, Alone
<1> USE DEF PacketPCs, BoundPCs, SendPCs
<1>5. CASE UNCHANGED vars
  BY <1>1, <1>5 DEF vars, handlerVars
<1>6. ASSUME NEW i \in Inputs, InputStep(i) PROVE Alone'
  <2>1. CASE PacketArrives(i) \/ Process(i) \/ ProcessFails(i) \/ EndScheduling(i)
    BY <1>1, <2>1 DEF PacketArrives, Process, ProcessFails, EndScheduling, Goto, handlerVars
  <2>2. CASE PostProcess(i)
    BY <1>3, <1>4, <2>2 DEF PostProcess
  <2> QED
    BY <1>6, <2>1, <2>2 DEF InputStep
<1>7. ASSUME NEW b \in (2 .. MaxTs) \cup {Done}, BoundArrives(b) PROVE Alone'
  BY <1>1, <1>7 DEF BoundArrives, handlerVars
<1>8. CASE SchedulingStep
  <2>1. CASE ScheduleInvocation
    <3>1. Min(arrived) \in arrived /\ Min(arrived) \in Inputs
      BY <2>1, Minimum DEF ScheduleInvocation, TypeOK
    <3>2. pc[Min(arrived)] = "none"
      BY <3>1 DEF Order
    <3> QED
      BY <1>1, <2>1, <3>1, <3>2 DEF ScheduleInvocation, Goto, handlerVars
  <2>2. CASE ScheduleClose \/ NotReady
    BY <1>1, <2>2 DEF ScheduleClose, NotReady, MaySchedule, Goto, handlerVars
  <2>3. CASE UpdateTaskTimestampBound
    <3>1. CASE Return(Scheduling) /\ UNCHANGED propagation_state_
      BY <1>1, <2>3, <3>1 DEF UpdateTaskTimestampBound, Return, Goto
    <3> QED
      BY <1>3, <1>4, <2>3, <3>1 DEF UpdateTaskTimestampBound
  <2> QED
    BY <1>8, <2>1, <2>2, <2>3 DEF SchedulingStep
<1>9. ASSUME NEW t \in Loopers, LoopStep(t) PROVE Alone'
  <2>1. CASE CheckClosed(t) \/ SetBound(t) \/ Send(t)
    BY <1>1, <2>1 DEF CheckClosed, SetBound, Send, Goto, handlerVars
  <2>2. CASE CloseStream(t) \/ Recycle(t)
    BY <1>1, <2>2 DEF CloseStream, Recycle, Goto, handlerVars
  <2>3. CASE CheckBound(t) \/ SendBound(t)
    BY <1>1, <2>3 DEF CheckBound, SendBound, Goto, handlerVars
  <2>4. CASE EraseCompleted(t) \/ EndBound(t)
    <3>1. Heads(t)
      BY <2>4 DEF EraseCompleted, EndBound, PropagatesPackets, PropagatesBound,
                  StopsPropagating, Return, Goto, Heads
    <3>2. pc[t] \in SendPCs
      BY <2>4 DEF EraseCompleted, EndBound, SendPCs
    <3> QED
      BY <1>2, <3>1, <3>2, OnlyOne
  <2> QED
    BY <1>9, <2>1, <2>2, <2>3, <2>4 DEF LoopStep
<1>10. CASE ClosingStep
  BY <1>1, <1>10 DEF ClosingStep, CloseNode, SetBound, SendBound, CloseStream, Goto,
                     handlerVars
<1> QED
  BY <1>5, <1>6, <1>7, <1>8, <1>9, <1>10, Steps

-----------------------------------------------------------------------------
(* The contexts. *)

\* While the propagation thread sends for an invocation, its context is the oldest.
LEMMA Oldest ==
  ASSUME IInv, NEW t \in Loopers, pc[t] \in PacketPCs \ {"erase"}
  PROVE  /\ context_timestamp[t] \in active_contexts_
         /\ context_timestamp[t] \in completed_input_timestamps_
         /\ completed_input_timestamps_ \subseteq active_contexts_
         /\ Min(active_contexts_) = context_timestamp[t]
         /\ ~prepared_context_for_close_ /\ pc[Closing] = "none"
<1> USE DEF IInv
<1>1. /\ context_timestamp[t] \in active_contexts_
      /\ context_timestamp[t] \in completed_input_timestamps_
      /\ \A a \in active_contexts_ : context_timestamp[t] <= a
      /\ active_contexts_ \in SUBSET Inputs
  BY DEF Completed, TypeOK, PacketPCs
<1>2. \A u \in Loopers : pc[u] # "erase"
  BY OnlyOne DEF PacketPCs, SendPCs
<1> QED
  BY <1>1, <1>2, Least DEF Completed, ClosesLast

\* Between its recycling and its removal a context is the oldest that is complete.
LEMMA Recycled ==
  ASSUME IInv, NEW t \in Loopers, pc[t] = "erase"
  PROVE  /\ context_timestamp[t] \in completed_input_timestamps_
         /\ completed_input_timestamps_ \ {context_timestamp[t]} \subseteq active_contexts_
         /\ Min(completed_input_timestamps_) = context_timestamp[t]
         /\ context_timestamp[t] \notin active_contexts_
<1> USE DEF IInv
<1>1. /\ context_timestamp[t] \in completed_input_timestamps_
      /\ context_timestamp[t] \notin active_contexts_
      /\ \A a \in active_contexts_ : context_timestamp[t] <= a
      /\ completed_input_timestamps_ \in SUBSET Inputs
  BY DEF Completed, TypeOK, PacketPCs
<1>2. \A u \in Loopers : pc[u] = "erase" => u = t
  BY OnlyOne DEF SendPCs
<1>3. completed_input_timestamps_ \ {context_timestamp[t]} \subseteq active_contexts_
  BY <1>2 DEF Completed
<1>4. \A x \in completed_input_timestamps_ : context_timestamp[t] <= x
  BY <1>1, <1>3, Names
<1> QED
  BY <1>1, <1>3, <1>4, Least

\* What a thread finds at the head of the loop, and what it leaves, is consistent.
LEMMA HeadKeepsCompleted ==
  ASSUME IInv, NEW t \in Loopers, NEW D \in SUBSET active_contexts_,
         active_contexts_' = active_contexts_, completed_input_timestamps_' = D,
         UNCHANGED has_error,
         \A u \in Loopers \ {t} : pc[u] \notin SendPCs,
         \A a \in active_contexts_ :
           a \in D \/ has_error \/ (a # t /\ pc[a] \in {"process", "post"}),
         \A i \in D : i = t \/ pc[i] \notin {"process", "post"},
         \/ MaySend(D) /\ PropagatesPackets(t, D)
         \/ ~HasActiveContexts /\ \E b \in Timestamps : PropagatesBound(t, b)
         \/ ~MaySend(D) /\ StopsPropagating(t)
  PROVE  Completed'
<1> USE Names DEF IInv
<1>0. /\ pc \in [Threads -> PCs] /\ context_timestamp \in [Threads -> 0 .. MaxTs]
      /\ active_contexts_ \in SUBSET Inputs
  BY DEF TypeOK
<1>1. /\ Heads(t)
      /\ pc'[t] \in {"checkClosed", "checkBound", "idle", "end"}
  BY <1>0 DEF PropagatesPackets, PropagatesBound, StopsPropagating, Return, Goto, Heads
<1>2. /\ pc'[t] = "checkClosed" => MaySend(D) /\ context_timestamp'[t] = Min(D)
      /\ pc'[t] = "checkBound" => D = {}
      /\ pc'[t] \notin {"checkClosed", "checkBound"} => ~MaySend(D)
  BY <1>0 DEF PropagatesPackets, PropagatesBound, StopsPropagating, Return, Goto,
              HasActiveContexts
<1>3. MaySend(D) => Min(D) \in D /\ \A a \in active_contexts_ : Min(D) <= a
  BY <1>0, Minimum DEF MaySend
<1>4. \A i \in D :
        i \in active_contexts_' \/ \E u \in Loopers : pc'[u] = "erase" /\ context_timestamp'[u] = i
  OBVIOUS
<1>5. \A i \in Inputs :
        pc'[i] \in {"process", "post"} => i \in active_contexts_' /\ i \notin D
  BY <1>1 DEF Heads, Completed
<1>6. \A a \in active_contexts_' : pc'[a] \in {"process", "post"} \/ a \in D \/ has_error'
  BY <1>0, <1>1 DEF Heads
<1>7. \A u \in Loopers : pc'[u] \in PacketPCs => u = t /\ pc'[u] = "checkClosed"
  BY <1>1 DEF Heads, PacketPCs, SendPCs
<1>8. /\ propagation_state_' = "kIdle" => ~MaySend(completed_input_timestamps_)'
      /\ propagation_state_' = "kPropagatingBound" => D = {}
  BY <1>1, <1>2 DEF Heads, MaySend
<1>9. \A u \in Loopers :
        /\ pc'[u] \in PacketPCs => /\ context_timestamp'[u] \in D
                                   /\ \A a \in active_contexts_ : context_timestamp'[u] <= a
        /\ pc'[u] \in PacketPCs \ {"erase"} => context_timestamp'[u] \in active_contexts_
        /\ pc'[u] = "erase" => context_timestamp'[u] \notin active_contexts_
  BY <1>2, <1>3, <1>7 DEF PacketPCs
<1> QED
  BY <1>4, <1>5, <1>6, <1>8, <1>9, Zenon DEF Completed

LEMMA CompletedKept ==
  ASSUME IInv, [Next]_vars
  PROVE  Completed'
<1> USE Names DEF IInv
<1>0. /\ pc \in [Threads -> PCs] /\ context_timestamp \in [Threads -> 0 .. MaxTs]
      /\ active_contexts_ \in SUBSET Inputs /\ arrived \in SUBSET Inputs
      /\ completed_input_timestamps_ \in SUBSET Inputs
  BY DEF TypeOK
<1> USE <1>0
<1> DEFINE Same ==
      /\ UNCHANGED <<active_contexts_, completed_input_timestamps_, propagation_state_>>
      /\ has_error => has_error'
      /\ \A i \in Inputs :
           /\ pc'[i] \in {"process", "post"} => pc[i] \in {"process", "post"}
           /\ pc[i] \in {"process", "post"} => pc'[i] \in {"process", "post"} \/ has_error'
      /\ \A t \in Loopers :
           /\ pc[t] = "erase" => pc'[t] = "erase" /\ context_timestamp'[t] = context_timestamp[t]
           /\ pc'[t] \in PacketPCs =>
                /\ pc[t] \in PacketPCs /\ context_timestamp'[t] = context_timestamp[t]
                /\ pc'[t] = "erase" => pc[t] = "erase"
<1>1. ASSUME Same PROVE Completed'
  <2>1. \A i \in completed_input_timestamps_' :
          i \in active_contexts_' \/ \E t \in Loopers : pc'[t] = "erase" /\ context_timestamp'[t] = i
    BY <1>1 DEF Completed
  <2>2. /\ propagation_state_' = "kIdle" => ~MaySend(completed_input_timestamps_)'
        /\ propagation_state_' = "kPropagatingBound" => completed_input_timestamps_' = {}
    BY <1>1 DEF Completed, MaySend
  <2>3. \A t \in Loopers :
          /\ pc'[t] \in PacketPCs =>
               /\ context_timestamp'[t] \in completed_input_timestamps_'
               /\ \A a \in active_contexts_' : context_timestamp'[t] <= a
          /\ pc'[t] \in PacketPCs \ {"erase"} => context_timestamp'[t] \in active_contexts_'
          /\ pc'[t] = "erase" => context_timestamp'[t] \notin active_contexts_'
    BY <1>1 DEF Completed, PacketPCs
  <2>4. /\ \A i \in Inputs : pc'[i] \in {"process", "post"} =>
             i \in active_contexts_' /\ i \notin completed_input_timestamps_'
        /\ \A a \in active_contexts_' :
             pc'[a] \in {"process", "post"} \/ a \in completed_input_timestamps_' \/ has_error'
    BY <1>1 DEF Completed
  <2> QED
    BY <2>1, <2>2, <2>3, <2>4, Zenon DEF Completed
<1> DEFINE Goal == Completed'
<1> HIDE DEF Goal
<1>2. CASE UNCHANGED vars
  BY <1>1, <1>2 DEF vars, contextVars, handlerVars, errorVars, localVars
<1>3. ASSUME NEW i \in Inputs, InputStep(i) PROVE Completed'
  <2>1. CASE PacketArrives(i)
    BY <1>1, <2>1 DEF PacketArrives, contextVars, handlerVars, errorVars, localVars
  <2>2. CASE Process(i) \/ ProcessFails(i) \/ EndScheduling(i)
    BY <1>1, <2>2 DEF Process, ProcessFails, EndScheduling, Goto, contextVars, handlerVars,
                      errorVars, localVars, PacketPCs
  <2>3. CASE PostProcess(i)
    <3> DEFINE D == completed_input_timestamps_ \cup {i}
    <3>1. i \in active_contexts_ /\ i \notin completed_input_timestamps_
      BY <2>3 DEF PostProcess, Completed
    <3>2. CASE LeavesToPropagationThread(i)
      <4>1. /\ UNCHANGED <<active_contexts_, has_error>>
            /\ completed_input_timestamps_' = D /\ pc' = [pc EXCEPT ![i] = "end"]
            /\ context_timestamp' = [context_timestamp EXCEPT ![i] = 0]
            /\ propagation_state_' # "kIdle" /\ propagation_state_' # "kPropagatingBound"
        BY <2>3, <3>2 DEF PostProcess, LeavesToPropagationThread, Return, Goto, contextVars,
                          errorVars
      <4>2. pc[i] = "post"
        BY <2>3 DEF PostProcess
      <4>3. /\ \A x \in D : x \in active_contexts_
                           \/ \E t \in Loopers : pc'[t] = "erase" /\ context_timestamp'[t] = x
            /\ \A x \in Inputs : pc'[x] \in {"process", "post"} => x \in active_contexts_ /\ x \notin D
            /\ \A a \in active_contexts_ :
                 pc'[a] \in {"process", "post"} \/ a \in D \/ has_error'
        BY <3>1, <4>1, <4>2 DEF Completed
      <4>4. \A t \in Loopers :
              /\ pc'[t] \in PacketPCs => /\ context_timestamp'[t] \in D
                                         /\ \A a \in active_contexts_ : context_timestamp'[t] <= a
              /\ pc'[t] \in PacketPCs \ {"erase"} => context_timestamp'[t] \in active_contexts_
              /\ pc'[t] = "erase" => context_timestamp'[t] \notin active_contexts_
        BY <4>1 DEF Completed, PacketPCs
      <4> QED
        BY <4>1, <4>3, <4>4, Zenon DEF Completed
    <3>3. CASE EntersLoop(i, D, task_timestamp_bound_)
      <4>1. D \in SUBSET active_contexts_ /\ \A u \in Loopers : pc[u] \notin SendPCs
        BY <3>1, <3>3 DEF EntersLoop, Completed, Alone, SendPCs
      <4>2. /\ \A a \in active_contexts_ :
                 a \in D \/ has_error \/ (a # i /\ pc[a] \in {"process", "post"})
            /\ \A x \in D : x = i \/ pc[x] \notin {"process", "post"}
            /\ UNCHANGED <<active_contexts_, has_error>> /\ completed_input_timestamps_' = D
        BY <2>3, <4>1 DEF PostProcess, Completed, contextVars, errorVars
      <4>3. \/ MaySend(D) /\ PropagatesPackets(i, D)
            \/ ~HasActiveContexts /\ \E b \in Timestamps : PropagatesBound(i, b)
            \/ ~MaySend(D) /\ StopsPropagating(i)
        BY <3>3 DEF EntersLoop, TypeOK
      <4> QED
        BY <4>1, <4>2, <4>3, HeadKeepsCompleted
    <3> QED
      BY <2>3, <3>2, <3>3 DEF PostProcess
  <2> QED
    BY <1>3, <2>1, <2>2, <2>3 DEF InputStep
<1>4. ASSUME NEW b \in (2 .. MaxTs) \cup {Done}, BoundArrives(b) PROVE Completed'
  BY <1>1, <1>4 DEF BoundArrives, contextVars, handlerVars, errorVars, localVars
<1>5. CASE SchedulingStep
  <2>1. CASE ScheduleInvocation
    <3> DEFINE i == Min(arrived)
    <3>1. /\ i \in arrived /\ i \in Inputs /\ pc[i] = "none"
          /\ \A x \in active_contexts_ \cup completed_input_timestamps_ : x < i
      BY <2>1, Minimum DEF ScheduleInvocation, Order
    <3>2. /\ active_contexts_' = active_contexts_ \cup {i}
          /\ UNCHANGED <<completed_input_timestamps_, propagation_state_, has_error,
                         context_timestamp>>
          /\ pc' = [pc EXCEPT ![i] = IF has_error THEN "dropped" ELSE "process"]
      BY <2>1 DEF ScheduleInvocation, Goto, handlerVars, errorVars, localVars
    <3> HIDE DEF i
    <3>3. \A x \in completed_input_timestamps_ :
            x \in active_contexts_' \/ \E t \in Loopers : pc'[t] = "erase" /\ context_timestamp'[t] = x
      BY <3>1, <3>2 DEF Completed
    <3>4. /\ \A x \in Inputs : pc'[x] \in {"process", "post"} =>
               x \in active_contexts_' /\ x \notin completed_input_timestamps_
          /\ \A a \in active_contexts_' :
               pc'[a] \in {"process", "post"} \/ a \in completed_input_timestamps_ \/ has_error
      BY <3>1, <3>2 DEF Completed
    <3>5. \A t \in Loopers :
            /\ pc'[t] \in PacketPCs => /\ context_timestamp[t] \in completed_input_timestamps_
                                       /\ \A a \in active_contexts_' : context_timestamp[t] <= a
            /\ pc'[t] \in PacketPCs \ {"erase"} => context_timestamp[t] \in active_contexts_'
            /\ pc'[t] = "erase" => context_timestamp[t] \notin active_contexts_'
      BY <3>1, <3>2 DEF Completed, PacketPCs
    <3>6. propagation_state_ = "kIdle" => ~MaySend(completed_input_timestamps_)'
      <4>1. SUFFICES ASSUME propagation_state_ = "kIdle", completed_input_timestamps_ # {},
                            Min(completed_input_timestamps_) = Min(active_contexts_')
                     PROVE  FALSE
        BY <3>2 DEF MaySend
      <4>2. completed_input_timestamps_ \subseteq active_contexts_
        BY <4>1 DEF Completed, Alone, SendPCs
      <4>3. Min(active_contexts_) \in active_contexts_ /\ \A a \in active_contexts_ : Min(active_contexts_) <= a
        BY <4>1, <4>2, Minimum
      <4>4. Min(active_contexts_') = Min(active_contexts_)
        <5> DEFINE m == Min(active_contexts_)
        <5>1. /\ m \in active_contexts_' /\ active_contexts_' \in SUBSET Inputs
              /\ \A a \in active_contexts_ : m <= a
              /\ m < i
          BY <3>1, <3>2, <4>3
        <5> HIDE DEF m
        <5>2. \A a \in active_contexts_' : m <= a
          BY <3>2, <5>1
        <5>3. Min(active_contexts_') = m
          BY <5>1, <5>2, Least
        <5> QED
          BY <5>3 DEF m
      <4> QED
        BY <4>1, <4>2, <4>4 DEF Completed, MaySend
    <3> QED
      BY <3>2, <3>3, <3>4, <3>5, <3>6, Zenon DEF Completed
  <2>2. CASE ScheduleClose \/ NotReady
    BY <1>1, <2>2 DEF ScheduleClose, NotReady, MaySchedule, Goto, contextVars, handlerVars,
                      errorVars, localVars, PacketPCs
  <2>3. CASE UpdateTaskTimestampBound
    <3>1. UNCHANGED <<active_contexts_, completed_input_timestamps_, has_error>>
      BY <2>3 DEF UpdateTaskTimestampBound, contextVars, errorVars
    <3>2. CASE LeavesToPropagationThread(Scheduling)
      <4>1. /\ pc' = [pc EXCEPT ![Scheduling] = "idle"] /\ pc[Scheduling] = "update"
            /\ context_timestamp' = [context_timestamp EXCEPT ![Scheduling] = 0]
            /\ propagation_state_' # "kIdle" 
            /\ propagation_state_' # "kPropagatingBound"
        BY <2>3, <3>2 DEF UpdateTaskTimestampBound, LeavesToPropagationThread, Return, Goto
      <4>2. /\ \A x \in completed_input_timestamps_ : x \in active_contexts_
                   \/ \E t \in Loopers : pc'[t] = "erase" /\ context_timestamp'[t] = x
            /\ \A x \in Inputs : pc'[x] = pc[x]
        BY <4>1 DEF Completed
      <4>3. \A t \in Loopers :
              /\ pc'[t] \in PacketPCs => /\ context_timestamp'[t] \in completed_input_timestamps_
                                         /\ \A a \in active_contexts_ : context_timestamp'[t] <= a
              /\ pc'[t] \in PacketPCs \ {"erase"} => context_timestamp'[t] \in active_contexts_
              /\ pc'[t] = "erase" => context_timestamp'[t] \notin active_contexts_
        BY <4>1 DEF Completed, PacketPCs
      <4> QED
        BY <3>1, <4>1, <4>2, <4>3 DEF Completed
    <3>3. CASE EntersLoop(Scheduling, completed_input_timestamps_, bound[Scheduling])
      <4>1. /\ completed_input_timestamps_ \in SUBSET active_contexts_
            /\ \A u \in Loopers : pc[u] \notin SendPCs
        BY <3>3 DEF EntersLoop, Completed, Alone, SendPCs
      <4>2. /\ \A a \in active_contexts_ : a \in completed_input_timestamps_ \/ has_error
                   \/ (a # Scheduling /\ pc[a] \in {"process", "post"})
            /\ \A x \in completed_input_timestamps_ : pc[x] \notin {"process", "post"}
        BY DEF Completed
      <4>3. \/ MaySend(completed_input_timestamps_)
                 /\ PropagatesPackets(Scheduling, completed_input_timestamps_)
            \/ ~HasActiveContexts /\ \E b \in Timestamps : PropagatesBound(Scheduling, b)
            \/ ~MaySend(completed_input_timestamps_) /\ StopsPropagating(Scheduling)
        BY <3>3 DEF EntersLoop, TypeOK
      <4> QED
        BY <3>1, <4>1, <4>2, <4>3, HeadKeepsCompleted
    <3>4. CASE Return(Scheduling) /\ UNCHANGED propagation_state_
      BY <1>1, <2>3, <3>1, <3>4 DEF UpdateTaskTimestampBound, Return, Goto, PacketPCs
    <3> QED
      BY <2>3, <3>2, <3>3, <3>4 DEF UpdateTaskTimestampBound
  <2> QED
    BY <1>5, <2>1, <2>2, <2>3 DEF SchedulingStep
<1>6. ASSUME NEW t \in Loopers, LoopStep(t) PROVE Completed'
  <2>1. CASE CheckClosed(t) \/ SetBound(t)
    BY <1>1, <2>1 DEF CheckClosed, SetBound, Goto, contextVars, handlerVars, errorVars,
                      localVars, PacketPCs
  <2>2. CASE Send(t) \/ CloseStream(t)
    BY <1>1, <2>2 DEF Send, CloseStream, Receive, Goto, contextVars, handlerVars, errorVars,
                      localVars, PacketPCs
  <2>3. CASE CheckBound(t) \/ SendBound(t)
    BY <1>1, <2>3 DEF CheckBound, SendBound, Receive, Goto, contextVars, handlerVars,
                      errorVars, localVars, PacketPCs
  <2>4. CASE Recycle(t)
    <3> DEFINE c == context_timestamp[t]
    <3>1. /\ c \in active_contexts_ /\ c \in completed_input_timestamps_
          /\ Min(active_contexts_) = c /\ pc[t] = "recycle"
      BY <2>4, Oldest DEF Recycle, PacketPCs
    <3>2. /\ active_contexts_' = active_contexts_ \ {c}
          /\ UNCHANGED <<completed_input_timestamps_, propagation_state_, has_error,
                         context_timestamp>>
          /\ pc' = [pc EXCEPT ![t] = "erase"]
      BY <2>4, <3>1 DEF Recycle, Goto, handlerVars, errorVars, localVars
    <3>3. /\ \A u \in Loopers : pc'[u] \in PacketPCs => u = t
          /\ propagation_state_ = "kPropagatingPackets"
      BY <3>1, <3>2, OnlyOne DEF PacketPCs, SendPCs
    <3>4. \A x \in completed_input_timestamps_ :
            x \in active_contexts_' \/ \E u \in Loopers : pc'[u] = "erase" /\ context_timestamp[u] = x
      BY <3>1, <3>2, Oldest DEF PacketPCs
    <3>5. /\ \A x \in Inputs : pc'[x] \in {"process", "post"} =>
               x \in active_contexts_' /\ x \notin completed_input_timestamps_
          /\ \A a \in active_contexts_' :
               pc'[a] \in {"process", "post"} \/ a \in completed_input_timestamps_ \/ has_error
      BY <3>1, <3>2 DEF Completed
    <3>6. \A a \in active_contexts_' : c <= a
      BY <3>1, <3>2 DEF Completed, PacketPCs
    <3> QED
      BY <3>1, <3>2, <3>3, <3>4, <3>5, <3>6 DEF Completed
  <2>5. CASE EraseCompleted(t)
    <3> DEFINE D == completed_input_timestamps_ \ {context_timestamp[t]}
    <3>1. /\ pc[t] = "erase" /\ D \in SUBSET active_contexts_
          /\ Min(completed_input_timestamps_) = context_timestamp[t]
          /\ context_timestamp[t] \notin active_contexts_
      BY <2>5, Recycled DEF EraseCompleted
    <3>2. /\ UNCHANGED <<active_contexts_, has_error>> /\ completed_input_timestamps_' = D
          /\ \A u \in Loopers \ {t} : pc[u] \notin SendPCs
      BY <2>5, <3>1, OnlyOne DEF EraseCompleted, contextVars, errorVars, SendPCs
    <3>3. /\ \A a \in active_contexts_ :
               a \in D \/ has_error \/ (a # t /\ pc[a] \in {"process", "post"})
          /\ \A x \in D : pc[x] \notin {"process", "post"}
      BY <3>1 DEF Completed
    <3>4. \/ MaySend(D) /\ PropagatesPackets(t, D)
          \/ ~HasActiveContexts /\ \E b \in Timestamps : PropagatesBound(t, b)
          \/ ~MaySend(D) /\ StopsPropagating(t)
      BY <2>5, <3>1 DEF EraseCompleted, HasActiveContexts, MaySend, TypeOK
    <3> HIDE DEF D
    <3> QED
      BY <3>1, <3>2, <3>3, <3>4, HeadKeepsCompleted
  <2>6. CASE EndBound(t)
    <3> DEFINE D == completed_input_timestamps_
    <3>1. pc[t] = "endBound" /\ \A u \in Loopers \ {t} : pc[u] \notin SendPCs
      BY <2>6, OnlyOne DEF EndBound, SendPCs
    <3>2. /\ UNCHANGED <<active_contexts_, has_error>> /\ completed_input_timestamps_' = D
          /\ D \in SUBSET active_contexts_
      BY <2>6, <3>1 DEF EndBound, contextVars, errorVars, Completed, SendPCs
    <3>3. /\ \A a \in active_contexts_ :
               a \in D \/ has_error \/ (a # t /\ pc[a] \in {"process", "post"})
          /\ \A x \in D : pc[x] \notin {"process", "post"}
      BY <3>1 DEF Completed
    <3>4. \/ MaySend(D) /\ PropagatesPackets(t, D)
          \/ ~HasActiveContexts /\ \E b \in Timestamps : PropagatesBound(t, b)
          \/ ~MaySend(D) /\ StopsPropagating(t)
      BY <2>6 DEF EndBound, MaySend, Completed, TypeOK
    <3> HIDE DEF D
    <3> QED
      BY <3>2, <3>1, <3>3, <3>4, HeadKeepsCompleted
  <2> QED
    BY <1>6, <2>1, <2>2, <2>3, <2>4, <2>5, <2>6 DEF LoopStep
<1>7. CASE ClosingStep
  BY <1>1, <1>7 DEF ClosingStep, CloseNode, SetBound, SendBound, CloseStream, Receive, Goto,
                    contextVars, handlerVars, errorVars, localVars
<1> QED
  BY <1>2, <1>3, <1>4, <1>5, <1>6, <1>7, Steps

-----------------------------------------------------------------------------
(* What is sent. *)

LEMMA Received ==
  ASSUME mirror \in [bound : Timestamps, last : Timestamps],
         mirror_error \in BOOLEAN, has_error \in BOOLEAN,
         NEW p \in Timestamps, NEW b \in Timestamps, p + 1 \in Timestamps, Receive(p, b)
  PROVE  /\ mirror' \in [bound : Timestamps, last : Timestamps]
         /\ mirror_error' \in BOOLEAN /\ has_error' \in BOOLEAN
         /\ mirror.bound <= mirror'.bound /\ b <= mirror'.bound
         /\ \/ mirror'.bound = mirror.bound \/ mirror'.bound = b
            \/ p # Unset /\ mirror'.bound = p + 1
         /\ has_error => has_error'
         /\ mirror_error' => \/ mirror_error
                             \/ p # Unset /\ p < mirror.bound
                             \/ b # Unset /\ b < mirror.bound
                             \/ b # Unset /\ p # Unset /\ b < p + 1
<1> USE Names DEF Timestamps, Unset, Done
<1> DEFINE late == p # Unset /\ p < mirror.bound
           added == IF p = Unset \/ late THEN mirror ELSE [last |-> p, bound |-> p + 1]
           refused == late \/ (b # Unset /\ b < added.bound)
<1>1. /\ mirror' = [added EXCEPT !.bound = Max({added.bound, b})]
      /\ mirror_error' = (mirror_error \/ refused)
      /\ has_error' = (has_error \/ refused)
  BY DEF Receive
<1>2. /\ added \in [bound : Timestamps, last : Timestamps]
      /\ mirror.bound <= added.bound
      /\ added.bound = mirror.bound \/ (p # Unset /\ added.bound = p + 1)
  OBVIOUS
<1>3. refused => \/ p # Unset /\ p < mirror.bound
                 \/ b # Unset /\ b < mirror.bound
                 \/ b # Unset /\ p # Unset /\ b < p + 1
  OBVIOUS
<1> HIDE DEF added, refused
<1>4. Max({added.bound, b}) = IF added.bound >= b THEN added.bound ELSE b
  BY <1>2, Maximum
<1>5. /\ mirror'.bound = IF added.bound >= b THEN added.bound ELSE b
      /\ mirror' \in [bound : Timestamps, last : Timestamps]
  BY <1>1, <1>2, <1>4
<1> QED
  BY <1>1, <1>2, <1>3, <1>5

\* The bound that goes with the outputs of an invocation.
LEMMA OutputBound ==
  ASSUME IInv, NEW i \in Inputs
  PROVE  LET ts == OutputTimestampBound(i)
             s == shard[i]
         IN  /\ ts \in Timestamps
             /\ ts \in {s.updated, i + 1 + Offset} /\ s.updated <= ts
             /\ ~offset_enabled => ts = s.updated
             /\ offset_enabled => i + Offset < ts \/ i + Offset < s.next
<1> USE Names DEF Timestamps, Unset, Done, Inputs
<1>1. shard[i].updated \in Timestamps /\ shard[i].next \in Timestamps
  BY DEF IInv, TypeOK, Shard
<1>2. CASE offset_enabled /\ i + 1 + Offset > shard[i].next
  <2>1. OutputTimestampBound(i) = Max({shard[i].updated, i + 1 + Offset})
    <3>1. {shard[i].updated} \cup {i + 1 + Offset} = {shard[i].updated, i + 1 + Offset}
      OBVIOUS
    <3> QED
      BY <1>2, <3>1 DEF OutputTimestampBound
  <2> QED
    BY <1>1, <1>2, <2>1, Maximum
<1>3. CASE ~(offset_enabled /\ i + 1 + Offset > shard[i].next)
  <2>1. OutputTimestampBound(i) = Max({shard[i].updated})
    <3>1. {shard[i].updated} \cup {} = {shard[i].updated}
      OBVIOUS
    <3>2. ~offset_enabled => ~(Unset > shard[i].next)
      BY <1>1
    <3> QED
      BY <1>3, <3>1, <3>2 DEF OutputTimestampBound
  <2> QED
    BY <1>1, <1>3, <2>1, MaximumOfOne
<1> QED
  BY <1>2, <1>3

-----------------------------------------------------------------------------
(* Types. *)

InputTypes ==
  /\ arrived \subseteq Inputs /\ input_bound \in Timestamps
  /\ active_contexts_ \subseteq Inputs /\ completed_input_timestamps_ \subseteq Inputs
  /\ task_timestamp_bound_ \in Timestamps
  /\ propagation_state_ \in
       {"kIdle", "kPropagatingPackets", "kPropagatingBound", "kPropagationPending"}
FlagTypes ==
  {prepared_context_for_close_, offset_enabled, closed_, has_error, mirror_error} \subseteq BOOLEAN
StreamTypes ==
  /\ next_timestamp_bound_ \in Timestamps
  /\ shard \in [Inputs -> Shard]
  /\ mirror \in [bound : Timestamps, last : Timestamps]
ThreadTypes ==
  /\ pc \in [Threads -> PCs]
  /\ context_timestamp \in [Threads -> 0 .. MaxTs] /\ bound \in [Threads -> Timestamps]

\* A thread at the head of the loop.
LEMMA HeadTypes ==
  ASSUME ThreadTypes, NEW t \in Loopers, NEW D \in SUBSET Inputs, NEW b \in Timestamps,
         \/ LeavesToPropagationThread(t) \/ StopsPropagating(t)
         \/ MaySend(D) /\ PropagatesPackets(t, D)
         \/ PropagatesBound(t, b)
         \/ Return(t) /\ UNCHANGED propagation_state_
  PROVE  /\ ThreadTypes'
         /\ propagation_state_' \in {propagation_state_, "kIdle", "kPropagatingPackets",
                                     "kPropagatingBound", "kPropagationPending"}
<1> USE Names DEF ThreadTypes
<1>1. "idle" \in PCs /\ "end" \in PCs /\ "checkClosed" \in PCs /\ "checkBound" \in PCs
  BY DEF PCs, SendPCs
<1>2. 0 \in 0 .. MaxTs /\ Unset \in Timestamps
  BY DEF Timestamps, Unset, Done
<1>3. Return(t) => ThreadTypes'
  BY <1>1, <1>2 DEF Return, Goto
<1>4. ASSUME MaySend(D), PropagatesPackets(t, D) PROVE ThreadTypes'
  <2>1. Min(D) \in Inputs
    BY <1>4, Minimum DEF MaySend
  <2>2. Min(D) \in 0 .. MaxTs
    BY <2>1 DEF Inputs
  <2> QED
    BY <1>1, <1>4, <2>2 DEF PropagatesPackets, Goto
<1>5. PropagatesBound(t, b) => ThreadTypes'
  BY <1>1 DEF PropagatesBound, Goto
<1> HIDE DEF ThreadTypes
<1> QED
  BY <1>3, <1>4, <1>5 DEF LeavesToPropagationThread, StopsPropagating, PropagatesPackets,
                          PropagatesBound

LEMMA FlagTypesKept ==
  ASSUME IInv, [Next]_vars
  PROVE  FlagTypes'
<1> USE Names DEF FlagTypes
<1>0. FlagTypes
  BY DEF IInv, TypeOK
<1>1. ASSUME UNCHANGED <<prepared_context_for_close_, offset_enabled, closed_, errorVars>>
      PROVE  FlagTypes'
  BY <1>0, <1>1 DEF errorVars
<1>2. ASSUME NEW p, NEW b, Receive(p, b),
             UNCHANGED <<prepared_context_for_close_, offset_enabled>>,
             closed_' = closed_ \/ closed_' = TRUE
      PROVE  FlagTypes'
  <2>1. mirror_error' \in BOOLEAN /\ has_error' \in BOOLEAN
    BY <1>0, <1>2 DEF Receive
  <2> QED
    BY <1>0, <1>2, <2>1, Zenon
<1> HIDE DEF FlagTypes
<1>3. CASE UNCHANGED vars
  BY <1>1, <1>3 DEF vars, contextVars, streamVars
<1>4. ASSUME NEW i \in Inputs, InputStep(i) PROVE FlagTypes'
  <2>1. CASE ProcessFails(i)
    BY <1>0, <2>1, Zenon DEF ProcessFails, contextVars, streamVars, FlagTypes
  <2>2. CASE PacketArrives(i) \/ PostProcess(i) \/ EndScheduling(i)
    BY <1>1, <2>2 DEF PacketArrives, PostProcess, EndScheduling, contextVars, streamVars
  <2>3. CASE Process(i)
    <3>1. has_error' \in BOOLEAN
      BY <2>3, Zenon DEF Process
    <3>2. UNCHANGED <<prepared_context_for_close_, offset_enabled, closed_, mirror_error>>
      BY <2>3 DEF Process, contextVars, streamVars
    <3> QED
      BY <1>0, <3>1, <3>2, Zenon DEF FlagTypes
  <2> QED
    BY <1>4, <2>1, <2>2, <2>3 DEF InputStep
<1>5. ASSUME NEW b \in (2 .. MaxTs) \cup {Done}, BoundArrives(b) PROVE FlagTypes'
  BY <1>1, <1>5 DEF BoundArrives, contextVars, streamVars
<1>6. CASE SchedulingStep
  <2>1. CASE ScheduleClose
    BY <1>0, <2>1, Zenon DEF ScheduleClose, streamVars, errorVars, FlagTypes
  <2>2. CASE ScheduleInvocation \/ NotReady \/ UpdateTaskTimestampBound
    BY <1>1, <2>2 DEF ScheduleInvocation, NotReady, UpdateTaskTimestampBound, contextVars,
                      streamVars
  <2> QED
    BY <1>6, <2>1, <2>2 DEF SchedulingStep
<1>7. ASSUME NEW t \in Threads, CloseStream(t) PROVE FlagTypes'
  BY <1>1, <1>2, <1>7 DEF CloseStream, contextVars, streamVars
<1>8. ASSUME NEW t \in Threads, SendBound(t) PROVE FlagTypes'
  BY <1>2, <1>8 DEF SendBound, contextVars, streamVars
<1>9. ASSUME NEW t \in Threads, Send(t) PROVE FlagTypes'
  BY <1>2, <1>9 DEF Send, contextVars, streamVars
<1>10. ASSUME NEW t \in Threads,
              \/ CheckClosed(t) \/ SetBound(t) \/ Recycle(t) \/ EraseCompleted(t)
              \/ CheckBound(t) \/ EndBound(t)
       PROVE  FlagTypes'
  BY <1>1, <1>10 DEF CheckClosed, SetBound, Recycle, EraseCompleted, CheckBound, EndBound,
                     contextVars, streamVars
<1>11. CloseNode => FlagTypes'
  BY <1>1 DEF CloseNode, contextVars, streamVars
<1>12. Places
  BY DEF IInv
<1> QED
  BY <1>3, <1>4, <1>5, <1>6, <1>7, <1>8, <1>9, <1>10, <1>11, <1>12, Steps
     DEF LoopStep, ClosingStep

LEMMA TypesKept ==
  ASSUME IInv, [Next]_vars
  PROVE  InputTypes' /\ StreamTypes' /\ ThreadTypes'
<1> USE Names DEF IInv
<1>0. InputTypes /\ StreamTypes /\ ThreadTypes
  BY DEF TypeOK, InputTypes, StreamTypes, ThreadTypes
<1> DEFINE Goal == InputTypes' /\ StreamTypes' /\ ThreadTypes'
<1>1. UNCHANGED <<inputVars, contextVars, handlerVars>> => InputTypes'
  BY <1>0 DEF inputVars, contextVars, handlerVars, InputTypes
<1>2. UNCHANGED <<next_timestamp_bound_, shard, mirror>> => StreamTypes'
  BY <1>0 DEF StreamTypes
<1>3. UNCHANGED <<pc, localVars>> => ThreadTypes'
  BY <1>0 DEF localVars, ThreadTypes
<1>4. ASSUME NEW t \in Threads, NEW l \in PCs, Goto(t, l), UNCHANGED localVars
      PROVE  ThreadTypes'
  BY <1>0, <1>4 DEF Goto, localVars, ThreadTypes
<1>5. ASSUME NEW t \in Threads, NEW l \in PCs, Goto(t, l), UNCHANGED context_timestamp,
             NEW b \in Timestamps, bound' = [bound EXCEPT ![t] = b]
      PROVE  ThreadTypes'
  BY <1>0, <1>5 DEF Goto, ThreadTypes
<1>6. ASSUME NEW p \in Timestamps, NEW b \in Timestamps, p + 1 \in Timestamps, Receive(p, b)
      PROVE  mirror' \in [bound : Timestamps, last : Timestamps]
  BY <1>0, <1>6, Received DEF StreamTypes, TypeOK
<1>7. Done \in Timestamps /\ Unset \in Timestamps /\ Unset + 1 \in Timestamps
  BY DEF Timestamps, Unset, Done
<1>8. \A t \in Threads : bound[t] \in Timestamps
  BY <1>0 DEF ThreadTypes
<1>9. {"idle", "update", "process", "post", "end", "ended", "dropped", "close"} \cup SendPCs
        \subseteq PCs
  BY DEF PCs
<1>10. CASE UNCHANGED vars
  BY <1>1, <1>2, <1>3, <1>10 DEF vars, streamVars
<1>11. ASSUME NEW i \in Inputs, InputStep(i) PROVE Goal
  <2>1. CASE PacketArrives(i)
    <3>1. InputTypes'
      BY <1>0, <2>1 DEF PacketArrives, contextVars, handlerVars, InputTypes, Timestamps,
                        Inputs, Unset, Done
    <3> QED
      BY <1>2, <1>3, <2>1, <3>1 DEF PacketArrives, streamVars
  <2>2. CASE Process(i)
    <3>1. shard' \in [Inputs -> Shard]
      <4>1. PICK packet \in BOOLEAN, closes \in BOOLEAN :
              LET added == IF packet /\ ~closed_
                             THEN [ResetShard EXCEPT !.packet = TRUE, !.next = i + Offset + 1,
                                                     !.updated = i + Offset + 1]
                             ELSE ResetShard
              IN  shard' = [shard EXCEPT ![i] =
                              IF closes THEN [added EXCEPT !.closed = TRUE, !.next = Done,
                                                           !.updated = Done]
                                        ELSE added]
        BY <2>2 DEF Process
      <4>2. ResetShard \in Shard
        BY <1>0, <1>7 DEF ResetShard, Shard, StreamTypes, TypeOK
      <4>3. i + Offset + 1 \in Timestamps
        BY DEF Timestamps, Unset, Done, Inputs
      <4> QED
        BY <1>0, <1>7, <4>1, <4>2, <4>3 DEF StreamTypes, Shard
    <3>2. StreamTypes'
      BY <1>0, <2>2, <3>1 DEF Process, streamVars, StreamTypes
    <3> QED
      BY <1>1, <1>4, <1>9, <2>2, <3>2 DEF Process
  <2>3. CASE ProcessFails(i) \/ EndScheduling(i)
    BY <1>1, <1>2, <1>4, <1>9, <2>3 DEF ProcessFails, EndScheduling, streamVars
  <2>4. CASE PostProcess(i)
    <3> DEFINE D == completed_input_timestamps_'
    <3>1. D \in SUBSET Inputs /\ task_timestamp_bound_ \in Timestamps
      BY <1>0, <2>4 DEF PostProcess, InputTypes
    <3>2. /\ ThreadTypes'
          /\ propagation_state_' \in {propagation_state_, "kIdle", "kPropagatingPackets",
                                      "kPropagatingBound", "kPropagationPending"}
      <4>1. \/ LeavesToPropagationThread(i) \/ StopsPropagating(i)
            \/ MaySend(D) /\ PropagatesPackets(i, D)
            \/ PropagatesBound(i, task_timestamp_bound_)
        BY <2>4 DEF PostProcess, EntersLoop
      <4> HIDE DEF D
      <4> QED
        BY <1>0, <3>1, <4>1, HeadTypes
    <3>3. InputTypes'
      BY <1>0, <2>4, <3>1, <3>2 DEF PostProcess, inputVars, contextVars, InputTypes
    <3> QED
      BY <1>2, <2>4, <3>2, <3>3 DEF PostProcess, streamVars
  <2> QED
    BY <1>11, <2>1, <2>2, <2>3, <2>4 DEF InputStep
<1>12. ASSUME NEW b \in (2 .. MaxTs) \cup {Done}, BoundArrives(b) PROVE Goal
  <2>1. InputTypes'
    BY <1>0, <1>12 DEF BoundArrives, contextVars, handlerVars, InputTypes, Timestamps, Unset,
                       Done
  <2> QED
    BY <1>2, <1>3, <1>12, <2>1 DEF BoundArrives, streamVars
<1>13. CASE SchedulingStep
  <2>1. CASE ScheduleInvocation
    <3>1. Min(arrived) \in arrived /\ Min(arrived) \in Inputs
      BY <1>0, <2>1, Minimum DEF ScheduleInvocation, InputTypes
    <3>2. InputTypes'
      BY <1>0, <2>1, <3>1 DEF ScheduleInvocation, handlerVars, InputTypes
    <3> QED
      BY <1>2, <1>4, <1>9, <2>1, <3>1, <3>2 DEF ScheduleInvocation, streamVars
  <2>2. CASE ScheduleClose
    <3>1. InputTypes'
      BY <1>0, <2>2 DEF ScheduleClose, inputVars, handlerVars, InputTypes
    <3> QED
      BY <1>2, <1>4, <1>9, <2>2, <3>1 DEF ScheduleClose, streamVars
  <2>3. CASE NotReady
    <3>1. input_bound \in Timestamps
      BY <1>0 DEF InputTypes
    <3> QED
      BY <1>1, <1>2, <1>5, <1>9, <2>3, <3>1 DEF NotReady, streamVars
  <2>4. CASE UpdateTaskTimestampBound
    <3> DEFINE D == completed_input_timestamps_
               b == bound[Scheduling]
    <3>1. D \in SUBSET Inputs /\ b \in Timestamps
      BY <1>0, <1>8 DEF InputTypes
    <3>2. /\ ThreadTypes'
          /\ propagation_state_' \in {propagation_state_, "kIdle", "kPropagatingPackets",
                                      "kPropagatingBound", "kPropagationPending"}
      <4>1. \/ LeavesToPropagationThread(Scheduling) \/ StopsPropagating(Scheduling)
            \/ MaySend(D) /\ PropagatesPackets(Scheduling, D)
            \/ PropagatesBound(Scheduling, b)
            \/ Return(Scheduling) /\ UNCHANGED propagation_state_
        BY <2>4 DEF UpdateTaskTimestampBound, EntersLoop
      <4> HIDE DEF D, b
      <4> QED
        BY <1>0, <3>1, <4>1, HeadTypes
    <3>3. InputTypes'
      BY <1>0, <2>4, <3>1, <3>2 DEF UpdateTaskTimestampBound, inputVars, contextVars, InputTypes
    <3> QED
      BY <1>2, <2>4, <3>2, <3>3 DEF UpdateTaskTimestampBound, streamVars
  <2> QED
    BY <1>13, <2>1, <2>2, <2>3, <2>4 DEF SchedulingStep
<1>14. ASSUME NEW t \in Threads, SetBound(t) PROVE Goal
  <2>1. StreamTypes'
    BY <1>0, <1>8, <1>14 DEF SetBound, StreamTypes
  <2> QED
    BY <1>1, <1>4, <1>9, <1>14, <2>1 DEF SetBound, SendPCs
<1>15. ASSUME NEW t \in Threads, SendBound(t) PROVE Goal
  <2>1. StreamTypes'
    BY <1>0, <1>6, <1>7, <1>8, <1>15 DEF SendBound, streamVars, StreamTypes
  <2> QED
    BY <1>1, <1>4, <1>9, <1>15, <2>1 DEF SendBound, SendPCs
<1>16. ASSUME NEW t \in Threads, CloseStream(t) PROVE Goal
  <2>1. StreamTypes'
    BY <1>0, <1>6, <1>7, <1>16 DEF CloseStream, streamVars, StreamTypes
  <2> QED
    BY <1>1, <1>4, <1>9, <1>16, <2>1 DEF CloseStream, SendPCs
<1>17. ASSUME CloseNode PROVE Goal
  BY <1>1, <1>2, <1>5, <1>7, <1>9, <1>17 DEF CloseNode, streamVars, SendPCs
<1>18. ASSUME NEW t \in Loopers, LoopStep(t) PROVE Goal
  <2>1. CASE CheckClosed(t)
    <3>1. OutputTimestampBound(context_timestamp[t]) \in Timestamps
      <4>1. context_timestamp[t] \in Inputs
        BY <1>0, <2>1, Oldest DEF CheckClosed, PacketPCs, InputTypes
      <4> QED
        BY <4>1, OutputBound
    <3> QED
      BY <1>1, <1>2, <1>5, <1>9, <2>1, <3>1 DEF CheckClosed, streamVars, SendPCs
  <2>2. CASE Send(t)
    <3> DEFINE c == context_timestamp[t]
               p == IF shard[c].packet THEN c + Offset ELSE Unset
    <3>1. c \in Inputs
      BY <1>0, <2>2, Oldest DEF Send, PacketPCs, InputTypes
    <3>2. p \in Timestamps /\ p + 1 \in Timestamps
      BY <3>1 DEF Timestamps, Unset, Done, Inputs
    <3>3. Receive(p, bound[t])
      BY <2>2 DEF Send
    <3> HIDE DEF p
    <3>4. StreamTypes'
      BY <1>0, <1>6, <1>8, <2>2, <3>2, <3>3 DEF Send, streamVars, StreamTypes
    <3> QED
      BY <1>1, <1>4, <1>9, <2>2, <3>4 DEF Send, SendPCs
  <2>3. CASE Recycle(t)
    <3>1. Min(active_contexts_) \in Inputs /\ NoShard \in Shard
      <4>1. Min(active_contexts_) \in active_contexts_
        BY <2>3, Oldest DEF Recycle, PacketPCs
      <4> QED
        BY <1>0, <1>7, <4>1 DEF InputTypes, NoShard, Shard
    <3>2. InputTypes' /\ StreamTypes'
      BY <1>0, <2>3, <3>1 DEF Recycle, inputVars, handlerVars, streamVars, InputTypes,
                              StreamTypes
    <3> QED
      BY <1>4, <1>9, <2>3, <3>2 DEF Recycle, SendPCs
  <2>4. CASE EraseCompleted(t) \/ EndBound(t)
    <3> DEFINE D == completed_input_timestamps_'
    <3>1. D \in SUBSET Inputs /\ task_timestamp_bound_ \in Timestamps
      BY <1>0, <2>4 DEF EraseCompleted, EndBound, InputTypes
    <3>2. /\ ThreadTypes'
          /\ propagation_state_' \in {propagation_state_, "kIdle", "kPropagatingPackets",
                                      "kPropagatingBound", "kPropagationPending"}
      <4>1. \/ StopsPropagating(t)
            \/ MaySend(D) /\ PropagatesPackets(t, D)
            \/ PropagatesBound(t, task_timestamp_bound_)
        BY <2>4 DEF EraseCompleted, EndBound
      <4> HIDE DEF D
      <4> QED
        BY <1>0, <3>1, <4>1, HeadTypes
    <3>3. InputTypes'
      BY <1>0, <2>4, <3>1, <3>2 DEF EraseCompleted, EndBound, inputVars, contextVars, InputTypes
    <3> QED
      BY <1>2, <2>4, <3>2, <3>3 DEF EraseCompleted, EndBound, streamVars
  <2>5. CASE CheckBound(t)
    <3>1. bound[t] + Offset \in Timestamps
      <4>1. bound[t] \in InputBounds
        BY <2>5 DEF CheckBound, Bounds, BoundPCs, Source
      <4> QED
        BY <4>1 DEF InputBounds, Timestamps, Unset, Done
    <3> QED
      BY <1>1, <1>2, <1>5, <1>9, <2>5, <3>1 DEF CheckBound, streamVars, SendPCs
  <2> QED
    BY <1>14, <1>15, <1>16, <1>18, <2>1, <2>2, <2>3, <2>4, <2>5 DEF LoopStep
<1> QED
  BY <1>10, <1>11, <1>12, <1>13, <1>14, <1>15, <1>16, <1>17, <1>18, Steps DEF ClosingStep

LEMMA TypeOKKept ==
  ASSUME IInv, [Next]_vars
  PROVE  TypeOK'
<1>1. InputTypes' /\ StreamTypes' /\ ThreadTypes' /\ FlagTypes'
  BY TypesKept, FlagTypesKept
<1>2. (\A t \in Threads : pc'[t] # "erase") =>
        completed_input_timestamps_' \subseteq active_contexts_'
  BY CompletedKept, Names DEF Completed
<1> QED
  BY <1>1, <1>2, Zenon DEF TypeOK, InputTypes, StreamTypes, ThreadTypes, FlagTypes

-----------------------------------------------------------------------------
(* The stream. *)

\* What is received is a timestamp.
LEMMA Packets ==
  ASSUME IInv, NEW t \in Threads, Send(t)
  PROVE  LET c == context_timestamp[t]
             p == IF shard[c].packet THEN c + Offset ELSE Unset
         IN  /\ t \in Loopers /\ c \in Inputs /\ c \in active_contexts_
             /\ p \in Timestamps /\ p + 1 \in Timestamps
             /\ bound[t] \in Timestamps /\ Receive(p, bound[t])
<1>1. t \in Loopers
  BY Names DEF Send, IInv, Places
<1>2. context_timestamp[t] \in active_contexts_ /\ active_contexts_ \subseteq Inputs
  BY <1>1, Oldest DEF Send, PacketPCs, IInv, TypeOK
<1>3. bound[t] \in Timestamps
  BY DEF IInv, TypeOK
<1> DEFINE c == context_timestamp[t]
           p == IF shard[c].packet THEN c + Offset ELSE Unset
<1>4. c \in Inputs
  BY <1>2
<1>5. p \in Timestamps /\ p + 1 \in Timestamps
  BY <1>4, Names DEF Timestamps, Unset, Done, Inputs
<1>6. Receive(p, bound[t])
  BY DEF Send
<1> QED
  BY <1>1, <1>2, <1>3, <1>5, <1>6

LEMMA BoundReceived ==
  ASSUME IInv, NEW b \in Timestamps, Receive(Unset, b)
  PROVE  /\ mirror.bound <= mirror'.bound /\ b <= mirror'.bound
         /\ mirror'.bound = mirror.bound \/ mirror'.bound = b
         /\ mirror_error' => mirror_error \/ (b # Unset /\ b < mirror.bound)
<1>1. /\ mirror \in [bound : Timestamps, last : Timestamps]
      /\ mirror_error \in BOOLEAN /\ has_error \in BOOLEAN
  BY DEF IInv, TypeOK
<1>2. Unset \in Timestamps /\ Unset + 1 \in Timestamps
  BY Names DEF Timestamps, Unset, Done
<1> QED
  BY <1>1, <1>2, Received

\* The stream downstream is not ahead of the output that is about to be sent.
LEMMA RoomToSend ==
  ASSUME IInv, NEW t \in Loopers, pc[t] \in {"setBound", "send"}
  PROVE  mirror.bound <= context_timestamp[t] + Offset
<1> USE DEF IInv
<1>1. /\ context_timestamp[t] \in active_contexts_
      /\ ~prepared_context_for_close_ /\ pc[Closing] = "none" /\ ~closed_
  BY Oldest DEF PacketPCs, Sends
<1>2. \A u \in Loopers : pc[u] # "closeStream" /\ pc[u] # "recycle"
  BY OnlyOne DEF SendPCs
<1> QED
  BY <1>1, <1>2, Names DEF Room, Ahead

\* The stream downstream knows of the bound, unless a thread is about to send it.
LEMMA MirrorKnows ==
  ASSUME IInv, NEW t \in Loopers, pc[t] \in SendPCs, pc[t] \notin {"send", "sendBound"}
  PROVE  next_timestamp_bound_ <= mirror.bound \/ pc[Closing] = "sendBound"
<1>1. \A u \in Loopers : pc[u] \notin {"send", "sendBound"}
  BY OnlyOne DEF SendPCs
<1> QED
  BY <1>1, Names DEF IInv, Room, Places

\* Timestamp bounds only grow while invocations are there.
LEMMA BoundsGrow ==
  ASSUME IInv, [Next]_vars
  PROVE  /\ mirror.bound <= mirror'.bound
         /\ ~prepared_context_for_close_ => next_timestamp_bound_ <= next_timestamp_bound_'
         /\ closed_ => closed_'
<1> DEFINE Goal == /\ mirror.bound <= mirror'.bound
                   /\ ~prepared_context_for_close_ => next_timestamp_bound_ <= next_timestamp_bound_'
                   /\ closed_ => closed_'
<1>0. /\ mirror.bound \in Timestamps /\ next_timestamp_bound_ \in Timestamps
      /\ \A t \in Threads : bound[t] \in Timestamps
  BY DEF IInv, TypeOK
<1> USE Names DEF Timestamps, Unset, Done
<1>1. UNCHANGED <<streamVars, mirror>> => Goal
  BY <1>0 DEF streamVars
<1>2. CASE UNCHANGED vars
  BY <1>1, <1>2 DEF vars
<1>3. ASSUME NEW i \in Inputs, InputStep(i) PROVE Goal
  BY <1>1, <1>3 DEF InputStep, PacketArrives, Process, ProcessFails, PostProcess, EndScheduling
<1>4. ASSUME NEW b \in (2 .. MaxTs) \cup {Done}, BoundArrives(b) PROVE Goal
  BY <1>1, <1>4 DEF BoundArrives
<1>5. SchedulingStep => Goal
  BY <1>1 DEF SchedulingStep, ScheduleInvocation, ScheduleClose, NotReady,
              UpdateTaskTimestampBound
<1>6. ASSUME NEW t \in Threads, SetBound(t) PROVE Goal
  <2>1. ~prepared_context_for_close_ /\ t \in Loopers => next_timestamp_bound_ <= next_timestamp_bound_'
    <3>1. SUFFICES ASSUME ~prepared_context_for_close_, t \in Loopers
                   PROVE  next_timestamp_bound_ <= next_timestamp_bound_'
      OBVIOUS
    <3>2. CASE pc[t] = "setBound"
      <4>1. next_timestamp_bound_ <= mirror.bound
        BY <3>1, <3>2, Oldest, MirrorKnows DEF PacketPCs, SendPCs
      <4>2. /\ mirror.bound <= context_timestamp[t] + Offset
            /\ bound[t] \in {Unset, context_timestamp[t] + Offset + 1, Done}
        BY <3>1, <3>2, RoomToSend DEF IInv, Sends
      <4>3. context_timestamp[t] \in Inputs
        BY <3>1, <3>2, Oldest DEF PacketPCs, IInv, TypeOK
      <4> QED
        BY <1>0, <1>6, <4>1, <4>2, <4>3 DEF SetBound, Inputs
    <3>3. CASE pc[t] = "setOnlyBound"
      BY <1>0, <1>6, <3>1, <3>3 DEF SetBound, IInv, Bounds, BoundPCs
    <3> QED
      BY <1>6, <3>2, <3>3 DEF SetBound
  <2>2. t = Closing => prepared_context_for_close_
    BY <1>6 DEF SetBound, IInv, ClosesLast
  <2> QED
    BY <1>0, <1>6, <2>1, <2>2 DEF SetBound
<1>7. ASSUME NEW t \in Threads, Send(t) PROVE Goal
  <2>1. mirror.bound <= mirror'.bound
    BY <1>7, Packets, Received DEF IInv, TypeOK
  <2> QED
    BY <1>0, <1>7, <2>1 DEF Send, streamVars
<1>8. ASSUME NEW t \in Threads, SendBound(t) PROVE Goal
  <2>1. mirror.bound <= mirror'.bound
    BY <1>0, <1>8, BoundReceived DEF SendBound
  <2> QED
    BY <1>0, <1>8, <2>1 DEF SendBound, streamVars
<1>9. ASSUME NEW t \in Threads, CloseStream(t) PROVE Goal
  <2>1. Done \in Timestamps
    OBVIOUS
  <2>2. ~closed_ => mirror.bound <= mirror'.bound
    BY <1>0, <1>9, <2>1, BoundReceived DEF CloseStream
  <2> QED
    BY <1>0, <1>1, <1>9, <2>2 DEF CloseStream
<1>10. ASSUME NEW t \in Threads,
              \/ CheckClosed(t) \/ Recycle(t) \/ EraseCompleted(t) \/ CheckBound(t) \/ EndBound(t)
       PROVE  Goal
  BY <1>1, <1>10 DEF CheckClosed, Recycle, EraseCompleted, CheckBound, EndBound
<1>11. CloseNode => Goal
  BY <1>1 DEF CloseNode
<1>12. Places
  BY DEF IInv
<1> QED
  BY <1>2, <1>3, <1>4, <1>5, <1>6, <1>7, <1>8, <1>9, <1>10, <1>11, <1>12, Steps
     DEF LoopStep, ClosingStep

LEMMA OutputsKept ==
  ASSUME IInv, [Next]_vars
  PROVE  Outputs'
<1> USE Names DEF IInv
<1>0. /\ pc \in [Threads -> PCs] /\ shard \in [Inputs -> Shard]
      /\ active_contexts_ \in SUBSET Inputs /\ next_timestamp_bound_ \in Timestamps
      /\ completed_input_timestamps_ \in SUBSET Inputs /\ arrived \in SUBSET Inputs
  BY DEF TypeOK
<1>1. next_timestamp_bound_' \in Timestamps
  BY TypeOKKept DEF TypeOK
<1>2. active_contexts_ # {} => next_timestamp_bound_ <= next_timestamp_bound_'
  BY BoundsGrow DEF ClosesLast
<1> DEFINE Out(s, i, b) ==
      /\ s.updated \in {Unset, i + Offset + 1, Done}
      /\ s.packet => s.updated # Unset
      /\ s.updated = Done => s.closed
      /\ s.updated = Unset => s.next <= b
    Has(i) == i \in active_contexts_ /\ (pc[i] = "post" \/ i \in completed_input_timestamps_)
    HasNow(i) == i \in active_contexts_' /\ (pc'[i] = "post" \/ i \in completed_input_timestamps_')
    Same(i) == HasNow(i) => Has(i) /\ shard'[i] = shard[i]
<1>3. ASSUME NEW i \in Inputs, Has(i) PROVE Out(shard[i], i, next_timestamp_bound_)
  BY <1>3 DEF Outputs
<1>4. ASSUME NEW i \in Inputs, Same(i), HasNow(i) PROVE Out(shard'[i], i, next_timestamp_bound_')
  <2>1. shard[i].next \in Timestamps
    BY <1>0 DEF Shard
  <2> QED
    BY <1>0, <1>1, <1>2, <1>3, <1>4, <2>1 DEF Timestamps, Unset, Done
<1>5. ASSUME \A i \in Inputs : HasNow(i) => Out(shard'[i], i, next_timestamp_bound_')
      PROVE  Outputs'
  <2>1. active_contexts_' \subseteq Inputs
    BY TypeOKKept DEF TypeOK
  <2> QED
    BY <1>5, <2>1 DEF Outputs
<1> DEFINE Frame == \A i \in Inputs : Same(i)
<1>6. Frame => Outputs'
  BY <1>4, <1>5
<1> HIDE DEF Out
<1> USE <1>0
<1>7. CASE UNCHANGED vars
  BY <1>6, <1>7 DEF vars, contextVars, handlerVars
<1>8. ASSUME NEW i \in Inputs, InputStep(i) PROVE Outputs'
  <2>1. CASE Process(i)
    <3>1. PICK packet \in BOOLEAN, closes \in BOOLEAN :
            LET added == IF packet /\ ~closed_
                           THEN [ResetShard EXCEPT !.packet = TRUE, !.next = i + Offset + 1,
                                                   !.updated = i + Offset + 1]
                           ELSE ResetShard
            IN  shard' = [shard EXCEPT ![i] =
                            IF closes THEN [added EXCEPT !.closed = TRUE, !.next = Done,
                                                         !.updated = Done]
                                      ELSE added]
      BY <2>1 DEF Process
    <3>2. /\ next_timestamp_bound_' = next_timestamp_bound_
          /\ UNCHANGED <<active_contexts_, completed_input_timestamps_>>
          /\ \A x \in Inputs \ {i} : pc'[x] = pc[x] /\ shard'[x] = shard[x]
      BY <2>1, <3>1 DEF Process, Goto, contextVars, handlerVars, streamVars
    <3>3. \A x \in Inputs \ {i} : Same(x)
      BY <3>2
    <3>4. Out(shard'[i], i, next_timestamp_bound_')
      <4>1. i + Offset + 1 # Unset /\ Done # Unset /\ i + Offset + 1 < Done
        BY DEF Unset, Done, Inputs
      <4>2. next_timestamp_bound_ <= next_timestamp_bound_
        BY DEF Timestamps
      <4>3. i + Offset + 1 # Done
        BY DEF Done, Inputs
      <4> QED
        BY <3>1, <3>2, <4>1, <4>2, <4>3 DEF ResetShard, Out
    <3> QED
      BY <1>4, <1>5, <3>3, <3>4
  <2>2. CASE PacketArrives(i) \/ ProcessFails(i) \/ EndScheduling(i)
    BY <1>6, <2>2 DEF PacketArrives, ProcessFails, EndScheduling, Goto, contextVars, handlerVars
  <2>3. CASE PostProcess(i)
    BY <1>6, <2>3 DEF PostProcess, LeavesToPropagationThread, EntersLoop, PropagatesPackets,
                      PropagatesBound, StopsPropagating, Return, Goto, contextVars
  <2> QED
    BY <1>8, <2>1, <2>2, <2>3 DEF InputStep
<1>9. ASSUME NEW b \in (2 .. MaxTs) \cup {Done}, BoundArrives(b) PROVE Outputs'
  BY <1>6, <1>9 DEF BoundArrives, contextVars, handlerVars
<1>10. CASE SchedulingStep
  <2>1. CASE ScheduleInvocation
    <3>1. /\ Min(arrived) \in arrived /\ Min(arrived) \in Inputs
          /\ \A x \in completed_input_timestamps_ : x < Min(arrived)
      BY <2>1, Minimum DEF ScheduleInvocation, Order
    <3>2. Min(arrived) \notin completed_input_timestamps_
      <4>1. \A x \in Inputs : ~(x < x)
        BY DEF Inputs
      <4> QED
        BY <3>1, <4>1
    <3> QED
      BY <1>6, <2>1, <3>1, <3>2 DEF ScheduleInvocation, Goto, handlerVars
  <2>2. CASE ScheduleClose \/ NotReady
    BY <1>6, <2>2 DEF ScheduleClose, NotReady, Goto, contextVars, handlerVars
  <2>3. CASE UpdateTaskTimestampBound
    BY <1>6, <2>3 DEF UpdateTaskTimestampBound, LeavesToPropagationThread, EntersLoop,
         PropagatesPackets, PropagatesBound, StopsPropagating, Return, Goto, contextVars
  <2> QED
    BY <1>10, <2>1, <2>2, <2>3 DEF SchedulingStep
<1>11. ASSUME NEW t \in Threads,
              CheckClosed(t) \/ SetBound(t) \/ Send(t) \/ CloseStream(t)
       PROVE  Outputs'
  BY <1>6, <1>11 DEF CheckClosed, SetBound, Send, CloseStream, Goto, contextVars, handlerVars
<1>12. ASSUME NEW t \in Threads, CheckBound(t) \/ SendBound(t)
       PROVE  Outputs'
  BY <1>6, <1>12 DEF CheckBound, SendBound, Goto, contextVars, handlerVars
<1>13. ASSUME NEW t \in Threads, EraseCompleted(t) \/ EndBound(t)
       PROVE  Outputs'
  BY <1>6, <1>13 DEF EraseCompleted, EndBound, PropagatesPackets, PropagatesBound,
                     StopsPropagating, Return, Goto, contextVars
<1>14. ASSUME NEW t \in Threads, Recycle(t) PROVE Outputs'
  BY <1>6, <1>14 DEF Recycle, Goto, handlerVars
<1>15. CloseNode => Outputs'
  BY <1>6 DEF CloseNode, Goto, contextVars, handlerVars
<1> QED
  BY <1>7, <1>8, <1>9, <1>10, <1>11, <1>12, <1>13, <1>14, <1>15, Steps
     DEF LoopStep, ClosingStep

LEMMA OffsetKept ==
  ASSUME IInv, [Next]_vars
  PROVE  offset_enabled' = offset_enabled
<1>1. Places
  BY DEF IInv
<1>2. \A i \in Inputs : InputStep(i) => UNCHANGED offset_enabled
  BY DEF InputStep, PacketArrives, Process, ProcessFails, PostProcess, EndScheduling
<1>3. SchedulingStep => UNCHANGED offset_enabled
  BY DEF SchedulingStep, ScheduleInvocation, ScheduleClose, NotReady, UpdateTaskTimestampBound
<1>4. \A t \in Loopers : LoopStep(t) => UNCHANGED offset_enabled
  BY DEF LoopStep, CheckClosed, SetBound, Send, CloseStream, Recycle, EraseCompleted,
         CheckBound, SendBound, EndBound
<1>5. ClosingStep => UNCHANGED offset_enabled
  BY DEF ClosingStep, CloseNode, SetBound, SendBound, CloseStream
<1> QED
  BY <1>1, <1>2, <1>3, <1>4, <1>5, Steps DEF BoundArrives, vars

LEMMA SendsKept ==
  ASSUME IInv, [Next]_vars
  PROVE  Sends'
<1> USE Names DEF IInv
<1>0. /\ pc \in [Threads -> PCs] /\ shard \in [Inputs -> Shard]
      /\ context_timestamp \in [Threads -> 0 .. MaxTs] /\ bound \in [Threads -> Timestamps]
      /\ active_contexts_ \in SUBSET Inputs /\ arrived \in SUBSET Inputs
      /\ mirror.bound \in Timestamps /\ mirror'.bound \in Timestamps
      /\ mirror.bound <= mirror'.bound /\ next_timestamp_bound_ \in Timestamps
  BY TypeOKKept, BoundsGrow DEF TypeOK
<1>1. offset_enabled' = offset_enabled
  BY OffsetKept
<1> DEFINE Ready(t, c, s) ==
      /\ ~closed_
      /\ bound[t] \in {Unset, c + Offset + 1, Done}
      /\ s.packet => bound[t] # Unset
      /\ bound[t] = Done => s.closed
      /\ offset_enabled => bound[t] > c + Offset \/ mirror.bound > c + Offset
    Sending(t) == LET c == context_timestamp[t] IN
      /\ pc[t] \in {"setBound", "send"} => Ready(t, c, shard[c])
      /\ pc[t] = "send" => bound[t] = Unset \/ bound[t] = next_timestamp_bound_
      /\ pc[t] \in {"recycle", "erase"} /\ offset_enabled => mirror.bound > c + Offset
    Same(t) == pc'[t] \in {"setBound", "send", "recycle", "erase"} =>
      /\ pc[t] = pc'[t] /\ context_timestamp'[t] = context_timestamp[t] /\ bound'[t] = bound[t]
      /\ pc[t] \in {"setBound", "send"} =>
           /\ shard'[context_timestamp[t]] = shard[context_timestamp[t]]
           /\ UNCHANGED <<closed_, next_timestamp_bound_>>
<1>2. ASSUME NEW t \in Loopers PROVE Sending(t)
  BY DEF Sends
<1>3. ASSUME NEW t \in Loopers, Same(t) PROVE Sending(t)'
  <2>1. context_timestamp[t] \in Int /\ bound[t] \in Int
    BY <1>0 DEF Timestamps
  <2> QED
    BY <1>0, <1>1, <1>2, <1>3, <2>1 DEF Timestamps
<1>4. ASSUME \A t \in Loopers : Sending(t)' PROVE Sends'
  BY <1>4 DEF Sends
<1> HIDE DEF Ready
<1> DEFINE Frame == \A t \in Loopers : Same(t)
<1>5. Frame => Sends'
  BY <1>3, <1>4
<1>6. CASE UNCHANGED vars
  BY <1>5, <1>6 DEF vars, streamVars, localVars
<1> USE <1>0
<1>7. ASSUME NEW i \in Inputs, InputStep(i) PROVE Sends'
  <2>1. CASE Process(i)
    <3>1. \A t \in Loopers :
            pc[t] \in {"setBound", "send"} => shard'[context_timestamp[t]] = shard[context_timestamp[t]]
      <4>1. ASSUME NEW t \in Loopers, pc[t] \in {"setBound", "send"} PROVE context_timestamp[t] # i
        BY <2>1, <4>1 DEF Process, Completed, PacketPCs
      <4> QED
        BY <2>1, <4>1 DEF Process
    <3> QED
      BY <1>5, <2>1, <3>1 DEF Process, Goto, streamVars, localVars
  <2>2. CASE PacketArrives(i) \/ ProcessFails(i) \/ EndScheduling(i)
    BY <1>5, <2>2 DEF PacketArrives, ProcessFails, EndScheduling, Goto, streamVars, localVars
  <2>3. CASE PostProcess(i)
    BY <1>5, <2>3 DEF PostProcess, LeavesToPropagationThread, EntersLoop, PropagatesPackets,
                      PropagatesBound, StopsPropagating, Return, Goto, streamVars
  <2> QED
    BY <1>7, <2>1, <2>2, <2>3 DEF InputStep
<1>8. ASSUME NEW b \in (2 .. MaxTs) \cup {Done}, BoundArrives(b) PROVE Sends'
  BY <1>5, <1>8 DEF BoundArrives, streamVars, localVars
<1>9. CASE SchedulingStep
  <2>1. CASE ScheduleInvocation
    <3>1. Min(arrived) \in Inputs
      BY <2>1, Minimum DEF ScheduleInvocation
    <3> QED
      BY <1>5, <2>1, <3>1 DEF ScheduleInvocation, Goto, streamVars, localVars
  <2>2. CASE ScheduleClose \/ NotReady
    BY <1>5, <2>2 DEF ScheduleClose, NotReady, Goto, streamVars, localVars
  <2>3. CASE UpdateTaskTimestampBound
    BY <1>5, <2>3 DEF UpdateTaskTimestampBound, LeavesToPropagationThread, EntersLoop,
         PropagatesPackets, PropagatesBound, StopsPropagating, Return, Goto, streamVars
  <2> QED
    BY <1>9, <2>1, <2>2, <2>3 DEF SchedulingStep
<1>10. ASSUME NEW t \in Loopers, LoopStep(t) PROVE Sends'
  <2> DEFINE c == context_timestamp[t]
  <2>0. ASSUME Sending(t)', \A u \in Loopers \ {t} : pc'[u] = pc[u], pc[t] \in SendPCs
        PROVE  Sends'
    <3>1. \A u \in Loopers \ {t} : pc'[u] \notin {"setBound", "send", "recycle", "erase"}
      BY <2>0, OnlyOne DEF SendPCs
    <3> QED
      BY <1>3, <1>4, <2>0, <3>1
  <2>1. CASE CheckClosed(t)
    <3>1. /\ pc[t] = "checkClosed" /\ bound'[t] = OutputTimestampBound(c)
          /\ pc' = [pc EXCEPT ![t] = IF closed_ THEN "recycle" ELSE "setBound"]
          /\ UNCHANGED <<closed_, shard, mirror, next_timestamp_bound_, context_timestamp>>
      BY <2>1 DEF CheckClosed, Goto, streamVars
    <3>2. /\ c \in Inputs /\ c \in active_contexts_ /\ c \in completed_input_timestamps_
          /\ pc[Closing] = "none"
      BY <3>1, Oldest DEF PacketPCs
    <3>3. /\ shard[c].updated \in {Unset, c + Offset + 1, Done}
          /\ shard[c].packet => shard[c].updated # Unset
          /\ shard[c].updated = Done => shard[c].closed
          /\ shard[c].updated = Unset => shard[c].next <= next_timestamp_bound_
      BY <3>2 DEF Outputs
    <3>4. next_timestamp_bound_ <= mirror.bound
      BY <3>1, <3>2, MirrorKnows DEF SendPCs
    <3>5. shard[c].updated \in Timestamps /\ shard[c].next \in Timestamps
      BY <3>2 DEF Shard
    <3> DEFINE ts == OutputTimestampBound(c)
    <3>6. /\ ts \in Timestamps
          /\ ts \in {shard[c].updated, c + 1 + Offset} /\ shard[c].updated <= ts
          /\ ~offset_enabled => ts = shard[c].updated
          /\ offset_enabled => c + Offset < ts \/ c + Offset < shard[c].next
      BY <3>2, OutputBound
    <3>7. bound'[t] = ts
      BY <3>1
    <3> HIDE DEF ts
    <3>8. CASE closed_
      <4>1. offset_enabled => mirror.bound > c + Offset
        BY <3>2, <3>8 DEF Room, Done, Inputs
      <4>2. Sending(t)'
        BY <1>1, <3>1, <3>8, <4>1
      <4> QED
        BY <2>0, <3>1, <4>2 DEF SendPCs
    <3>9. CASE ~closed_
      <4>1. ts \in {Unset, c + Offset + 1, Done}
        BY <3>2, <3>3, <3>6 DEF Inputs
      <4>2. shard[c].packet => ts # Unset
        BY <3>2, <3>3, <3>5, <3>6 DEF Timestamps, Unset, Done, Inputs
      <4>3. ts = Done => shard[c].closed
        BY <3>2, <3>3, <3>6 DEF Done, Inputs
      <4>4. offset_enabled => ts > c + Offset \/ mirror.bound > c + Offset
        BY SMTT(30), <3>2, <3>3, <3>4, <3>5, <3>6 DEF Timestamps, Unset, Done, Inputs
      <4>5. Ready(t, c, shard[c])'
        BY <1>1, <3>1, <3>7, <3>9, <4>1, <4>2, <4>3, <4>4 DEF Ready, Unset, Done
      <4>6. Sending(t)'
        BY <3>1, <3>9, <4>5
      <4> QED
        BY <2>0, <3>1, <4>6 DEF SendPCs
    <3> QED
      BY <3>8, <3>9
  <2>2. CASE SetBound(t)
    <3>1. CASE pc[t] = "setBound"
      <4>1. /\ UNCHANGED <<closed_, shard, mirror, bound, context_timestamp>>
            /\ pc' = [pc EXCEPT ![t] = "send"]
            /\ next_timestamp_bound_' = IF bound[t] = Unset THEN next_timestamp_bound_ ELSE bound[t]
        BY <2>2, <3>1 DEF SetBound, Goto, localVars
      <4>2. Ready(t, c, shard[c])'
        BY <1>1, <1>2, <3>1, <4>1 DEF Ready
      <4>3. Sending(t)'
        BY <4>1, <4>2
      <4> QED
        BY <2>0, <3>1, <4>1, <4>3 DEF SendPCs
    <3>2. CASE pc[t] = "setOnlyBound"
      <4>1. /\ pc'[t] = "sendBound" /\ \A u \in Loopers \ {t} : pc'[u] = pc[u]
        BY <2>2, <3>2 DEF SetBound, Goto
      <4> QED
        BY <2>0, <3>2, <4>1 DEF SendPCs
    <3> QED
      BY <2>2, <3>1, <3>2 DEF SetBound
  <2>3. CASE Send(t)
    <3>1. /\ pc[t] = "send" /\ UNCHANGED <<shard, bound, context_timestamp>>
          /\ pc' = [pc EXCEPT ![t] = IF shard[c].closed THEN "closeStream" ELSE "recycle"]
      BY <2>3 DEF Send, Goto, localVars
    <3>2. bound[t] <= mirror'.bound
      BY <2>3, Packets, Received DEF TypeOK
    <3>3. c \in Inputs /\ bound[t] \in Int
      BY <3>1, Oldest DEF PacketPCs, Timestamps
    <3>4. offset_enabled => bound[t] > c + Offset \/ mirror.bound > c + Offset
      BY <1>2, <3>1 DEF Ready
    <3>5. offset_enabled => mirror'.bound > c + Offset
      BY <3>2, <3>3, <3>4 DEF Timestamps
    <3>6. Sending(t)'
      BY <1>1, <3>1, <3>5
    <3> QED
      BY <2>0, <3>1, <3>6 DEF SendPCs
  <2>4. CASE CloseStream(t)
    <3>1. /\ pc[t] = "closeStream" /\ UNCHANGED <<shard, bound, context_timestamp>>
          /\ pc' = [pc EXCEPT ![t] = "recycle"]
      BY <2>4 DEF CloseStream, Goto, localVars
    <3>2. Done <= mirror'.bound
      <4>1. CASE closed_
        BY <2>4, <4>1 DEF CloseStream, Room, Done
      <4>2. CASE ~closed_
        BY <2>4, <4>2, BoundReceived DEF CloseStream, Timestamps, Unset, Done
      <4> QED
        BY <4>1, <4>2
    <3>3. c \in Inputs
      BY <3>1, Oldest DEF PacketPCs
    <3>4. mirror'.bound > c + Offset
      BY <3>2, <3>3 DEF Timestamps, Done, Inputs
    <3>5. Sending(t)'
      BY <3>1, <3>4
    <3> QED
      BY <2>0, <3>1, <3>5 DEF SendPCs
  <2>5. CASE Recycle(t)
    <3>1. /\ pc[t] = "recycle" /\ UNCHANGED <<bound, context_timestamp, mirror>>
          /\ pc' = [pc EXCEPT ![t] = "erase"]
      BY <2>5 DEF Recycle, Goto, localVars
    <3>2. Sending(t)'
      BY <1>1, <1>2, <3>1
    <3> QED
      BY <2>0, <3>1, <3>2 DEF SendPCs
  <2>6. CASE EraseCompleted(t) \/ EndBound(t)
    BY <1>5, <2>6 DEF EraseCompleted, EndBound, PropagatesPackets, PropagatesBound,
                      StopsPropagating, Return, Goto, streamVars
  <2>7. CASE CheckBound(t) \/ SendBound(t)
    BY <1>5, <2>7 DEF CheckBound, SendBound, Goto, streamVars, localVars
  <2> QED
    BY <1>10, <2>1, <2>2, <2>3, <2>4, <2>5, <2>6, <2>7 DEF LoopStep
<1>11. CASE ClosingStep
  <2>1. /\ \A t \in Loopers : pc'[t] = pc[t] /\ bound'[t] = bound[t]
        /\ UNCHANGED <<shard, context_timestamp>>
    BY <1>11 DEF ClosingStep, CloseNode, SetBound, SendBound, CloseStream, Goto, localVars
  <2>2. prepared_context_for_close_
    BY <1>11 DEF ClosingStep, CloseNode, SetBound, SendBound, CloseStream, ClosesLast
  <2>3. \A t \in Loopers : pc[t] \notin {"setBound", "send"}
    BY <2>2, Oldest DEF PacketPCs
  <2> QED
    BY <1>5, <2>1, <2>3
<1> QED
  BY <1>6, <1>7, <1>8, <1>9, <1>10, <1>11, Steps

LEMMA RoomKept ==
  ASSUME IInv, [Next]_vars
  PROVE  Room'
<1> USE Names DEF IInv
<1> DEFINE Coming == active_contexts_ \cup arrived \cup {input_bound}
           Open == /\ ~prepared_context_for_close_ /\ ~closed_
                   /\ \A t \in Threads : pc[t] # "closeStream"
           R1 == Open => \A x \in Coming : mirror.bound <= x + Offset \/ Ahead(x)
           R2 == ~prepared_context_for_close_ => mirror.bound <= next_timestamp_bound_
           R3 == \/ next_timestamp_bound_ <= mirror.bound
                 \/ \E t \in Threads : pc[t] \in {"send", "sendBound"} /\ bound[t] = next_timestamp_bound_
           R4 == closed_ => mirror.bound = Done
<1>0. /\ pc \in [Threads -> PCs] /\ bound \in [Threads -> Timestamps]
      /\ context_timestamp \in [Threads -> 0 .. MaxTs]
      /\ active_contexts_ \in SUBSET Inputs /\ arrived \in SUBSET Inputs
      /\ input_bound \in Timestamps /\ next_timestamp_bound_ \in Timestamps
      /\ mirror.bound \in Timestamps /\ mirror'.bound \in Timestamps
      /\ mirror.bound <= mirror'.bound
  BY TypeOKKept, BoundsGrow DEF TypeOK
<1> USE <1>0
<1>1. R1 /\ R2 /\ R3 /\ R4
  BY DEF Room
<1>2. ASSUME R1', R2', R3', R4' PROVE Room'
  BY <1>2, Zenon DEF Room
<1>3. \A x \in Coming : x \in Int
  BY DEF Timestamps
<1>4. \A t \in Loopers : pc[t] = "recycle" => context_timestamp[t] \in active_contexts_
  BY DEF Completed, PacketPCs
<1> DEFINE Frame ==
      /\ UNCHANGED <<next_timestamp_bound_, closed_, mirror>>
      /\ prepared_context_for_close_ => prepared_context_for_close_'
      /\ \A t \in Threads : pc[t] \in {"send", "sendBound", "closeStream", "recycle"} =>
           /\ pc'[t] = pc[t] /\ bound'[t] = bound[t]
           /\ context_timestamp'[t] = context_timestamp[t]
      /\ \A x \in Coming' : x \in Coming \/ x >= input_bound
<1>5. ASSUME Frame PROVE Room'
  <2>1. R1'
    <3>1. SUFFICES ASSUME Open', NEW x \in Coming' PROVE mirror.bound <= x + Offset \/ Ahead(x)'
      BY <1>5
    <3>2. Open
      BY <1>5, <3>1
    <3>3. \A y \in Coming : Ahead(y) => Ahead(y)'
      BY <1>5 DEF Ahead
    <3>4. CASE x \in Coming
      BY <1>1, <3>2, <3>3, <3>4
    <3>5. CASE x >= input_bound
      <4>1. ~Ahead(input_bound)
        <5>1. \A y \in active_contexts_ : y < input_bound
          BY DEF Order
        <5>2. ~(input_bound < input_bound)
          BY DEF Timestamps
        <5> QED
          BY <1>4, <5>1, <5>2 DEF Ahead
      <4>2. mirror.bound <= input_bound + Offset
        BY <1>1, <3>2, <4>1
      <4>3. x \in Int
        <5>1. /\ active_contexts_' \subseteq Inputs /\ arrived' \subseteq Inputs
              /\ input_bound' \in Timestamps
          BY TypeOKKept DEF TypeOK
        <5> QED
          BY <3>1, <5>1 DEF Timestamps
      <4> QED
        BY <3>5, <4>2, <4>3 DEF Timestamps
    <3> QED
      BY <1>5, <3>1, <3>4, <3>5
  <2>2. R2' /\ R3' /\ R4'
    BY <1>1, <1>5
  <2> QED
    BY <1>2, <2>1, <2>2
<1>6. CASE UNCHANGED vars
  BY <1>5, <1>6 DEF vars, inputVars, contextVars, streamVars, localVars
<1>7. ASSUME NEW i \in Inputs, InputStep(i) PROVE Room'
  <2>1. CASE PacketArrives(i)
    <3>1. \A x \in Coming' : x \in Coming \/ x >= input_bound
      BY <2>1 DEF PacketArrives, contextVars, Inputs, Timestamps
    <3> QED
      BY <1>5, <2>1, <3>1 DEF PacketArrives, contextVars, streamVars, localVars
  <2>2. CASE Process(i) \/ ProcessFails(i) \/ EndScheduling(i)
    BY <1>5, <2>2 DEF Process, ProcessFails, EndScheduling, Goto, inputVars, contextVars,
                      streamVars, localVars
  <2>3. CASE PostProcess(i)
    BY <1>5, <2>3 DEF PostProcess, LeavesToPropagationThread, EntersLoop, PropagatesPackets,
         PropagatesBound, StopsPropagating, Return, Goto, inputVars, contextVars, streamVars
  <2> QED
    BY <1>7, <2>1, <2>2, <2>3 DEF InputStep
<1>8. ASSUME NEW b \in (2 .. MaxTs) \cup {Done}, BoundArrives(b) PROVE Room'
  <2>1. \A x \in Coming' : x \in Coming \/ x >= input_bound
    BY <1>8 DEF BoundArrives, contextVars, Timestamps, Done
  <2> QED
    BY <1>5, <1>8, <2>1 DEF BoundArrives, contextVars, streamVars, localVars
<1>9. CASE SchedulingStep
  <2>1. CASE ScheduleInvocation
    <3>1. Min(arrived) \in arrived /\ pc[Min(arrived)] = "none"
      BY <2>1, Minimum DEF ScheduleInvocation, Order
    <3>2. \A x \in Coming' : x \in Coming
      BY <2>1, <3>1 DEF ScheduleInvocation
    <3> QED
      BY <1>5, <2>1, <3>1, <3>2 DEF ScheduleInvocation, Goto, streamVars, localVars
  <2>2. CASE ScheduleClose
    BY <1>5, <2>2 DEF ScheduleClose, ClosesLast, Goto, inputVars, contextVars, streamVars, localVars
  <2>3. CASE NotReady
    BY <1>5, <2>3 DEF NotReady, MaySchedule, Goto, inputVars, contextVars, streamVars, localVars
  <2>4. CASE UpdateTaskTimestampBound
    BY <1>5, <2>4 DEF UpdateTaskTimestampBound, LeavesToPropagationThread, EntersLoop,
         PropagatesPackets, PropagatesBound, StopsPropagating, Return, Goto, inputVars,
         contextVars, streamVars
  <2> QED
    BY <1>9, <2>1, <2>2, <2>3, <2>4 DEF SchedulingStep
<1>10. ASSUME NEW t \in Threads, CheckClosed(t) \/ CheckBound(t) PROVE Room'
  BY <1>5, <1>10 DEF CheckClosed, CheckBound, Goto, inputVars, contextVars, streamVars
<1>11. ASSUME NEW t \in Threads, EraseCompleted(t) \/ EndBound(t) PROVE Room'
  BY <1>5, <1>11 DEF EraseCompleted, EndBound, PropagatesPackets, PropagatesBound,
                     StopsPropagating, Return, Goto, inputVars, contextVars, streamVars
<1>12. CloseNode => Room'
  BY <1>5 DEF CloseNode, Goto, inputVars, contextVars, streamVars
<1>13. ASSUME NEW t \in Threads, SetBound(t) PROVE Room'
  <2>1. /\ UNCHANGED <<inputVars, contextVars, closed_, mirror, localVars>>
        /\ next_timestamp_bound_' = IF bound[t] = Unset THEN next_timestamp_bound_ ELSE bound[t]
        /\ pc[t] \in {"setBound", "setOnlyBound"}
        /\ pc' = [pc EXCEPT ![t] = IF pc[t] = "setBound" THEN "send" ELSE "sendBound"]
    BY <1>13 DEF SetBound, Goto
  <2>2. R1'
    BY <1>1, <2>1 DEF inputVars, contextVars, localVars, Ahead
  <2>3. R2'
    BY <1>1, <2>1, BoundsGrow DEF contextVars, Timestamps
  <2>4. R3'
    BY <1>1, <2>1 DEF localVars
  <2> QED
    BY <1>1, <1>2, <2>1, <2>2, <2>3, <2>4
<1>14. ASSUME NEW t \in Threads, Send(t) PROVE Room'
  <2> DEFINE c == context_timestamp[t]
             p == IF shard[c].packet THEN c + Offset ELSE Unset
  <2>1. /\ UNCHANGED <<inputVars, contextVars, streamVars, localVars, shard>> /\ pc[t] = "send"
        /\ pc' = [pc EXCEPT ![t] = IF shard[c].closed THEN "closeStream" ELSE "recycle"]
    BY <1>14 DEF Send, Goto
  <2>2. /\ t \in Loopers /\ c \in Inputs /\ c \in active_contexts_
        /\ bound[t] <= mirror'.bound
        /\ \/ mirror'.bound = mirror.bound \/ mirror'.bound = bound[t]
           \/ p # Unset /\ mirror'.bound = p + 1
    BY <1>14, Packets, Received DEF TypeOK
  <2>3. /\ bound[t] \in {Unset, c + Offset + 1, Done}
        /\ shard[c].packet => bound[t] # Unset
        /\ bound[t] = Done => shard[c].closed
        /\ bound[t] = Unset \/ bound[t] = next_timestamp_bound_
    BY <2>1, <2>2 DEF Sends
  <2>4. p # Unset => shard[c].packet /\ p + 1 = c + Offset + 1
    BY <2>2 DEF Inputs
  <2> HIDE DEF p
  <2>5. mirror.bound <= c + Offset
    BY <2>1, <2>2, RoomToSend
  <2>6. R1'
    <3>1. SUFFICES ASSUME Open', NEW x \in Coming PROVE mirror'.bound <= x + Offset \/ Ahead(x)'
      BY <2>1 DEF inputVars, contextVars
    <3>2. ~shard[c].closed /\ pc'[t] = "recycle"
      BY <2>1, <2>2, <3>1
    <3>3. mirror'.bound <= c + Offset + 1
      BY <2>2, <2>3, <2>4, <2>5, <3>2 DEF Timestamps, Unset, Done, Inputs
    <3>4. c <= x
      BY <2>1, <2>2 DEF Completed, Order, PacketPCs
    <3>5. x = c => Ahead(x)'
      BY <2>1, <2>2, <3>2 DEF localVars, Ahead
    <3> QED
      BY <1>3, <2>2, <3>3, <3>4, <3>5 DEF Timestamps
  <2>7. R2'
    BY <1>1, <2>1, <2>2, <2>3, <2>4, <2>5 DEF contextVars, streamVars, Timestamps, Unset, Done, Inputs
  <2>8. R3'
    <3>1. CASE next_timestamp_bound_ <= mirror.bound
      BY <2>1, <3>1 DEF streamVars, Timestamps
    <3>2. ASSUME NEW u \in Threads, pc[u] \in {"send", "sendBound"}, bound[u] = next_timestamp_bound_
          PROVE  R3'
      BY <2>1, <2>2, <3>2 DEF streamVars, localVars, Timestamps
    <3> QED
      BY <1>1, <3>1, <3>2
  <2>9. R4'
    BY <1>1, <2>1 DEF streamVars, Timestamps, Done
  <2> QED
    BY <1>2, <2>6, <2>7, <2>8, <2>9
<1>15. ASSUME NEW t \in Threads, CloseStream(t) PROVE Room'
  <2>1. /\ UNCHANGED <<inputVars, contextVars, localVars>> /\ pc[t] = "closeStream"
        /\ pc' = [pc EXCEPT ![t] = IF t = Closing THEN "ended" ELSE "recycle"]
    BY <1>15 DEF CloseStream, Goto
  <2>2. closed_' = TRUE /\ mirror'.bound = Done
    <3>1. CASE closed_
      BY <1>1, <1>15, <3>1, Zenon DEF CloseStream, streamVars
    <3>2. CASE ~closed_
      <4>1. Done <= mirror'.bound
        BY <1>15, <3>2, BoundReceived DEF CloseStream, Timestamps, Unset, Done
      <4> QED
        BY <1>15, <3>2, <4>1 DEF CloseStream, Timestamps, Unset, Done
    <3> QED
      BY <3>1, <3>2
  <2>3. closed_ => UNCHANGED next_timestamp_bound_
    BY <1>15 DEF CloseStream, streamVars
  <2>4. ~closed_ => next_timestamp_bound_' = Done
    BY <1>15 DEF CloseStream
  <2>5. next_timestamp_bound_' <= mirror'.bound
    <3>1. next_timestamp_bound_' \in Timestamps
      BY TypeOKKept DEF TypeOK
    <3> QED
      BY <2>2, <3>1 DEF Timestamps, Done
  <2>6. R2'
    BY <1>1, <2>1, <2>2, <2>3, <2>4 DEF contextVars, Timestamps, Done
  <2> QED
    BY <1>2, <2>2, <2>5, <2>6
<1>16. ASSUME NEW t \in Threads, SendBound(t) PROVE Room'
  <2>1. /\ UNCHANGED <<inputVars, contextVars, streamVars, localVars>> /\ pc[t] = "sendBound"
        /\ pc' = [pc EXCEPT ![t] = IF t = Closing THEN "closeStream" ELSE "endBound"]
    BY <1>16 DEF SendBound, Goto
  <2>2. /\ bound[t] <= mirror'.bound
        /\ mirror'.bound = mirror.bound \/ mirror'.bound = bound[t]
    BY <1>16, BoundReceived DEF SendBound
  <2>3. CASE t = Closing
    <3>1. prepared_context_for_close_ /\ bound[t] = Done
      BY <2>1, <2>3 DEF ClosesLast
    <3>2. mirror'.bound = Done /\ next_timestamp_bound_' <= mirror'.bound
      BY <2>1, <2>2, <3>1 DEF streamVars, Timestamps, Done
    <3> QED
      BY <1>2, <2>1, <3>1, <3>2 DEF contextVars
  <2>4. CASE t \in Loopers
    <3>1. /\ bound[t] - Offset \in InputBounds
          /\ \A x \in active_contexts_ \cup arrived : bound[t] - Offset <= x
          /\ bound[t] - Offset <= task_timestamp_bound_
          /\ ~prepared_context_for_close_ => bound[t] = next_timestamp_bound_
      BY <2>1, <2>4 DEF Bounds, BoundPCs, Source
    <3>2. bound[t] - Offset <= input_bound
      BY <3>1 DEF Order, TypeOK, Timestamps
    <3>3. R1'
      <4>1. SUFFICES ASSUME Open', NEW x \in Coming PROVE mirror'.bound <= x + Offset \/ Ahead(x)'
        BY <2>1 DEF inputVars, contextVars
      <4>2. Open
        BY <2>1, <2>4, <4>1 DEF contextVars, streamVars
      <4>3. ~Ahead(x)
        BY <2>1, <2>4, OnlyOne DEF Ahead, SendPCs
      <4>4. mirror.bound <= x + Offset
        BY <1>1, <4>2, <4>3
      <4>5. bound[t] - Offset <= x
        BY <3>1, <3>2
      <4> QED
        BY <1>3, <2>2, <4>4, <4>5 DEF Timestamps
    <3>4. R2'
      BY <1>1, <2>1, <2>2, <3>1 DEF contextVars, streamVars, Timestamps
    <3>5. R3'
      <4>1. CASE next_timestamp_bound_ <= mirror.bound
        BY <2>1, <4>1 DEF streamVars, Timestamps
      <4>2. ASSUME NEW u \in Threads, pc[u] \in {"send", "sendBound"}, bound[u] = next_timestamp_bound_
            PROVE  R3'
        BY <2>1, <2>2, <4>2 DEF streamVars, localVars, Timestamps
      <4> QED
        BY <1>1, <4>1, <4>2
    <3>6. R4'
      BY <1>1, <2>1 DEF streamVars, Timestamps, Done
    <3> QED
      BY <1>2, <3>3, <3>4, <3>5, <3>6
  <2> QED
    BY <2>3, <2>4
<1>17. ASSUME NEW t \in Loopers, Recycle(t) PROVE Room'
  <2> DEFINE c == context_timestamp[t]
  <2>1. /\ UNCHANGED <<inputVars, prepared_context_for_close_, streamVars, mirror, localVars>>
        /\ pc[t] = "recycle" /\ pc' = [pc EXCEPT ![t] = "erase"]
        /\ active_contexts_' = active_contexts_ \ {c}
    BY <1>17, Oldest DEF Recycle, PacketPCs, Goto
  <2>2. c \notin arrived /\ c # input_bound
    <3>1. c \in active_contexts_
      BY <1>4, <2>1
    <3>2. \A x \in Inputs : ~(x < x)
      BY DEF Inputs
    <3> QED
      BY <3>1, <3>2 DEF Order
  <2>3. R1'
    <3>1. SUFFICES ASSUME Open', NEW x \in Coming' PROVE mirror.bound <= x + Offset \/ Ahead(x)'
      BY <2>1
    <3>2. Open /\ x \in Coming /\ x # c
      BY <2>1, <2>2, <3>1 DEF inputVars, streamVars
    <3>3. ~Ahead(x)
      BY <2>1, <3>2, OnlyOne DEF Ahead, SendPCs
    <3> QED
      BY <1>1, <3>2, <3>3
  <2>4. R2' /\ R3' /\ R4'
    BY <1>1, <2>1 DEF streamVars, localVars
  <2> QED
    BY <1>2, <2>3, <2>4
<1> QED
  BY <1>6, <1>7, <1>8, <1>9, <1>10, <1>11, <1>12, <1>13, <1>14, <1>15, <1>16, <1>17, Steps
     DEF LoopStep, ClosingStep

LEMMA RefusedKept ==
  ASSUME IInv, [Next]_vars
  PROVE  RefusedOnlyAfterClose'
<1> USE Names DEF IInv
<1>0. /\ bound \in [Threads -> Timestamps] /\ mirror.bound \in Timestamps
      /\ next_timestamp_bound_ \in Timestamps
  BY DEF TypeOK
<1>1. offset_enabled' = offset_enabled
  BY OffsetKept
<1> DEFINE Frame == /\ mirror_error' => mirror_error
                    /\ prepared_context_for_close_ => prepared_context_for_close_'
<1>2. ASSUME Frame PROVE RefusedOnlyAfterClose'
  BY <1>1, <1>2 DEF RefusedOnlyAfterClose
<1>3. CASE UNCHANGED vars
  BY <1>2, <1>3 DEF vars, contextVars, errorVars
<1>4. ASSUME NEW i \in Inputs, InputStep(i) PROVE RefusedOnlyAfterClose'
  BY <1>2, <1>4 DEF InputStep, PacketArrives, Process, ProcessFails, PostProcess, EndScheduling,
                    contextVars, errorVars
<1>5. ASSUME NEW b \in (2 .. MaxTs) \cup {Done}, BoundArrives(b) PROVE RefusedOnlyAfterClose'
  BY <1>2, <1>5 DEF BoundArrives, contextVars, errorVars
<1>6. SchedulingStep => RefusedOnlyAfterClose'
  BY <1>2 DEF SchedulingStep, ScheduleInvocation, ScheduleClose, NotReady,
              UpdateTaskTimestampBound, contextVars, errorVars
<1>7. ASSUME NEW t \in Threads,
             \/ CheckClosed(t) \/ SetBound(t) \/ Recycle(t) \/ EraseCompleted(t)
             \/ CheckBound(t) \/ EndBound(t)
      PROVE  RefusedOnlyAfterClose'
  BY <1>2, <1>7 DEF CheckClosed, SetBound, Recycle, EraseCompleted, CheckBound, EndBound,
                    contextVars, errorVars
<1>8. CloseNode => RefusedOnlyAfterClose'
  BY <1>2 DEF CloseNode, contextVars, errorVars
<1>9. ASSUME NEW t \in Threads, Send(t) PROVE RefusedOnlyAfterClose'
  <2> DEFINE c == context_timestamp[t]
             p == IF shard[c].packet THEN c + Offset ELSE Unset
  <2>1. UNCHANGED prepared_context_for_close_ /\ pc[t] = "send"
    BY <1>9 DEF Send, contextVars
  <2>2. /\ t \in Loopers /\ c \in Inputs
        /\ mirror_error' => \/ mirror_error
                            \/ p # Unset /\ p < mirror.bound
                            \/ bound[t] # Unset /\ bound[t] < mirror.bound
                            \/ bound[t] # Unset /\ p # Unset /\ bound[t] < p + 1
    BY <1>9, Packets, Received DEF TypeOK
  <2>3. /\ bound[t] \in {Unset, c + Offset + 1, Done}
        /\ mirror.bound <= c + Offset
    BY <2>1, <2>2, RoomToSend DEF Sends
  <2>4. p # Unset => p = c + Offset
    OBVIOUS
  <2> HIDE DEF p
  <2>5. mirror_error' => mirror_error
    BY <1>0, <2>2, <2>3, <2>4 DEF Timestamps, Unset, Done, Inputs
  <2> QED
    BY <1>2, <2>1, <2>5
<1>10. ASSUME NEW t \in Threads, SendBound(t) PROVE RefusedOnlyAfterClose'
  <2>1. /\ UNCHANGED prepared_context_for_close_ /\ pc[t] = "sendBound"
        /\ mirror_error' => mirror_error \/ bound[t] < mirror.bound
    BY <1>0, <1>10, BoundReceived DEF SendBound, contextVars
  <2>2. CASE t = Closing
    <3>1. bound[t] = Done
      BY <2>1, <2>2 DEF ClosesLast
    <3>2. mirror_error' => mirror_error
      BY <1>0, <2>1, <3>1 DEF Timestamps, Done
    <3> QED
      BY <1>2, <2>1, <3>2
  <2>3. CASE t \in Loopers /\ ~prepared_context_for_close_
    <3>1. bound[t] = next_timestamp_bound_ /\ mirror.bound <= next_timestamp_bound_
      BY <2>1, <2>3 DEF Bounds, BoundPCs, Room
    <3>2. mirror_error' => mirror_error
      BY <1>0, <2>1, <3>1 DEF Timestamps
    <3> QED
      BY <1>2, <2>1, <3>2
  <2>4. CASE t \in Loopers /\ prepared_context_for_close_
    BY <1>1, <2>1, <2>4 DEF Bounds, BoundPCs, RefusedOnlyAfterClose
  <2> QED
    BY <2>2, <2>3, <2>4
<1>11. ASSUME NEW t \in Threads, CloseStream(t) PROVE RefusedOnlyAfterClose'
  <2>1. CASE closed_
    BY <1>2, <1>11, <2>1 DEF CloseStream, contextVars, errorVars
  <2>2. CASE ~closed_
    <3>1. Done \in Timestamps
      BY DEF Timestamps, Unset, Done
    <3>2. mirror_error' => mirror_error \/ Done < mirror.bound
      BY <1>11, <2>2, <3>1, BoundReceived DEF CloseStream
    <3>3. mirror_error' => mirror_error
      BY <1>0, <3>2 DEF Timestamps, Done
    <3> QED
      BY <1>2, <1>11, <3>3 DEF CloseStream, contextVars
  <2> QED
    BY <2>1, <2>2
<1>12. Places
  OBVIOUS
<1> QED
  BY <1>3, <1>4, <1>5, <1>6, <1>7, <1>8, <1>9, <1>10, <1>11, <1>12, Steps
     DEF LoopStep, ClosingStep

-----------------------------------------------------------------------------
(* Bounds without packets. *)

LEMMA ToldKept ==
  ASSUME IInv, [Next]_vars, NEW b \in InputBounds \cup {Unset}, Told(b)
  PROVE  Told(b)'
<1> USE Names DEF IInv
<1>0. /\ mirror.bound \in Timestamps /\ mirror'.bound \in Timestamps
      /\ mirror.bound <= mirror'.bound /\ offset_enabled' = offset_enabled
      /\ pc \in [Threads -> PCs]
  BY TypeOKKept, BoundsGrow, OffsetKept DEF TypeOK
<1> USE <1>0
<1>1. SUFFICES ASSUME offset_enabled, IsRangeValue(b)
               PROVE  mirror'.bound >= b + Offset \/ pc'[Closing] = "sendBound"
  BY DEF Told
<1>2. CASE mirror.bound >= b + Offset
  BY <1>2 DEF InputBounds, Unset, Timestamps
<1>3. CASE pc[Closing] = "sendBound"
  <2>1. SendBound(Closing) => mirror'.bound >= b + Offset
    <3>1. SUFFICES ASSUME SendBound(Closing) PROVE mirror'.bound >= b + Offset
      OBVIOUS
    <3>2. bound[Closing] = Done /\ bound[Closing] \in Timestamps
      BY <1>3 DEF ClosesLast, TypeOK
    <3>3. Done <= mirror'.bound
      BY <3>1, <3>2, BoundReceived DEF SendBound
    <3> QED
      BY <3>3 DEF InputBounds, Unset, Timestamps, Done
  <2>2. ASSUME NEW i \in Inputs, InputStep(i) PROVE pc'[Closing] = pc[Closing]
    BY <2>2 DEF InputStep, PacketArrives, Process, ProcessFails, PostProcess, EndScheduling,
                LeavesToPropagationThread, EntersLoop, PropagatesPackets, PropagatesBound,
                StopsPropagating, Return, Goto
  <2>3. CASE SchedulingStep
    <3>1. ScheduleInvocation => Min(arrived) \in Inputs
      BY Minimum DEF ScheduleInvocation, TypeOK
    <3>2. ~prepared_context_for_close_ => pc[Closing] = "none"
      BY DEF ClosesLast
    <3>3. pc'[Closing] = pc[Closing]
      BY <1>3, <2>3, <3>1, <3>2 DEF SchedulingStep, ScheduleInvocation, ScheduleClose, NotReady,
           UpdateTaskTimestampBound, LeavesToPropagationThread, EntersLoop, PropagatesPackets,
           PropagatesBound, StopsPropagating, Return, Goto
    <3> QED
      BY <1>3, <3>3
  <2>4. ASSUME NEW t \in Loopers, LoopStep(t) PROVE pc'[Closing] = pc[Closing]
    BY <2>4 DEF LoopStep, CheckClosed, SetBound, Send, CloseStream, Recycle, EraseCompleted,
                CheckBound, SendBound, EndBound, PropagatesPackets, PropagatesBound,
                StopsPropagating, Return, Goto
  <2>5. ClosingStep => SendBound(Closing)
    BY <1>3 DEF ClosingStep, CloseNode, SetBound, CloseStream
  <2>6. \A x : BoundArrives(x) => pc' = pc
    BY DEF BoundArrives
  <2> QED
    BY <1>3, <2>1, <2>2, <2>3, <2>4, <2>5, <2>6, Steps DEF vars
<1> QED
  BY <1>1, <1>2, <1>3 DEF Told

LEMMA HeadKeepsBounds ==
  ASSUME IInv, NEW t \in Loopers, NEW D \in SUBSET Inputs,
         UNCHANGED <<active_contexts_, arrived>>,
         \A u \in Loopers \ {t} : pc[u] \notin SendPCs,
         task_timestamp_bound_' \in Int,
         \/ PropagatesPackets(t, D)
         \/ /\ PropagatesBound(t, task_timestamp_bound_') /\ ~HasActiveContexts
            /\ task_timestamp_bound_' \in InputBounds
            /\ \A x \in arrived : task_timestamp_bound_' <= x
         \/ /\ StopsPropagating(t)
            /\ HasActiveContexts \/ Told(task_timestamp_bound_)'
  PROVE  Bounds'
<1> USE Names DEF IInv
<1>0. pc \in [Threads -> PCs] /\ bound \in [Threads -> Timestamps]
  BY DEF TypeOK
<1>1. /\ Heads(t)
      /\ pc'[t] \in {"checkClosed", "checkBound", "idle", "end"}
  BY <1>0 DEF PropagatesPackets, PropagatesBound, StopsPropagating, Return, Goto, Heads
<1>2. \A u \in Loopers : pc'[u] \in BoundPCs => u = t /\ pc'[u] = "checkBound"
  BY <1>1 DEF Heads, BoundPCs, SendPCs
<1>3. pc'[t] = "checkBound" =>
        /\ propagation_state_' = "kPropagatingBound"
        /\ bound'[t] = task_timestamp_bound_' /\ ~HasActiveContexts
        /\ task_timestamp_bound_' \in InputBounds
        /\ \A x \in arrived : task_timestamp_bound_' <= x
  BY <1>0 DEF PropagatesPackets, PropagatesBound, StopsPropagating, Return, Goto
<1>4. propagation_state_' = "kIdle" => HasActiveContexts \/ Told(task_timestamp_bound_)'
  BY DEF PropagatesPackets, PropagatesBound, StopsPropagating
<1>5. pc'[t] = "checkBound" => Source(t)' = task_timestamp_bound_'
  BY <1>3 DEF Source
<1>6. \A u \in Loopers : pc'[u] \in BoundPCs =>
       /\ Source(u)' \in InputBounds
       /\ \A x \in active_contexts_' \cup arrived' : Source(u)' <= x
       /\ Source(u)' <= task_timestamp_bound_' /\ Source(u)' = task_timestamp_bound_'
       /\ propagation_state_' = "kPropagatingBound" /\ pc'[u] = "checkBound"
  BY <1>2, <1>3, <1>5 DEF InputBounds, HasActiveContexts
<1>7. propagation_state_' = "kIdle" /\ ~HasActiveContexts' => Told(task_timestamp_bound_)'
  BY <1>4 DEF HasActiveContexts
<1> QED
  BY <1>6, <1>7, Zenon DEF Bounds

\* What Bounds says of one thread.
BoundOf(t) ==
  pc[t] \in BoundPCs =>
    /\ Source(t) \in InputBounds
    /\ \A x \in active_contexts_ \cup arrived : Source(t) <= x
    /\ Source(t) <= task_timestamp_bound_
    /\ propagation_state_ = "kPropagatingBound" => Source(t) = task_timestamp_bound_
    /\ propagation_state_ = "kPropagationPending" =>
         Source(t) < task_timestamp_bound_ \/ HasActiveContexts
    /\ pc[t] \in {"setOnlyBound", "sendBound"} => offset_enabled
    /\ pc[t] = "setOnlyBound" /\ ~prepared_context_for_close_ => bound[t] > next_timestamp_bound_
    /\ pc[t] = "sendBound" /\ ~prepared_context_for_close_ => bound[t] = next_timestamp_bound_
    /\ pc[t] = "endBound" => Told(Source(t))

\* A step that is of no concern to a thread that sends a bound.
BoundFrame(t) ==
  pc'[t] \in BoundPCs =>
    /\ pc'[t] = pc[t] /\ bound'[t] = bound[t]
    /\ \A x \in active_contexts_' \cup arrived' :
         x \in active_contexts_ \cup arrived \/ x >= input_bound
    /\ UNCHANGED task_timestamp_bound_
    /\ \/ UNCHANGED propagation_state_
       \/ propagation_state_' = "kPropagationPending" /\ HasActiveContexts'
    /\ HasActiveContexts => HasActiveContexts'
    /\ prepared_context_for_close_ => prepared_context_for_close_'
    /\ ~prepared_context_for_close_ => UNCHANGED next_timestamp_bound_

LEMMA BoundOfKept ==
  ASSUME IInv, [Next]_vars, NEW t \in Loopers, BoundFrame(t)
  PROVE  BoundOf(t)'
<1> USE Names DEF IInv
<1>1. SUFFICES ASSUME pc'[t] \in BoundPCs PROVE BoundOf(t)'
  BY DEF BoundOf
<1>2. pc[t] \in BoundPCs /\ pc'[t] = pc[t] /\ bound'[t] = bound[t]
  BY <1>1 DEF BoundFrame
<1>3. BoundOf(t)
  BY DEF Bounds, BoundOf
<1>4. Source(t)' = Source(t)
  BY <1>2 DEF Source
<1>5. Source(t) \in InputBounds /\ Source(t) \in Int
  BY <1>2, <1>3 DEF BoundOf, InputBounds
<1>6. \A x \in active_contexts_' \cup arrived' : Source(t) <= x
  <2>1. Source(t) <= task_timestamp_bound_ /\ task_timestamp_bound_ <= input_bound
    BY <1>2, <1>3 DEF BoundOf, Order
  <2>2. /\ task_timestamp_bound_ \in Int /\ input_bound \in Int
        /\ active_contexts_' \cup arrived' \subseteq Int
    <3>1. active_contexts_' \subseteq Inputs /\ arrived' \subseteq Inputs
      BY TypeOKKept DEF TypeOK
    <3>2. task_timestamp_bound_ \in Timestamps /\ input_bound \in Timestamps
      BY DEF TypeOK
    <3> QED
      BY <3>1, <3>2 DEF Timestamps
  <2>3. \A x \in active_contexts_' \cup arrived' : Source(t) <= x \/ x >= input_bound
    BY <1>1, <1>2, <1>3 DEF BoundFrame, BoundOf
  <2> QED
    BY <1>5, <2>1, <2>2, <2>3
<1>7. pc[t] = "endBound" => Told(Source(t))'
  <2>1. pc[t] = "endBound" => Told(Source(t))
    BY <1>2, <1>3 DEF BoundOf
  <2>2. \A b \in InputBounds \cup {Unset} : Told(b) => Told(b)'
    BY ToldKept
  <2> QED
    BY <1>4, <1>5, <2>1, <2>2 DEF Told
<1>8. offset_enabled' = offset_enabled
  BY OffsetKept
<1>9. /\ Source(t) <= task_timestamp_bound_'
      /\ propagation_state_' = "kPropagatingBound" => Source(t) = task_timestamp_bound_'
      /\ propagation_state_' = "kPropagationPending" =>
           Source(t) < task_timestamp_bound_' \/ HasActiveContexts'
      /\ pc[t] = "setOnlyBound" /\ ~prepared_context_for_close_' => bound[t] > next_timestamp_bound_'
      /\ pc[t] = "sendBound" /\ ~prepared_context_for_close_' => bound[t] = next_timestamp_bound_'
      /\ pc[t] \in {"setOnlyBound", "sendBound"} => offset_enabled
  BY <1>1, <1>2, <1>3 DEF BoundFrame, BoundOf
<1> QED
  BY <1>2, <1>4, <1>5, <1>6, <1>7, <1>8, <1>9 DEF BoundOf

LEMMA BoundsKept ==
  ASSUME IInv, [Next]_vars
  PROVE  Bounds'
<1> USE Names DEF IInv
<1>0. /\ pc \in [Threads -> PCs] /\ bound \in [Threads -> Timestamps]
      /\ active_contexts_ \in SUBSET Inputs /\ arrived \in SUBSET Inputs
      /\ completed_input_timestamps_ \in SUBSET Inputs /\ input_bound \in Timestamps
      /\ task_timestamp_bound_ \in Timestamps /\ next_timestamp_bound_ \in Timestamps
      /\ mirror.bound \in Timestamps
  BY DEF TypeOK
<1> USE <1>0
<1>1. task_timestamp_bound_ \in InputBounds \cup {Unset}
  BY DEF Places
<1>2. ASSUME \A t \in Loopers : BoundOf(t)',
             propagation_state_' = "kIdle" /\ ~HasActiveContexts' => Told(task_timestamp_bound_)'
      PROVE  Bounds'
  BY <1>2, Zenon DEF Bounds, BoundOf
<1>3. ASSUME UNCHANGED task_timestamp_bound_, Told(task_timestamp_bound_)
      PROVE  Told(task_timestamp_bound_)'
  BY <1>1, <1>3, ToldKept DEF Told
<1> DEFINE Idle == propagation_state_' = "kIdle" /\ ~HasActiveContexts' =>
             propagation_state_ = "kIdle" /\ ~HasActiveContexts /\ UNCHANGED task_timestamp_bound_
<1>4. ASSUME Idle PROVE propagation_state_' = "kIdle" /\ ~HasActiveContexts' => Told(task_timestamp_bound_)'
  BY <1>3, <1>4 DEF Bounds
<1> DEFINE Frame == Idle /\ \A t \in Loopers : BoundFrame(t)
<1>5. Frame => Bounds'
  BY <1>2, <1>4, BoundOfKept
<1> HIDE DEF Idle
<1>6. ASSUME UNCHANGED <<active_contexts_, task_timestamp_bound_, propagation_state_>> PROVE Idle
  BY <1>6 DEF Idle, HasActiveContexts
<1>7. CASE UNCHANGED vars
  BY <1>5, <1>6, <1>7 DEF vars, inputVars, contextVars, handlerVars, streamVars, localVars,
                          BoundFrame, HasActiveContexts
<1>8. ASSUME NEW i \in Inputs, InputStep(i) PROVE Bounds'
  <2>1. CASE PacketArrives(i)
    BY <1>5, <1>6, <2>1 DEF PacketArrives, contextVars, handlerVars, streamVars, localVars,
                            BoundFrame, HasActiveContexts
  <2>2. CASE Process(i) \/ ProcessFails(i) \/ EndScheduling(i)
    BY <1>5, <1>6, <2>2 DEF Process, ProcessFails, EndScheduling, Goto, inputVars, contextVars,
         handlerVars, streamVars, localVars, BoundFrame, HasActiveContexts, BoundPCs
  <2>3. CASE PostProcess(i)
    <3>1. HasActiveContexts /\ UNCHANGED <<active_contexts_, arrived, task_timestamp_bound_>>
      BY <2>3 DEF PostProcess, Completed, HasActiveContexts, inputVars, contextVars
    <3>2. CASE LeavesToPropagationThread(i)
      <4>1. Idle
        BY <3>1 DEF Idle, HasActiveContexts
      <4>2. \A t \in Loopers : BoundFrame(t)
        BY <2>3, <3>1, <3>2 DEF PostProcess, LeavesToPropagationThread, Return, Goto, contextVars,
             streamVars, inputVars, BoundFrame, HasActiveContexts, BoundPCs
      <4> QED
        BY <1>5, <4>1, <4>2
    <3>3. CASE EntersLoop(i, completed_input_timestamps_', task_timestamp_bound_)
      <4>1. \A u \in Loopers : pc[u] \notin SendPCs
        BY <3>3 DEF EntersLoop, Alone
      <4>2. \/ PropagatesPackets(i, completed_input_timestamps_')
            \/ StopsPropagating(i) /\ HasActiveContexts
        BY <3>1, <3>3 DEF EntersLoop
      <4>3. task_timestamp_bound_' \in Int /\ completed_input_timestamps_' \in SUBSET Inputs
        BY TypeOKKept DEF TypeOK, Timestamps
      <4> QED
        BY <3>1, <4>1, <4>2, <4>3, HeadKeepsBounds
    <3> QED
      BY <2>3, <3>2, <3>3 DEF PostProcess
  <2> QED
    BY <1>8, <2>1, <2>2, <2>3 DEF InputStep
<1>9. ASSUME NEW b \in (2 .. MaxTs) \cup {Done}, BoundArrives(b) PROVE Bounds'
  BY <1>5, <1>6, <1>9 DEF BoundArrives, contextVars, handlerVars, streamVars, localVars,
                          BoundFrame, HasActiveContexts
<1>10. CASE SchedulingStep
  <2>1. CASE ScheduleInvocation
    <3>1. Min(arrived) \in arrived /\ Min(arrived) \in Inputs
      BY <2>1, Minimum DEF ScheduleInvocation
    <3>2. Idle
      BY <2>1, <3>1 DEF ScheduleInvocation, Idle, HasActiveContexts
    <3> QED
      BY <1>5, <2>1, <3>1, <3>2 DEF ScheduleInvocation, Goto, handlerVars, streamVars, localVars,
                                    BoundFrame, HasActiveContexts, BoundPCs
  <2>2. CASE ScheduleClose
    BY <1>5, <1>6, <2>2 DEF ScheduleClose, Goto, inputVars, handlerVars, streamVars, localVars,
                            BoundFrame, HasActiveContexts
  <2>3. CASE NotReady
    BY <1>5, <1>6, <2>3 DEF NotReady, Goto, inputVars, contextVars, handlerVars, streamVars,
                            BoundFrame, HasActiveContexts, BoundPCs
  <2>4. CASE UpdateTaskTimestampBound
    <3> DEFINE b == bound[Scheduling]
    <3>1. /\ pc[Scheduling] = "update" /\ task_timestamp_bound_' = b
          /\ UNCHANGED <<arrived, active_contexts_, prepared_context_for_close_,
                         next_timestamp_bound_, completed_input_timestamps_>>
      BY <2>4 DEF UpdateTaskTimestampBound, inputVars, contextVars, streamVars
    <3>2. /\ b \in InputBounds /\ b \in Int /\ b >= task_timestamp_bound_
          /\ \A x \in arrived : b <= x
      BY <3>1 DEF Order, InputBounds
    <3>3. CASE task_timestamp_bound_ = b /\ Return(Scheduling) /\ UNCHANGED propagation_state_
      BY <1>5, <1>6, <3>1, <3>3 DEF Return, Goto, BoundFrame, HasActiveContexts, BoundPCs
    <3>4. CASE task_timestamp_bound_ # b /\ LeavesToPropagationThread(Scheduling)
      <4>1. propagation_state_' \notin {"kIdle", "kPropagatingBound"}
        BY <3>4 DEF LeavesToPropagationThread
      <4>2. ASSUME NEW t \in Loopers, pc'[t] \in BoundPCs
            PROVE  BoundOf(t)'
        <5>1. t # Scheduling /\ pc'[t] = pc[t] /\ bound'[t] = bound[t]
          BY <3>4, <4>2 DEF LeavesToPropagationThread, Return, Goto, BoundPCs
        <5>2. BoundOf(t)
          BY DEF Bounds, BoundOf
        <5>3. Source(t)' = Source(t)
          BY <5>1 DEF Source
        <5>4. Source(t) \in InputBounds /\ Source(t) \in Int /\ Source(t) <= task_timestamp_bound_
          BY <4>2, <5>1, <5>2 DEF BoundOf, InputBounds
        <5>5. Source(t) < b
          <6>1. CASE propagation_state_ = "kPropagatingBound"
            BY <3>2, <3>4, <4>2, <5>1, <5>2, <6>1 DEF BoundOf, Timestamps
          <6>2. CASE propagation_state_ = "kPropagationPending"
            BY <3>2, <3>4, <5>4, <6>2 DEF Timestamps
          <6> QED
            BY <4>2, <5>1, <6>1, <6>2, OnlyOne DEF BoundPCs, SendPCs
        <5>6. pc[t] = "endBound" => Told(Source(t))'
          <6>1. \A x \in InputBounds \cup {Unset} : Told(x) => Told(x)'
            BY ToldKept
          <6> QED
            BY <4>2, <5>1, <5>2, <5>3, <5>4, <6>1 DEF BoundOf, Told
        <5>7. offset_enabled' = offset_enabled
          BY OffsetKept
        <5>8. Source(t) <= b
          BY <3>2, <5>4, <5>5
        <5> QED
          BY <3>1, <4>1, <4>2, <5>1, <5>2, <5>3, <5>4, <5>5, <5>6, <5>7, <5>8
             DEF BoundOf
      <4>3. \A t \in Loopers : BoundOf(t)'
        BY <4>2, Zenon DEF BoundOf
      <4> QED
        BY <1>2, <4>1, <4>3
    <3>5. CASE EntersLoop(Scheduling, completed_input_timestamps_, b)
      <4>1. \A u \in Loopers : pc[u] \notin SendPCs
        BY <3>5 DEF EntersLoop, Alone
      <4>2. \/ PropagatesPackets(Scheduling, completed_input_timestamps_)
            \/ PropagatesBound(Scheduling, task_timestamp_bound_') /\ ~HasActiveContexts
            \/ StopsPropagating(Scheduling) /\ HasActiveContexts
        BY <3>1, <3>5 DEF EntersLoop
      <4> HIDE DEF b
      <4> QED
        BY <3>1, <3>2, <4>1, <4>2, HeadKeepsBounds
    <3> QED
      BY <2>4, <3>3, <3>4, <3>5 DEF UpdateTaskTimestampBound
  <2> QED
    BY <1>10, <2>1, <2>2, <2>3, <2>4 DEF SchedulingStep
<1>11. ASSUME NEW t \in Loopers, LoopStep(t) PROVE Bounds'
  <2>0. ASSUME pc[t] \in SendPCs, BoundOf(t)', UNCHANGED propagation_state_,
               \A u \in Loopers \ {t} : pc'[u] = pc[u]
        PROVE  Bounds'
    <3>1. propagation_state_' # "kIdle"
      BY <2>0, OnlyOne
    <3>2. \A u \in Loopers \ {t} : pc'[u] \notin BoundPCs
      BY <2>0, OnlyOne DEF BoundPCs, SendPCs
    <3>3. \A u \in Loopers : BoundOf(u)'
      BY <2>0, <3>2, Zenon DEF BoundOf
    <3> QED
      BY <1>2, <3>1, <3>3
  <2>1. CASE CheckClosed(t) \/ Send(t)
    <3>1. /\ pc[t] \in SendPCs /\ pc'[t] \notin BoundPCs /\ UNCHANGED propagation_state_
          /\ \A u \in Loopers \ {t} : pc'[u] = pc[u]
      BY <2>1 DEF CheckClosed, Send, Goto, handlerVars, SendPCs, BoundPCs
    <3> QED
      BY <2>0, <3>1, Zenon DEF BoundOf
  <2>2. CASE CloseStream(t) \/ Recycle(t)
    <3>1. /\ pc[t] \in SendPCs /\ pc'[t] \notin BoundPCs /\ UNCHANGED propagation_state_
          /\ \A u \in Loopers \ {t} : pc'[u] = pc[u]
      BY <2>2 DEF CloseStream, Recycle, Goto, handlerVars, SendPCs, BoundPCs
    <3> QED
      BY <2>0, <3>1, Zenon DEF BoundOf
  <2>3. CASE SetBound(t) /\ pc[t] = "setBound"
    <3>1. /\ pc[t] \in SendPCs /\ pc'[t] \notin BoundPCs /\ UNCHANGED propagation_state_
          /\ \A u \in Loopers \ {t} : pc'[u] = pc[u]
      BY <2>3 DEF SetBound, Goto, handlerVars, SendPCs, BoundPCs
    <3> QED
      BY <2>0, <3>1, Zenon DEF BoundOf
  <2>4. CASE SetBound(t) /\ pc[t] = "setOnlyBound"
    <3>1. /\ UNCHANGED <<inputVars, contextVars, handlerVars, localVars, offset_enabled>>
          /\ pc' = [pc EXCEPT ![t] = "sendBound"]
          /\ next_timestamp_bound_' = IF bound[t] = Unset THEN next_timestamp_bound_ ELSE bound[t]
      BY <2>4 DEF SetBound, Goto
    <3>2. BoundOf(t) /\ pc[t] \in BoundPCs
      BY <2>4 DEF Bounds, BoundOf, BoundPCs
    <3>3. bound[t] # Unset
      BY <2>4, <3>2 DEF BoundOf, Source, InputBounds, Unset, Timestamps
    <3>4. Source(t)' = Source(t)
      BY <2>4, <3>1 DEF Source, localVars
    <3>5. BoundOf(t)'
      BY <2>4, <3>1, <3>2, <3>3, <3>4 DEF BoundOf, inputVars, contextVars, handlerVars, localVars,
                                          HasActiveContexts
    <3> QED
      BY <2>0, <2>4, <3>1, <3>5 DEF handlerVars, SendPCs
  <2>5. CASE CheckBound(t)
    <3>1. /\ UNCHANGED <<inputVars, contextVars, handlerVars, streamVars, mirror, offset_enabled>>
          /\ pc[t] = "checkBound" /\ bound' = [bound EXCEPT ![t] = @ + Offset]
          /\ pc' = [pc EXCEPT ![t] =
                 IF IsRangeValue(bound[t]) /\ offset_enabled /\ ~closed_
                      /\ bound[t] + Offset > next_timestamp_bound_
                   THEN "setOnlyBound" ELSE "endBound"]
      BY <2>5 DEF CheckBound, Goto
    <3>2. BoundOf(t) /\ Source(t) = bound[t] /\ bound[t] \in InputBounds
      BY <3>1 DEF Bounds, BoundOf, BoundPCs, Source
    <3>3. bound'[t] = bound[t] + Offset /\ Source(t)' = bound[t]
      BY <3>1, <3>2 DEF Source, InputBounds
    <3>4. pc'[t] = "endBound" => Told(Source(t))'
      <4>1. SUFFICES ASSUME pc'[t] = "endBound", offset_enabled, IsRangeValue(bound[t])
                     PROVE  mirror.bound >= bound[t] + Offset \/ pc'[Closing] = "sendBound"
        BY <3>1, <3>3 DEF Told
      <4>2. pc'[Closing] = pc[Closing]
        BY <3>1
      <4>3. CASE closed_
        BY <3>2, <4>3 DEF Room, InputBounds, Done
      <4>4. CASE bound[t] + Offset <= next_timestamp_bound_
        <5>1. next_timestamp_bound_ <= mirror.bound \/ pc[Closing] = "sendBound"
          BY <3>1, MirrorKnows DEF SendPCs
        <5> QED
          BY <3>2, <4>2, <4>4, <5>1 DEF InputBounds, Timestamps
      <4> QED
        BY <3>1, <3>2, <4>1, <4>3, <4>4 DEF InputBounds, Timestamps
    <3>5. /\ pc'[t] \in {"setOnlyBound", "endBound"}
          /\ pc'[t] = "setOnlyBound" => offset_enabled /\ bound[t] + Offset > next_timestamp_bound_
      BY <3>1
    <3>6. BoundOf(t)'
      <4>1. /\ pc[t] \in BoundPCs
            /\ UNCHANGED <<active_contexts_, arrived, task_timestamp_bound_, propagation_state_,
                           prepared_context_for_close_, next_timestamp_bound_, offset_enabled>>
        BY <3>1 DEF inputVars, contextVars, handlerVars, streamVars, BoundPCs
      <4> QED
        BY <3>2, <3>3, <3>4, <3>5, <4>1 DEF BoundOf, HasActiveContexts, Told
    <3> QED
      BY <2>0, <3>1, <3>6 DEF handlerVars, SendPCs
  <2>6. CASE SendBound(t)
    <3>1. /\ UNCHANGED <<inputVars, contextVars, handlerVars, localVars, offset_enabled>>
          /\ pc[t] = "sendBound" /\ pc' = [pc EXCEPT ![t] = "endBound"]
      BY <2>6 DEF SendBound, Goto
    <3>2. BoundOf(t) /\ pc[t] \in BoundPCs
      BY <3>1 DEF Bounds, BoundOf, BoundPCs
    <3>3. Source(t)' = Source(t) /\ Source(t) = bound[t] - Offset
      BY <3>1 DEF Source, localVars
    <3>4. bound[t] <= mirror'.bound
      BY <2>6, BoundReceived DEF SendBound
    <3>5. Source(t) \in InputBounds /\ mirror'.bound >= Source(t) + Offset
      BY <3>2, <3>3, <3>4 DEF BoundOf, Timestamps, InputBounds
    <3>6. Told(Source(t))'
      BY <3>3, <3>5 DEF Told
    <3>7. BoundOf(t)'
      <4>1. /\ UNCHANGED <<active_contexts_, arrived, task_timestamp_bound_, propagation_state_>>
            /\ pc'[t] = "endBound"
        BY <3>1 DEF inputVars, contextVars, handlerVars
      <4> QED
        BY <3>2, <3>3, <3>5, <3>6, <4>1 DEF BoundOf, HasActiveContexts
    <3> QED
      BY <2>0, <3>1, <3>7 DEF handlerVars, SendPCs
  <2>7. CASE EraseCompleted(t)
    <3> DEFINE c == context_timestamp[t]
               D == completed_input_timestamps_ \ {c}
    <3>1. /\ pc[t] = "erase" /\ UNCHANGED <<active_contexts_, arrived, task_timestamp_bound_>>
          /\ D \subseteq active_contexts_ /\ D \in SUBSET Inputs /\ c \in Inputs
      BY <2>7, Recycled DEF EraseCompleted, inputVars, contextVars
    <3>2. \A u \in Loopers \ {t} : pc[u] \notin SendPCs
      BY <3>1, OnlyOne DEF SendPCs
    <3>3. \/ D = {} /\ ~HasActiveContexts /\ NewBound(t) /\ PropagatesBound(t, task_timestamp_bound_)
          \/ PropagatesPackets(t, D)
          \/ StopsPropagating(t) /\ D = {} /\ ~HasActiveContexts /\ ~NewBound(t)
          \/ StopsPropagating(t) /\ ~(D = {} /\ ~HasActiveContexts)
      BY <2>7, <3>1, Recycled DEF EraseCompleted
    <3>4. ~HasActiveContexts => D = {}
      BY <3>1 DEF HasActiveContexts
    <3>5. NewBound(t) =>
            /\ task_timestamp_bound_ \in InputBounds
            /\ \A x \in arrived : task_timestamp_bound_ <= x
      BY <1>1, <3>1 DEF NewBound, Order, Unset, Inputs
    <3>6. ~NewBound(t) => Told(task_timestamp_bound_)
      <4>1. offset_enabled => mirror.bound > c + Offset
        BY <3>1 DEF Sends
      <4>2. ~NewBound(t) => task_timestamp_bound_ <= c + 1
        BY <3>1 DEF NewBound, Timestamps, Unset, Done, Inputs
      <4> QED
        BY <3>1, <4>1, <4>2 DEF Told, Timestamps, Unset, Done, Inputs
    <3>7. Told(task_timestamp_bound_) => Told(task_timestamp_bound_)'
      BY <1>3, <3>1
    <3>8. task_timestamp_bound_' \in Int
      BY <3>1 DEF Timestamps
    <3> HIDE DEF D
    <3> QED
      BY <3>1, <3>2, <3>3, <3>4, <3>5, <3>6, <3>7, <3>8, HeadKeepsBounds
  <2>8. CASE EndBound(t)
    <3>1. /\ pc[t] = "endBound" /\ pc[t] \in BoundPCs /\ pc[t] \in SendPCs
          /\ UNCHANGED <<active_contexts_, arrived, task_timestamp_bound_>>
      BY <2>8 DEF EndBound, inputVars, contextVars, BoundPCs, SendPCs
    <3>2. \A u \in Loopers \ {t} : pc[u] \notin SendPCs
      BY <3>1, OnlyOne
    <3>3. BoundOf(t)
      BY DEF Bounds, BoundOf
    <3>4. CASE propagation_state_ = "kPropagatingBound"
      <4>1. StopsPropagating(t)
        BY <2>8, <3>4 DEF EndBound
      <4>2. Told(task_timestamp_bound_)'
        BY <1>3, <3>1, <3>3, <3>4 DEF BoundOf
      <4>3. task_timestamp_bound_' \in Int /\ {} \in SUBSET Inputs
        BY <3>1 DEF Timestamps
      <4> QED
        BY <3>1, <3>2, <4>1, <4>2, <4>3, HeadKeepsBounds
    <3>5. CASE propagation_state_ # "kPropagatingBound"
      <4>1. propagation_state_ = "kPropagationPending"
        BY <3>1, <3>5, OnlyOne
      <4>2. ~HasActiveContexts =>
              /\ task_timestamp_bound_ \in InputBounds
              /\ \A x \in arrived : task_timestamp_bound_ <= x
        BY <1>1, <3>1, <3>3, <4>1 DEF BoundOf, Order, InputBounds, Unset
      <4>3. \/ ~HasActiveContexts /\ PropagatesBound(t, task_timestamp_bound_)
            \/ PropagatesPackets(t, completed_input_timestamps_)
            \/ HasActiveContexts /\ StopsPropagating(t)
        BY <2>8, <3>5 DEF EndBound
      <4>4. task_timestamp_bound_' \in Int
        BY <3>1 DEF Timestamps
      <4> QED
        BY <3>1, <3>2, <4>2, <4>3, <4>4, HeadKeepsBounds
    <3> QED
      BY <3>4, <3>5
  <2> QED
    BY <1>11, <2>1, <2>2, <2>3, <2>4, <2>5, <2>6, <2>7, <2>8 DEF LoopStep, SetBound
<1>12. CASE ClosingStep
  <2>1. prepared_context_for_close_
    BY <1>12 DEF ClosingStep, CloseNode, SetBound, SendBound, CloseStream, ClosesLast
  <2> QED
    BY <1>5, <1>6, <1>12, <2>1 DEF ClosingStep, CloseNode, SetBound, SendBound, CloseStream, Goto,
         inputVars, contextVars, handlerVars, localVars, BoundFrame, HasActiveContexts
<1> QED
  BY <1>7, <1>8, <1>9, <1>10, <1>11, <1>12, Steps

-----------------------------------------------------------------------------
(* The theorems. *)

LEMMA Initially == Init => IInv
<1> SUFFICES ASSUME Init PROVE IInv
  OBVIOUS
<1> USE Names DEF Init
<1>1. {Unset, PreStream, Done} \subseteq Timestamps /\ NoShard \in Shard
  BY DEF Timestamps, Unset, PreStream, Done, NoShard, Shard
<1>2. \A t \in Threads : pc[t] \in {"idle", "none"} /\ (t # Scheduling => pc[t] = "none")
  OBVIOUS
<1>3. TypeOK
  <2>1. InputTypes /\ ThreadTypes
    BY <1>1 DEF InputTypes, ThreadTypes, PCs
  <2>2. StreamTypes
    BY <1>1 DEF StreamTypes
  <2>3. FlagTypes
    BY Zenon DEF FlagTypes
  <2> QED
    BY <2>1, <2>2, <2>3, Zenon DEF TypeOK, InputTypes, ThreadTypes, StreamTypes, FlagTypes
<1>4. Places
  BY <1>2 DEF Places, InputBounds, PreStream
<1>5. Order
  BY <1>2 DEF Order, Unset, PreStream
<1>6. ClosesLast /\ Alone
  BY <1>2 DEF ClosesLast, Alone, SendPCs
<1>7. Completed
  BY <1>2 DEF Completed, PacketPCs, MaySend
<1>8. Bounds
  BY <1>2 DEF Bounds, BoundPCs, Told, IsRangeValue, Unset, PreStream
<1>9. Outputs /\ Sends
  BY <1>2 DEF Outputs, Sends
<1>10. Room
  BY DEF Room, PreStream
<1>11. RefusedOnlyAfterClose
  BY Zenon DEF RefusedOnlyAfterClose
<1> QED
  BY <1>3, <1>4, <1>5, <1>6, <1>7, <1>8, <1>9, <1>10, <1>11 DEF IInv

LEMMA IInvKept ==
  ASSUME IInv, [Next]_vars
  PROVE  IInv'
  BY TypeOKKept, PlacesKept, OrderKept, ClosesLastKept, AloneKept, CompletedKept, BoundsKept,
     OutputsKept, SendsKept, RoomKept, RefusedKept DEF IInv

LEMMA IInvHolds == Spec => []IInv
  BY Initially, IInvKept, PTL DEF Spec

(* What the variables hold, and a completed invocation has its context until it is
   recycled, for every number of inputs, every offset and every max_in_flight_. *)
THEOREM TypeCorrect == Spec => []TypeOK
<1>1. IInv => TypeOK
  BY DEF IInv
<1> QED
  BY <1>1, IInvHolds, PTL

LEMMA OneThread == IInv => OnePropagationThread
<1> SUFFICES ASSUME IInv PROVE OnePropagationThread
  OBVIOUS
<1>1. \A t, u \in InLoop \ {Closing} : t = u
  BY Names DEF IInv, Alone, InLoop
<1>2. propagation_state_ = "kIdle" => InLoop \subseteq {Closing}
  BY Names DEF IInv, Alone, InLoop
<1>3. InLoop \subseteq {Closing} => propagation_state_ = "kIdle"
  BY Names DEF IInv, Alone, InLoop, TypeOK, PacketPCs, BoundPCs, SendPCs
<1> QED
  BY <1>1, <1>2, <1>3, Zenon DEF OnePropagationThread

LEMMA Checks == IInv => ChecksHold
<1> SUFFICES ASSUME IInv PROVE ChecksHold
  OBVIOUS
<1>1. pc[Scheduling] = "update" => bound[Scheduling] >= task_timestamp_bound_
  BY DEF IInv, Order
<1>2. ASSUME NEW t \in InLoop \ {Closing}
      PROVE  /\ pc[t] = "endBound" /\ propagation_state_ = "kPropagationPending"
                  /\ ~HasActiveContexts => bound[t] < task_timestamp_bound_ + Offset
             /\ pc[t] = "recycle" => /\ HasActiveContexts
                                     /\ Min(active_contexts_) = context_timestamp[t]
             /\ pc[t] = "erase" => /\ context_timestamp[t] \in completed_input_timestamps_
                                   /\ Min(completed_input_timestamps_) = context_timestamp[t]
  <2>1. t \in Loopers
    BY Names DEF InLoop
  <2>2. pc[t] = "endBound" /\ propagation_state_ = "kPropagationPending" /\ ~HasActiveContexts
          => bound[t] - Offset < task_timestamp_bound_
    BY <2>1 DEF IInv, Bounds, BoundPCs, Source
  <2>3. bound[t] \in Int /\ task_timestamp_bound_ \in Int /\ Offset \in Int
    BY <2>1, Names DEF IInv, TypeOK, Timestamps
  <2> QED
    BY <2>1, <2>2, <2>3, Oldest, Recycled DEF PacketPCs, HasActiveContexts
<1> QED
  BY <1>1, <1>2, Zenon DEF ChecksHold

LEMMA NothingLeft == IInv => NothingStranded
<1> SUFFICES ASSUME IInv, Resting, ~has_error
             PROVE  /\ completed_input_timestamps_ = {} /\ ~HasActiveContexts
                    /\ offset_enabled /\ IsRangeValue(task_timestamp_bound_)
                         => mirror.bound >= task_timestamp_bound_ + Offset
  BY DEF NothingStranded
<1>1. \A t \in Loopers : pc[t] \notin SendPCs
  BY Names DEF Resting, InFlight, SendPCs
<1>2. /\ propagation_state_ = "kIdle" /\ pc[Closing] # "sendBound"
      /\ \A i \in Inputs : pc[i] \notin {"process", "post"}
  BY <1>1, Names DEF Resting, InFlight, IInv, Alone, TypeOK, PacketPCs, BoundPCs, SendPCs
<1>3. active_contexts_ \subseteq completed_input_timestamps_ /\ active_contexts_ \subseteq Inputs
  BY <1>2 DEF IInv, Completed, TypeOK
<1>4. completed_input_timestamps_ \subseteq active_contexts_
  BY <1>1 DEF IInv, Completed, SendPCs
<1>5. active_contexts_ = completed_input_timestamps_
  BY <1>3, <1>4
<1>6. ~MaySend(completed_input_timestamps_)
  BY <1>2 DEF IInv, Completed
<1>7. completed_input_timestamps_ = {} /\ ~HasActiveContexts
  BY <1>5, <1>6 DEF MaySend, HasActiveContexts
<1>8. Told(task_timestamp_bound_)
  BY <1>2, <1>7 DEF IInv, Bounds
<1> QED
  BY <1>2, <1>7, <1>8 DEF Told

(* Whoever propagates, and whatever arrives while timestamp_mutex_ is released, the
   handler keeps to its CHECKs, strands nothing and makes the stream downstream refuse
   nothing but after CloseNode: for every number of inputs and parallel invocations. *)
THEOREM PropagationIsSound == Spec => []PropagationSound
<1>1. IInv => PropagationSound
  BY OneThread, Checks, NothingLeft DEF PropagationSound, IInv
<1> QED
  BY <1>1, IInvHolds, PTL

-----------------------------------------------------------------------------
(* The refinement: InOrderOutput implements OrderedOutput.  The propagation
   thread sends for the oldest context, which is complete, so an output leaves
   where it has room (Room).  Every other step takes an input, ends an invocation,
   advances the bound downstream or changes nothing that is seen there. *)

(* Inputs are taken in order, what is taken has left its queue, and the packet that left
   last is older than the bound. *)
Taken ==
  /\ \A i \in Inputs : pc[i] # "none" => \A b \in arrived : i < b
  /\ \A i \in active_contexts_ \cup completed_input_timestamps_ : pc[i] # "none"
  /\ context_timestamp[Closing] = 0
RInv == Taken /\ mirror.last < mirror.bound

\* The output has left: its context was recycled, or is about to be.
Leaving(i) == \E t \in Loopers : context_timestamp[t] = i /\ pc[t] \in {"closeStream", "recycle"}
Gone(i) == (pc[i] # "none" /\ i \notin active_contexts_) \/ Leaving(i)
Ended(i) == i \in completed_input_timestamps_ \/ pc[i] = "post"

FateIs(i) ==
  IF pc[i] = "none" THEN "none"
  ELSE IF Gone(i) THEN "sent"
  ELSE IF Ended(i) THEN IF shard[i].packet THEN "packet" ELSE "silent"
  ELSE "taken"

-----------------------------------------------------------------------------
(* What is seen of the state. *)

LEMMA Leaves ==
  ASSUME IInv, RInv, NEW i \in Inputs, Leaving(i)
  PROVE  pc[i] # "none" /\ i \in active_contexts_ /\ i \in completed_input_timestamps_
  BY Oldest DEF Leaving, PacketPCs, RInv, Taken

LEMMA Fates ==
  IInv /\ RInv => [i \in Inputs |-> Fate(i)] = [i \in Inputs |-> FateIs(i)]
<1> SUFFICES ASSUME IInv, RInv, NEW i \in Inputs PROVE Fate(i) = FateIs(i)
  OBVIOUS
<1>1. context_timestamp[Closing] # i
  BY DEF RInv, Taken, Inputs
<1>2. Sent(i) => Gone(i)
  BY <1>1, Names DEF Sent, Gone, Leaving
<1>3. Gone(i) => Sent(i)
  BY Names DEF Sent, Gone, Leaving
<1>4. pc[i] = "none" => ~Gone(i) /\ ~Ended(i)
  BY Leaves DEF Gone, Ended, RInv, Taken
<1> QED
  BY <1>2, <1>3, <1>4 DEF Fate, FateIs, Ended

LEMMA FatesNext ==
  (IInv /\ RInv => [i \in Inputs |-> Fate(i)] = [i \in Inputs |-> FateIs(i)])'
  BY Fates, PTL

\* An input under way has its context.
LEMMA UnderWayIsActive ==
  \A i \in Inputs : FateIs(i) \in {"taken", "packet", "silent"} =>
    i \in active_contexts_ /\ ~Gone(i) /\ pc[i] # "none"
  BY DEF FateIs, Gone

(* A step is not seen if no output leaves by it, no input is taken and no invocation
   ends, but for those whose output has left. *)
Quiet(i) ==
  /\ pc[i] = "none" => pc'[i] = "none"
  /\ pc'[i] = "none" => pc[i] = "none"
  /\ Gone(i) => Gone(i)'
  /\ Gone(i)' => Gone(i)
  /\ Gone(i) \/ /\ Ended(i) => Ended(i)'
                /\ Ended(i)' => Ended(i)
                /\ shard'[i] = shard[i]

LEMMA QuietKeepsFate ==
  ASSUME NEW i, Quiet(i)
  PROVE  FateIs(i)' = FateIs(i)
<1>1. CASE Gone(i)
  BY <1>1 DEF FateIs, Quiet
<1>2. CASE ~Gone(i)
  <2>1. ~Gone(i)' /\ shard'[i] = shard[i]
    BY <1>2 DEF Quiet
  <2>2. CASE Ended(i)
    BY <1>2, <2>1, <2>2 DEF FateIs, Quiet
  <2>3. CASE ~Ended(i)
    BY <1>2, <2>1, <2>3 DEF FateIs, Quiet
  <2> QED
    BY <2>2, <2>3
<1> QED
  BY <1>1, <1>2

-----------------------------------------------------------------------------
(* The steps of the propagation thread. *)

\* How the head of the loop leaves a thread.
Headed(t) ==
  /\ pc'[t] \in {"checkClosed", "checkBound", "idle", "end"}
  /\ \A u \in Threads \ {t} : pc'[u] = pc[u] /\ context_timestamp'[u] = context_timestamp[u]

LEMMA HeadIs ==
  ASSUME IInv, NEW t \in Loopers, NEW D,
         \/ LeavesToPropagationThread(t) \/ StopsPropagating(t)
         \/ PropagatesPackets(t, D)
         \/ \E b \in Timestamps : PropagatesBound(t, b)
         \/ Return(t)
  PROVE  Headed(t)
<1>0. pc \in [Threads -> PCs] /\ context_timestamp \in [Threads -> 0 .. MaxTs] /\ t \in Threads
  BY Names DEF IInv, TypeOK
<1>1. Return(t) => Headed(t)
  BY <1>0 DEF Return, Goto, Headed
<1>2. LeavesToPropagationThread(t) \/ StopsPropagating(t) => Return(t)
  BY DEF LeavesToPropagationThread, StopsPropagating
<1>3. PropagatesPackets(t, D) => Headed(t)
  BY <1>0 DEF PropagatesPackets, Goto, Headed
<1>4. ASSUME NEW b, PropagatesBound(t, b) PROVE Headed(t)
  BY <1>0, <1>4 DEF PropagatesBound, Goto, Headed
<1> QED
  BY <1>1, <1>2, <1>3, <1>4

\* What the steps of the loop have in common: they are of one thread, and take no input.
LoopFrame(t) ==
  /\ UNCHANGED arrived
  /\ pc[t] \in SendPCs /\ pc'[t] \notin {"none", "post"}
  /\ \A u \in Threads \ {t} : pc'[u] = pc[u] /\ context_timestamp'[u] = context_timestamp[u]
  /\ active_contexts_' \subseteq active_contexts_
  /\ completed_input_timestamps_' \subseteq completed_input_timestamps_

LEMMA LoopSteps ==
  ASSUME IInv, NEW t \in Loopers, LoopStep(t)
  PROVE  /\ LoopFrame(t)
         /\ EraseCompleted(t) \/ EndBound(t) => Headed(t)
<1> USE Names DEF LoopFrame, SendPCs
<1>0. pc \in [Threads -> PCs] /\ context_timestamp \in [Threads -> 0 .. MaxTs] /\ t \in Threads
  BY DEF IInv, TypeOK
<1>t. task_timestamp_bound_ \in Timestamps
  BY DEF IInv, TypeOK
<1>1. CASE CheckClosed(t)
  BY <1>0, <1>1 DEF CheckClosed, Goto, inputVars, contextVars, handlerVars, EraseCompleted, EndBound
<1>2. CASE SetBound(t)
  BY <1>0, <1>2 DEF SetBound, Goto, inputVars, contextVars, handlerVars, localVars,
                    EraseCompleted, EndBound
<1>3. CASE Send(t)
  BY <1>0, <1>3 DEF Send, Goto, inputVars, contextVars, handlerVars, localVars,
                    EraseCompleted, EndBound
<1>4. CASE CloseStream(t)
  BY <1>0, <1>4 DEF CloseStream, Goto, inputVars, contextVars, handlerVars, localVars,
                    EraseCompleted, EndBound
<1>5. CASE Recycle(t)
  BY <1>0, <1>5 DEF Recycle, Goto, inputVars, handlerVars, localVars, EraseCompleted, EndBound
<1>6. CASE EraseCompleted(t)
  <2>1. Headed(t)
    BY <1>t, <1>6, HeadIs DEF EraseCompleted
  <2> QED
    BY <1>6, <2>1 DEF EraseCompleted, Headed, inputVars, contextVars
<1>7. CASE CheckBound(t)
  BY <1>0, <1>7 DEF CheckBound, Goto, inputVars, contextVars, handlerVars, EraseCompleted, EndBound
<1>8. CASE SendBound(t)
  BY <1>0, <1>8 DEF SendBound, Goto, inputVars, contextVars, handlerVars, localVars,
                    EraseCompleted, EndBound
<1>9. CASE EndBound(t)
  <2>1. Headed(t)
    BY <1>t, <1>9, HeadIs DEF EndBound
  <2> QED
    BY <1>9, <2>1 DEF EndBound, Headed, inputVars, contextVars
<1> QED
  BY <1>1, <1>2, <1>3, <1>4, <1>5, <1>6, <1>7, <1>8, <1>9 DEF LoopStep

\* The last packet downstream is older than the bound there.
LEMMA LastReceived ==
  ASSUME mirror \in [bound : Timestamps, last : Timestamps], mirror.last < mirror.bound,
         NEW p \in Timestamps, NEW b \in Timestamps, Receive(p, b)
  PROVE  /\ mirror'.last < mirror'.bound
         /\ mirror'.last = IF p # Unset /\ p >= mirror.bound THEN p ELSE mirror.last
<1> USE Names DEF Timestamps, Unset, Done
<1>0. mirror.bound \in Int /\ mirror.last \in Int /\ p \in Int /\ b \in Int
  OBVIOUS
<1>1. CASE p # Unset /\ ~(p < mirror.bound)
  <2>1. mirror' = [[last |-> p, bound |-> p + 1] EXCEPT !.bound = Max({@, b})]
    BY <1>1 DEF Receive
  <2>2. mirror'.last = p /\ mirror'.bound = Max({p + 1, b})
    BY <2>1
  <2>3. Max({p + 1, b}) = IF p + 1 >= b THEN p + 1 ELSE b
    BY <1>0, Maximum
  <2>4. mirror'.last < mirror'.bound
    BY <1>0, <2>2, <2>3
  <2>5. p >= mirror.bound
    BY <1>0, <1>1
  <2> QED
    BY <1>1, <2>2, <2>4, <2>5
<1>2. CASE p = Unset \/ p < mirror.bound
  <2>1. mirror' = [mirror EXCEPT !.bound = Max({@, b})]
    BY <1>2 DEF Receive
  <2>2. mirror'.last = mirror.last /\ mirror'.bound = Max({mirror.bound, b})
    BY <2>1
  <2>3. Max({mirror.bound, b}) = IF mirror.bound >= b THEN mirror.bound ELSE b
    BY <1>0, Maximum
  <2>4. mirror'.last < mirror'.bound
    BY <1>0, <2>2, <2>3
  <2>5. ~(p # Unset /\ p >= mirror.bound)
    BY <1>0, <1>2
  <2> QED
    BY <2>2, <2>4, <2>5
<1> QED
  BY <1>1, <1>2

-----------------------------------------------------------------------------
(* The invariant. *)

LEMMA MirrorKept ==
  ASSUME IInv, RInv, [Next]_vars
  PROVE  mirror'.last < mirror'.bound
<1> USE Names
<1>0. mirror \in [bound : Timestamps, last : Timestamps] /\ mirror.last < mirror.bound
  BY DEF IInv, TypeOK, RInv
<1>1. UNCHANGED mirror => mirror'.last < mirror'.bound
  BY <1>0
<1>2. ASSUME NEW b \in Timestamps, Receive(Unset, b) PROVE mirror'.last < mirror'.bound
  <2>1. Unset \in Timestamps
    BY DEF Timestamps, Unset, Done
  <2> QED
    BY <1>0, <1>2, <2>1, LastReceived
<1>3. \A t \in Threads : bound[t] \in Timestamps
  BY DEF IInv, TypeOK
<1>4. Done \in Timestamps
  BY DEF Timestamps, Unset, Done
<1>5. CASE UNCHANGED vars
  BY <1>1, <1>5 DEF vars
<1>6. ASSUME NEW i \in Inputs, InputStep(i) PROVE mirror'.last < mirror'.bound
  BY <1>1, <1>6 DEF InputStep, PacketArrives, Process, ProcessFails, PostProcess, EndScheduling
<1>7. CASE SchedulingStep
  BY <1>1, <1>7 DEF SchedulingStep, ScheduleInvocation, ScheduleClose, NotReady,
                    UpdateTaskTimestampBound
<1>8. ASSUME NEW b \in (2 .. MaxTs) \cup {Done}, BoundArrives(b)
      PROVE  mirror'.last < mirror'.bound
  BY <1>1, <1>8 DEF BoundArrives
<1>9. ASSUME NEW t \in Threads, SendBound(t) \/ CloseStream(t)
      PROVE  mirror'.last < mirror'.bound
  BY <1>1, <1>2, <1>3, <1>4, <1>9 DEF SendBound, CloseStream
<1>10. ASSUME NEW t \in Loopers, LoopStep(t) PROVE mirror'.last < mirror'.bound
  <2>1. CASE Send(t)
    BY <1>0, <2>1, Packets, LastReceived
  <2>2. CASE ~Send(t) /\ ~SendBound(t) /\ ~CloseStream(t)
    BY <1>1, <1>10, <2>2 DEF LoopStep, CheckClosed, SetBound, Recycle, EraseCompleted,
                             CheckBound, EndBound
  <2> QED
    BY <1>9, <2>1, <2>2
<1>11. CASE ClosingStep
  BY <1>1, <1>9, <1>11 DEF ClosingStep, CloseNode, SetBound
<1> QED
  BY <1>5, <1>6, <1>7, <1>8, <1>10, <1>11, Steps DEF IInv

LEMMA TakenKept ==
  ASSUME IInv, RInv, [Next]_vars
  PROVE  Taken'
<1> USE Names
<1>0. /\ pc \in [Threads -> PCs] /\ active_contexts_ \in SUBSET Inputs
      /\ arrived \in SUBSET Inputs /\ completed_input_timestamps_ \in SUBSET Inputs
      /\ context_timestamp \in [Threads -> 0 .. MaxTs] /\ input_bound \in Timestamps
  BY DEF IInv, TypeOK
<1>t. Taken
  BY DEF RInv
<1> DEFINE Same ==
      /\ arrived' = arrived /\ context_timestamp'[Closing] = context_timestamp[Closing]
      /\ active_contexts_' \subseteq active_contexts_
      /\ completed_input_timestamps_' \subseteq completed_input_timestamps_
      /\ \A i \in Inputs : (pc[i] = "none" => pc'[i] = "none") /\ (pc'[i] = "none" => pc[i] = "none")
<1>1. Same => Taken'
  BY <1>0, <1>t DEF Taken
<1>2. CASE UNCHANGED vars
  BY <1>1, <1>2 DEF vars, inputVars, contextVars, handlerVars, localVars
<1>3. ASSUME NEW i \in Inputs, InputStep(i) PROVE Taken'
  <2>1. CASE PacketArrives(i)
    <3>1. ASSUME NEW j \in Inputs, pc[j] # "none" PROVE j < i
      <4>1. j < input_bound /\ i >= input_bound
        BY <1>0, <2>1, <3>1 DEF PacketArrives, IInv, Order, Timestamps, Unset, Done
      <4> QED
        BY <1>0, <4>1 DEF Timestamps, Unset, Done
    <3> QED
      BY <1>t, <2>1, <3>1 DEF PacketArrives, Taken, contextVars, handlerVars, localVars
  <2>2. CASE Process(i) \/ ProcessFails(i) \/ EndScheduling(i)
    BY <1>0, <1>1, <2>2 DEF Process, ProcessFails, EndScheduling, Goto, inputVars, contextVars,
                            handlerVars, localVars
  <2>3. CASE PostProcess(i)
    <3>1. Headed(i) /\ pc[i] = "post"
      <4>1. task_timestamp_bound_ \in Timestamps /\ i \in Loopers
        BY DEF IInv, TypeOK
      <4> QED
        BY <2>3, <4>1, HeadIs DEF PostProcess, EntersLoop
    <3>2. /\ completed_input_timestamps_' = completed_input_timestamps_ \cup {i}
          /\ UNCHANGED <<inputVars, contextVars>>
      BY <2>3 DEF PostProcess
    <3> QED
      BY <1>0, <1>t, <3>1, <3>2 DEF Headed, Taken, inputVars, contextVars
  <2> QED
    BY <1>3, <2>1, <2>2, <2>3 DEF InputStep
<1>4. CASE SchedulingStep
  <2>1. CASE ScheduleInvocation
    <3>1. Min(arrived) \in arrived /\ \A x \in arrived : Min(arrived) <= x
      BY <1>0, <2>1, Minimum DEF ScheduleInvocation
    <3>2. ASSUME NEW x \in arrived \ {Min(arrived)} PROVE Min(arrived) < x
      <4>1. x \in Int /\ Min(arrived) \in Int /\ Min(arrived) <= x /\ x # Min(arrived)
        BY <1>0, <3>1
      <4> QED
        BY <4>1
    <3> QED
      BY <1>0, <1>t, <2>1, <3>1, <3>2
         DEF ScheduleInvocation, Goto, Taken, handlerVars, localVars
  <2>2. CASE ScheduleClose
    BY <1>0, <1>1, <2>2 DEF ScheduleClose, Goto, inputVars, handlerVars, localVars
  <2>3. CASE NotReady
    BY <1>0, <1>1, <2>3 DEF NotReady, Goto, inputVars, contextVars, handlerVars
  <2>4. CASE UpdateTaskTimestampBound
    <3>1. Headed(Scheduling)
      <4>1. bound[Scheduling] \in Timestamps /\ Scheduling \in Loopers
        BY DEF IInv, TypeOK
      <4> QED
        BY <2>4, <4>1, HeadIs DEF UpdateTaskTimestampBound, EntersLoop
    <3> QED
      BY <1>1, <2>4, <3>1 DEF UpdateTaskTimestampBound, Headed, inputVars, contextVars
  <2> QED
    BY <1>4, <2>1, <2>2, <2>3, <2>4 DEF SchedulingStep
<1>5. ASSUME NEW b \in (2 .. MaxTs) \cup {Done}, BoundArrives(b) PROVE Taken'
  BY <1>1, <1>5 DEF BoundArrives, contextVars, handlerVars, localVars
<1>6. ASSUME NEW t \in Loopers, LoopStep(t) PROVE Taken'
  <2>1. LoopFrame(t)
    BY <1>6, LoopSteps
  <2> QED
    BY <1>0, <1>1, <2>1 DEF LoopFrame, SendPCs
<1>7. CASE ClosingStep
  BY <1>0, <1>1, <1>7 DEF ClosingStep, CloseNode, SetBound, SendBound, CloseStream, Goto,
                          inputVars, contextVars, handlerVars, localVars
<1> QED
  BY <1>2, <1>3, <1>4, <1>5, <1>6, <1>7, Steps DEF IInv

LEMMA RInvInitially == Init => RInv
<1> SUFFICES ASSUME Init PROVE RInv
  OBVIOUS
<1>1. \A i \in Inputs : pc[i] = "none"
  BY Names DEF Init
<1> QED
  BY <1>1, Names DEF Init, RInv, Taken, PreStream, Unset

LEMMA RInvHolds == Spec => [](IInv /\ RInv)
<1>1. IInv /\ RInv /\ [Next]_vars => RInv'
  BY TakenKept, MirrorKept DEF RInv
<1> QED
  BY <1>1, RInvInitially, IInvHolds, PTL DEF Spec

-----------------------------------------------------------------------------
(* Each step is a step of OrderedOutput, or is not seen. *)

\* The state before and after a step, with what has been proved of it.
Step ==
  /\ IInv /\ RInv /\ [Next]_vars
  /\ IInv' /\ RInv'

LEMMA StepTypes ==
  ASSUME Step
  PROVE  /\ pc \in [Threads -> PCs] /\ context_timestamp \in [Threads -> 0 .. MaxTs]
         /\ active_contexts_ \in SUBSET Inputs /\ arrived \in SUBSET Inputs
         /\ completed_input_timestamps_ \in SUBSET Inputs /\ shard \in [Inputs -> Shard]
         /\ mirror.bound \in Timestamps /\ mirror'.bound \in Timestamps
         /\ mirror.last \in Timestamps /\ mirror'.last \in Timestamps
         /\ mirror.bound <= mirror'.bound /\ mirror'.last < mirror'.bound
         /\ \A t \in Threads : bound[t] \in Timestamps
         /\ task_timestamp_bound_ \in Timestamps
  BY BoundsGrow DEF Step, IInv, TypeOK, RInv

LEMMA MappedFates ==
  ASSUME Step
  PROVE  /\ [i \in Inputs |-> Fate(i)] = [i \in Inputs |-> FateIs(i)]
         /\ [i \in Inputs |-> Fate(i)]' = [i \in Inputs |-> FateIs(i)']
<1>1. [i \in Inputs |-> Fate(i)] = [i \in Inputs |-> FateIs(i)]
  BY Fates DEF Step
<1>2. ([i \in Inputs |-> Fate(i)] = [i \in Inputs |-> FateIs(i)])'
  BY FatesNext DEF Step
<1> QED
  BY <1>1, <1>2 DEF Inputs

LEMMA TakeStep ==
  ASSUME Step, ScheduleInvocation
  PROVE  Ordered!Take(Min(arrived))
<1> USE Names, StepTypes
<1>0. Min(arrived) \in arrived
  BY Minimum DEF ScheduleInvocation
<1>i. PICK i \in arrived : i = Min(arrived)
  BY <1>0
<1>1. i \in arrived /\ i \in Inputs /\ i \in Int
  BY DEF Inputs
<1>2. pc[i] = "none" /\ FateIs(i) = "none"
  BY <1>1 DEF Step, IInv, Order, FateIs
<1>3. ASSUME NEW j \in Inputs, j > i PROVE FateIs(j) = "none"
  <2>1. pc[j] # "none" => j < i
    BY <1>1 DEF Step, RInv, Taken
  <2>2. j \in Int /\ ~(j < i)
    BY <1>1, <1>3
  <2> QED
    BY <2>1, <2>2 DEF FateIs
<1>4. /\ pc'[i] \in {"dropped", "process"} /\ \A u \in Threads \ {i} : pc'[u] = pc[u]
      /\ active_contexts_' = active_contexts_ \cup {i}
      /\ UNCHANGED <<completed_input_timestamps_, context_timestamp, shard, mirror>>
  BY <1>i, <1>1 DEF ScheduleInvocation, Goto, handlerVars, localVars
<1>5. FateIs(i)' = "taken"
  <2>1. i \notin completed_input_timestamps_ /\ i \notin active_contexts_
    BY <1>2 DEF Step, RInv, Taken
  <2>2. \A t \in Loopers : pc[t] \in {"closeStream", "recycle"} => context_timestamp[t] # i
    BY <2>1, Oldest DEF Step, PacketPCs
  <2>3. ~Gone(i)'
    BY <1>1, <1>4, <2>2 DEF Gone, Leaving
  <2>4. ~Ended(i)'
    BY <1>4, <2>1 DEF Ended
  <2> QED
    BY <1>4, <2>3, <2>4 DEF FateIs
<1>6. ASSUME NEW j \in Inputs, j # i PROVE FateIs(j)' = FateIs(j)
  <2>1. Leaving(j) => Leaving(j)'
    <3>1. ASSUME NEW t \in Loopers, pc[t] \in {"closeStream", "recycle"} PROVE t # i
      BY <1>2, <3>1
    <3> QED
      BY <1>4, <3>1 DEF Leaving
  <2>2. Leaving(j)' => Leaving(j)
    BY <1>4 DEF Leaving
  <2>3. pc'[j] = pc[j] /\ (j \in active_contexts_' => j \in active_contexts_)
        /\ (j \in active_contexts_ => j \in active_contexts_')
    BY <1>4, <1>6
  <2>4. Quiet(j)
    BY <1>4, <2>1, <2>2, <2>3 DEF Quiet, Gone, Ended
  <2> QED
    BY <2>4, QuietKeepsFate
<1>7. [j \in Inputs |-> FateIs(j)'] = [[j \in Inputs |-> FateIs(j)] EXCEPT ![i] = "taken"]
  BY <1>1, <1>5, <1>6
<1>8. mirror' = mirror
  BY <1>4
<1> QED
  BY <1>i, <1>1, <1>2, <1>3, <1>7, <1>8, MappedFates DEF Ordered!Take, Ordered!Inputs, Inputs

LEMMA ProduceStep ==
  ASSUME Step, NEW i \in Inputs, Process(i)
  PROVE  Ordered!Produce(i)
<1> USE Names, StepTypes
<1>1. /\ pc[i] = "process" /\ pc'[i] = "post" /\ \A u \in Threads \ {i} : pc'[u] = pc[u]
      /\ UNCHANGED <<active_contexts_, completed_input_timestamps_, context_timestamp, mirror>>
      /\ \A j \in Inputs \ {i} : shard'[j] = shard[j]
  BY DEF Process, Goto, contextVars, handlerVars, localVars
<1>2. i \in active_contexts_ /\ i \notin completed_input_timestamps_
  BY <1>1 DEF Step, IInv, Completed
<1>3. ~Leaving(i) /\ ~Leaving(i)'
  <2>1. \A t \in Loopers : pc[t] \in {"closeStream", "recycle"} => context_timestamp[t] # i
    BY <1>2, Oldest DEF Step, PacketPCs
  <2> QED
    BY <1>1, <2>1 DEF Leaving
<1>4. FateIs(i) = "taken"
  BY <1>1, <1>2, <1>3 DEF FateIs, Gone, Ended
<1>5. FateIs(i)' \in {"packet", "silent"}
  BY <1>1, <1>2, <1>3 DEF FateIs, Gone, Ended
<1>6. ASSUME NEW j \in Inputs, j # i PROVE FateIs(j)' = FateIs(j)
  <2>1. Leaving(j) => Leaving(j)'
    <3>1. ASSUME NEW t \in Loopers, pc[t] \in {"closeStream", "recycle"} PROVE t # i
      BY <1>1, <3>1
    <3> QED
      BY <1>1, <3>1 DEF Leaving
  <2>2. Leaving(j)' => Leaving(j)
    BY <1>1 DEF Leaving
  <2>3. Quiet(j)
    BY <1>1, <1>6, <2>1, <2>2 DEF Quiet, Gone, Ended
  <2> QED
    BY <2>3, QuietKeepsFate
<1>7. [j \in Inputs |-> FateIs(j)'] = [[j \in Inputs |-> FateIs(j)] EXCEPT ![i] = FateIs(i)']
  BY <1>6
<1> QED
  BY <1>1, <1>4, <1>5, <1>7, MappedFates DEF Ordered!Produce, Ordered!Inputs, Inputs

(* The output of the oldest context leaves, whether it is sent or the stream is closed:
   its place downstream is taken next. *)
LEMMA LeavingStep ==
  ASSUME Step, NEW t \in Loopers, (CheckClosed(t) /\ closed_) \/ Send(t)
  PROVE  \E c \in Inputs :
         /\ c = context_timestamp[t] /\ FateIs(c) = IF shard[c].packet THEN "packet" ELSE "silent"
         /\ \A j \in active_contexts_ : c <= j
         /\ FateIs(c)' = "sent" /\ \A j \in Inputs \ {c} : FateIs(j)' = FateIs(j)
         /\ active_contexts_' = active_contexts_
<1> USE Names, StepTypes
<1>c. PICK c \in Inputs : c = context_timestamp[t] /\ c \in active_contexts_
                          /\ c \in completed_input_timestamps_
  BY Oldest DEF Step, CheckClosed, Send, PacketPCs
<1>1. /\ pc[t] \in {"checkClosed", "send"} /\ pc'[t] \in {"closeStream", "recycle"}
      /\ \A u \in Threads \ {t} : pc'[u] = pc[u]
      /\ UNCHANGED <<active_contexts_, completed_input_timestamps_, context_timestamp, shard>>
  BY DEF CheckClosed, Send, Goto, contextVars, handlerVars, localVars
<1>2. \A j \in active_contexts_ : c <= j
  BY <1>c, <1>1 DEF Step, IInv, Completed, PacketPCs
<1>3. \A j \in Inputs : ~Leaving(j)
  BY <1>1, OnlyOne DEF Step, Leaving, SendPCs
<1>4. pc[c] # "none" /\ pc'[c] # "none"
  BY <1>c, <1>1 DEF Step, RInv, Taken
<1>5. FateIs(c) = IF shard[c].packet THEN "packet" ELSE "silent"
  BY <1>c, <1>3, <1>4 DEF FateIs, Gone, Ended
<1>6. FateIs(c)' = "sent"
  BY <1>c, <1>1, <1>4 DEF FateIs, Gone, Leaving
<1>7. ASSUME NEW j \in Inputs, j # c PROVE FateIs(j)' = FateIs(j)
  <2>1. ~Leaving(j)'
    <3>1. \A u \in Loopers : u # t => pc'[u] \notin {"closeStream", "recycle"}
      BY <1>1, OnlyOne DEF Step, SendPCs
    <3> QED
      BY <1>c, <1>1, <1>7, <3>1 DEF Leaving
  <2>2. Quiet(j)
    BY <1>1, <1>3, <2>1 DEF Quiet, Gone, Ended
  <2> QED
    BY <2>2, QuietKeepsFate
<1> QED
  BY <1>c, <1>1, <1>2, <1>5, <1>6, <1>7

LEMMA SendStep ==
  ASSUME Step, NEW t \in Loopers, (CheckClosed(t) /\ closed_) \/ Send(t)
  PROVE  Ordered!Send(context_timestamp[t])
<1> USE Names, StepTypes
<1>c. PICK c \in Inputs :
         /\ c = context_timestamp[t] /\ FateIs(c) = IF shard[c].packet THEN "packet" ELSE "silent"
         /\ \A j \in active_contexts_ : c <= j
         /\ FateIs(c)' = "sent" /\ \A j \in Inputs \ {c} : FateIs(j)' = FateIs(j)
         /\ active_contexts_' = active_contexts_
  BY LeavingStep
<1>1. [j \in Inputs |-> FateIs(j)'] = [[j \in Inputs |-> FateIs(j)] EXCEPT ![c] = "sent"]
  BY <1>c
<1>2. \A j \in Inputs : FateIs(j) \in {"taken", "packet", "silent"} => c <= j
  BY <1>c, UnderWayIsActive
<1>3. mirror'.bound \in mirror.bound .. Done
  BY DEF Timestamps, Unset, Done
\* It is sent where there is room for it, and the bound that follows is right after it.
<1>4. /\ IF FateIs(c) = "packet" /\ mirror.bound # Done
           THEN mirror.bound <= c + Offset /\ mirror'.last = c + Offset
           ELSE mirror'.last = mirror.last
      /\ mirror'.bound = Done \/ mirror'.bound <= c + Offset + 1
  <2>1. CASE CheckClosed(t) /\ closed_
    BY <2>1 DEF CheckClosed, Step, IInv, Room
  <2>2. CASE Send(t)
    <3> DEFINE p == IF shard[c].packet THEN c + Offset ELSE Unset
    <3>1. mirror.bound <= c + Offset
      BY <1>c, <2>2, RoomToSend DEF Send, Step
    <3>2. p \in Timestamps /\ p + 1 \in Timestamps /\ bound[t] \in Timestamps /\ Receive(p, bound[t])
      BY <1>c, <2>2, Packets DEF Step
    <3>3. mirror'.last = IF p # Unset /\ p >= mirror.bound THEN p ELSE mirror.last
      BY <3>2, LastReceived DEF Step, IInv, TypeOK, RInv
    <3>4. \/ mirror'.bound = mirror.bound \/ mirror'.bound = bound[t]
          \/ p # Unset /\ mirror'.bound = p + 1
      BY <3>2, Received DEF Step, IInv, TypeOK
    <3>5. bound[t] \in {Unset, c + Offset + 1, Done}
      BY <1>c, <2>2 DEF Send, Step, IInv, Sends
    <3>6. c \in Int /\ 1 <= c /\ mirror.bound \in Int
      BY DEF Inputs, Timestamps
    <3>7. c + Offset # Unset /\ Unset <= c + Offset + 1 /\ mirror.bound # Done
      BY <1>c, <3>1, <3>6 DEF Unset, Done, Inputs
    <3>8. mirror'.bound = Done \/ mirror'.bound <= c + Offset + 1
      BY <3>1, <3>4, <3>5, <3>6, <3>7
    <3>9. FateIs(c) = "packet" => mirror'.last = c + Offset
      BY <1>c, <3>1, <3>3, <3>6, <3>7
    <3>10. FateIs(c) # "packet" => mirror'.last = mirror.last
      BY <1>c, <3>3
    <3> QED
      BY <3>1, <3>7, <3>8, <3>9, <3>10
  <2> QED
    BY <2>1, <2>2
<1>5. mirror'.bound = Done \/
        \A j \in Inputs : FateIs(j)' \in {"taken", "packet", "silent"} => mirror'.bound <= j + Offset
  <2>1. ASSUME NEW j \in Inputs, FateIs(j)' \in {"taken", "packet", "silent"} PROVE c + 1 <= j
    <3>1. j # c /\ FateIs(j) \in {"taken", "packet", "silent"}
      BY <1>c, <2>1
    <3>2. c <= j /\ c \in Int /\ j \in Int
      BY <1>2, <3>1 DEF Inputs
    <3> QED
      BY <3>1, <3>2
  <2>2. \A j \in Inputs : c + 1 <= j /\ mirror'.bound <= c + Offset + 1 => mirror'.bound <= j + Offset
    BY DEF Inputs, Timestamps
  <2> QED
    BY <1>4, <2>1, <2>2
<1>6. FateIs(c) \in {"packet", "silent"}
  BY <1>c
<1>7. mirror'.last < mirror'.bound /\ mirror'.bound \in Int /\ mirror'.last \in Int
  BY DEF Timestamps
<1> DEFINE f == [j \in Inputs |-> FateIs(j)]
           g == [j \in Inputs |-> FateIs(j)']
<1>8. f[c] = FateIs(c) /\ \A j \in Inputs : f[j] = FateIs(j) /\ g[j] = FateIs(j)'
  OBVIOUS
<1>9. \A j \in Ordered!UnderWay(f) : c <= j
  BY <1>2, <1>8 DEF Ordered!UnderWay, Ordered!Inputs, Inputs
<1>10. Ordered!Respects(mirror'.bound, g)
  BY <1>5, <1>8 DEF Ordered!Respects, Ordered!UnderWay, Ordered!Inputs, Inputs, Ordered!Done, Done
<1>11. mirror'.bound \in mirror.bound .. Ordered!Done
  BY <1>3 DEF Ordered!Done, Done
<1>12. mirror.bound # Ordered!Done => mirror.bound # Done
  BY DEF Ordered!Done, Done
<1>13. f = [i \in Inputs |-> Fate(i)] /\ g = [i \in Inputs |-> Fate(i)]'
  BY MappedFates
<1>14. g = [f EXCEPT ![c] = "sent"]
  BY <1>1
<1>15. IF f[c] = "packet" /\ mirror.bound # Ordered!Done
         THEN mirror.bound <= c + Offset /\ mirror'.last = c + Offset
         ELSE mirror'.last = mirror.last
  BY <1>4, <1>8, <1>12 DEF Ordered!Done, Done
<1>16. mirror'.bound > mirror'.last /\ f[c] \in {"packet", "silent"}
  BY <1>6, <1>7, <1>8
<1> HIDE DEF f, g
<1> QED
  BY <1>c, <1>9, <1>10, <1>11, <1>13, <1>14, <1>15, <1>16 DEF Ordered!Send

(* The step of a thread that recycles nothing, is not about to, and ends no invocation
   without telling. *)
QuietFrame(t) ==
  /\ \A u \in Threads \ {t} : pc'[u] = pc[u] /\ context_timestamp'[u] = context_timestamp[u]
  /\ t \in Loopers =>
       \/ {pc[t], pc'[t]} \cap {"none", "closeStream", "recycle"} = {}
       \/ /\ {pc[t], pc'[t]} \subseteq {"closeStream", "recycle"}
          /\ context_timestamp'[t] = context_timestamp[t]
  /\ UNCHANGED <<active_contexts_, shard>>
  /\ \A i \in Inputs : (Ended(i) => Ended(i)') /\ (Ended(i)' => Ended(i))

LEMMA FrameIsQuiet ==
  ASSUME NEW t \in Threads, QuietFrame(t), NEW i \in Inputs
  PROVE  FateIs(i)' = FateIs(i)
<1> USE Names
<1>1. (pc[i] = "none" => pc'[i] = "none") /\ (pc'[i] = "none" => pc[i] = "none")
  BY DEF QuietFrame
<1>2. Leaving(i) => Leaving(i)'
  BY DEF QuietFrame, Leaving
<1>3. Leaving(i)' => Leaving(i)
  BY DEF QuietFrame, Leaving
<1>4. Quiet(i)
  BY <1>1, <1>2, <1>3 DEF QuietFrame, Quiet, Gone
<1> QED
  BY <1>4, QuietKeepsFate

\* What follows the sending in the loop.
LEMMA RecycleIsQuiet ==
  ASSUME Step, NEW t \in Loopers, Recycle(t) \/ EraseCompleted(t), NEW i \in Inputs
  PROVE  FateIs(i)' = FateIs(i)
<1> USE Names, StepTypes
<1>1. /\ pc[t] \in {"recycle", "erase"} /\ t \in Threads
      /\ \A u \in Loopers : u # t => pc[u] \notin SendPCs
  BY OnlyOne DEF Recycle, EraseCompleted, Step, SendPCs
<1>2. PICK c \in Inputs : c = context_timestamp[t] /\ c \in completed_input_timestamps_
  BY Oldest, Recycled DEF Recycle, EraseCompleted, Step, PacketPCs
<1>3. pc[c] # "none" /\ (pc[i] = "none" => pc'[i] = "none") /\ (pc'[i] = "none" => pc[i] = "none")
  <2>1. LoopFrame(t)
    BY LoopSteps DEF LoopStep, Step
  <2> QED
    BY <1>1, <1>2, <2>1 DEF LoopFrame, SendPCs, Step, RInv, Taken
<1>4. CASE Recycle(t)
  <2>1. Min(active_contexts_) = c /\ c \in active_contexts_
    BY <1>2, <1>4, Oldest DEF Recycle, Step, PacketPCs
  <2>2. /\ active_contexts_' = active_contexts_ \ {c}
        /\ \A j \in Inputs : j # c => shard'[j] = shard[j]
        /\ UNCHANGED <<completed_input_timestamps_, context_timestamp>>
        /\ pc[t] = "recycle" /\ pc'[t] = "erase" /\ \A u \in Threads \ {t} : pc'[u] = pc[u]
    BY <1>4, <2>1 DEF Recycle, Goto, handlerVars, localVars
  <2>3. \A j \in Inputs : ~Leaving(j)'
    BY <1>1, <2>2 DEF Leaving, SendPCs
  <2>4. \A j \in Inputs : Leaving(j) => j = c
    BY <1>1, <1>2 DEF Leaving, SendPCs
  <2>5. Gone(c) /\ Gone(c)'
    BY <1>1, <1>2, <1>3, <1>4, <2>2 DEF Gone, Leaving, Recycle
  <2>6. i # c => (Gone(i) => Gone(i)') /\ (Gone(i)' => Gone(i))
    BY <1>3, <2>2, <2>3, <2>4 DEF Gone
  <2>7. (Ended(i) => Ended(i)') /\ (Ended(i)' => Ended(i))
    BY <2>2 DEF Ended
  <2>8. Quiet(i)
    BY <1>3, <2>2, <2>5, <2>6, <2>7 DEF Quiet
  <2> QED
    BY <2>8, QuietKeepsFate
<1>5. CASE EraseCompleted(t)
  <2>1. Headed(t)
    BY <1>5, LoopSteps DEF LoopStep, Step
  <2>2. Min(completed_input_timestamps_) = c /\ c \notin active_contexts_
    BY <1>2, <1>5, Recycled DEF EraseCompleted, Step
  <2>3. /\ completed_input_timestamps_' = completed_input_timestamps_ \ {c}
        /\ UNCHANGED <<active_contexts_, shard>> /\ pc[t] = "erase"
    BY <1>5, <2>2 DEF EraseCompleted, contextVars
  <2>4. ~Leaving(i) /\ ~Leaving(i)'
    BY <1>1, <2>1, <2>3 DEF Headed, Leaving, SendPCs
  <2>5. Gone(c)
    BY <1>3, <2>2 DEF Gone
  <2>6. (Gone(i) => Gone(i)') /\ (Gone(i)' => Gone(i))
    BY <1>3, <2>3, <2>4 DEF Gone
  <2>7. i # c => (Ended(i) => Ended(i)') /\ (Ended(i)' => Ended(i))
    BY <1>1, <2>1, <2>3 DEF Ended, Headed
  <2>8. Quiet(i)
    BY <1>3, <2>3, <2>5, <2>6, <2>7 DEF Quiet
  <2> QED
    BY <2>8, QuietKeepsFate
<1> QED
  BY <1>4, <1>5

\* What a step that is not a packet's does to the stream downstream.
Follows ==
  \/ mirror' = mirror
  \/ /\ mirror'.last = mirror.last
     /\ \/ mirror'.bound \in {mirror.bound, Done}
        \/ \A i \in active_contexts_ : mirror'.bound <= i + Offset

LEMMA QuietStep ==
  ASSUME Step, \A i \in Inputs : FateIs(i)' = FateIs(i), Follows
  PROVE  Ordered!Advance \/ UNCHANGED Ordered!orderedVars
<1> USE StepTypes
<1>1. [i \in Inputs |-> FateIs(i)'] = [i \in Inputs |-> FateIs(i)]
  OBVIOUS
<1>2. CASE mirror' = mirror \/ (mirror'.last = mirror.last /\ mirror'.bound = mirror.bound)
  BY <1>1, <1>2, MappedFates DEF Ordered!orderedVars
<1>3. CASE /\ mirror'.last = mirror.last
           /\ \/ mirror'.bound = Done
              \/ \A i \in active_contexts_ : mirror'.bound <= i + Offset
  <2> DEFINE f == [i \in Inputs |-> FateIs(i)]
  <2>1. f = [i \in Inputs |-> Fate(i)] /\ [i \in Inputs |-> Fate(i)]' = f
    BY <1>1, MappedFates
  <2>2. \A i \in Ordered!UnderWay(f) : i \in active_contexts_
    BY UnderWayIsActive DEF Ordered!UnderWay, Ordered!Inputs, Inputs
  <2>3. Ordered!Respects(mirror'.bound, f)
    BY <1>3, <2>2 DEF Ordered!Respects, Ordered!Done, Done
  <2>4. mirror'.bound \in mirror.bound .. Ordered!Done
    BY Names DEF Ordered!Done, Done, Timestamps, Unset
  <2> HIDE DEF f
  <2> QED
    BY <1>3, <2>1, <2>3, <2>4 DEF Ordered!Advance
<1> QED
  BY <1>2, <1>3 DEF Follows

LEMMA ReceiveFollows ==
  ASSUME Step, NEW b \in Timestamps, Receive(Unset, b),
         b = Done \/ \A i \in active_contexts_ : b <= i + Offset
  PROVE  Follows
<1>1. mirror'.bound = mirror.bound \/ mirror'.bound = b
  BY BoundReceived DEF Step
<1>2. mirror'.last = mirror.last
  BY LastReceived, Names DEF Step, IInv, TypeOK, RInv, Timestamps, Unset, Done
<1> QED
  BY <1>1, <1>2 DEF Follows

LEMMA UnseenLoopStep ==
  ASSUME Step, NEW t \in Loopers, LoopStep(t), ~(CheckClosed(t) /\ closed_), ~Send(t)
  PROVE  Follows /\ \A i \in Inputs : FateIs(i)' = FateIs(i)
<1> USE Names, StepTypes
<1>1. LoopFrame(t) /\ t \in Threads
  BY LoopSteps DEF Step
<1>2. CASE Recycle(t) \/ EraseCompleted(t)
  <2>1. mirror' = mirror
    BY <1>2 DEF Recycle, EraseCompleted
  <2> QED
    BY <1>2, <2>1, RecycleIsQuiet DEF Follows
<1>3. CASE ~(Recycle(t) \/ EraseCompleted(t))
  <2>1. /\ UNCHANGED <<active_contexts_, completed_input_timestamps_, shard>>
    BY <1>3 DEF LoopStep, CheckClosed, SetBound, CloseStream, CheckBound, SendBound, EndBound,
                contextVars, handlerVars
  <2>2. \/ {pc[t], pc'[t]} \cap {"none", "closeStream", "recycle"} = {}
        \/ /\ {pc[t], pc'[t]} \subseteq {"closeStream", "recycle"}
           /\ context_timestamp'[t] = context_timestamp[t]
    <3>1. CASE CheckClosed(t)
      BY <3>1 DEF CheckClosed, Goto
    <3>2. CASE SetBound(t)
      BY <3>2 DEF SetBound, Goto
    <3>3. CASE CloseStream(t)
      BY <3>3 DEF CloseStream, Goto, localVars
    <3>4. CASE CheckBound(t)
      BY <3>4 DEF CheckBound, Goto
    <3>5. CASE SendBound(t)
      BY <3>5 DEF SendBound, Goto
    <3>6. CASE EndBound(t)
      <4>1. Headed(t) /\ pc[t] = "endBound"
        BY <3>6, LoopSteps DEF Step, EndBound
      <4> QED
        BY <4>1 DEF Headed
    <3> QED
      BY <1>3, <3>1, <3>2, <3>3, <3>4, <3>5, <3>6 DEF LoopStep
  <2>3. \A i \in Inputs : (Ended(i) => Ended(i)') /\ (Ended(i)' => Ended(i))
    BY <1>1, <2>1 DEF Ended, LoopFrame, SendPCs
  <2>4. QuietFrame(t)
    BY <1>1, <2>1, <2>2, <2>3 DEF QuietFrame, LoopFrame
  <2>5. Follows
    <3>1. CASE SendBound(t)
      <4>1. /\ bound[t] \in Timestamps /\ Source(t) = bound[t] - Offset /\ Source(t) \in InputBounds
            /\ \A i \in active_contexts_ : Source(t) <= i
        BY <3>1 DEF SendBound, Step, IInv, Bounds, BoundPCs, Source
      <4>2. \A i \in active_contexts_ : bound[t] <= i + Offset
        BY <4>1 DEF Timestamps, Inputs
      <4> QED
        BY <3>1, <4>1, <4>2, ReceiveFollows DEF SendBound
    <3>2. CASE CloseStream(t)
      <4>1. Done \in Timestamps
        BY DEF Timestamps, Unset, Done
      <4> QED
        BY <3>2, <4>1, ReceiveFollows DEF CloseStream, Follows
    <3>3. CASE ~SendBound(t) /\ ~CloseStream(t)
      BY <1>3, <3>3 DEF LoopStep, CheckClosed, SetBound, CheckBound, EndBound, Follows
    <3> QED
      BY <3>1, <3>2, <3>3
  <2> QED
    BY <1>1, <2>4, <2>5, FrameIsQuiet
<1> QED
  BY <1>2, <1>3

LEMMA UnseenClosingStep ==
  ASSUME Step, ClosingStep
  PROVE  Follows /\ \A i \in Inputs : FateIs(i)' = FateIs(i)
<1> USE Names, StepTypes
<1>1. /\ UNCHANGED <<active_contexts_, completed_input_timestamps_, shard, context_timestamp>>
      /\ \A u \in Threads \ {Closing} : pc'[u] = pc[u]
  BY DEF ClosingStep, CloseNode, SetBound, SendBound, CloseStream, Goto, contextVars,
         handlerVars, localVars
<1>2. QuietFrame(Closing)
  BY <1>1 DEF QuietFrame, Ended
<1>3. Follows
  <2>1. Done \in Timestamps
    BY DEF Timestamps, Unset, Done
  <2>2. CASE SendBound(Closing)
    <3>1. bound[Closing] = Done
      BY <2>2 DEF SendBound, Step, IInv, ClosesLast
    <3> QED
      BY <2>1, <2>2, <3>1, ReceiveFollows DEF SendBound
  <2>3. CASE CloseStream(Closing)
    BY <2>1, <2>3, ReceiveFollows DEF CloseStream, Follows
  <2>4. CASE CloseNode \/ SetBound(Closing)
    BY <2>4 DEF CloseNode, SetBound, Follows
  <2> QED
    BY <2>2, <2>3, <2>4 DEF ClosingStep
<1> QED
  BY <1>2, <1>3, FrameIsQuiet

LEMMA UnseenInputStep ==
  ASSUME Step, NEW i \in Inputs, InputStep(i), ~Process(i)
  PROVE  Follows /\ \A j \in Inputs : FateIs(j)' = FateIs(j)
<1> USE Names, StepTypes
<1>1. i \in Threads /\ mirror' = mirror
  BY DEF InputStep, PacketArrives, ProcessFails, PostProcess, EndScheduling
<1>2. QuietFrame(i) \/ UNCHANGED <<pc, context_timestamp, active_contexts_, shard,
                                    completed_input_timestamps_>>
  <2>1. CASE PacketArrives(i)
    BY <2>1 DEF PacketArrives, contextVars, handlerVars, localVars
  <2>2. CASE ProcessFails(i) \/ EndScheduling(i)
    BY <1>1, <2>2 DEF ProcessFails, EndScheduling, Goto, QuietFrame, Ended, contextVars, handlerVars,
                      localVars
  <2>3. CASE PostProcess(i)
    <3>1. Headed(i) /\ pc[i] = "post"
      BY <2>3, HeadIs DEF PostProcess, EntersLoop, Step
    <3>2. /\ completed_input_timestamps_' = completed_input_timestamps_ \cup {i}
          /\ UNCHANGED <<active_contexts_, shard>>
      BY <2>3 DEF PostProcess, contextVars
    <3>3. \A j \in Inputs : (Ended(j) => Ended(j)') /\ (Ended(j)' => Ended(j))
      BY <3>1, <3>2 DEF Headed, Ended
    <3> QED
      BY <1>1, <3>1, <3>2, <3>3 DEF Headed, QuietFrame
  <2> QED
    BY <2>1, <2>2, <2>3 DEF InputStep
<1>3. CASE UNCHANGED <<pc, context_timestamp, active_contexts_, shard, completed_input_timestamps_>>
  <2>1. QuietFrame(Closing)
    BY <1>3 DEF QuietFrame, Ended
  <2> QED
    BY <1>1, <2>1, FrameIsQuiet DEF Follows
<1> QED
  BY <1>1, <1>2, <1>3, FrameIsQuiet DEF Follows

LEMMA UnseenSchedulingStep ==
  ASSUME Step, SchedulingStep, ~ScheduleInvocation
  PROVE  Follows /\ \A j \in Inputs : FateIs(j)' = FateIs(j)
<1> USE Names, StepTypes
<1>1. /\ UNCHANGED <<active_contexts_, completed_input_timestamps_, shard, mirror>>
  BY DEF SchedulingStep, ScheduleClose, NotReady, UpdateTaskTimestampBound, contextVars, handlerVars
<1>2. QuietFrame(Scheduling) \/ QuietFrame(Closing)
  <2>1. CASE ScheduleClose
    BY <1>1, <2>1 DEF ScheduleClose, Goto, QuietFrame, Ended, localVars
  <2>2. CASE NotReady
    BY <1>1, <2>2 DEF NotReady, MaySchedule, Goto, QuietFrame, Ended
  <2>3. CASE UpdateTaskTimestampBound
    <3>1. Headed(Scheduling) /\ pc[Scheduling] = "update"
      BY <2>3, HeadIs DEF UpdateTaskTimestampBound, EntersLoop, Step
    <3> QED
      BY <1>1, <3>1 DEF Headed, QuietFrame, Ended
  <2> QED
    BY <2>1, <2>2, <2>3 DEF SchedulingStep
<1> QED
  BY <1>1, <1>2, FrameIsQuiet DEF Follows

LEMMA StepsMap ==
  ASSUME Step
  PROVE  [Ordered!OrderedNext]_(Ordered!orderedVars)
<1> USE Names, StepTypes
<1>1. ASSUME \A i \in Inputs : FateIs(i)' = FateIs(i), Follows
      PROVE  [Ordered!OrderedNext]_(Ordered!orderedVars)
  BY <1>1, QuietStep DEF Ordered!OrderedNext
<1>2. ASSUME UNCHANGED mirror, \E t \in Threads : QuietFrame(t)
      PROVE  [Ordered!OrderedNext]_(Ordered!orderedVars)
  BY <1>1, <1>2, FrameIsQuiet DEF Follows
<1>3. CASE UNCHANGED vars
  <2>1. QuietFrame(Closing)
    BY <1>3 DEF vars, contextVars, handlerVars, localVars, QuietFrame, Ended
  <2> QED
    BY <1>2, <1>3, <2>1 DEF vars
<1>4. ASSUME NEW i \in Inputs, InputStep(i) PROVE [Ordered!OrderedNext]_(Ordered!orderedVars)
  <2>1. CASE Process(i)
    BY <2>1, ProduceStep DEF Ordered!OrderedNext, Ordered!Inputs, Inputs
  <2> QED
    BY <1>1, <1>4, <2>1, UnseenInputStep
<1>5. ASSUME NEW b \in (2 .. MaxTs) \cup {Done}, BoundArrives(b)
      PROVE  [Ordered!OrderedNext]_(Ordered!orderedVars)
  <2>1. QuietFrame(Closing)
    BY <1>5 DEF BoundArrives, contextVars, handlerVars, localVars, QuietFrame, Ended
  <2> QED
    BY <1>2, <1>5, <2>1 DEF BoundArrives
<1>6. CASE SchedulingStep
  <2>1. CASE ScheduleInvocation
    <3>1. Min(arrived) \in Inputs
      BY <2>1, Minimum DEF ScheduleInvocation
    <3> QED
      BY <2>1, <3>1, TakeStep DEF Ordered!OrderedNext, Ordered!Inputs, Inputs
  <2> QED
    BY <1>1, <1>6, <2>1, UnseenSchedulingStep
<1>7. ASSUME NEW t \in Loopers, LoopStep(t) PROVE [Ordered!OrderedNext]_(Ordered!orderedVars)
  <2>1. CASE (CheckClosed(t) /\ closed_) \/ Send(t)
    <3>1. context_timestamp[t] \in Inputs
      BY <2>1, LeavingStep
    <3> QED
      BY <2>1, <3>1, SendStep DEF Ordered!OrderedNext, Ordered!Inputs, Inputs
  <2> QED
    BY <1>1, <1>7, <2>1, UnseenLoopStep
<1>8. CASE ClosingStep
  BY <1>1, <1>8, UnseenClosingStep
<1> QED
  BY <1>3, <1>4, <1>5, <1>6, <1>7, <1>8, Steps DEF Step, IInv

LEMMA InitMaps == Init => Ordered!OrderedInit
<1> SUFFICES ASSUME Init PROVE Ordered!OrderedInit
  OBVIOUS
<1>1. IInv /\ RInv
  BY Initially, RInvInitially
<1>2. \A i \in Inputs : FateIs(i) = "none"
  BY Names DEF Init, FateIs
<1>3. [i \in Inputs |-> Fate(i)] = [i \in Inputs |-> "none"]
  BY <1>1, <1>2, Fates
<1> QED
  BY <1>3 DEF Init, Ordered!OrderedInit, Ordered!Inputs, Inputs, PreStream, Unset

(* The outputs leave in the order of their inputs, each once and none lost, and the bound
   downstream never passes an output that may still come: for every number of inputs,
   every offset and every max_in_flight_, InOrderOutput implements OrderedOutput. *)
THEOREM InOrderImplementsOrdered == Spec => OutputsInOrder
<1>1. IInv /\ RInv /\ [Next]_vars /\ (IInv /\ RInv)' => [Ordered!OrderedNext]_(Ordered!orderedVars)
  BY StepsMap DEF Step
<1> QED
  BY <1>1, InitMaps, RInvHolds, PTL DEF Spec, OutputsInOrder, Ordered!OrderedSpec
=============================================================================
