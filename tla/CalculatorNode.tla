--------------------------- MODULE CalculatorNode ---------------------------
(***************************************************************************)
(* How one CalculatorNode with input streams is scheduled.  Whoever makes  *)
(* an input set available calls CheckIfBecameReady, and whoever finishes   *)
(* an invocation calls EndScheduling; of all these threads one at a time   *)
(* becomes the scheduling thread, runs SchedulingLoop for all of them and  *)
(* learns of what it may have missed by finding scheduling_state_ turned   *)
(* to kSchedulingPending.  Up to max_in_flight_ invocations are scheduled  *)
(* at the same time.                                                       *)
(*                                                                         *)
(* An action is one critical section of status_mutex_, or what a thread    *)
(* does between two of them.  The input streams are reduced to how many    *)
(* input sets have become available and whether there will be more; an     *)
(* input set is named after its place in that order.  The output streams   *)
(* are left out, except that contexts of parallel invocations are recycled *)
(* in the order of their timestamps.                                       *)
(***************************************************************************)
EXTENDS FrameworkThreads

CONSTANTS
  max_in_flight_,
  MaxSets         \* bound: the input sets that ever become available

ASSUME MaxInFlightAssumption == max_in_flight_ \in Nat \ {0}
ASSUME MaxSetsAssumption == MaxSets \in Nat

VARIABLES
  status_, scheduling_state_, current_in_flight_,
  arrived,       \* how many input sets have become available
  input_done,    \* no other will
  consumed,      \* how many the scheduling thread has taken
  prepared_context_for_close_,
  active_contexts_,  \* the input sets whose context is not recycled
  completed,     \* the input sets that were processed
  place,         \* where each invocation is
  runner,        \* the thread that runs it
  max_allowance, \* in SchedulingLoop: how many more invocations may be scheduled
  pc,
  has_error

inputVars == <<arrived, input_done, consumed>>
contextVars == <<prepared_context_for_close_, active_contexts_, completed>>
vars == <<status_, scheduling_state_, current_in_flight_, inputVars, contextVars,
          place, runner, max_allowance, pc, has_error>>

InputSets == 1 .. MaxSets
\* The invocation with Timestamp::Done, which closes the node.
Close == 0
Invocations == {Close} \cup InputSets

Places == {"none", "prepared", "queued", "running", "gone"}
At(ps) == {i \in Invocations : place[i] \in ps}
InFlight == {"queued", "running"}

LoopPCs == {"begin", "invoke", "addNode", "recheck"}
PCs == {"outside", "check", "run", "end"} \cup LoopPCs
InLoop == {t \in Threads : pc[t] \in LoopPCs}

\* An invocation may deliver a packet to its own node, and goes on then.
Return(t) == IF \E i \in At({"running"}) : runner[i] = t THEN "run" ELSE "outside"
Goto(t, label) == pc' = [pc EXCEPT ![t] = label]

TypeOK ==
  /\ status_ \in {"Prepared", "Opened", "Closed"}
  /\ scheduling_state_ \in {"kIdle", "kScheduling", "kSchedulingPending"}
  /\ current_in_flight_ \in Nat
  /\ arrived \in 0 .. MaxSets /\ consumed \in 0 .. MaxSets
  /\ {input_done, prepared_context_for_close_, has_error} \subseteq BOOLEAN
  /\ active_contexts_ \subseteq InputSets /\ completed \subseteq InputSets
  /\ place \in [Invocations -> Places]
  /\ runner \in [Invocations -> Threads \cup {NoThread}]
  /\ max_allowance \in [Threads -> Nat]
  /\ pc \in [Threads -> PCs]

\* What PrepareForRun leaves.
Init ==
  /\ status_ = "Prepared"
  /\ scheduling_state_ = "kIdle"
  /\ current_in_flight_ = 0
  /\ arrived = 0 /\ input_done = FALSE /\ consumed = 0
  /\ prepared_context_for_close_ = FALSE
  /\ active_contexts_ = {} /\ completed = {}
  /\ place = [i \in Invocations |-> "none"]
  /\ runner = [i \in Invocations |-> NoThread]
  /\ max_allowance = [t \in Threads |-> 0]
  /\ pc = [t \in Threads |-> "outside"]
  /\ has_error = FALSE

-----------------------------------------------------------------------------
(* What makes a node ready. *)

\* OpenNode has succeeded; NodeOpened then checks.
NodeOpened(t) ==
  /\ pc[t] = "outside" /\ status_ = "Prepared"
  /\ status_' = "Opened"
  /\ Goto(t, "check")
  /\ UNCHANGED <<scheduling_state_, current_in_flight_, inputVars, contextVars,
                 place, runner, max_allowance, has_error>>

\* A packet or a timestamp bound completes an input set; notification_ follows.
InputSetArrives(t) ==
  /\ pc[t] \in {"outside", "run"}
  /\ ~input_done /\ arrived < MaxSets
  /\ arrived' = arrived + 1
  /\ Goto(t, "check")
  /\ UNCHANGED <<status_, scheduling_state_, current_in_flight_, input_done, consumed,
                 contextVars, place, runner, max_allowance, has_error>>

\* The input streams are done; notification_ follows.
InputCloses(t) ==
  /\ pc[t] \in {"outside", "run"}
  /\ ~input_done
  /\ input_done' = TRUE
  /\ Goto(t, "check")
  /\ UNCHANGED <<status_, scheduling_state_, current_in_flight_, arrived, consumed,
                 contextVars, place, runner, max_allowance, has_error>>

\* Mutant of CheckIfBecameReady: only kScheduling counts as someone scheduling.
CheckWhilePending(t) ==
  /\ pc[t] = "check"
  /\ IF /\ status_ = "Opened" /\ scheduling_state_ # "kScheduling"
        /\ current_in_flight_ < max_in_flight_
       THEN scheduling_state_' = "kScheduling" /\ Goto(t, "begin")
       ELSE /\ scheduling_state_' = IF scheduling_state_ = "kScheduling" /\ status_ = "Opened"
                                      THEN "kSchedulingPending" ELSE scheduling_state_
            /\ Goto(t, Return(t))
  /\ UNCHANGED <<status_, current_in_flight_, inputVars, contextVars, place, runner,
                 max_allowance, has_error>>

CheckIfBecameReady(t) ==
  /\ pc[t] = "check"
  /\ \/ /\ status_ = "Opened" /\ scheduling_state_ = "kIdle"
        /\ current_in_flight_ < max_in_flight_
        /\ scheduling_state_' = "kScheduling"
        /\ Goto(t, "begin")
     \/ /\ status_ = "Opened" /\ scheduling_state_ = "kScheduling"
        /\ scheduling_state_' = "kSchedulingPending"
        /\ Goto(t, Return(t))
     \/ /\ \/ status_ # "Opened"
           \/ scheduling_state_ = "kSchedulingPending"
           \/ scheduling_state_ = "kIdle" /\ current_in_flight_ >= max_in_flight_
        /\ Goto(t, Return(t))
        /\ UNCHANGED scheduling_state_
  /\ UNCHANGED <<status_, current_in_flight_, inputVars, contextVars, place, runner,
                 max_allowance, has_error>>

-----------------------------------------------------------------------------
(* SchedulingLoop. *)

Allowance == max_in_flight_ - current_in_flight_

BeginSchedulingLoop(t) ==
  /\ pc[t] = "begin"
  /\ \/ /\ status_ = "Closed"
        /\ scheduling_state_' = "kIdle"
        /\ Goto(t, Return(t))
        /\ UNCHANGED max_allowance
     \/ /\ status_ # "Closed"
        /\ max_allowance' = [max_allowance EXCEPT ![t] = Allowance]
        /\ Goto(t, "invoke")
        /\ UNCHANGED scheduling_state_
  /\ UNCHANGED <<status_, current_in_flight_, inputVars, contextVars, place, runner,
                 has_error>>

\* The contexts are kept apart only if invocations may run in parallel.
HasActiveContexts == max_in_flight_ > 1 /\ active_contexts_ # {}
MayClose ==
  input_done /\ consumed = arrived /\ ~HasActiveContexts /\ ~prepared_context_for_close_

(* ScheduleInvocations, up to the call of schedule_callback_ for the invocation i. *)
Prepare(t, i) ==
  /\ place' = [place EXCEPT ![i] = "prepared"]
  /\ Goto(t, "addNode")

PrepareInvocation(t) ==
  /\ pc[t] = "invoke" /\ max_allowance[t] > 0
  /\ consumed < arrived
  /\ consumed' = consumed + 1
  /\ active_contexts_' = active_contexts_ \cup {consumed + 1}
  /\ Prepare(t, consumed + 1)
  /\ UNCHANGED <<status_, scheduling_state_, current_in_flight_, arrived, input_done,
                 prepared_context_for_close_, completed, runner, max_allowance,
                 has_error>>

PrepareClose(t) ==
  /\ pc[t] = "invoke" /\ max_allowance[t] > 0
  /\ MayClose
  /\ prepared_context_for_close_' = TRUE
  /\ Prepare(t, Close)
  /\ UNCHANGED <<status_, scheduling_state_, current_in_flight_, inputVars,
                 active_contexts_, completed, runner, max_allowance, has_error>>

\* The allowance is used up, or there is nothing to schedule.
EndInvocations(t) ==
  /\ pc[t] = "invoke"
  /\ max_allowance[t] = 0 \/ (consumed = arrived /\ ~MayClose)
  /\ Goto(t, "recheck")
  /\ UNCHANGED <<status_, scheduling_state_, current_in_flight_, inputVars, contextVars,
                 place, runner, max_allowance, has_error>>

\* Mutant of AddNode: TryToBeginScheduling is not called.
AddNodeUncounted(t, i) ==
  /\ pc[t] = "addNode" /\ place[i] = "prepared"
  /\ place' = [place EXCEPT ![i] = IF has_error THEN "gone" ELSE "queued"]
  /\ max_allowance' = [max_allowance EXCEPT ![t] = @ - 1]
  /\ Goto(t, IF i = Close THEN "recheck" ELSE "invoke")
  /\ UNCHANGED <<status_, scheduling_state_, current_in_flight_, inputVars, contextVars,
                 runner, has_error>>

(* SchedulerQueue::AddNode with the context that was prepared.  A non-source node is
   committed to be scheduled: TryToBeginScheduling must not fail. *)
AddNode(t, i) ==
  /\ pc[t] = "addNode" /\ place[i] = "prepared"
  /\ \/ /\ has_error
        /\ place' = [place EXCEPT ![i] = "gone"]
        /\ UNCHANGED current_in_flight_
     \/ /\ ~has_error /\ current_in_flight_ < max_in_flight_
        /\ place' = [place EXCEPT ![i] = "queued"]
        /\ current_in_flight_' = current_in_flight_ + 1
  /\ max_allowance' = [max_allowance EXCEPT ![t] = @ - 1]
  /\ Goto(t, IF i = Close THEN "recheck" ELSE "invoke")
  /\ UNCHANGED <<status_, scheduling_state_, inputVars, contextVars, runner, has_error>>

\* Mutant of Recheck: the scheduling thread leaves although it was told to look again.
LeaveAnyway(t) ==
  /\ pc[t] = "recheck"
  /\ scheduling_state_' = "kIdle"
  /\ Goto(t, Return(t))
  /\ UNCHANGED <<status_, current_in_flight_, inputVars, contextVars, place, runner,
                 max_allowance, has_error>>

Recheck(t) ==
  /\ pc[t] = "recheck"
  /\ \/ /\ scheduling_state_ = "kSchedulingPending"
        /\ current_in_flight_ < max_in_flight_
        /\ max_allowance' = [max_allowance EXCEPT ![t] = Allowance]
        /\ scheduling_state_' = "kScheduling"
        /\ Goto(t, "invoke")
     \/ /\ \/ scheduling_state_ # "kSchedulingPending"
           \/ current_in_flight_ >= max_in_flight_
        /\ scheduling_state_' = "kIdle"
        /\ Goto(t, Return(t))
        /\ UNCHANGED max_allowance
  /\ UNCHANGED <<status_, current_in_flight_, inputVars, contextVars, place, runner,
                 has_error>>

-----------------------------------------------------------------------------
(* RunNextTask and RunCalculatorNode. *)

Runs(t, i) == place[i] = "running" /\ runner[i] = t

RunNode(t, i) ==
  /\ pc[t] = "outside" /\ place[i] = "queued"
  /\ place' = [place EXCEPT ![i] = "running"]
  /\ runner' = [runner EXCEPT ![i] = t]
  /\ Goto(t, "run")
  /\ UNCHANGED <<status_, scheduling_state_, current_in_flight_, inputVars, contextVars,
                 max_allowance, has_error>>

\* Mutant of Unrecycled: only the oldest context is recycled.
UnrecycledButOldest(done) ==
  {i \in active_contexts_ : i \notin done \/ \E j \in active_contexts_ : j < i}

\* The contexts that wait for the outputs of an earlier invocation.
Unrecycled(done) ==
  {i \in active_contexts_ : \E j \in active_contexts_ \ done : j <= i}

\* ProcessNode succeeds, and PostProcess recycles the contexts it may.
Process(t, i) ==
  /\ pc[t] = "run" /\ Runs(t, i) /\ i # Close
  /\ completed' = completed \cup {i}
  /\ active_contexts_' = Unrecycled(completed \cup {i})
  /\ Goto(t, "end")
  /\ UNCHANGED <<status_, scheduling_state_, current_in_flight_, inputVars,
                 prepared_context_for_close_, place, runner, max_allowance, has_error>>

ProcessFails(t, i) ==
  /\ pc[t] = "run" /\ Runs(t, i) /\ i # Close
  /\ has_error' = TRUE
  /\ Goto(t, "end")
  /\ UNCHANGED <<status_, scheduling_state_, current_in_flight_, inputVars, contextVars,
                 place, runner, max_allowance>>

CloseNode(t) ==
  /\ pc[t] = "run" /\ Runs(t, Close)
  /\ status_' = "Closed"
  /\ Goto(t, "end")
  /\ UNCHANGED <<scheduling_state_, current_in_flight_, inputVars, contextVars, place,
                 runner, max_allowance, has_error>>

(* EndScheduling returns early if the node is closed.  Otherwise the thread becomes
   the scheduling thread unless there is one, which then must look again. *)
EndScheduling(t, i) ==
  /\ pc[t] = "end" /\ Runs(t, i)
  /\ place' = [place EXCEPT ![i] = "gone"]
  /\ \/ /\ status_ = "Closed"
        /\ Goto(t, "outside")
        /\ UNCHANGED <<current_in_flight_, scheduling_state_>>
     \/ /\ status_ = "Opened"
        /\ current_in_flight_' = current_in_flight_ - 1
        /\ \/ /\ scheduling_state_ = "kIdle"
              /\ scheduling_state_' = "kScheduling"
              /\ Goto(t, "begin")
           \/ /\ scheduling_state_ # "kIdle"
              /\ scheduling_state_' = "kSchedulingPending"
              /\ Goto(t, "outside")
  /\ UNCHANGED <<status_, inputVars, contextVars, runner, max_allowance, has_error>>

\* RecordError, for another node or by the application.
ErrorElsewhere ==
  /\ ~has_error
  /\ has_error' = TRUE
  /\ UNCHANGED <<status_, scheduling_state_, current_in_flight_, inputVars, contextVars,
                 place, runner, max_allowance, pc>>

-----------------------------------------------------------------------------
\* A thread goes on with a call that it has begun.
Continue(t) ==
  \/ CheckIfBecameReady(t)
  \/ BeginSchedulingLoop(t)
  \/ PrepareInvocation(t) \/ PrepareClose(t) \/ EndInvocations(t)
  \/ \E i \in Invocations : AddNode(t, i)
  \/ Recheck(t)
  \/ \E i \in Invocations : Process(t, i) \/ ProcessFails(t, i) \/ EndScheduling(t, i)
  \/ CloseNode(t)

Next ==
  \/ \E t \in Threads :
       \/ NodeOpened(t) \/ InputSetArrives(t) \/ InputCloses(t)
       \/ \E i \in Invocations : RunNode(t, i)
       \/ Continue(t)
  \/ ErrorElsewhere

(* Threads do not stop inside a call, and the executor runs what is queued once a
   thread is free.  Nothing need arrive or be closed. *)
Fairness ==
  /\ \A t \in Threads : WF_vars(Continue(t))
  /\ WF_vars(\E t \in Threads, i \in Invocations : RunNode(t, i))
  /\ WF_vars(\E t \in Threads : NodeOpened(t))

Spec == Init /\ [][Next]_vars
FairSpec == Spec /\ Fairness

-----------------------------------------------------------------------------
(* The four transitions of SchedulingState keep one thread in SchedulingLoop, and
   none when the state is kIdle. *)
OneSchedulingThread ==
  /\ \A t, u \in InLoop : t = u
  /\ scheduling_state_ = "kIdle" <=> InLoop = {}

(* current_in_flight_ counts the invocations that are queued or run, and stays within
   max_in_flight_, although the allowance was computed before some of them ended. *)
InFlightExact ==
  /\ current_in_flight_ <= max_in_flight_
  /\ status_ # "Closed" => current_in_flight_ = Cardinality(At(InFlight))

(* CHECK(node->IsSource()) in SchedulerQueue::AddNode: once an invocation of a
   non-source node has been prepared, it can be scheduled. *)
PreparedIsCommitted == \A t \in Threads : pc[t] = "addNode" => current_in_flight_ < max_in_flight_

(* No wakeup is lost: if the node could schedule something and nobody is scheduling,
   someone is about to check or to end an invocation. *)
Ready == consumed < arrived \/ MayClose
NoLostWakeup ==
  status_ = "Opened" /\ ~has_error /\ Ready
    /\ scheduling_state_ = "kIdle" /\ current_in_flight_ < max_in_flight_
    => \E t \in Threads : pc[t] \in {"check", "end"}

(* The node is closed at most once, after every input set that arrived has been
   processed, and nothing is scheduled or run after that: CHECK(!node->Closed()) in
   RunNextTask and "CloseNode() must only be called once". *)
ClosesLast ==
  /\ place[Close] \in {"queued", "running"} \/ status_ = "Closed"
       => \A i \in 1 .. arrived : i \in completed
  /\ status_ = "Closed" => At({"prepared", "queued"}) = {}
                             /\ \A t \in Threads : pc[t] = "run" => \A i \in InputSets : ~Runs(t, i)

(* Scheduling is exact: one thread at a time schedules, it never schedules more than
   max_in_flight_ allows, what it has prepared is scheduled, and closing comes last. *)
SchedulingExact == OneSchedulingThread /\ InFlightExact /\ PreparedIsCommitted /\ ClosesLast

(* Every input set is processed and the node is closed, once its input is done and no
   error stops the graph. *)
EventuallyClosed == input_done ~> (status_ = "Closed" \/ has_error)
=============================================================================
