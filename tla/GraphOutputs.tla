---------------------------- MODULE GraphOutputs ----------------------------
(***************************************************************************)
(* One output stream of a graph that the application watches: an observer, *)
(* whose callback is called by the threads that write to the stream, a     *)
(* poller, from which one thread of the application takes packets, and     *)
(* WaitForObservedOutput, in which another one waits.                      *)
(*                                                                         *)
(* Two threads write to the stream: a worker, and the one that closes the  *)
(* node.  InOrderOutput shows that the second may begin while the first    *)
(* still has a timestamp bound to send.  Each mirror of the stream is an   *)
(* InputStreamManager of its own; there is no limit on its queue.          *)
(***************************************************************************)
EXTENDS InputStreamManager, FiniteSets

CONSTANTS
  Packets,          \* bound: the timestamps of the packets sent while the node is open
  Bounds,           \* bound: the timestamp bounds sent without a packet
  ClosingPackets,   \* bound: the timestamps that Close() of the node may send
  Fails,            \* whether a callback may fail
  MaxRuns           \* bound: the runs of the graph

ASSUME GraphOutputsAssumption ==
  /\ Packets \cup Bounds \cup ClosingPackets \subseteq MinTime .. MaxTime
  /\ Fails \in BOOLEAN /\ MaxRuns \in Nat

Worker == "worker"
Closer == "closer"
App == "app"       \* the application thread, which cleans up and waits
Threads == {Worker, Closer, App}

Observer == "observer"
Poller == "poller"
Mirrors == <<Observer, Poller>>

VARIABLES
  observe_timestamp_bounds,
  stream,             \* the InputStreamManager of each mirror
  next_timestamp_bound_,                  \* of the output stream
  pc, after, i, packets, bound, seen,     \* of the threads that write
  notifying_, last_processed_ts_,         \* OutputStreamObserver
  graph_has_error_, output_timestamp_,    \* OutputStreamPollerImpl
  poll, wanted,       \* where the polling thread is, and min_timestamp of Next
  state_, observed_output_signal_, waiting_for_observed_output_,  \* Scheduler
  has_error_, wait,   \* where the application thread is in WaitForObservedOutput
  runs,
  emitted, observed, reported, polled     \* history of the run

outputVars == <<stream, next_timestamp_bound_, emitted>>
threadVars == <<pc, after, i, packets, bound, seen>>
observerVars == <<notifying_, last_processed_ts_, observed, reported>>
pollerVars == <<graph_has_error_, output_timestamp_, poll, wanted, polled>>
schedulerVars == <<state_, observed_output_signal_, waiting_for_observed_output_, wait>>
runVars == <<observe_timestamp_bounds, has_error_, runs>>
vars == <<outputVars, threadVars, observerVars, pollerVars, schedulerVars, runVars>>

NothingSeen == [empty |-> TRUE, timestamp |-> Unset]

Init ==
  /\ observe_timestamp_bounds \in BOOLEAN
  /\ stream = [m \in {Observer, Poller} |-> NewStream(TRUE)]
  /\ next_timestamp_bound_ = PreStream
  /\ pc = [t \in Threads |-> "idle"] /\ after = [t \in Threads |-> "next"]
  /\ i = [t \in Threads |-> 1]
  /\ packets = [t \in Threads |-> <<>>] /\ bound = [t \in Threads |-> Unset]
  /\ seen = [t \in Threads |-> NothingSeen]
  /\ notifying_ = FALSE /\ last_processed_ts_ = Unstarted
  /\ graph_has_error_ = FALSE /\ output_timestamp_ = MinTime
  /\ poll = "out" /\ wanted = NothingSeen
  /\ state_ = "RUNNING" /\ observed_output_signal_ = FALSE
  /\ waiting_for_observed_output_ = FALSE /\ wait = "out"
  /\ has_error_ = FALSE /\ runs = 1
  /\ emitted = <<>> /\ observed = <<>> /\ reported = Unstarted /\ polled = <<>>

\* Mutant of Woken: the condition variable is not signalled.
NotWoken(caller) == caller
\* A thread that waits on a condition variable is woken and tests its condition again.
Woken(caller) == IF caller = "asleep" THEN "test" ELSE caller

GoTo(t, label) == pc' = [pc EXCEPT ![t] = label]

Look(m) == [empty |-> IsEmpty(stream[m]), timestamp |-> MinTimestampOrBound(stream[m])]

-----------------------------------------------------------------------------
(* PropagateUpdatesToMirrors. *)

Begin(t, ps, b) ==
  /\ pc[t] = "idle"
  /\ next_timestamp_bound_' = b
  /\ emitted' = emitted \o ps
  /\ packets' = [packets EXCEPT ![t] = ps]
  /\ bound' = [bound EXCEPT ![t] = b]
  /\ GoTo(t, "add")
  /\ UNCHANGED <<stream, after, i, seen, observerVars, pollerVars, schedulerVars, runVars>>

\* The worker sends the outputs of an invocation, or a bound.
WorkerWrites ==
  /\ state_ = "RUNNING" /\ next_timestamp_bound_ # Done
  /\ \/ \E t \in Packets : /\ pc[Closer] = "idle" /\ t >= next_timestamp_bound_
                           /\ Begin(Worker, <<t>>, NextAllowedInStream(t))
     \/ \E b \in Bounds : b > next_timestamp_bound_ /\ Begin(Worker, <<>>, b)

\* CloseNode: what Close() of the node has left in the outputs, and Done.
CloserWrites ==
  /\ state_ = "RUNNING" /\ next_timestamp_bound_ # Done
  /\ pc[Worker] # "idle" => packets[Worker] = <<>>
  /\ \E ps \in {<<>>} \cup {<<t>> : t \in {u \in ClosingPackets : u >= next_timestamp_bound_}} :
       Begin(Closer, ps, Done)

\* error_callback, which is RecordError: the pollers are woken.
RecordError ==
  /\ has_error_' = TRUE
  /\ graph_has_error_' = TRUE
  /\ poll' = Woken(poll)

NoError == UNCHANGED <<has_error_, graph_has_error_, poll>>

NotifyIf(t, notify, label) ==
  /\ GoTo(t, IF notify THEN "notify" ELSE label)
  /\ after' = [after EXCEPT ![t] = IF notify THEN label ELSE "next"]

\* AddPackets or MovePackets of the handler of the mirror.
Add(t) ==
  LET m == Mirrors[i[t]]
      result == AddPackets(stream[m], packets[t])
      notify == /\ result.ok /\ ~stream[m].closed_
                /\ packets[t] # <<>> /\ IsEmpty(stream[m])
  IN /\ pc[t] = "add"
     /\ stream' = [stream EXCEPT ![m] = result.stream]
     /\ IF result.ok THEN NoError ELSE RecordError
     /\ NotifyIf(t, notify, "bound")
     /\ UNCHANGED <<next_timestamp_bound_, emitted, i, packets, bound, seen, observerVars,
                    output_timestamp_, wanted, polled, schedulerVars,
                    observe_timestamp_bounds, runs>>

\* The bound is sent too if it is not what the last packet implies.
SetsBound(t) ==
  packets[t] = <<>> \/ NextAllowedInStream(Last(packets[t])) # bound[t]

SetBound(t) ==
  LET m == Mirrors[i[t]]
      refused == SetsBound(t) /\ ~stream[m].closed_ /\ RefusesBound(stream[m], bound[t])
      set == IF SetsBound(t) /\ ~refused THEN SetNextTimestampBound(stream[m], bound[t])
             ELSE stream[m]
      notify == set # stream[m] /\ IsEmpty(set)
  IN /\ pc[t] = "bound"
     /\ stream' = [stream EXCEPT ![m] = set]
     /\ IF refused THEN RecordError ELSE NoError
     /\ NotifyIf(t, notify, "next")
     /\ UNCHANGED <<next_timestamp_bound_, emitted, i, packets, bound, seen, observerVars,
                    output_timestamp_, wanted, polled, schedulerVars,
                    observe_timestamp_bounds, runs>>

NextMirror(t) ==
  /\ pc[t] = "next"
  /\ IF i[t] < Len(Mirrors)
     THEN /\ i' = [i EXCEPT ![t] = @ + 1] /\ GoTo(t, "add")
          /\ UNCHANGED <<packets, bound>>
     ELSE /\ GoTo(t, "idle") /\ i' = [i EXCEPT ![t] = 1]
          /\ packets' = [packets EXCEPT ![t] = <<>>]
          /\ bound' = [bound EXCEPT ![t] = Unset]
  /\ UNCHANGED <<outputVars, after, seen, observerVars, pollerVars, schedulerVars, runVars>>

-----------------------------------------------------------------------------
(* Notify of the observer and of the poller, by the thread that wrote. *)

NotifyPoller(t) ==
  /\ pc[t] = "notify" /\ Mirrors[i[t]] = Poller
  /\ poll' = Woken(poll)
  /\ GoTo(t, "emitted")
  /\ UNCHANGED <<outputVars, after, i, packets, bound, seen, observerVars, graph_has_error_,
                 output_timestamp_, wanted, polled, schedulerVars, runVars>>

\* Mutant of EnterNotify: two threads may notify.
EnterNotifyAnyway(t) ==
  /\ pc[t] = "notify" /\ Mirrors[i[t]] = Observer
  /\ notifying_' = TRUE
  /\ GoTo(t, "look")
  /\ UNCHANGED <<outputVars, after, i, packets, bound, seen, last_processed_ts_, observed,
                 reported, pollerVars, schedulerVars, runVars>>

\* Other threads quit if one is notifying.
EnterNotify(t) ==
  /\ pc[t] = "notify" /\ Mirrors[i[t]] = Observer
  /\ notifying_' = TRUE
  /\ GoTo(t, IF notifying_ THEN "emitted" ELSE "look")
  /\ UNCHANGED <<outputVars, after, i, packets, bound, seen, last_processed_ts_, observed,
                 reported, pollerVars, schedulerVars, runVars>>

\* What MinTimestampOrBound gives decides what is done next.
Settled(timestamp) ==
  IF timestamp = PostStream THEN PostStream ELSE PreviousAllowedInStream(timestamp)

ReportsBound(t) ==
  /\ observe_timestamp_bounds
  /\ seen[t].timestamp < Done
  /\ last_processed_ts_ < Settled(seen[t].timestamp)

\* A local variable that is not read again.
Forget(t) == seen' = [seen EXCEPT ![t] = NothingSeen]

LookAtStream(t) ==
  /\ pc[t] = "look"
  /\ seen' = [seen EXCEPT ![t] = Look(Observer)]
  /\ GoTo(t, IF IsEmpty(stream[Observer]) THEN "report" ELSE "pop")
  /\ UNCHANGED <<outputVars, after, i, packets, bound, observerVars, pollerVars,
                 schedulerVars, runVars>>

\* packet_callback with an empty packet.
Report(t) ==
  LET settled == Settled(seen[t].timestamp)
  IN /\ pc[t] = "report"
     /\ \/ /\ ~ReportsBound(t)
           /\ GoTo(t, "recheck")
           /\ UNCHANGED <<last_processed_ts_, reported>>
        \/ /\ ReportsBound(t)
           /\ last_processed_ts_' = settled /\ reported' = settled
           /\ GoTo(t, "recheck")
        \/ /\ ReportsBound(t) /\ Fails
           /\ GoTo(t, "error")
           /\ UNCHANGED <<last_processed_ts_, reported>>
     /\ UNCHANGED <<outputVars, after, i, packets, bound, seen, notifying_, observed,
                    pollerVars, schedulerVars, runVars>>

\* Mutant of Recheck: the stream is not looked at again.
LeaveNotify(t) ==
  /\ pc[t] = "recheck"
  /\ notifying_' = FALSE
  /\ GoTo(t, "emitted")
  /\ Forget(t)
  /\ UNCHANGED <<outputVars, after, i, packets, bound, last_processed_ts_, observed,
                 reported, pollerVars, schedulerVars, runVars>>

\* The last check: only the timestamp is compared, not whether the stream is empty.
Recheck(t) ==
  /\ pc[t] = "recheck"
  /\ IF Look(Observer).timestamp = seen[t].timestamp
     THEN notifying_' = FALSE /\ GoTo(t, "emitted")
     ELSE GoTo(t, "look") /\ UNCHANGED notifying_
  /\ Forget(t)
  /\ UNCHANGED <<outputVars, after, i, packets, bound, last_processed_ts_, observed,
                 reported, pollerVars, schedulerVars, runVars>>

PopObserved(t) ==
  /\ pc[t] = "pop"
  /\ stream' = [stream EXCEPT ![Observer] = PopPacketAtTimestamp(@, seen[t].timestamp)]
  /\ GoTo(t, IF DropsPackets(stream[Observer], seen[t].timestamp) THEN "error" ELSE "callback")
  /\ UNCHANGED <<next_timestamp_bound_, emitted, after, i, packets, bound, seen, observerVars,
                 pollerVars, schedulerVars, runVars>>

\* packet_callback with a packet.  An error leaves notifying_ as it is.
Callback(t) ==
  /\ pc[t] = "callback"
  /\ \/ /\ last_processed_ts_' = seen[t].timestamp
        /\ observed' = Append(observed, seen[t].timestamp)
        /\ reported' = seen[t].timestamp
        /\ GoTo(t, "look")
     \/ /\ Fails
        /\ GoTo(t, "error")
        /\ UNCHANGED <<last_processed_ts_, observed, reported>>
  /\ Forget(t)
  /\ UNCHANGED <<outputVars, after, i, packets, bound, notifying_, pollerVars,
                 schedulerVars, runVars>>

NotifyFails(t) ==
  /\ pc[t] = "error"
  /\ RecordError
  /\ GoTo(t, "emitted")
  /\ Forget(t)
  /\ UNCHANGED <<outputVars, after, i, packets, bound, observerVars,
                 output_timestamp_, wanted, polled, schedulerVars,
                 observe_timestamp_bounds, runs>>

\* EmittedObservedOutput
EmittedObservedOutput(t) ==
  /\ pc[t] = "emitted"
  /\ observed_output_signal_' = TRUE
  /\ wait' = IF waiting_for_observed_output_ THEN Woken(wait) ELSE wait
  /\ GoTo(t, after[t])
  /\ after' = [after EXCEPT ![t] = "next"]
  /\ UNCHANGED <<outputVars, i, packets, bound, seen, observerVars, pollerVars, state_,
                 waiting_for_observed_output_, runVars>>

WriterStep(t) ==
  \/ Add(t) \/ SetBound(t) \/ NextMirror(t)
  \/ NotifyPoller(t) \/ EnterNotify(t) \/ LookAtStream(t) \/ Report(t) \/ Recheck(t)
  \/ PopObserved(t) \/ Callback(t) \/ NotifyFails(t) \/ EmittedObservedOutput(t)

-----------------------------------------------------------------------------
(* Next of the poller. *)

CallNext ==
  /\ poll = "out" /\ poll' = "test"
  /\ UNCHANGED <<outputVars, threadVars, observerVars, graph_has_error_, output_timestamp_,
                 wanted, polled, schedulerVars, runVars>>

BoundChanged ==
  /\ observe_timestamp_bounds
  /\ output_timestamp_ < PreviousAllowedInStream(stream[Poller].next_timestamp_bound_)

\* Mutant of NextFails: the packets left are not given when the graph has an error.
NextFailsAtOnce == graph_has_error_

\* Next returns false though the stream is not done.
NextFails == graph_has_error_ /\ IsEmpty(stream[Poller])

\* The loop of Next under mutex_, up to the wait or the unlock.
TestForOutput ==
  LET look == Look(Poller)
      over == look.timestamp = Done
      ready == graph_has_error_ \/ ~look.empty \/ BoundChanged \/ over
  IN /\ poll = "test"
     /\ poll' = IF ~ready THEN "asleep"
                ELSE IF NextFails \/ over THEN "ended"
                ELSE IF look.empty THEN "out" ELSE "pop"
     /\ wanted' = IF poll' = "pop" THEN look ELSE NothingSeen
     /\ output_timestamp_' =
          IF ~ready \/ NextFails THEN output_timestamp_
          ELSE IF look.empty THEN PreviousAllowedInStream(look.timestamp) ELSE look.timestamp
     /\ UNCHANGED <<outputVars, threadVars, observerVars, graph_has_error_, polled,
                    schedulerVars, runVars>>

\* The packet is popped without mutex_.
PopPolled ==
  /\ poll = "pop" /\ poll' = "out"
  /\ stream' = [stream EXCEPT ![Poller] = PopPacketAtTimestamp(@, wanted.timestamp)]
  /\ polled' = Append(polled, wanted.timestamp)
  /\ wanted' = NothingSeen
  /\ UNCHANGED <<next_timestamp_bound_, emitted, threadVars, observerVars, graph_has_error_,
                 output_timestamp_, schedulerVars, runVars>>

Poll == CallNext \/ TestForOutput \/ PopPolled

-----------------------------------------------------------------------------
(* The scheduler and the application. *)

Writing == pc[Worker] # "idle" \/ pc[Closer] # "idle"

\* Quit, when nothing is left to run.
Terminate ==
  /\ state_ = "RUNNING" /\ ~Writing
  /\ next_timestamp_bound_ = Done \/ has_error_
  /\ state_' = "TERMINATED"
  /\ wait' = Woken(wait)
  /\ UNCHANGED <<outputVars, threadVars, observerVars, pollerVars, observed_output_signal_,
                 waiting_for_observed_output_, runVars>>

CallWait ==
  /\ state_ \in {"RUNNING", "TERMINATED"} /\ wait \in {"out", "ok"}
  /\ wait' = "test"
  /\ UNCHANGED <<outputVars, threadVars, observerVars, pollerVars, state_,
                 observed_output_signal_, waiting_for_observed_output_, runVars>>

\* One evaluation of the stop condition of WaitForObservedOutput.
TestForSignal ==
  LET waits == ~observed_output_signal_ /\ state_ # "TERMINATED"
  IN /\ wait = "test"
     /\ observed_output_signal_' = FALSE
     /\ waiting_for_observed_output_' = waits
     /\ wait' = IF waits THEN "asleep" ELSE IF observed_output_signal_ THEN "ok" ELSE "done"
     /\ UNCHANGED <<outputVars, threadVars, observerVars, pollerVars, state_, runVars>>

\* CleanupAfterRun: an output stream that is not closed is closed now ...
CleanUpNode ==
  /\ state_ = "TERMINATED" /\ wait \in {"out", "ok", "done"}
  /\ next_timestamp_bound_ # Done
  /\ Begin(App, <<>>, Done)

\* ... and then the mirrors, without a notification.
CleanUpMirrors ==
  /\ state_ = "TERMINATED" /\ wait \in {"out", "ok", "done"}
  /\ next_timestamp_bound_ = Done /\ pc[App] = "idle"
  /\ stream' = [m \in DOMAIN stream |-> Close(stream[m])]
  /\ state_' = "FINISHED" /\ wait' = "out" /\ has_error_' = FALSE
  /\ UNCHANGED <<next_timestamp_bound_, emitted, threadVars, observerVars, pollerVars,
                 observed_output_signal_, waiting_for_observed_output_,
                 observe_timestamp_bounds, runs>>

\* PrepareForRun: last_processed_ts_, notifying_ and output_timestamp_ stay.
StartRun ==
  /\ state_ = "FINISHED" /\ runs < MaxRuns /\ runs' = runs + 1
  /\ poll \in {"out", "ended"} /\ poll' = "out"
  /\ stream' = [m \in DOMAIN stream |-> NewStream(TRUE)]
  /\ next_timestamp_bound_' = PreStream
  /\ graph_has_error_' = FALSE
  /\ observed_output_signal_' = FALSE
  /\ state_' = "RUNNING"
  /\ emitted' = <<>> /\ observed' = <<>> /\ reported' = Unstarted /\ polled' = <<>>
  /\ UNCHANGED <<threadVars, notifying_, last_processed_ts_, output_timestamp_, wanted,
                 waiting_for_observed_output_, wait, observe_timestamp_bounds, has_error_>>

CleanUp == CleanUpNode \/ CleanUpMirrors

Next ==
  \/ WorkerWrites \/ CloserWrites \/ \E t \in Threads : WriterStep(t)
  \/ Poll
  \/ Terminate \/ CallWait \/ TestForSignal \/ CleanUp \/ StartRun

\* What the threads of the graph do, and what a call that has been made does.
GoesOn ==
  \/ \E t \in Threads : WriterStep(t)
  \/ CloserWrites \/ Terminate
  \/ TestForOutput \/ PopPolled \/ TestForSignal

\* The graph does not stop while something is under way, the node is closed at some
\* time and the run ends; the application need not call anything.
Fairness == WF_vars(GoesOn)

Spec == Init /\ [][Next]_vars
FairSpec == Spec /\ Fairness

-----------------------------------------------------------------------------
Labels == {"idle", "add", "bound", "next", "notify", "look", "report", "recheck", "pop",
           "callback", "error", "emitted"}

\* The types; one thread at a time is in the loop of Notify of the observer.
TypeOK ==
  /\ pc \in [Threads -> Labels] /\ after \in [Threads -> {"bound", "next"}]
  /\ next_timestamp_bound_ \in Timestamp /\ last_processed_ts_ \in Timestamp
  /\ output_timestamp_ \in Timestamp
  /\ poll \in {"out", "test", "asleep", "pop", "ended"}
  /\ wait \in {"out", "test", "asleep", "ok", "done"}
  /\ state_ \in {"RUNNING", "TERMINATED", "FINISHED"}
  /\ Cardinality({t \in Threads :
                    pc[t] \in {"look", "report", "recheck", "pop", "callback", "error"}}) <= 1

\* Nobody is writing, and no callback has failed, in this run or in an earlier one.
AtRest == (\A t \in Threads : pc[t] = "idle") /\ ~notifying_ /\ ~has_error_

IsPrefixOf(s, t) == Len(s) <= Len(t) /\ s = SubSeq(t, 1, Len(s))

\* "packet_callback will be invoked on every packet emitted by the output stream":
\* once, in order, and at the latest when the threads that write have nothing left
\* to do.  A bound is reported when all packets before it were, and in the first run
\* the last bound is reported.
EveryPacketObserved ==
  /\ IsPrefixOf(observed, emitted)
  /\ \A n \in 1 .. Len(emitted) : emitted[n] <= reported => n <= Len(observed)
  /\ AtRest => observed = emitted
  /\ AtRest /\ observe_timestamp_bounds /\ runs = 1 /\ next_timestamp_bound_ # Done =>
       reported >= PreviousAllowedInStream(next_timestamp_bound_)
  /\ wait = "done" /\ ~has_error_ /\ ~notifying_ => observed = emitted

\* The poller gives every packet once and in order.  It returns false only when its
\* queue is empty, and without an error only after the last packet; and an empty
\* packet only when all packets up to its timestamp were given.
EveryPacketPolled ==
  [][/\ IsPrefixOf(polled', emitted')
     /\ poll # "ended" /\ poll' = "ended" =>
          /\ IsEmpty(stream[Poller])
          /\ graph_has_error_ \/ polled = emitted
     /\ poll = "test" /\ poll' = "out" =>
          \A n \in 1 .. Len(emitted) :
            emitted[n] <= output_timestamp_' => n <= Len(polled)
     /\ poll = "pop" /\ poll' = "out" => ~DropsPackets(stream[Poller], wanted.timestamp)]_vars

\* A thread in Next or in WaitForObservedOutput gets out of it when there is
\* something for it, at the end of the run and after an error.
CallsReturn ==
  /\ poll \in {"test", "asleep"} ~> poll \notin {"test", "asleep"}
  /\ wait \in {"test", "asleep"} ~> wait \notin {"test", "asleep"}
=============================================================================
