----------------------------- MODULE Throttling -----------------------------
(***************************************************************************)
(* Back-pressure in a running graph.  An input stream whose queue is full  *)
(* throttles every source and every graph input stream upstream of it;     *)
(* when the graph is idle and something is throttled, HandleIdle enlarges  *)
(* the full queues.  CalculatorGraph::UpdateThrottledNodes is called with  *)
(* no lock held, by whichever thread filled, emptied or resized a queue.   *)
(*                                                                         *)
(* A thread is named after what it does: a graph input is the application  *)
(* thread that adds packets to it, a source or a node is the worker that   *)
(* runs it, Idle is whichever thread is inside HandleIdle.  An action is   *)
(* one critical section.  A queue is its length, and which packets make an *)
(* input set is left open: a node that is looked at may take one packet    *)
(* from any of its queues, or may not be ready.  The tasks of the workers  *)
(* are abstracted to what each node is doing (Scheduler has the details):  *)
(* every source is open and active, and no node has parallel invocations.  *)
(***************************************************************************)
EXTENDS Integers, FiniteSets, FiniteSetsExt

CONSTANTS
  GraphInputs, Sources, Nodes,
  Idle,            \* the thread inside HandleIdle
  None,            \* no stream, no node or no thread
  Streams,         \* the input streams, one for each reader of an output stream, numbered
  Producer,        \* of a stream: the graph input, source or node that writes it
  Consumer,        \* of a stream: the node that reads it
  Runs,            \* bound: the runs tried: how many packets each graph input and source has
                   \* (0: it is not used), the limits of the queues (-1: none), the add mode
  Failing          \* bound: which nodes may fail, which graph inputs get a packet they refuse

ASSUME StreamsAssumption == Streams \subseteq Nat \ {0}
ASSUME ProducerAssumption == Producer \in [Streams -> GraphInputs \cup Sources \cup Nodes]
ASSUME ConsumerAssumption == Consumer \in [Streams -> Nodes]
ASSUME NamesAssumption ==
  /\ GraphInputs \cap Sources = {} /\ GraphInputs \cap Nodes = {} /\ Sources \cap Nodes = {}
  /\ Idle \notin GraphInputs \cup Sources \cup Nodes
  /\ None \notin GraphInputs \cup Sources \cup Nodes \cup Streams \cup {Idle}
  /\ IsFiniteSet(GraphInputs)
ASSUME RunsAssumption ==
  Runs \subseteq [packets : [GraphInputs \cup Sources -> Nat],
                limits : [Streams -> {-1} \cup (Nat \ {0})],
                add_mode : {"WAIT_TILL_NOT_FULL", "ADD_IF_NOT_FULL"}]

Threads == GraphInputs \cup Sources \cup Nodes \cup {Idle}
Owners == GraphInputs \cup Sources     \* what can be throttled
Runners == Sources \cup Nodes          \* what workers run
Inputs(n) == {s \in Streams : Consumer[s] = n}
Outputs(x) == {s \in Streams : Producer[s] = x}

\* The sources and graph inputs a producer's packets come from.
AncestorSources[x \in Owners \cup Nodes] ==
  IF x \in Nodes THEN UNION {AncestorSources[Producer[s]] : s \in Inputs(x)} ELSE {x}
UpstreamNodes(s) == AncestorSources[Producer[s]]

VARIABLES
  queue_size, max_queue_size_, last_reported_stream_full_,    \* of each stream
  full_input_streams_, throttled_graph_input_stream_count_,
  signalled,       \* the waiting threads whose seq_num is not unthrottle_seq_num_ any more
  graph_input_stream_add_mode_, has_error_, terminated,
  budget,          \* calls yet to make of each graph input, packets yet to send of each source
  pc,              \* of each application thread and of Idle
  run,             \* what the one invocation of each source and node is doing
  loop, pending,   \* SchedulingLoop of each source: its place; kSchedulingPending
  scheduling,      \* the thread in SchedulingLoop of each node
  \* Of each thread, inside its calls:
  sends,           \* what it has yet to give to which streams
  notify,          \* the node whose CheckIfBecameReady it is about to call
  pops,            \* the streams it has yet to take a packet from
  callback,        \* the stream whose queue size callback it is about to call
  nodes_to_schedule,
  handling_idle_, full_streams, new_size     \* of HandleIdle and UnthrottleSources; 0: not read yet

streamVars == <<queue_size, max_queue_size_, last_reported_stream_full_>>
throttleVars == <<full_input_streams_, throttled_graph_input_stream_count_, signalled>>
graphVars == <<graph_input_stream_add_mode_, has_error_, terminated, budget>>
nodeVars == <<run, loop, pending, scheduling>>
callVars == <<sends, notify, pops, callback, nodes_to_schedule>>
idleVars == <<handling_idle_, full_streams, new_size>>
vars == <<streamVars, throttleVars, graphVars, pc, nodeVars, callVars, idleVars>>

IsFull(s) == max_queue_size_[s] # -1 /\ queue_size[s] >= max_queue_size_[s]
IsThrottled(x) == full_input_streams_[x] # {}
Closed(x) == IF x \in GraphInputs THEN pc[x] = "closed" ELSE run[x] = "closed"
\* CloseNode closes the inputs of a node before its outputs.
StreamClosed(s) == Closed(Consumer[s]) \/ sends[Consumer[s]].kind = "done"
\* No queue has an item, no worker has a task.
IsIdle ==
  /\ \A x \in Runners : run[x] \in {"none", "prepared", "closed"}
  /\ \A x \in Sources : loop[x] = "none"
  /\ \A n \in Nodes : scheduling[n] # n

NoSends == [kind |-> "bound", to |-> {}]
SendAll(x, kind) == [kind |-> kind, to |-> Outputs(x)]
\* The thread has no call on streams or nodes under way.
CallsDone(t) == callback[t] = None /\ nodes_to_schedule[t] = {} /\ pops[t] = {}
SendsDone(t) ==
  /\ CallsDone(t) /\ notify[t] = None /\ sends[t].to = {}
  /\ \A n \in Nodes : scheduling[n] # t

Init ==
  /\ \E r \in Runs :
       /\ budget = r.packets
       /\ max_queue_size_ = r.limits
       /\ graph_input_stream_add_mode_ = r.add_mode
  /\ queue_size = [s \in Streams |-> 0]
  /\ last_reported_stream_full_ = [s \in Streams |-> FALSE]
  /\ full_input_streams_ = [x \in Owners |-> {}]
  /\ throttled_graph_input_stream_count_ = 0
  /\ signalled = {}
  /\ has_error_ = FALSE /\ terminated = FALSE
  /\ pc = [t \in GraphInputs \cup {Idle} |->
             IF t \in GraphInputs /\ budget[t] = 0 THEN "closed" ELSE "none"]
  /\ run = [x \in Runners |-> IF x \in Nodes THEN "none"
                              ELSE IF budget[x] = 0 THEN "closed" ELSE "queued"]
  /\ loop = [x \in Sources |-> "none"] /\ pending = {}
  /\ scheduling = [n \in Nodes |-> None]
  /\ sends = [t \in Threads |-> NoSends]
  /\ notify = [t \in Threads |-> None]
  /\ pops = [t \in Threads |-> {}]
  /\ callback = [t \in Threads |-> None]
  /\ nodes_to_schedule = [t \in Threads |-> {}]
  /\ handling_idle_ = 0 /\ full_streams = {}
  /\ new_size = [s \in Streams |-> 0]
-----------------------------------------------------------------------------
(* The streams. *)

CallBackIf(condition, t, s) ==
  callback' = IF condition THEN [callback EXCEPT ![t] = s] ELSE callback

BecameFull(s) == ~IsFull(s) /\ IsFull(s)'
\* Mutant of BecameNotFull: the change is seen only when the queue is empty.
BecameEmpty(s) == IsFull(s) /\ queue_size'[s] = 0
BecameNotFull(s) == IsFull(s) /\ ~IsFull(s)'

\* One mirror of an output stream gets the packet, or the new timestamp bound.
PropagateUpdatesToMirrors(t, s) ==
  LET packet == sends[t].kind = "packet" /\ ~StreamClosed(s)
  IN /\ CallsDone(t) /\ notify[t] = None /\ \A n \in Nodes : scheduling[n] # t
     /\ s \in sends[t].to /\ s = Min(sends[t].to)
     /\ sends' = [sends EXCEPT ![t].to = @ \ {s}]
     /\ queue_size' = IF packet THEN [queue_size EXCEPT ![s] = @ + 1] ELSE queue_size
     /\ UNCHANGED max_queue_size_
     /\ CallBackIf(BecameFull(s), t, s)
     /\ notify' = IF queue_size[s] = 0 /\ ~StreamClosed(s)
                  THEN [notify EXCEPT ![t] = Consumer[s]] ELSE notify
     /\ UNCHANGED <<last_reported_stream_full_, throttleVars, graphVars, pc, nodeVars, pops,
                    nodes_to_schedule, idleVars>>

\* FillInputSet takes a packet from one stream.
PopFrom(t, s) ==
  /\ callback[t] = None /\ nodes_to_schedule[t] = {}
  /\ s \in pops[t] /\ s = Min(pops[t])
  /\ pops' = [pops EXCEPT ![t] = @ \ {s}]
  /\ queue_size' = [queue_size EXCEPT ![s] = @ - 1]
  /\ UNCHANGED max_queue_size_
  /\ CallBackIf(BecameNotFull(s), t, s)
  /\ UNCHANGED <<last_reported_stream_full_, throttleVars, graphVars, pc,
                 nodeVars, sends, notify, nodes_to_schedule, idleVars>>

Throttles(x) == ~IsThrottled(x) /\ IsThrottled(x)'
\* Mutant of Unthrottles: counted once for each stream that is full no more.
UnthrottlesInPart(x) == ~(full_input_streams_[x] \subseteq full_input_streams_'[x])
Unthrottles(x) == ~IsThrottled(x)'

\* The queue size callback.  It looks at the stream again, under the lock.
UpdateThrottledNodes(t, s) ==
  LET changed == {x \in UpstreamNodes(s) : last_reported_stream_full_[s] # IsFull(s)}
      throttled == {x \in changed : Throttles(x)}
      unthrottled == {x \in changed : Unthrottles(x)}
  IN /\ callback[t] = s
     /\ callback' = [callback EXCEPT ![t] = None]
     /\ full_input_streams_' =
          [x \in Owners |->
             IF x \notin changed THEN full_input_streams_[x]
             ELSE IF IsFull(s) THEN full_input_streams_[x] \cup {s}
             ELSE full_input_streams_[x] \ {s}]
     /\ last_reported_stream_full_' = [last_reported_stream_full_ EXCEPT ![s] = IsFull(s)]
     /\ throttled_graph_input_stream_count_' =
          throttled_graph_input_stream_count_ + Cardinality(throttled \cap GraphInputs)
          - Cardinality(unthrottled \cap GraphInputs)
     /\ signalled' = IF unthrottled \cap GraphInputs = {} THEN signalled
                     ELSE {g \in GraphInputs : pc[g] = "wait"}
     /\ nodes_to_schedule' =
          [nodes_to_schedule EXCEPT ![t] = {x \in unthrottled \cap Sources : ~Closed(x)}]
     /\ UNCHANGED <<queue_size, max_queue_size_, graphVars, pc, nodeVars, sends, notify, pops,
                    idleVars>>

\* SchedulerQueue::AddNode: dropped after an error, and when the node is running.
AddNode(x) ==
  run' = IF ~has_error_ /\ run[x] = "none" THEN [run EXCEPT ![x] = "queued"] ELSE run

ScheduleUnthrottledReadyNodes(t, x) ==
  /\ x \in nodes_to_schedule[t]
  /\ nodes_to_schedule' = [nodes_to_schedule EXCEPT ![t] = @ \ {x}]
  /\ AddNode(x)
  /\ UNCHANGED <<streamVars, throttleVars, graphVars, pc, loop, pending, scheduling, sends,
                 notify, pops, callback, idleVars>>
-----------------------------------------------------------------------------
(* HandleIdle. *)

\* A call of HandleIdle; one that finds another under way only marks it.
EnterHandleIdle ==
  IF handling_idle_ = 0
  THEN handling_idle_' = 1 /\ pc' = [pc EXCEPT ![Idle] = "look"]
  ELSE handling_idle_' = 2 /\ UNCHANGED pc

LeaveHandleIdle ==
  /\ handling_idle_' = 0
  /\ pc' = [t \in DOMAIN pc |-> IF t = Idle \/ pc[t] = "in_idle" THEN "none" ELSE pc[t]]

\* After the three things HandleIdle may do.
LoopOrLeave ==
  IF handling_idle_ > 1
  THEN handling_idle_' = 1 /\ pc' = [pc EXCEPT ![Idle] = "look"]
  ELSE LeaveHandleIdle

HandleIdle ==
  LET quits == has_error_ \/ \A x \in Owners : Closed(x)
      unthrottles == (\E x \in Sources : ~Closed(x)) \/ throttled_graph_input_stream_count_ > 0
  IN /\ pc[Idle] = "look"
     /\ \/ /\ ~IsIdle \/ terminated
           /\ LeaveHandleIdle
           /\ UNCHANGED terminated
        \/ /\ IsIdle /\ ~terminated /\ quits
           /\ terminated' = TRUE
           /\ LeaveHandleIdle
        \/ /\ IsIdle /\ ~terminated /\ ~quits /\ unthrottles
           /\ pc' = [pc EXCEPT ![Idle] = "collect"]
           /\ UNCHANGED <<terminated, handling_idle_>>
        \/ /\ IsIdle /\ ~terminated /\ ~quits /\ ~unthrottles
           /\ LoopOrLeave
           /\ UNCHANGED terminated
     /\ UNCHANGED <<streamVars, throttleVars, graph_input_stream_add_mode_, has_error_, budget,
                    nodeVars, callVars, full_streams, new_size>>

\* UnthrottleSources, with state_mutex_ released: what is full, ...
CollectFullStreams ==
  /\ pc[Idle] = "collect"
  /\ full_streams' = UNION {full_input_streams_[x] : x \in Owners}
  /\ IF full_streams' = {}
     THEN LoopOrLeave
     ELSE pc' = [pc EXCEPT ![Idle] = "read"] /\ UNCHANGED handling_idle_
  /\ UNCHANGED <<streamVars, throttleVars, graphVars, nodeVars, callVars, new_size>>

\* ... then for each stream, its queue size ...
ReadQueueSize(s) ==
  /\ pc[Idle] = "read" /\ CallsDone(Idle)
  /\ s \in full_streams
  /\ new_size' = [new_size EXCEPT ![s] = queue_size[s] + 1]
  /\ pc' = [pc EXCEPT ![Idle] = "set"]
  /\ UNCHANGED <<streamVars, throttleVars, graphVars, nodeVars, callVars, handling_idle_,
                 full_streams>>

\* ... and a new maximum.
SetMaxQueueSize(s) ==
  /\ pc[Idle] = "set" /\ new_size[s] > 0
  /\ max_queue_size_' = [max_queue_size_ EXCEPT ![s] = new_size[s]]
  /\ UNCHANGED queue_size
  /\ CallBackIf(BecameFull(s) \/ BecameNotFull(s), Idle, s)
  /\ full_streams' = full_streams \ {s}
  /\ new_size' = [new_size EXCEPT ![s] = 0]
  /\ pc' = [pc EXCEPT ![Idle] = "read"]
  /\ UNCHANGED <<last_reported_stream_full_, throttleVars, graphVars, nodeVars, sends, notify,
                 pops, nodes_to_schedule, handling_idle_>>

DidUnthrottle ==
  /\ pc[Idle] = "read" /\ CallsDone(Idle) /\ full_streams = {}
  /\ pc' = [pc EXCEPT ![Idle] = "look"]
  /\ UNCHANGED <<streamVars, throttleVars, graphVars, nodeVars, callVars, idleVars>>

\* The last task of the workers tells the scheduler that it is idle.
TaskEnds == IF IsIdle' THEN EnterHandleIdle ELSE UNCHANGED <<handling_idle_, pc>>
-----------------------------------------------------------------------------
(* The application threads. *)

Goto(t, label) == pc' = [pc EXCEPT ![t] = label]

AddPacketToInputStream(g) ==
  /\ pc[g] = "none" /\ budget[g] > 0
  /\ budget' = [budget EXCEPT ![g] = @ - 1]
  /\ Goto(g, "check")
  /\ UNCHANGED <<streamVars, throttleVars, graph_input_stream_add_mode_, has_error_, terminated,
                 nodeVars, callVars, idleVars>>

\* Under full_input_streams_mutex_; a thread that will wait has read the sequence number.
CheckThrottled(g) ==
  /\ pc[g] = "check"
  /\ \/ has_error_ /\ Goto(g, "none")
     \/ /\ ~has_error_ /\ IsThrottled(g)
        /\ Goto(g, IF graph_input_stream_add_mode_ = "ADD_IF_NOT_FULL" THEN "none" ELSE "wait")
     \/ ~has_error_ /\ ~IsThrottled(g) /\ Goto(g, "add")
  /\ UNCHANGED <<streamVars, throttleVars, graphVars, nodeVars, callVars, idleVars>>

\* Mutant of SignalsLeft: one flag for all waiting threads, erased by the first to see it.
SignalConsumed(g) == {}
SignalsLeft(g) == signalled \ {g}

WaitUntilGraphInputStreamUnthrottled(g) ==
  /\ pc[g] = "wait" /\ (g \in signalled \/ terminated)
  /\ signalled' = SignalsLeft(g)
  /\ Goto(g, "check")
  /\ UNCHANGED <<streamVars, full_input_streams_, throttled_graph_input_stream_count_, graphVars,
                 nodeVars, callVars, idleVars>>

\* The packet goes to the stream, unless it is refused (an error) or there has been an error.
AddPacket(g) ==
  /\ pc[g] = "add"
  /\ \/ /\ has_error_ \/ g \in Failing
        /\ has_error_' = TRUE
        /\ Goto(g, "none")
        /\ UNCHANGED sends
     \/ /\ ~has_error_
        /\ sends' = [sends EXCEPT ![g] = SendAll(g, "packet")]
        /\ Goto(g, "propagate")
        /\ UNCHANGED has_error_
  /\ UNCHANGED <<streamVars, throttleVars, graph_input_stream_add_mode_, terminated, budget, nodeVars,
                 notify, pops, callback, nodes_to_schedule, idleVars>>

CloseInputStream(g) ==
  /\ pc[g] = "none" /\ budget[g] = 0
  /\ sends' = [sends EXCEPT ![g] = SendAll(g, "done")]
  /\ Goto(g, "propagate")
  /\ UNCHANGED <<streamVars, throttleVars, graphVars, nodeVars, notify, pops, callback,
                 nodes_to_schedule, idleVars>>

\* Mutant of CallHandleIdle: nobody looks whether the graph is idle and throttled.
ReturnOnly(g) == Goto(g, "none") /\ UNCHANGED handling_idle_

\* The thread enters HandleIdle itself, or leaves it to the thread that is inside.
CallHandleIdle(g) ==
  IF handling_idle_ = 0
  THEN handling_idle_' = 1 /\ pc' = [pc EXCEPT ![Idle] = "look", ![g] = "in_idle"]
  ELSE handling_idle_' = 2 /\ Goto(g, "none")

\* AddedPacketToGraphInputStream.
FinishAdd(g) ==
  /\ pc[g] = "propagate" /\ SendsDone(g) /\ sends[g].kind = "packet"
  /\ sends' = [sends EXCEPT ![g] = NoSends]
  /\ IF terminated THEN Goto(g, "none") /\ UNCHANGED handling_idle_ ELSE CallHandleIdle(g)
  /\ UNCHANGED <<streamVars, throttleVars, graphVars, nodeVars, notify, pops, callback,
                 nodes_to_schedule, full_streams, new_size>>

\* The last one to close calls ClosedAllGraphInputStreams.
FinishClose(g) ==
  /\ pc[g] = "propagate" /\ SendsDone(g) /\ sends[g].kind = "done"
  /\ sends' = [sends EXCEPT ![g] = NoSends]
  /\ LET closed == [pc EXCEPT ![g] = "closed"]
     IN IF \E h \in GraphInputs \ {g} : ~Closed(h)
        THEN pc' = closed /\ UNCHANGED handling_idle_
        ELSE IF handling_idle_ = 0
        THEN handling_idle_' = 1 /\ pc' = [closed EXCEPT ![Idle] = "look"]
        ELSE handling_idle_' = 2 /\ pc' = closed
  /\ UNCHANGED <<streamVars, throttleVars, graphVars, nodeVars, notify, pops, callback,
                 nodes_to_schedule, full_streams, new_size>>
-----------------------------------------------------------------------------
(* Scheduling and running of the nodes. *)

CheckIfBecameReady(t) ==
  LET n == notify[t]
  IN /\ CallsDone(t) /\ n # None
     /\ notify' = [notify EXCEPT ![t] = None]
     /\ scheduling' = IF run[n] = "none" /\ scheduling[n] = None
                      THEN [scheduling EXCEPT ![n] = t] ELSE scheduling
     /\ UNCHANGED <<streamVars, throttleVars, graphVars, pc, run, loop, pending, sends, pops,
                    callback, nodes_to_schedule, idleVars>>

\* The node is ready: an input set is prepared ...
PrepareInputSet(t, n) ==
  /\ scheduling[n] = t /\ run[n] = "none" /\ CallsDone(t)
  /\ \E S \in SUBSET {s \in Inputs(n) : queue_size[s] > 0} :
       S # {} /\ pops' = [pops EXCEPT ![t] = S]
  /\ run' = [run EXCEPT ![n] = "prepared"]
  /\ UNCHANGED <<streamVars, throttleVars, graphVars, pc, loop, pending, scheduling, sends, notify,
                 callback, nodes_to_schedule, idleVars>>

\* ... and given to the scheduler queue, which drops it after an error.
ScheduleInvocation(t, n) ==
  /\ scheduling[n] = t /\ run[n] = "prepared" /\ CallsDone(t)
  /\ run' = [run EXCEPT ![n] = IF has_error_ THEN "none" ELSE "queued"]
  /\ UNCHANGED <<streamVars, throttleVars, graphVars, pc, loop, pending, scheduling, callVars,
                 idleVars>>

\* The thread leaves SchedulingLoop; the worker of the node itself has ended its task.
LeaveSchedulingLoop(t, n) ==
  /\ scheduling[n] = t /\ run[n] # "prepared" /\ CallsDone(t)
  /\ scheduling' = [scheduling EXCEPT ![n] = None]
  /\ UNCHANGED <<run, loop, pending>>
  /\ IF t = n THEN TaskEnds ELSE UNCHANGED <<handling_idle_, pc>>
  /\ UNCHANGED <<streamVars, throttleVars, graphVars, callVars, full_streams,
                 new_size>>

\* Not enough of the inputs are open: an invocation for Close is prepared and scheduled.
PrepareForClose(t, n) ==
  /\ scheduling[n] = t /\ run[n] = "none" /\ CallsDone(t) /\ ~has_error_
  /\ \E s \in Inputs(n) : Closed(Producer[s])
  /\ run' = [run EXCEPT ![n] = "closing"]
  /\ UNCHANGED <<streamVars, throttleVars, graphVars, pc, loop, pending, scheduling, callVars,
                 idleVars>>

\* A worker runs a source or a node, which fails, or has a packet or a bound for its streams, or
\* closes.
RunNextTask(x) ==
  /\ run[x] \in {"queued", "closing"} /\ ~terminated /\ (x \in Nodes => scheduling[x] # x)
  /\ run' = [run EXCEPT ![x] = "running"]
  /\ \/ /\ run[x] = "queued" /\ x \in Failing
        /\ has_error_' = TRUE
        /\ UNCHANGED <<sends, budget>>
     \/ /\ run[x] = "queued" /\ (x \in Sources => budget[x] > 0)
        /\ sends' = [sends EXCEPT ![x] = SendAll(x, "packet")]
        /\ budget' = IF x \in Sources THEN [budget EXCEPT ![x] = @ - 1] ELSE budget
        /\ UNCHANGED has_error_
     \/ /\ run[x] = "queued" /\ x \in Nodes
        /\ sends' = [sends EXCEPT ![x] = SendAll(x, "bound")]
        /\ UNCHANGED <<budget, has_error_>>
     \/ /\ run[x] = "closing" \/ x \in Sources
        /\ sends' = [sends EXCEPT ![x] = SendAll(x, "done")]
        /\ UNCHANGED <<budget, has_error_>>
  /\ UNCHANGED <<streamVars, throttleVars, graph_input_stream_add_mode_, terminated, pc, loop,
                 pending, scheduling, notify, pops, callback, nodes_to_schedule, idleVars>>

\* EndScheduling.  A closed node stays in flight; a worker that finds another in SchedulingLoop
\* leaves the loop to it, and its task ends.
EndScheduling(x) ==
  LET closes == sends[x].kind = "done"
      busy == IF x \in Sources THEN loop[x] # "none" ELSE scheduling[x] # None
  IN /\ run[x] = "running" /\ SendsDone(x)
     /\ run' = [run EXCEPT ![x] = IF closes THEN "closed" ELSE "none"]
     /\ sends' = [sends EXCEPT ![x] = NoSends]
     /\ \/ /\ closes \/ busy
           /\ pending' = IF ~closes /\ x \in Sources THEN pending \cup {x} ELSE pending
           /\ UNCHANGED <<loop, scheduling>>
        \/ /\ ~closes /\ ~busy /\ x \in Sources
           /\ loop' = [loop EXCEPT ![x] = "check"]
           /\ UNCHANGED <<pending, scheduling>>
        \/ /\ ~closes /\ ~busy /\ x \in Nodes
           /\ scheduling' = [scheduling EXCEPT ![x] = x]
           /\ UNCHANGED <<pending, loop>>
     /\ TaskEnds
     /\ UNCHANGED <<streamVars, throttleVars, graphVars, notify, pops, callback, nodes_to_schedule,
                    full_streams, new_size>>

\* SchedulingLoop of a source: ScheduleNodeIfNotThrottled tests ...
IsNodeThrottled(x) ==
  /\ loop[x] = "check"
  /\ loop' = [loop EXCEPT ![x] = IF IsThrottled(x) THEN "last" ELSE "add"]
  /\ UNCHANGED <<streamVars, throttleVars, graphVars, pc, run, pending, scheduling, callVars,
                 idleVars>>

\* ... and adds; ...
ScheduleSource(x) ==
  /\ loop[x] = "add"
  /\ loop' = [loop EXCEPT ![x] = "last"]
  /\ AddNode(x)
  /\ UNCHANGED <<streamVars, throttleVars, graphVars, pc, pending, scheduling, callVars, idleVars>>

Again(x) == x \in pending /\ run[x] = "none"

\* ... another round if somebody asked for it meanwhile.
SchedulingLoopTest(x) ==
  /\ loop[x] = "last"
  /\ loop' = [loop EXCEPT ![x] = IF Again(x) THEN "check" ELSE "none"]
  /\ pending' = pending \ {x}
  /\ UNCHANGED <<run, scheduling>>
  /\ TaskEnds
  /\ UNCHANGED <<streamVars, throttleVars, graphVars, callVars, full_streams,
                 new_size>>
-----------------------------------------------------------------------------
\* The next step of the calls a thread has made on streams and nodes.
CallStep(t) ==
  \/ CheckIfBecameReady(t)
  \/ \E s \in Streams :
       PropagateUpdatesToMirrors(t, s) \/ PopFrom(t, s) \/ UpdateThrottledNodes(t, s)
  \/ \E x \in Sources : ScheduleUnthrottledReadyNodes(t, x)
  \/ \E n \in Nodes : ScheduleInvocation(t, n) \/ LeaveSchedulingLoop(t, n)

IdleStep ==
  \/ HandleIdle \/ CollectFullStreams \/ DidUnthrottle \/ CallStep(Idle)
  \/ \E s \in Streams : ReadQueueSize(s) \/ SetMaxQueueSize(s)

\* A call that was made goes on.
ApplicationStep(g) ==
  \/ CheckThrottled(g) \/ WaitUntilGraphInputStreamUnthrottled(g) \/ AddPacket(g)
  \/ CallStep(g) \/ FinishAdd(g) \/ FinishClose(g)

WorkerStep(x) == RunNextTask(x) \/ CallStep(x) \/ EndScheduling(x)
LoopStep(x) == IsNodeThrottled(x) \/ ScheduleSource(x) \/ SchedulingLoopTest(x)

OtherStep ==
  \/ \E g \in GraphInputs : ApplicationStep(g)
  \/ \E x \in Runners : WorkerStep(x)
  \/ \E x \in Sources : LoopStep(x)

Next ==
  \/ IdleStep \/ OtherStep
  \/ \E g \in GraphInputs :
       AddPacketToInputStream(g) \/ CloseInputStream(g)
  \/ \E t \in Threads, n \in Nodes : PrepareInputSet(t, n) \/ PrepareForClose(t, n)

Spec == Init /\ [][Next]_vars

\* Calls that were made go on, queued tasks are run and end.  The application need not call, and a
\* node need never be ready.
FairSpec ==
  /\ Spec
  /\ WF_vars(IdleStep)
  /\ WF_vars(OtherStep)
-----------------------------------------------------------------------------
CallPCs == {"none", "check", "wait", "add", "propagate", "in_idle", "closed"}
IdlePCs == {"none", "look", "collect", "read", "set"}

\* Type invariant of the module.
TypeOK ==
  /\ queue_size \in [Streams -> Nat]
  /\ max_queue_size_ \in [Streams -> {-1} \cup (Nat \ {0})]
  /\ last_reported_stream_full_ \in [Streams -> BOOLEAN]
  /\ full_input_streams_ \in [Owners -> SUBSET Streams]
  /\ throttled_graph_input_stream_count_ \in 0 .. Cardinality(GraphInputs)
  /\ signalled \subseteq {g \in GraphInputs : pc[g] = "wait"}
  /\ graph_input_stream_add_mode_ \in {"WAIT_TILL_NOT_FULL", "ADD_IF_NOT_FULL"}
  /\ has_error_ \in BOOLEAN /\ terminated \in BOOLEAN
  /\ budget \in [Owners -> Nat]
  /\ pc \in [GraphInputs \cup {Idle} -> CallPCs \cup IdlePCs]
  /\ pc[Idle] \in IdlePCs /\ \A g \in GraphInputs : pc[g] \in CallPCs
  /\ run \in [Runners -> {"none", "prepared", "queued", "closing", "running", "closed"}]
  /\ loop \in [Sources -> {"none", "check", "add", "last"}] /\ pending \subseteq Sources
  /\ scheduling \in [Nodes -> Threads \cup {None}]
  /\ sends \in [Threads -> [kind : {"packet", "bound", "done"}, to : SUBSET Streams]]
  /\ \A t \in Threads : sends[t].to \subseteq Outputs(t)
  /\ notify \in [Threads -> Nodes \cup {None}]
  /\ pops \in [Threads -> SUBSET Streams]
  /\ callback \in [Threads -> Streams \cup {None}]
  /\ nodes_to_schedule \in [Threads -> SUBSET Sources]
  /\ handling_idle_ \in 0 .. 2 /\ full_streams \subseteq Streams
  /\ new_size \in [Streams -> Nat]

\* Callbacks of different threads for one stream arrive in any order; what was last reported of a
\* stream is wrong only while a callback for it is still to come (calculator_graph.cc:1134-1138).
ReportedExact ==
  \A s \in Streams :
    last_reported_stream_full_[s] # IsFull(s) => \E t \in Threads : callback[t] = s

\* The sets of full streams, one for each source and graph input, and the scheduler's count of
\* throttled graph inputs, which is kept under another mutex, agree with what was reported: the
\* DCHECKs of UpdateThrottledNodes hold and the count never drifts.
ThrottledExact ==
  /\ \A x \in Owners :
       full_input_streams_[x] =
         {s \in Streams : last_reported_stream_full_[s] /\ x \in UpstreamNodes(s)}
  /\ throttled_graph_input_stream_count_ = Cardinality({g \in GraphInputs : IsThrottled(g)})

\* A thread that waits to add a packet, and has not been signalled, is still throttled: no
\* unthrottling falls between the test of the full streams and the wait.
NoMissedSignal ==
  \A g \in GraphInputs : pc[g] = "wait" /\ g \notin signalled => IsThrottled(g)

\* A source that is not closed, not in flight and in no SchedulingLoop, and that no thread is about
\* to schedule, is throttled: otherwise nobody would ever run it again.
NoStrandedSource ==
  \A x \in Sources :
    run[x] = "none" /\ loop[x] = "none" /\ ~has_error_ =>
      IsThrottled(x) \/ \E t \in Threads : x \in nodes_to_schedule[t]

\* The three records of what is full, kept under different mutexes, agree.
BookkeepingExact == ReportedExact /\ ThrottledExact

\* Nobody waits for an unthrottling that has already been.
NothingMissed == NoMissedSignal /\ NoStrandedSource

\* Every call of AddPacketToInputStream and CloseInputStream returns: a full graph unthrottles its
\* inputs sooner or later, by running or by enlarging queues, or ends.  As there is an end to the
\* calls, this is to say that again and again none is under way.
AddReturns == []<>(\A g \in GraphInputs : pc[g] \in {"none", "closed"})

\* "this function will grow input streams", as "the current stream queue sizes will remain
\* unchanged" (calculator_graph.cc:1208-1210): the limit of a queue is never lowered.
LimitsOnlyGrow ==
  [][\A s \in Streams : max_queue_size_'[s] >= max_queue_size_[s]]_vars
=============================================================================
