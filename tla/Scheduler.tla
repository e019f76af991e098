------------------------------ MODULE Scheduler ------------------------------
(***************************************************************************)
(* One run of a calculator graph as its Scheduler sees it: the scheduler   *)
(* queues and their executors, the nodes that tasks open, run and close,   *)
(* the idle callbacks that make some thread run HandleIdle, and the calls  *)
(* an application may make from several threads while all that goes on.    *)
(*                                                                         *)
(* A thread is a call stack: its top frame says where the thread is, and a *)
(* frame is popped when the call returns.  What a method does while it     *)
(* holds state_mutex_ is one action, except that HandleIdle makes one      *)
(* action of each turn of its loop and keeps stateMutex in between, for it *)
(* releases the mutex in the middle of some turns and may never end.       *)
(* What a method of SchedulerQueue does under its own mutex is one action. *)
(*                                                                         *)
(* Data is reduced to what scheduling depends on.  A node has a number of  *)
(* input sets ready; running it makes one ready at each node downstream.   *)
(* Queues of packets are not here, so a source is throttled and let go by  *)
(* a choice of the run that would have filled or emptied a queue.  No node *)
(* runs in parallel with itself (max_in_flight is 1).                      *)
(***************************************************************************)
EXTENDS Integers, Sequences, FiniteSets, FiniteSetsExt

CONSTANTS
  Queues,           \* the default queue and one for each other executor
  Workers,          \* the threads of the executors
  AppThreads,       \* the threads that call the CalculatorGraph
  NoThread,
  Nodes, Sources,   \* Sources are the nodes with outputs and without inputs
  QueueOf,          \* the queue each node is assigned to
  Layer,            \* source_layer of each source
  Id,               \* the place of each node in the configuration
  Downstream,       \* the nodes that read the outputs of each node
  InputNodes,       \* the nodes that read a graph input stream
  OpenDeps,         \* the nodes whose headers or side packets each node awaits
  LateAnnouncers,   \* the nodes that may give these in Process and not in Open
  MayFail,          \* the nodes whose Open, Process or Close may return an error
  MayStop,          \* the non-sources whose Process may return StatusStop
  MayThrottle,      \* the sources that may fill a queue downstream
  Packets,          \* bound: how often each source runs before it stops
  Budget            \* bound: how often each thread makes each call

Threads == Workers \cup AppThreads

ASSUME ThreadsAssumption == Workers \cap AppThreads = {} /\ NoThread \notin Threads
ASSUME GraphAssumption ==
  /\ Sources \subseteq Nodes
  /\ QueueOf \in [Nodes -> Queues] /\ Layer \in [Sources -> Nat]
  /\ Downstream \in [Nodes -> SUBSET (Nodes \ Sources)]
  /\ InputNodes \subseteq Nodes \ Sources
  /\ OpenDeps \in [Nodes -> SUBSET Nodes]
  /\ MayStop \cap Sources = {} /\ MayThrottle \subseteq Sources
ASSUME FiniteAssumption ==
  IsFiniteSet(Queues) /\ IsFiniteSet(Nodes) /\ IsFiniteSet(Threads)

VARIABLES
  state_, handling_idle_, non_idle_queue_count_, graph_input_streams_closed_,
  active_sources_,   \* the sources of the layer being run, a sequence
  sources_queue_,    \* the open sources of the layers to come
  unopened_sources_, \* the sources that are not open yet
  stateMutex,        \* the thread that holds state_mutex_ between two actions
  stopping, has_error,            \* SchedulerShared
  sq,                \* the state of each scheduler queue
  executor,          \* how many tasks of each queue the executors have
  status, inFlight,  \* of each node: its life cycle, and whether it is scheduled
  ready,             \* how many input sets each node has not consumed
  announced,         \* the nodes that have given their headers and side packets
  throttled,         \* the sources that a full queue throttles
  left,              \* how many packets each source has left
  calls,             \* how many calls of each kind each thread has left
  stack              \* the call stack of each thread

schedulerVars == <<state_, handling_idle_, non_idle_queue_count_,
                   graph_input_streams_closed_, active_sources_, sources_queue_,
                   unopened_sources_, stateMutex>>
sharedVars == <<stopping, has_error>>
queueVars == <<sq, executor>>
nodeVars == <<status, inFlight, ready, announced, throttled, left>>
vars == <<schedulerVars, sharedVars, queueVars, nodeVars, calls, stack>>

States == {"NOT_STARTED", "RUNNING", "PAUSED", "CANCELLING", "TERMINATED"}
CallKinds == {"addPacket", "closeAllInputs", "closeAllPacketSources", "pause", "resume", "cancel"}
ASSUME BudgetAssumption == Budget \in [AppThreads -> [CallKinds -> Nat]]

\* A request to schedule a node: to open it, to run it if it is ready and not
\* throttled, or to run it because it has just been let go.
Item == [node : Nodes, kind : {"open", "run", "unthrottled"}]
Items(kind, ns) == {[node |-> n, kind |-> kind] : n \in ns}

-----------------------------------------------------------------------------
(* Call stacks. *)

Top(t) == Head(stack[t])
At(t, label) == stack[t] # <<>> /\ Top(t).at = label
Return(t) == Tail(stack[t])

Frame(label) == [at |-> label]
NodeFrame(label, n) == [at |-> label, node |-> n]
\* The AddNode calls a thread has to make, one for each item, in any order.
AddFrame(items) == [at |-> "add", todo |-> items]
PushFrame(items, item) == [at |-> "push", todo |-> items, item |-> item]
CallFalseFrame(items, q, n) == [at |-> "callFalse", todo |-> items, q |-> q, tasks |-> n]
AddTaskFrame(items, q, n) == [at |-> "addTask", todo |-> items, q |-> q, tasks |-> n]
\* TryToScheduleNextSourceLayer is at the i-th source of the layer.
ActivateFrame(i) == [at |-> "activate", i |-> i]
\* SubmitWaitingTasksOnQueues, with the queues that are left.
SubmitFrame(qs) == [at |-> "submit", qs |-> qs]

ThenAdd(items, s) == IF items = {} THEN s ELSE <<AddFrame(items)>> \o s
ThenSubmit(qs, s) == IF qs = {} THEN s ELSE <<SubmitFrame(qs)>> \o s

MutexFree == stateMutex = NoThread

-----------------------------------------------------------------------------
(* Scheduler queues. *)

QueueIdle(q) == sq[q].items = {} /\ sq[q].pending = 0
IsIdle == non_idle_queue_count_ = 0

SetQueuesRunning(by) == sq' = [q \in Queues |-> [sq[q] EXCEPT !.running = @ + by]]

\* Mutant of GrabTasks: the tasks are submitted again the next time.
GrabTasksTwice(r) == [r EXCEPT !.pending = @ + r.toAdd]
\* GetTasksToSubmitToExecutor
GrabTasks(r) == [r EXCEPT !.pending = @ + r.toAdd, !.toAdd = 0]

(* Item::operator<, reversed: a runs before b.  The source process order of two
   sources of a layer depends on their timestamps, so either may come first. *)
RunsBefore(a, b) ==
  \/ a.kind = "open" /\ (b.kind # "open" \/ Id[a.node] < Id[b.node])
  \/ /\ a.kind # "open" /\ b.kind # "open"
     /\ \/ a.node \notin Sources /\ b.node \in Sources
        \/ a.node \in Sources /\ b.node \in Sources /\ Layer[a.node] < Layer[b.node]
        \/ a.node \notin Sources /\ b.node \notin Sources /\ Id[a.node] > Id[b.node]

MayRunNext(q) ==
  {i \in sq[q].items : \A j \in sq[q].items : ~RunsBefore(j, i)}

-----------------------------------------------------------------------------
(* The start of a run, after PrepareForRun has scheduled the opening of every
   node that waits for nothing. *)

Openable == {n \in Nodes : OpenDeps[n] = {}}
OpenableOn(q) == {n \in Openable : QueueOf[n] = q}

Init ==
  /\ state_ = "NOT_STARTED"
  /\ handling_idle_ = 0
  /\ non_idle_queue_count_ = Cardinality({q \in Queues : OpenableOn(q) # {}})
  /\ graph_input_streams_closed_ = (InputNodes = {})
  /\ active_sources_ = <<>> /\ sources_queue_ = {} /\ unopened_sources_ = Sources
  /\ stateMutex = NoThread
  /\ stopping = FALSE /\ has_error = FALSE
  /\ sq = [q \in Queues |-> [items |-> Items("open", OpenableOn(q)), pending |-> 0,
                             toAdd |-> Cardinality(OpenableOn(q)), running |-> 0]]
  /\ executor = [q \in Queues |-> 0]
  /\ status = [n \in Nodes |-> "Prepared"]
  /\ inFlight = [n \in Nodes |-> 0]
  /\ ready = [n \in Nodes |-> 0]
  /\ announced = {} /\ throttled = {}
  /\ left = Packets
  /\ calls = Budget
  /\ stack = [t \in Threads |-> <<>>]

-----------------------------------------------------------------------------
(* Adding nodes to their queues. *)

\* Mutant of IsReady: an open node is run whether it has an input set or not.
IsOpened(n) == n \in Sources \/ status[n] = "Opened"
(* CheckIfBecameReady and ScheduleInvocations: a source is ready when it is asked
   for, another node when it is open and has an input set. *)
IsReady(n) == n \in Sources \/ (status[n] = "Opened" /\ ready[n] > 0)

(* The head of AddNode and AddNodeForOpen, with what decides that they are called:
   the node is ready, not throttled (ScheduleNodeIfNotThrottled) and not in flight
   (TryToBeginScheduling).  has_error is read here, and the item is pushed later. *)

TryAddNode(t) ==
  /\ At(t, "add")
  /\ \E i \in Top(t).todo :
       LET rest == Top(t).todo \ {i}
           n == i.node
           wanted == \/ i.kind = "open"
                     \/ /\ IsReady(n) /\ inFlight[n] = 0
                        /\ i.kind = "run" => n \notin throttled
       IN  /\ stack' = [stack EXCEPT ![t] = IF wanted /\ ~has_error
                                              THEN <<PushFrame(rest, i)>> \o Return(t)
                                              ELSE ThenAdd(rest, Return(t))]
           /\ inFlight' = [inFlight EXCEPT ![n] =
                             IF wanted /\ i.kind # "open" /\ ~has_error THEN 1 ELSE @]
           /\ ready' = [ready EXCEPT ![n] =
                          IF wanted /\ i.kind # "open" /\ n \notin Sources THEN @ - 1 ELSE @]
  /\ UNCHANGED <<schedulerVars, sharedVars, queueVars, status, announced, throttled,
                 left, calls>>

\* The critical section of AddItemToQueue.
PushItem(t) ==
  /\ At(t, "push")
  /\ LET i == Top(t).item
         q == QueueOf[i.node]
         kind == IF i.kind = "open" THEN "open" ELSE "run"
         added == [sq[q] EXCEPT !.items = @ \cup Items(kind, {i.node}), !.toAdd = @ + 1]
         submits == added.running > 0
         tasks == IF submits THEN added.toAdd ELSE 0
     IN  /\ sq' = [sq EXCEPT ![q] = IF submits THEN GrabTasks(added) ELSE added]
         /\ stack' = [stack EXCEPT ![t] =
              <<IF QueueIdle(q) THEN CallFalseFrame(Top(t).todo, q, tasks)
                                ELSE AddTaskFrame(Top(t).todo, q, tasks)>> \o Return(t)]
  /\ UNCHANGED <<schedulerVars, sharedVars, executor, nodeVars, calls>>

\* executor_->AddTask for each task that was grabbed.
AddTasks(t) ==
  /\ At(t, "addTask")
  /\ executor' = [executor EXCEPT ![Top(t).q] = @ + Top(t).tasks]
  /\ stack' = [stack EXCEPT ![t] = ThenAdd(Top(t).todo, Return(t))]
  /\ UNCHANGED <<schedulerVars, sharedVars, sq, nodeVars, calls>>

\* SubmitWaitingTasksToExecutor for one of the queues left.
SubmitWaitingTasks(t) ==
  /\ At(t, "submit")
  /\ \E q \in Top(t).qs :
       /\ IF sq[q].running > 0
            THEN /\ executor' = [executor EXCEPT ![q] = @ + sq[q].toAdd]
                 /\ sq' = [sq EXCEPT ![q] = GrabTasks(@)]
            ELSE UNCHANGED queueVars
       /\ stack' = [stack EXCEPT ![t] = ThenSubmit(Top(t).qs \ {q}, Return(t))]
  /\ UNCHANGED <<schedulerVars, sharedVars, nodeVars, calls>>

-----------------------------------------------------------------------------
(* HandleIdle. *)

\* The entry of HandleIdle by t, who has state_mutex_ and will return to s.
EnterHandleIdle(t, s) ==
  IF handling_idle_ = 0
    THEN /\ handling_idle_' = 1
         /\ stateMutex' = t
         /\ stack' = [stack EXCEPT ![t] = <<Frame("handleIdle")>> \o s]
    ELSE /\ handling_idle_' = handling_idle_ + 1
         /\ stack' = [stack EXCEPT ![t] = s]
         /\ UNCHANGED stateMutex

\* QueueIdleStateChanged
QueueIdleStateChanged(t, by, s) ==
  /\ MutexFree
  /\ non_idle_queue_count_' = non_idle_queue_count_ + by
  /\ IF non_idle_queue_count_' = 0
       THEN EnterHandleIdle(t, s)
       ELSE /\ stack' = [stack EXCEPT ![t] = s]
            /\ UNCHANGED <<handling_idle_, stateMutex>>
  /\ UNCHANGED <<state_, graph_input_streams_closed_, active_sources_,
                 sources_queue_, unopened_sources_, sharedVars, queueVars, nodeVars,
                 calls>>

CallIdleFalse(t) ==
  /\ At(t, "callFalse")
  /\ QueueIdleStateChanged(t, 1,
       <<AddTaskFrame(Top(t).todo, Top(t).q, Top(t).tasks)>> \o Return(t))

CallIdleTrue(t) ==
  /\ At(t, "callTrue")
  /\ QueueIdleStateChanged(t, -1, Return(t))

\* CleanupActiveSources: only closed sources at the back are removed.
ActiveSources ==
  LET open == {i \in DOMAIN active_sources_ : status[active_sources_[i]] # "Closed"}
  IN  SubSeq(active_sources_, 1, Max(open \cup {0}))

LowestLayer(ss) == {s \in ss : \A r \in ss : Layer[s] <= Layer[r]}
\* Within a layer the source process order comes first, so any order is possible.
SourcesInOrder(ss) ==
  {o \in [1 .. Cardinality(ss) -> ss] : \A i, j \in DOMAIN o : i # j => o[i] # o[j]}

\* Mutant of LowerLayerUnopened: the sources that are not open yet are not looked at.
NoneUnopened == FALSE
\* TryToScheduleNextSourceLayer finds a lower layer that is not open yet.
LowerLayerUnopened ==
  \E u \in unopened_sources_, s \in LowestLayer(sources_queue_) : Layer[u] < Layer[s]

\* One turn of the loop of HandleIdle, by the thread t that is in it.
InHandleIdle(t) == At(t, "handleIdle") /\ stateMutex = t

\* Mutant of KeepsHandling: HandleIdle goes on though the queues are not idle.
KeepsHandlingWhenBusy == state_ \in {"RUNNING", "CANCELLING"}
\* Mutant of KeepsHandling: HandleIdle goes on though the run has ended or is paused.
KeepsHandlingAnyState == IsIdle
KeepsHandling == IsIdle /\ state_ \in {"RUNNING", "CANCELLING"}
MustQuit ==
  \/ has_error
  \/ ActiveSources = <<>> /\ sources_queue_ = {} /\ graph_input_streams_closed_

LeaveHandleIdle(t) ==
  /\ handling_idle_' = 0
  /\ stateMutex' = NoThread
  /\ stack' = [stack EXCEPT ![t] = Return(t)]

HandleIdleNotIdle(t) ==
  /\ InHandleIdle(t) /\ ~KeepsHandling
  /\ LeaveHandleIdle(t)
  /\ UNCHANGED <<state_, non_idle_queue_count_, graph_input_streams_closed_,
                 active_sources_, sources_queue_, unopened_sources_, sharedVars,
                 queueVars, nodeVars, calls>>

\* Quit
HandleIdleQuit(t) ==
  /\ InHandleIdle(t) /\ KeepsHandling /\ MustQuit
  /\ active_sources_' = ActiveSources
  /\ state_' = "TERMINATED"
  /\ SetQueuesRunning(-1)
  /\ LeaveHandleIdle(t)
  /\ UNCHANGED <<non_idle_queue_count_, graph_input_streams_closed_, sources_queue_,
                 unopened_sources_, sharedVars, executor, nodeVars, calls>>

(* TryToScheduleNextSourceLayer returns false: HandleIdle takes another turn, and
   quits in it only if the graph input streams are closed. *)
HandleIdleBlocked(t) ==
  /\ InHandleIdle(t) /\ KeepsHandling /\ ~MustQuit
  /\ ActiveSources = <<>> /\ sources_queue_ # {}
  /\ LowerLayerUnopened
  /\ active_sources_' = ActiveSources
  /\ has_error' = (has_error \/ graph_input_streams_closed_)
  /\ UNCHANGED <<state_, handling_idle_, non_idle_queue_count_, stateMutex,
                 graph_input_streams_closed_, sources_queue_, unopened_sources_,
                 stopping, queueVars, nodeVars, calls, stack>>

\* TryToScheduleNextSourceLayer up to where it unlocks state_mutex_.
HandleIdleNextLayer(t) ==
  /\ InHandleIdle(t) /\ KeepsHandling /\ ~MustQuit
  /\ ActiveSources = <<>> /\ sources_queue_ # {}
  /\ ~LowerLayerUnopened
  /\ \E o \in SourcesInOrder(LowestLayer(sources_queue_)) : active_sources_' = o
  /\ sources_queue_' = sources_queue_ \ LowestLayer(sources_queue_)
  /\ stateMutex' = NoThread
  /\ stack' = [stack EXCEPT ![t] = <<Frame("stopQueues"), Frame("lock")>> \o @]
  /\ UNCHANGED <<state_, handling_idle_, non_idle_queue_count_,
                 graph_input_streams_closed_, unopened_sources_, sharedVars,
                 queueVars, nodeVars, calls>>

\* It stops the queues, ...
StopQueuesForLayer(t) ==
  /\ At(t, "stopQueues")
  /\ SetQueuesRunning(-1)
  /\ stack' = [stack EXCEPT ![t] = <<ActivateFrame(1)>> \o Return(t)]
  /\ UNCHANGED <<schedulerVars, sharedVars, executor, nodeVars, calls>>

\* ... activates each source of the layer before it looks whether it is throttled, ...
ActivateNode(t) ==
  /\ At(t, "activate")
  /\ LET i == Top(t).i
         n == active_sources_[i]
         next == IF i = Len(active_sources_) THEN Frame("startQueues")
                                             ELSE ActivateFrame(i + 1)
     IN  /\ status' = [status EXCEPT ![n] = "Active"]
         /\ stack' = [stack EXCEPT ![t] =
                        <<AddFrame(Items("run", {n})), next>> \o Return(t)]
  /\ UNCHANGED <<schedulerVars, sharedVars, queueVars, inFlight, ready, announced,
                 throttled, left, calls>>

\* ... starts the queues again, submits what waits and locks state_mutex_.
StartQueuesForLayer(t) ==
  /\ At(t, "startQueues")
  /\ SetQueuesRunning(1)
  /\ stack' = [stack EXCEPT ![t] = ThenSubmit(Queues, Return(t))]
  /\ UNCHANGED <<schedulerVars, sharedVars, executor, nodeVars, calls>>

LockStateMutex(t) ==
  /\ At(t, "lock") /\ MutexFree
  /\ stateMutex' = t
  /\ stack' = [stack EXCEPT ![t] = Return(t)]
  /\ UNCHANGED <<state_, handling_idle_, non_idle_queue_count_,
                 graph_input_streams_closed_, active_sources_, sources_queue_,
                 unopened_sources_, sharedVars, queueVars, nodeVars, calls>>

\* Mutant of LetGo: the sources let go are not scheduled.
LetGoOfNone(ss) == {}
\* Of the sources ss that are let go, those UpdateThrottledNodes schedules.
LetGo(ss) == Items("unthrottled", {s \in ss : status[s] = "Active"})

(* There are active sources: HandleIdle unlocks state_mutex_ to unthrottle some.  It
   does so for throttled graph inputs too, which are left to Throttling. *)
HandleIdleUnthrottle(t) ==
  /\ InHandleIdle(t) /\ KeepsHandling /\ ~MustQuit
  /\ ActiveSources # <<>>
  /\ active_sources_' = ActiveSources
  /\ stateMutex' = NoThread
  /\ stack' = [stack EXCEPT ![t] = <<Frame("unthrottle")>> \o Return(t)]
  /\ UNCHANGED <<state_, handling_idle_, non_idle_queue_count_,
                 graph_input_streams_closed_, sources_queue_, unopened_sources_,
                 sharedVars, queueVars, nodeVars, calls>>

(* UnthrottleSources: the full queues grow, which lets go of every source they
   throttle by then.  The loop takes another turn if there is any. *)
UnthrottleSources(t) ==
  /\ At(t, "unthrottle")
  /\ throttled' = {}
  /\ stack' = [stack EXCEPT ![t] =
       ThenAdd(LetGo(throttled),
               <<Frame("lock"),
                 Frame(IF throttled # {} THEN "handleIdle" ELSE "endOfTurn")>>
               \o Return(t))]
  /\ UNCHANGED <<schedulerVars, sharedVars, queueVars, status, inFlight, ready,
                 announced, left, calls>>

\* Mutant of CalledAgain: the call under way counts as another one.
CalledAtAll == handling_idle_ > 0
CalledAgain == handling_idle_ > 1

(* There was nothing to do: the loop ends unless HandleIdle was called while the
   mutex was unlocked. *)
HandleIdleEndOfTurn(t) ==
  /\ stateMutex = t
  /\ \/ At(t, "endOfTurn")
     \/ /\ InHandleIdle(t) /\ KeepsHandling /\ ~MustQuit
        /\ ActiveSources = <<>> /\ sources_queue_ = {}
  /\ active_sources_' = IF At(t, "endOfTurn") THEN active_sources_ ELSE ActiveSources
  /\ IF CalledAgain
       THEN /\ handling_idle_' = 1
            /\ stack' = [stack EXCEPT ![t] = <<Frame("handleIdle")>> \o Return(t)]
            /\ UNCHANGED stateMutex
       ELSE LeaveHandleIdle(t)
  /\ UNCHANGED <<state_, non_idle_queue_count_, graph_input_streams_closed_,
                 sources_queue_, unopened_sources_, sharedVars, queueVars, nodeVars,
                 calls>>

HandleIdle(t) ==
  \/ HandleIdleNotIdle(t)
  \/ HandleIdleQuit(t)
  \/ HandleIdleBlocked(t)
  \/ HandleIdleNextLayer(t)
  \/ StopQueuesForLayer(t)
  \/ ActivateNode(t)
  \/ StartQueuesForLayer(t)
  \/ LockStateMutex(t)
  \/ HandleIdleUnthrottle(t)
  \/ UnthrottleSources(t)
  \/ HandleIdleEndOfTurn(t)

-----------------------------------------------------------------------------
(* RunNextTask, by a worker that got a task of queue q. *)

TakeTask(w, q) ==
  /\ stack[w] = <<>> /\ executor[q] > 0
  /\ executor' = [executor EXCEPT ![q] = @ - 1]
  /\ \E i \in MayRunNext(q) :
       /\ sq' = [sq EXCEPT ![q].items = @ \ {i}]
       /\ stack' = [stack EXCEPT ![w] = <<NodeFrame(i.kind, i.node)>>]
  /\ UNCHANGED <<schedulerVars, sharedVars, nodeVars, calls>>

\* The nodes that await nothing more once n has given what it gives.
OpenedBy(n) ==
  {m \in Nodes : n \in OpenDeps[m] /\ n \notin announced
                   /\ OpenDeps[m] \subseteq announced \cup {n}}

\* OpenNode up to output_stream_handler_->Open, which sends the headers on.
OpenNode(w) ==
  /\ At(w, "open")
  /\ LET n == Top(w).node
     IN  \/ /\ announced' = announced \cup {n}
            /\ stack' = [stack EXCEPT ![w] =
                 ThenAdd(Items("open", OpenedBy(n)), <<NodeFrame("opened", n)>>)]
         \/ /\ n \in LateAnnouncers
            /\ stack' = [stack EXCEPT ![w] = <<NodeFrame("opened", n)>>]
            /\ UNCHANGED announced
  /\ UNCHANGED <<schedulerVars, sharedVars, queueVars, status, inFlight, ready,
                 throttled, left, calls>>

\* Open returns an error: error_callback records it, and the node stays as it was.
OpenFails(w, n) ==
  /\ At(w, "open") /\ Top(w).node = n /\ n \in MayFail
  /\ has_error' = TRUE
  /\ stack' = [stack EXCEPT ![w] = <<NodeFrame("finish", n)>>]
  /\ UNCHANGED <<schedulerVars, stopping, queueVars, nodeVars, calls>>

\* The end of OpenNode, and NodeOpened.
NodeOpened(w) ==
  /\ At(w, "opened")
  /\ LET n == Top(w).node
     IN  /\ status' = [status EXCEPT ![n] = "Opened"]
         /\ stack' = [stack EXCEPT ![w] =
              IF n \in Sources
                THEN <<NodeFrame("toSourcesQueue", n)>>
                ELSE ThenAdd(Items("run", {n}), <<NodeFrame("finish", n)>>)]
  /\ UNCHANGED <<schedulerVars, sharedVars, queueVars, inFlight, ready, announced,
                 throttled, left, calls>>

AddNodeToSourcesQueue(w) ==
  /\ At(w, "toSourcesQueue") /\ MutexFree
  /\ LET n == Top(w).node
     IN  /\ sources_queue_' = sources_queue_ \cup {n}
         /\ unopened_sources_' = unopened_sources_ \ {n}
         /\ stack' = [stack EXCEPT ![w] = <<NodeFrame("finish", n)>>]
  /\ UNCHANGED <<state_, handling_idle_, non_idle_queue_count_, stateMutex,
                 graph_input_streams_closed_, active_sources_, sharedVars, queueVars,
                 nodeVars, calls>>

(* The outputs of a run of n: each node downstream has one more input set ready,
   and is added with the items in more; the thread is then at the frame after. *)
Deliver(w, n, more, after) ==
  /\ ready' = [m \in Nodes |-> IF m \in Downstream[n] THEN ready[m] + 1 ELSE ready[m]]
  /\ stack' = [stack EXCEPT ![w] =
       ThenAdd(Items("run", Downstream[n]) \cup more, <<NodeFrame(after, n)>>)]

Running(w, n) == At(w, "run") /\ Top(w).node = n

(* ProcessNode of a source that emits and may fill a queue, which throttles the
   sources upstream of it. *)
SourceEmits(w, n) ==
  /\ Running(w, n) /\ n \in Sources /\ ~stopping /\ left[n] > 0
  /\ left' = [left EXCEPT ![n] = @ - 1]
  /\ \/ UNCHANGED throttled
     \/ /\ n \in MayThrottle
        /\ \E ss \in SUBSET MayThrottle : throttled' = throttled \cup ss \cup {n}
  /\ Deliver(w, n, {}, "end")
  /\ UNCHANGED <<schedulerVars, sharedVars, queueVars, status, inFlight, announced,
                 calls>>

(* A source returns StatusStop, or RunCalculatorNode closes it because the graph is
   stopping: CloseNode closes its outputs and then marks it closed. *)
SourceCloses(w, n) ==
  /\ Running(w, n) /\ n \in Sources /\ (stopping \/ left[n] = 0)
  /\ Deliver(w, n, {}, "close")
  /\ UNCHANGED <<schedulerVars, sharedVars, queueVars, status, inFlight, announced,
                 throttled, left, calls>>

MarkClosed(w) ==
  /\ At(w, "close")
  /\ status' = [status EXCEPT ![Top(w).node] = "Closed"]
  /\ stack' = [stack EXCEPT ![w] = <<NodeFrame("end", Top(w).node)>>]
  /\ UNCHANGED <<schedulerVars, sharedVars, queueVars, inFlight, ready, announced,
                 throttled, left, calls>>

\* CloseNode of a source has returned an error, which error_callback records.
CloseFails(w, n) ==
  /\ At(w, "end") /\ Top(w).node = n /\ n \in Sources \cap MayFail
  /\ status[n] = "Closed" /\ ~has_error
  /\ has_error' = TRUE
  /\ UNCHANGED <<schedulerVars, stopping, queueVars, nodeVars, calls, stack>>

(* ProcessNode of another node: it consumes an input set, which may empty a queue
   that throttled some sources, and may give what it did not give in Open. *)
NodeProcesses(w, n) ==
  /\ Running(w, n) /\ n \notin Sources
  /\ \E ss \in SUBSET {s \in throttled : n \in Downstream[s]},
        gives \in SUBSET ({n} \ announced) :
       /\ throttled' = throttled \ ss
       /\ announced' = announced \cup gives
       /\ Deliver(w, n, LetGo(ss) \cup Items("open", UNION {OpenedBy(m) : m \in gives}),
                  "end")
  /\ UNCHANGED <<schedulerVars, sharedVars, queueVars, status, inFlight, left, calls>>

(* ProcessNode returns an error, that of Process or, of a node that is not a source,
   that of Close: error_callback records it.  A stopping graph runs no source. *)
ProcessFails(w, n) ==
  /\ Running(w, n) /\ n \in MayFail /\ ~(stopping /\ n \in Sources)
  /\ has_error' = TRUE
  /\ stack' = [stack EXCEPT ![w] = <<NodeFrame("end", n)>>]
  /\ UNCHANGED <<schedulerVars, stopping, queueVars, nodeVars, calls>>

\* ProcessNode of a node that is not a source returns StatusStop.
ProcessStops(w, n) ==
  /\ Running(w, n) /\ n \in MayStop
  /\ stopping' = TRUE
  /\ stack' = [stack EXCEPT ![w] = <<NodeFrame("end", n)>>]
  /\ UNCHANGED <<schedulerVars, has_error, queueVars, nodeVars, calls>>

\* EndScheduling leaves a node that is closed in flight for good.
LeavesFlight(n) == status[n] # "Closed"

EndScheduling(w) ==
  /\ At(w, "end")
  /\ LET n == Top(w).node
     IN  IF LeavesFlight(n)
           THEN /\ inFlight' = [inFlight EXCEPT ![n] = 0]
                /\ stack' = [stack EXCEPT ![w] =
                     ThenAdd(Items("run", {n}), <<NodeFrame("finish", n)>>)]
           ELSE /\ stack' = [stack EXCEPT ![w] = <<NodeFrame("finish", n)>>]
                /\ UNCHANGED inFlight
  /\ UNCHANGED <<schedulerVars, sharedVars, queueVars, status, ready, announced,
                 throttled, left, calls>>

\* The end of RunNextTask.
FinishTask(w) ==
  /\ At(w, "finish")
  /\ LET q == QueueOf[Top(w).node]
     IN  /\ sq' = [sq EXCEPT ![q].pending = @ - 1]
         /\ stack' = [stack EXCEPT ![w] =
              IF sq[q].items = {} /\ sq[q].pending = 1 THEN <<Frame("callTrue")>>
                                                      ELSE <<>>]
  /\ UNCHANGED <<schedulerVars, sharedVars, executor, nodeVars, calls>>

-----------------------------------------------------------------------------
(* The calls of the application.  Each is made by a thread that is in no other. *)

AppCall(a, kind) ==
  /\ stack[a] = <<>>
  /\ state_ # "NOT_STARTED"
  /\ calls[a][kind] > 0
  /\ calls' = [calls EXCEPT ![a][kind] = @ - 1]

Start(a) ==
  /\ stack[a] = <<>> /\ state_ = "NOT_STARTED"
  /\ state_' = "RUNNING"
  /\ SetQueuesRunning(1)
  /\ EnterHandleIdle(a, <<SubmitFrame(Queues)>>)
  /\ UNCHANGED <<non_idle_queue_count_, graph_input_streams_closed_, active_sources_,
                 sources_queue_, unopened_sources_, sharedVars, executor, nodeVars,
                 calls>>

(* AddPacketToInputStream, after its check for errors: the packet makes an input
   set ready at node n; then AddedPacketToGraphInputStream. *)
AddPacket(a, n) ==
  /\ AppCall(a, "addPacket")
  /\ ~has_error /\ ~graph_input_streams_closed_
  /\ ready' = [ready EXCEPT ![n] = @ + 1]
  /\ stack' = [stack EXCEPT ![a] =
       ThenAdd(Items("run", {n}), <<Frame("addedPacket")>>)]
  /\ UNCHANGED <<schedulerVars, sharedVars, queueVars, status, inFlight, announced,
                 throttled, left>>

(* It reads state_, an atomic, before it locks state_mutex_: when the run has ended,
   it returns or, having read state_ before that, calls HandleIdle all the same. *)
AddedPacketToGraphInputStream(a) ==
  /\ At(a, "addedPacket")
  /\ \/ /\ state_ = "TERMINATED"
        /\ stack' = [stack EXCEPT ![a] = Return(a)]
        /\ UNCHANGED <<handling_idle_, stateMutex>>
     \/ /\ MutexFree
        /\ EnterHandleIdle(a, Return(a))
  /\ UNCHANGED <<state_, non_idle_queue_count_, graph_input_streams_closed_,
                 active_sources_, sources_queue_, unopened_sources_, sharedVars,
                 queueVars, nodeVars, calls>>

(* CloseAllInputStreams: closing a stream makes the nodes that read it ready once
   more, to close.  CloseAllPacketSources then stops the sources too. *)
CloseAllInputs(a, kind) ==
  /\ AppCall(a, kind)
  /\ ~graph_input_streams_closed_
  /\ ready' = [n \in Nodes |-> IF n \in InputNodes THEN ready[n] + 1 ELSE ready[n]]
  /\ stack' = [stack EXCEPT ![a] =
       ThenAdd(Items("run", InputNodes),
               <<Frame("closedAll")>> \o
                 (IF kind = "closeAllPacketSources" THEN <<Frame("stopSources")>>
                                                    ELSE <<>>))]
  /\ UNCHANGED <<schedulerVars, sharedVars, queueVars, status, inFlight, announced,
                 throttled, left>>

\* Mutant of ClosedAllGraphInputStreams: HandleIdle is not called.
ClosedAllWithoutCheck(a) ==
  /\ At(a, "closedAll") /\ MutexFree
  /\ graph_input_streams_closed_' = TRUE
  /\ stack' = [stack EXCEPT ![a] = Return(a)]
  /\ UNCHANGED <<state_, handling_idle_, stateMutex, non_idle_queue_count_,
                 active_sources_, sources_queue_, unopened_sources_, sharedVars,
                 queueVars, nodeVars, calls>>

ClosedAllGraphInputStreams(a) ==
  /\ At(a, "closedAll") /\ MutexFree
  /\ graph_input_streams_closed_' = TRUE
  /\ EnterHandleIdle(a, Return(a))
  /\ UNCHANGED <<state_, non_idle_queue_count_, active_sources_, sources_queue_,
                 unopened_sources_, sharedVars, queueVars, nodeVars, calls>>

CloseAllSourceNodes(a) ==
  /\ At(a, "stopSources")
  /\ stopping' = TRUE
  /\ stack' = [stack EXCEPT ![a] = Return(a)]
  /\ UNCHANGED <<schedulerVars, has_error, queueVars, nodeVars, calls>>

Pause(a) ==
  /\ AppCall(a, "pause")
  /\ MutexFree /\ state_ = "RUNNING"
  /\ state_' = "PAUSED"
  /\ SetQueuesRunning(-1)
  /\ UNCHANGED <<handling_idle_, non_idle_queue_count_, graph_input_streams_closed_,
                 active_sources_, sources_queue_, unopened_sources_, stateMutex,
                 sharedVars, executor, nodeVars, stack>>

Resume(a) ==
  /\ AppCall(a, "resume")
  /\ MutexFree /\ state_ = "PAUSED"
  /\ state_' = "RUNNING"
  /\ SetQueuesRunning(1)
  /\ EnterHandleIdle(a, <<SubmitFrame(Queues)>>)
  /\ UNCHANGED <<non_idle_queue_count_, graph_input_streams_closed_, active_sources_,
                 sources_queue_, unopened_sources_, sharedVars, executor, nodeVars>>

\* Mutant of Cancel: a graph that is paused stays stopped.
CancelWhilePaused(a) ==
  /\ AppCall(a, "cancel")
  /\ MutexFree /\ state_ \in {"RUNNING", "PAUSED"}
  /\ has_error' = TRUE
  /\ state_' = "CANCELLING"
  /\ EnterHandleIdle(a, <<SubmitFrame(Queues)>>)
  /\ UNCHANGED <<non_idle_queue_count_, graph_input_streams_closed_, active_sources_,
                 sources_queue_, unopened_sources_, stopping, queueVars, nodeVars>>

Cancel(a) ==
  /\ AppCall(a, "cancel")
  /\ MutexFree /\ state_ \in {"RUNNING", "PAUSED"}
  /\ has_error' = TRUE
  /\ IF state_ = "PAUSED" THEN SetQueuesRunning(1) ELSE UNCHANGED sq
  /\ state_' = "CANCELLING"
  /\ EnterHandleIdle(a, <<SubmitFrame(Queues)>>)
  /\ UNCHANGED <<non_idle_queue_count_, graph_input_streams_closed_, active_sources_,
                 sources_queue_, unopened_sources_, stopping, executor, nodeVars>>

-----------------------------------------------------------------------------
Task(w) ==
  \/ \E q \in Queues : TakeTask(w, q)
  \/ OpenNode(w) \/ NodeOpened(w) \/ AddNodeToSourcesQueue(w)
  \/ \E n \in Nodes :
       \/ SourceEmits(w, n) \/ SourceCloses(w, n) \/ NodeProcesses(w, n)
       \/ ProcessFails(w, n) \/ ProcessStops(w, n)
       \/ OpenFails(w, n) \/ CloseFails(w, n)
  \/ MarkClosed(w) \/ EndScheduling(w) \/ FinishTask(w)

\* The calls both kinds of thread make into the queues and the scheduler.
Shared(t) ==
  \/ TryAddNode(t) \/ PushItem(t) \/ AddTasks(t) \/ SubmitWaitingTasks(t)
  \/ CallIdleFalse(t) \/ CallIdleTrue(t)
  \/ HandleIdle(t)

AppReturn(a) ==
  \/ AddedPacketToGraphInputStream(a)
  \/ ClosedAllGraphInputStreams(a)
  \/ CloseAllSourceNodes(a)

App(a) ==
  \/ \E n \in InputNodes : AddPacket(a, n)
  \/ \E kind \in {"closeAllInputs", "closeAllPacketSources"} : CloseAllInputs(a, kind)
  \/ Pause(a) \/ Resume(a) \/ Cancel(a)

Next ==
  \/ \E w \in Workers : Task(w)
  \/ \E t \in Threads : Shared(t)
  \/ \E a \in AppThreads : Start(a) \/ AppReturn(a) \/ App(a)

(* Threads go on with what they have begun, workers take tasks and the application
   starts the graph; it need not make any other call. *)
Fairness ==
  /\ \A w \in Workers : WF_vars(Task(w))
  /\ \A t \in Threads : WF_vars(Shared(t))
  /\ \A a \in AppThreads : WF_vars(Start(a)) /\ WF_vars(AppReturn(a))

Spec == Init /\ [][Next]_vars
FairSpec == Spec /\ Fairness

-----------------------------------------------------------------------------
Range1(t) == {stack[t][i] : i \in DOMAIN stack[t]}
Inside(t, labels) == \E f \in Range1(t) : f.at \in labels
HandlingIdle(t) == Inside(t, {"handleIdle", "unthrottle", "lock", "endOfTurn"})
Calling(t, label, q) == At(t, label) /\ Top(t).q = q

QueueState == [items : SUBSET [node : Nodes, kind : {"open", "run"}],
               pending : Nat, toAdd : Nat, running : Int]

TypeOK ==
  /\ state_ \in States /\ stateMutex \in Threads \cup {NoThread}
  /\ handling_idle_ \in Nat /\ non_idle_queue_count_ \in Int
  /\ active_sources_ \in Seq(Sources)
  /\ sources_queue_ \subseteq Sources /\ unopened_sources_ \subseteq Sources
  /\ {graph_input_streams_closed_, stopping, has_error} \subseteq BOOLEAN
  /\ sq \in [Queues -> QueueState] /\ executor \in [Queues -> Nat]
  /\ status \in [Nodes -> {"Prepared", "Opened", "Active", "Closed"}]
  /\ inFlight \in [Nodes -> 0 .. 1] /\ ready \in [Nodes -> Nat]
  /\ announced \subseteq Nodes /\ throttled \subseteq Sources

(* DCHECK_LE(running_count_, 1) in SetRunning: Start, Pause, Resume, Cancel, Quit and
   the adding of a layer start and stop the queues in a balanced way. *)
RunningCountAtMostOne == \A q \in Queues : sq[q].running <= 1

(* CHECK(!queue_.empty()) in RunNextTask, across all the threads that add, submit
   and run. *)
TasksFindItems == \A q \in Queues : executor[q] <= Cardinality(sq[q].items)

(* CHECK(!node->Closed()) in RunNextTask: a node is not in a queue, nor about to be
   pushed, once it is closed. *)
ClosedNodeNotScheduled ==
  /\ \A q \in Queues : \A i \in sq[q].items : status[i.node] # "Closed"
  /\ \A t \in Threads : At(t, "push") => status[Top(t).item.node] # "Closed"

(* handling_idle_ keeps a second thread out of HandleIdle also while the first one
   has unlocked state_mutex_. *)
OneHandlerOfIdle == Cardinality({t \in Threads : HandlingIdle(t)}) <= 1

(* A source is active only if every source of a lower layer has been closed. *)
LayersInOrder ==
  \A s, r \in Sources : status[s] = "Active" /\ Layer[r] < Layer[s] => status[r] = "Closed"

Doing == {t \in Threads : stack[t] # <<>>}
Quiet == Doing = {} /\ \A q \in Queues : executor[q] = 0

(* No wakeup is lost: when a running graph comes to rest, it has been left with
   nothing to do but to wait for a packet from the application.  No task waits, no
   source is left active although a throttled one could be let go, no node has an
   input set it was not scheduled for, and the queues count as idle. *)
RestsOnlyForInput ==
  Quiet /\ state_ = "RUNNING" =>
    /\ IsIdle
    /\ \A q \in Queues : sq[q].items = {} /\ sq[q].pending = 0
    /\ ~graph_input_streams_closed_ /\ ~has_error
    /\ sources_queue_ = {}
    /\ \A s \in Sources : status[s] \in {"Prepared", "Closed"}
    /\ \A n \in Nodes \ Sources : status[n] = "Opened" => ready[n] = 0

(* The CHECKs and DCHECKs of the scheduler and its queues hold. *)
ChecksHold == RunningCountAtMostOne /\ OneHandlerOfIdle /\ TasksFindItems /\ ClosedNodeNotScheduled

(* What WaitUntilIdle promises to an application that adds no packets while it waits,
   when "either the graph has no source nodes or all source nodes are closed": when it
   returns, nothing is scheduled or running.  The code does not keep this promise in
   every graph: it does in those like the one of MCScheduler_layers.cfg, but where
   what the application adds goes from one queue to another, a pause
   (MCScheduler_idle.cfg) or the adding of a layer (MCScheduler_mixed.cfg) breaks it. *)
Waiting(a) == stack[a] = <<>> /\ \A b \in AppThreads \ {a} :
                ~Inside(b, {"addedPacket", "closedAll"})
WaitUntilIdleMeansIdle ==
  \A a \in AppThreads : Waiting(a) /\ MutexFree /\ IsIdle /\ (\A s \in Sources : status[s] = "Closed") =>
    \A q \in Queues : executor[q] = 0 /\ sq[q].items = {} /\ sq[q].pending = 0

(* When the application is told that the run is over, no worker is inside the
   scheduler any more and no task is left: the comment in ~Scheduler says so, and
   CleanupAfterRun CHECKs a part of it.  This too is so in graphs like the one of
   MCScheduler_layers.cfg, and not where MCScheduler_mixed.cfg breaks the promise above
   or where an error ends the run (MCScheduler_error.cfg). *)
DoneMeansDone ==
  state_ = "TERMINATED" /\ MutexFree /\ (\A a \in AppThreads : stack[a] = <<>>) =>
    /\ \A w \in Workers : stack[w] = <<>>
    /\ \A q \in Queues : executor[q] = 0 /\ sq[q].pending = 0

(* An application that waits is told that the graph is idle, or that the run is over,
   only when nothing is left to run: a packet it has added has gone as far as it goes.
   The two conditions above hold together, in graphs and runs like those of
   MCScheduler_layers.cfg and only in them. *)
WaitsEndWhenIdle == WaitUntilIdleMeansIdle /\ DoneMeansDone

(* The run ends: once the inputs are closed and the application does not keep the
   graph paused, the graph terminates by itself. *)
ClosedInputsTerminate == graph_input_streams_closed_ ~> state_ \in {"TERMINATED", "PAUSED"}

(* A cancelled run does not come to rest before it has terminated, whether it was
   cancelled while it ran, while it was paused or while HandleIdle was under way. *)
CancelTerminates == Quiet => state_ # "CANCELLING"

(* Nothing the application does to a run leaves it stranded: when no thread is about to
   do anything any more, a graph that runs waits for a packet and for nothing else, and
   one that was cancelled has terminated; what is left is a graph that is paused, has
   not started, or has ended. *)
RestsOnlyWhenDone == RestsOnlyForInput /\ CancelTerminates

(* What ended the run is the last thing that happens to the scheduler and to its
   queues' counts of starts: HandleIdle may still be called, by callbacks under way,
   by ClosedAllGraphInputStreams, and by AddedPacketToGraphInputStream, which read
   state_ without the lock; Pause, Resume and Cancel may come late too. *)
StaysTerminated ==
  [][state_ = "TERMINATED" =>
       state_' = "TERMINATED" /\ \A q \in Queues : sq'[q].running = sq[q].running]_vars

(* Whoever enters HandleIdle gets out of it, unless it finds that a source of a lower
   layer is not open. *)
HandleIdleEnds ==
  (\E t \in Threads : HandlingIdle(t)) ~>
    (LowerLayerUnopened \/ \A t \in Threads : ~HandlingIdle(t))

(* "Nothing left to do", says HandleIdle of the turn after which it ends; it should
   also end when all it can do is to wait for a source to be opened. *)
HandleIdleAlwaysEnds ==
  (\E t \in Threads : HandlingIdle(t)) ~> \A t \in Threads : ~HandlingIdle(t)
=============================================================================
