-------------------------- MODULE Scheduler_proofs --------------------------
(***************************************************************************)
(* The scheduler keeps its types and its layers in order, its CHECKs never *)
(* fail, and it comes to rest only when there is nothing left to do, for   *)
(* any graph, any queues and any number of threads.                        *)
(*                                                                         *)
(* Scheduler_invariant has the invariant Inv and what every action does to *)
(* the stacks, the nodes and the sources.  Here: one thread is in          *)
(* HandleIdle, and the queues are stopped and started in a balanced way;   *)
(* the types; the tasks, of which each step moves one or leaves all where  *)
(* they are; that the first state has the invariant; and what follows from *)
(* Inv alone.                                                              *)
(*                                                                         *)
(* The second half adds RestInv, which says of every state who is still to *)
(* do what is left to be done: for each of its parts, what every frame     *)
(* hands on to the frames that take its place (AllKept), then that each    *)
(* step keeps the part.                                                    *)
(***************************************************************************)
EXTENDS Scheduler_invariant

-----------------------------------------------------------------------------
(* Who handles idleness, and whether the queues run. *)

HandlerIn(F) == \E f \in F : f.at \in HandlerLabels
StopperIn(F) == \E f \in F : f.at \in {"activate", "startQueues"}
Alone(h, st) ==
  /\ h \in Nat
  /\ h = 0 => \A t \in Threads : ~HandlerIn(On(st[t]))
  /\ h > 0 => \E t \in Threads : HandlerIn(On(st[t]))
  /\ \A t, u \in Threads : HandlerIn(On(st[t])) /\ HandlerIn(On(st[u])) => t = u
HeldBack(st) == IF \E t \in Threads : StopperIn(On(st[t])) THEN 1 ELSE 0

LEMMA HandlingNow ==
  ASSUME Core
  PROVE  /\ Alone(handling_idle_, stack)
         /\ \A q \in Queues : sq[q].running = Going - HeldBack(stack)
         /\ Going \in {0, 1} /\ HeldBack(stack) \in {0, 1}
<1>1. Alone(handling_idle_, stack)
  BY DEF Core, TypeOK, HandlerAlone, Alone, HandlerIn, Handles, Has
<1>2. Held = HeldBack(stack)
  BY DEF Held, HeldBack, StopperIn, StopsQueues, Has
<1>3. \A q \in Queues : sq[q].running = Going - Held
  BY DEF Core, RunningExact
<1>4. Going \in {0, 1} /\ HeldBack(stack) \in {0, 1}
  BY DEF Going, HeldBack
<1> QED
  BY <1>1, <1>2, <1>3, <1>4

LEMMA HandlingTaken ==
  ASSUME Alone(handling_idle_', stack'), state_' # "NOT_STARTED",
         \A q \in Queues : sq'[q].running = Going' - HeldBack(stack')
  PROVE  HandlingSound'
<1>1. HandlerAlone'
  BY DEF HandlerAlone, Alone, HandlerIn, Handles, Has
<1>2. Held' = HeldBack(stack')
  BY DEF Held, HeldBack, StopperIn, StopsQueues, Has
<1>3. RunningExact'
  BY <1>2 DEF RunningExact
<1> QED
  BY <1>1, <1>3 DEF HandlingSound

LEMMA AloneKept ==
  ASSUME NEW t \in Threads, NEW gone, NEW come, Turns(t, gone, come),
         NEW h, Alone(h, stack), HandlerIn(come) <=> HandlerIn(gone)
  PROVE  Alone(h, stack')
<1>1. PICK R : /\ \A u \in Threads \ {t} : stack'[u] = stack[u]
               /\ On(stack[t]) = gone \cup R /\ On(stack'[t]) = come \cup R
  BY DEF Turns
<1>2. HandlerIn(On(stack'[t])) <=> HandlerIn(On(stack[t]))
  BY <1>1 DEF HandlerIn
<1>3. \A u \in Threads : HandlerIn(On(stack'[u])) <=> HandlerIn(On(stack[u]))
  BY <1>1, <1>2
<1> QED
  BY <1>3 DEF Alone

LEMMA HeldBackKept ==
  ASSUME NEW t \in Threads, NEW gone, NEW come, Turns(t, gone, come),
         StopperIn(come) <=> StopperIn(gone)
  PROVE  HeldBack(stack') = HeldBack(stack)
<1>1. PICK R : /\ \A u \in Threads \ {t} : stack'[u] = stack[u]
               /\ On(stack[t]) = gone \cup R /\ On(stack'[t]) = come \cup R
  BY DEF Turns
<1>2. StopperIn(On(stack'[t])) <=> StopperIn(On(stack[t]))
  BY <1>1 DEF StopperIn
<1>3. \A u \in Threads : StopperIn(On(stack'[u])) <=> StopperIn(On(stack[u]))
  BY <1>1, <1>2
<1> QED
  BY <1>3 DEF HeldBack

\* A step that leaves the handler and the queues as they are.
LEMMA HandlingKept ==
  ASSUME Core, NEW t \in Threads, NEW gone, NEW come, Turns(t, gone, come),
         HandlerIn(come) <=> HandlerIn(gone), StopperIn(come) <=> StopperIn(gone),
         handling_idle_' = handling_idle_, state_' = state_, state_ # "NOT_STARTED",
         \A q \in Queues : sq'[q].running = sq[q].running
  PROVE  HandlingSound'
<1>1. Alone(handling_idle_', stack')
  BY HandlingNow, AloneKept
<1>2. HeldBack(stack') = HeldBack(stack)
  BY HeldBackKept
<1>3. Going' = Going
  BY DEF Going
<1> QED
  BY <1>1, <1>2, <1>3, HandlingNow, HandlingTaken

LEMMA HandlingEntered ==
  ASSUME Core, NEW t \in Threads, NEW gone, NEW come, Enters(t, gone, come),
         ~HandlerIn(gone), ~HandlerIn(come)
  PROVE  Alone(handling_idle_', stack') /\ HeldBack(stack') = HeldBack(stack)
<1>1. /\ Frame("handleIdle").at = "handleIdle"
      /\ ~StopperIn(gone) /\ ~StopperIn(come)
  BY DEF Frame, HandlerIn, StopperIn, HandlerLabels, LayerLabels
<1>2. Alone(handling_idle_, stack) /\ handling_idle_ \in Nat
  BY HandlingNow DEF Alone
<1>3. CASE handling_idle_ = 0
  <2>1. PICK new : new = come \cup {Frame("handleIdle")}
    OBVIOUS
  <2>2. handling_idle_' = 1 /\ Turns(t, gone, new)
    BY <1>3, <2>1 DEF Enters
  <2>3. HandlerIn(new) /\ ~StopperIn(new)
    BY <1>1, <2>1 DEF HandlerIn, StopperIn, HandlerLabels, Turn
  <2>4. PICK R : /\ \A u \in Threads \ {t} : stack'[u] = stack[u]
                 /\ On(stack'[t]) = new \cup R
    BY <2>2 DEF Turns
  <2>5. /\ HandlerIn(On(stack'[t]))
        /\ \A u \in Threads \ {t} : ~HandlerIn(On(stack'[u]))
    <3>1. HandlerIn(On(stack'[t]))
      BY <2>3, <2>4 DEF HandlerIn
    <3>2. \A u \in Threads \ {t} : ~HandlerIn(On(stack'[u]))
      BY <1>2, <1>3, <2>4 DEF Alone
    <3> QED
      BY <3>1, <3>2
  <2>6. Alone(1, stack')
    BY <2>5 DEF Alone
  <2> QED
    BY <1>1, <2>2, <2>3, <2>6, HeldBackKept
<1>4. CASE handling_idle_ # 0
  <2>1. handling_idle_' = handling_idle_ + 1 /\ Turns(t, gone, come)
    BY <1>4 DEF Enters
  <2>2. Alone(handling_idle_, stack')
    BY <1>2, <2>1, AloneKept
  <2>3. Alone(handling_idle_ + 1, stack')
    BY <2>2, <1>2, <1>4 DEF Alone
  <2> QED
    BY <1>1, <2>1, <2>3, HeldBackKept
<1> QED
  BY <1>3, <1>4

LEMMA HandlingLeft ==
  ASSUME Core, NEW t \in Threads, At(t, "handleIdle") \/ At(t, "endOfTurn"),
         NEW gone, gone = {Top(t)}, NEW come, come = {}, Turns(t, gone, come)
  PROVE  Alone(0, stack') /\ HeldBack(stack') = HeldBack(stack)
<1>1. PICK R : /\ \A u \in Threads \ {t} : stack'[u] = stack[u]
               /\ On(stack[t]) = gone \cup R /\ On(stack'[t]) = R
               /\ \A f \in gone : Fits(t, f, R)
  BY DEF Turns
<1>2. Top(t).at \in Turn
  BY DEF At, Turn
<1>3. ~HandlerIn(R)
  BY <1>1, <1>2 DEF Fits, HandlerIn
<1>4. HandlerIn(On(stack[t]))
  BY <1>1, <1>2 DEF HandlerIn, HandlerLabels
<1>5. \A u \in Threads : ~HandlerIn(On(stack'[u]))
  BY <1>1, <1>3, <1>4, HandlingNow DEF Alone
<1>6. Alone(0, stack')
  BY <1>5 DEF Alone
<1>7. ~StopperIn(gone) /\ ~StopperIn(come)
  BY <1>2 DEF StopperIn, Turn
<1> QED
  BY <1>6, <1>7, HeldBackKept

LEMMA Begun ==
  ASSUME Core, NEW t \in Threads, stack[t] # <<>> \/ \E q \in Queues : executor[q] > 0
  PROVE  state_ # "NOT_STARTED"
BY DEF Core, HandlerAlone

CallLabels == NodeLabels \cup AddLabels
              \cup {"submit", "callTrue", "addedPacket", "closedAll", "stopSources"}

LEMMA NoHandlerCalls ==
  ASSUME NEW F, \A f \in F : f.at \in CallLabels
  PROVE  ~HandlerIn(F) /\ ~StopperIn(F)
BY DEF HandlerIn, StopperIn, CallLabels, NodeLabels, AddLabels, TaskLabels, HandlerLabels,
       Turn, LayerLabels

\* What a thread calls outside HandleIdle.
LEMMA CallsHandling ==
  ASSUME Core, NEW t \in Threads, NEW gone, NEW come, Turns(t, gone, come),
         \A f \in gone \cup come : f.at \in CallLabels,
         handling_idle_' = handling_idle_, state_' = state_, state_ # "NOT_STARTED",
         \A q \in Queues : sq'[q].running = sq[q].running
  PROVE  HandlingSound'
<1>1. ~HandlerIn(gone) /\ ~StopperIn(gone) /\ ~HandlerIn(come) /\ ~StopperIn(come)
  BY NoHandlerCalls
<1> QED
  BY <1>1, HandlingKept

LEMMA AddsHandling ==
  ASSUME Core, NEW t \in Threads,
         TryAddNode(t) \/ PushItem(t) \/ AddTasks(t) \/ SubmitWaitingTasks(t)
  PROVE  HandlingSound'
<1>1. PICK gone : gone = {Top(t)}
  OBVIOUS
<1>2. Top(t).at \in CallLabels /\ stack[t] # <<>>
  BY DEF TryAddNode, PushItem, AddTasks, SubmitWaitingTasks, At, CallLabels, AddLabels, TaskLabels
<1>3. UNCHANGED <<state_, handling_idle_>>
  BY DEF TryAddNode, PushItem, AddTasks, SubmitWaitingTasks, schedulerVars
<1>4. PICK come : Turns(t, gone, come) /\ \A f \in come : f.at \in CallLabels
  <2>1. CASE TryAddNode(t)
    <3>1. PICK i \in Top(t).todo :
            \/ Turns(t, {Top(t)}, {PushFrame(Top(t).todo \ {i}, i)})
            \/ Turns(t, {Top(t)}, AddSet(Top(t).todo \ {i}))
      BY <2>1, TryAddNodeTurns
    <3>2. /\ PushFrame(Top(t).todo \ {i}, i).at \in CallLabels
          /\ \A f \in AddSet(Top(t).todo \ {i}) : f.at \in CallLabels
      BY DEF PushFrame, AddSet, AddFrame, CallLabels, AddLabels
    <3> QED
      BY <3>1, <3>2, <1>1
  <2>2. CASE PushItem(t)
    <3>1. PICK f : /\ f.at = IF QueueIdle(QueueOf[Top(t).item.node]) THEN "callFalse" ELSE "addTask"
                   /\ Turns(t, {Top(t)}, {f})
      BY <2>2, PushItemTurns, Zenon
    <3>2. f.at \in CallLabels
      BY <3>1 DEF CallLabels, AddLabels, TaskLabels
    <3> QED
      BY <3>1, <3>2, <1>1
  <2>3. CASE AddTasks(t)
    <3>1. Turns(t, {Top(t)}, AddSet(Top(t).todo))
      BY <2>3, AddTasksTurns
    <3>2. \A f \in AddSet(Top(t).todo) : f.at \in CallLabels
      BY DEF AddSet, AddFrame, CallLabels, AddLabels
    <3> QED
      BY <3>1, <3>2, <1>1
  <2>4. CASE SubmitWaitingTasks(t)
    <3>1. PICK q \in Queues : Turns(t, {Top(t)}, SubmitSet(Top(t).qs \ {q}))
      BY <2>4, SubmitWaitingTasksTurns
    <3>2. \A f \in SubmitSet(Top(t).qs \ {q}) : f.at \in CallLabels
      BY DEF SubmitSet, SubmitFrame, CallLabels
    <3> QED
      BY <3>1, <3>2, <1>1
  <2> QED
    BY <2>1, <2>2, <2>3, <2>4
<1>5. \A q \in Queues : sq'[q].running = sq[q].running
  <2>1. CASE TryAddNode(t) \/ AddTasks(t)
    BY <2>1 DEF TryAddNode, AddTasks, queueVars
  <2>2. CASE PushItem(t)
    <3>1. PICK x : x = QueueOf[Top(t).item.node]
      OBVIOUS
    <3>2. sq'[x].running = sq[x].running /\ \A q \in Queues \ {x} : sq'[q] = sq[q]
      BY <2>2, <3>1, PushItemTurns
    <3> QED
      BY <3>2
  <2>3. CASE SubmitWaitingTasks(t)
    <3>1. PICK x \in Queues : IF sq[x].running > 0 THEN Submits(x) ELSE UNCHANGED queueVars
      BY <2>3, SubmitWaitingTasksTurns
    <3> QED
      BY <3>1 DEF Submits, queueVars
  <2> QED
    BY <2>1, <2>2, <2>3
<1>6. state_ # "NOT_STARTED"
  BY <1>2, Begun
<1> QED
  BY <1>1, <1>2, <1>3, <1>4, <1>5, <1>6, CallsHandling

LEMMA IdleCallsHandling ==
  ASSUME Core, NEW t \in Threads, CallIdleFalse(t) \/ CallIdleTrue(t)
  PROVE  HandlingSound'
<1>1. PICK gone : gone = {Top(t)}
  OBVIOUS
<1>2. PICK by, come : /\ Tells(t, by, gone, come)
                      /\ \A f \in gone \cup come : f.at \in CallLabels
  <2>1. CASE CallIdleFalse(t)
    <3>1. PICK f : f = AddTaskFrame(Top(t).todo, Top(t).q, Top(t).tasks)
      OBVIOUS
    <3>2. Top(t).at = "callFalse" /\ f.at = "addTask" /\ Tells(t, 1, {Top(t)}, {f})
      BY <2>1, <3>1, CallIdleFalseTurns
    <3>3. PICK come : come = {f}
      OBVIOUS
    <3>4. \A g \in gone \cup come : g.at \in CallLabels
      BY <1>1, <3>2, <3>3 DEF CallLabels, AddLabels, TaskLabels
    <3> QED
      BY <3>2, <3>3, <3>4, <1>1
  <2>2. CASE CallIdleTrue(t)
    <3>1. Top(t).at = "callTrue" /\ Tells(t, -1, {Top(t)}, {})
      BY <2>2, CallIdleTrueTurns
    <3>2. PICK come : come = {}
      OBVIOUS
    <3>3. \A g \in gone \cup come : g.at \in CallLabels
      BY <1>1, <3>1, <3>2 DEF CallLabels
    <3> QED
      BY <3>1, <3>2, <3>3, <1>1
  <2> QED
    BY <2>1, <2>2
<1>3. stack[t] # <<>> /\ UNCHANGED <<state_, sq>>
  BY DEF CallIdleFalse, CallIdleTrue, QueueIdleStateChanged, At, queueVars
<1>4. state_ # "NOT_STARTED"
  BY <1>3, Begun
<1>5. CASE non_idle_queue_count_' = 0
  <2>1. Enters(t, gone, come)
    BY <1>2, <1>5 DEF Tells
  <2>2. ~HandlerIn(gone) /\ ~HandlerIn(come)
    BY <1>2, NoHandlerCalls
  <2>3. Alone(handling_idle_', stack') /\ HeldBack(stack') = HeldBack(stack)
    BY <2>1, <2>2, HandlingEntered
  <2>4. Going' = Going
    BY <1>3 DEF Going
  <2> QED
    BY <1>3, <1>4, <2>3, <2>4, HandlingNow, HandlingTaken
<1>6. CASE non_idle_queue_count_' # 0
  <2>1. Turns(t, gone, come) /\ handling_idle_' = handling_idle_
    BY <1>2, <1>6 DEF Tells
  <2> QED
    BY <1>2, <1>3, <1>4, <2>1, CallsHandling
<1> QED
  BY <1>5, <1>6

LEMMA LeavesHandling ==
  ASSUME Core, NEW t \in Threads, HandleIdleNotIdle(t) \/ HandleIdleQuit(t)
  PROVE  HandlingSound'
<1>1. At(t, "handleIdle") /\ LeaveHandleIdle(t) /\ handling_idle_' = 0 /\ stack[t] # <<>>
  BY DEF HandleIdleNotIdle, HandleIdleQuit, InHandleIdle, LeaveHandleIdle, At
<1>2. PICK gone, come : gone = {Top(t)} /\ come = {}
  OBVIOUS
<1>3. Turns(t, gone, come)
  BY <1>1, <1>2, LeaveHandleIdleTurns
<1>4. Alone(0, stack') /\ HeldBack(stack') = HeldBack(stack)
  BY <1>1, <1>2, <1>3, HandlingLeft
<1>5. state_ # "NOT_STARTED"
  BY <1>1, Begun
<1>6. CASE HandleIdleNotIdle(t)
  <2>1. state_' = state_ /\ sq' = sq
    BY <1>6 DEF HandleIdleNotIdle, queueVars
  <2>2. Going' = Going
    BY <2>1 DEF Going
  <2> QED
    BY <1>1, <1>4, <1>5, <2>1, <2>2, HandlingNow, HandlingTaken
<1>7. CASE HandleIdleQuit(t)
  <2>1. state_ \in {"RUNNING", "CANCELLING"} /\ state_' = "TERMINATED" /\ SetQueuesRunning(-1)
    BY <1>7 DEF HandleIdleQuit, KeepsHandling
  <2>2. Going = 1 /\ Going' = 0
    BY <2>1 DEF Going
  <2>3. \A q \in Queues : sq'[q].running = sq[q].running + (-1)
    BY <2>1, StartsQueues DEF Core
  <2>4. \A q \in Queues : sq'[q].running = 0 - HeldBack(stack)
    BY <2>2, <2>3, HandlingNow
  <2> QED
    BY <1>1, <1>4, <2>1, <2>2, <2>4, HandlingTaken
<1> QED
  BY <1>6, <1>7

LEMMA EndOfTurnHandling ==
  ASSUME Core, NEW t \in Threads, HandleIdleEndOfTurn(t)
  PROVE  HandlingSound'
<1>1. /\ At(t, "handleIdle") \/ At(t, "endOfTurn")
      /\ stack[t] # <<>> /\ state_' = state_ /\ sq' = sq
  BY DEF HandleIdleEndOfTurn, InHandleIdle, At, queueVars
<1>2. Top(t).at \in Turn
  BY <1>1 DEF At, Turn
<1>3. state_ # "NOT_STARTED"
  BY <1>1, Begun
<1>4. PICK gone : gone = {Top(t)}
  OBVIOUS
<1>5. Going' = Going
  BY <1>1 DEF Going
<1>6. CASE CalledAgain
  <2>1. PICK come : come = {Frame("handleIdle")}
    OBVIOUS
  <2>2. handling_idle_' = 1 /\ Turns(t, gone, come)
    BY <1>4, <1>6, <2>1, EndOfTurnTurns
  <2>3. HandlerIn(gone) /\ HandlerIn(come) /\ ~StopperIn(gone) /\ ~StopperIn(come)
    BY <1>2, <1>4, <2>1 DEF HandlerIn, StopperIn, Turn, HandlerLabels, Frame
  <2>4. Alone(handling_idle_, stack') /\ HeldBack(stack') = HeldBack(stack)
    BY <2>2, <2>3, AloneKept, HeldBackKept, HandlingNow
  <2>5. Alone(1, stack')
    BY <2>4, <1>6 DEF Alone, CalledAgain
  <2> QED
    BY <1>1, <1>3, <1>5, <2>2, <2>4, <2>5, HandlingNow, HandlingTaken
<1>7. CASE ~CalledAgain
  <2>1. PICK come : come = {}
    OBVIOUS
  <2>2. handling_idle_' = 0 /\ Turns(t, gone, come)
    BY <1>4, <1>7, <2>1, EndOfTurnTurns
  <2>3. Alone(0, stack') /\ HeldBack(stack') = HeldBack(stack)
    BY <1>1, <1>4, <2>1, <2>2, HandlingLeft
  <2> QED
    BY <1>1, <1>3, <1>5, <2>2, <2>3, HandlingNow, HandlingTaken
<1> QED
  BY <1>6, <1>7

\* The queues are stopped while a layer is added, by the thread that adds it.
LEMMA StopQueuesHandling ==
  ASSUME Core, NEW t \in Threads, StopQueuesForLayer(t)
  PROVE  HandlingSound'
<1>1. PICK gone, come : gone = {Top(t)} /\ come = {ActivateFrame(1)}
  OBVIOUS
<1>2. /\ Top(t).at = "stopQueues" /\ stack[t] # <<>> /\ Turns(t, gone, come)
      /\ UNCHANGED <<handling_idle_, state_>> /\ SetQueuesRunning(-1)
  BY <1>1, StopQueuesTurns DEF StopQueuesForLayer, At, schedulerVars
<1>3. ActivateFrame(1).at = "activate"
  BY DEF ActivateFrame
<1>4. HandlerIn(gone) /\ HandlerIn(come)
  BY <1>1, <1>2, <1>3 DEF HandlerIn, HandlerLabels, LayerLabels
<1>5. Alone(handling_idle_', stack')
  BY <1>2, <1>4, AloneKept, HandlingNow
<1>6. PICK R : /\ \A u \in Threads \ {t} : stack'[u] = stack[u]
               /\ On(stack[t]) = gone \cup R /\ On(stack'[t]) = come \cup R
               /\ \A f \in gone : Fits(t, f, R)
  BY <1>2 DEF Turns
<1>7. HeldBack(stack) = 0
  <2>1. ~StopperIn(On(stack[t]))
    BY <1>1, <1>2, <1>6 DEF StopperIn, Fits, LayerLabels
  <2>2. HandlerIn(On(stack[t]))
    BY <1>4, <1>6 DEF HandlerIn
  <2>3. ASSUME NEW u \in Threads, StopperIn(On(stack[u])) PROVE FALSE
    <3>1. HandlerIn(On(stack[u]))
      BY <2>3 DEF StopperIn, HandlerIn, HandlerLabels, LayerLabels
    <3>2. u = t
      BY <3>1, <2>2, HandlingNow DEF Alone
    <3> QED
      BY <3>2, <2>1, <2>3
  <2> QED
    BY <2>3 DEF HeldBack
<1>8. HeldBack(stack') = 1
  <2>1. StopperIn(On(stack'[t]))
    BY <1>1, <1>3, <1>6 DEF StopperIn
  <2> QED
    BY <2>1 DEF HeldBack
<1>9. state_ # "NOT_STARTED" /\ Going' = Going
  BY <1>2, Begun DEF Going
<1>10. \A q \in Queues : sq'[q].running = sq[q].running + (-1)
  BY <1>2, StartsQueues DEF Core
<1>11. \A q \in Queues : sq'[q].running = Going - 1
  BY <1>7, <1>10, HandlingNow
<1> QED
  BY <1>2, <1>5, <1>8, <1>9, <1>11, HandlingTaken

LEMMA StartQueuesHandling ==
  ASSUME Core, NEW t \in Threads, StartQueuesForLayer(t)
  PROVE  HandlingSound'
<1>1. PICK gone, come : gone = {Top(t)} /\ come = SubmitSet(Queues)
  OBVIOUS
<1>2. /\ Top(t).at = "startQueues" /\ stack[t] # <<>> /\ Turns(t, gone, come)
      /\ UNCHANGED <<handling_idle_, state_>> /\ SetQueuesRunning(1)
  BY <1>1, StartQueuesTurns DEF StartQueuesForLayer, At, schedulerVars
<1>3. \A f \in come : f.at = "submit"
  BY <1>1 DEF SubmitSet, SubmitFrame
<1>4. PICK R : /\ \A u \in Threads \ {t} : stack'[u] = stack[u]
               /\ On(stack[t]) = gone \cup R /\ On(stack'[t]) = come \cup R
               /\ \A f \in gone : Fits(t, f, R)
  BY <1>2 DEF Turns
<1>5. (\E g \in R : g.at = "lock") /\ \A g \in R : g.at \notin LayerLabels
  BY <1>1, <1>2, <1>4 DEF Fits, LayerLabels
<1>6. HandlerIn(On(stack[t])) /\ HandlerIn(On(stack'[t]))
  BY <1>4, <1>5 DEF HandlerIn, HandlerLabels
<1>7. Alone(handling_idle_', stack')
  <2>1. \A u \in Threads : HandlerIn(On(stack'[u])) <=> HandlerIn(On(stack[u]))
    BY <1>4, <1>6
  <2> QED
    BY <2>1, <1>2, HandlingNow DEF Alone
<1>8. HeldBack(stack) = 1
  <2>1. StopperIn(On(stack[t]))
    BY <1>1, <1>2, <1>4 DEF StopperIn
  <2> QED
    BY <2>1 DEF HeldBack
<1>9. HeldBack(stack') = 0
  <2>1. ~StopperIn(On(stack'[t]))
    BY <1>3, <1>4, <1>5 DEF StopperIn, LayerLabels
  <2>2. ASSUME NEW u \in Threads, StopperIn(On(stack'[u])) PROVE FALSE
    <3>1. u # t
      BY <2>1, <2>2
    <3>2. HandlerIn(On(stack[u]))
      BY <3>1, <1>4, <2>2 DEF StopperIn, HandlerIn, HandlerLabels, LayerLabels
    <3> QED
      BY <3>1, <3>2, <1>6, HandlingNow DEF Alone
  <2> QED
    BY <2>2 DEF HeldBack
<1>10. state_ # "NOT_STARTED" /\ Going' = Going
  BY <1>2, Begun DEF Going
<1>11. \A q \in Queues : sq'[q].running = sq[q].running + 1
  BY <1>2, StartsQueues DEF Core
<1>12. \A q \in Queues : sq'[q].running = Going - 0
  BY <1>8, <1>11, HandlingNow
<1> QED
  BY <1>2, <1>7, <1>9, <1>10, <1>12, HandlingTaken

LEMMA LockHandling ==
  ASSUME Core, NEW t \in Threads, LockStateMutex(t)
  PROVE  HandlingSound'
<1>1. PICK gone, come : gone = {Top(t)} /\ come = {}
  OBVIOUS
<1>2. /\ Top(t).at = "lock" /\ stack[t] # <<>> /\ Turns(t, gone, come)
      /\ UNCHANGED <<handling_idle_, state_, sq>>
  BY <1>1, LockTurns DEF LockStateMutex, At, queueVars
<1>3. PICK R : /\ \A u \in Threads \ {t} : stack'[u] = stack[u]
               /\ On(stack[t]) = gone \cup R /\ On(stack'[t]) = come \cup R
               /\ \A f \in gone : Fits(t, f, R)
  BY <1>2 DEF Turns
<1>4. \E g \in R : g.at \in Turn
  BY <1>1, <1>2, <1>3 DEF Fits
<1>5. HandlerIn(On(stack[t])) /\ HandlerIn(On(stack'[t]))
  BY <1>3, <1>4 DEF HandlerIn, HandlerLabels
<1>6. Alone(handling_idle_', stack')
  <2>1. \A u \in Threads : HandlerIn(On(stack'[u])) <=> HandlerIn(On(stack[u]))
    BY <1>3, <1>5
  <2> QED
    BY <2>1, <1>2, HandlingNow DEF Alone
<1>7. ~StopperIn(gone) /\ ~StopperIn(come)
  BY <1>1, <1>2 DEF StopperIn
<1>8. HeldBack(stack') = HeldBack(stack)
  BY <1>2, <1>7, HeldBackKept
<1>9. state_ # "NOT_STARTED" /\ Going' = Going
  BY <1>2, Begun DEF Going
<1> QED
  BY <1>2, <1>6, <1>8, <1>9, HandlingNow, HandlingTaken

LEMMA TurnHandling ==
  ASSUME Core, NEW t \in Threads,
         \/ HandleIdleNextLayer(t) \/ ActivateNode(t)
         \/ HandleIdleUnthrottle(t) \/ UnthrottleSources(t)
  PROVE  HandlingSound'
<1>1. PICK gone : gone = {Top(t)}
  OBVIOUS
<1>2. stack[t] # <<>> /\ UNCHANGED <<handling_idle_, state_, sq>>
  BY DEF HandleIdleNextLayer, ActivateNode, HandleIdleUnthrottle, UnthrottleSources,
         InHandleIdle, At, schedulerVars, queueVars
<1>3. PICK come : /\ Turns(t, gone, come) /\ HandlerIn(come) /\ HandlerIn(gone)
                  /\ StopperIn(come) <=> StopperIn(gone)
  <2>1. CASE HandleIdleNextLayer(t)
    <3>1. PICK come : come = {Frame("stopQueues"), Frame("lock"), Top(t)}
      OBVIOUS
    <3>2. Top(t).at = "handleIdle" /\ Turns(t, gone, come)
      BY <1>1, <2>1, <3>1, NextLayerTurns
    <3>3. HandlerIn(come) /\ HandlerIn(gone) /\ ~StopperIn(come) /\ ~StopperIn(gone)
      BY <1>1, <3>1, <3>2 DEF HandlerIn, StopperIn, HandlerLabels, Turn, Frame
    <3> QED
      BY <3>2, <3>3
  <2>2. CASE ActivateNode(t)
    <3>1. PICK n : n = active_sources_[Top(t).i]
      OBVIOUS
    <3>2. PICK next : next = IF Top(t).i = Len(active_sources_) THEN Frame("startQueues")
                                                                ELSE ActivateFrame(Top(t).i + 1)
      OBVIOUS
    <3>3. PICK come : come = {AddFrame(Items("run", {n})), next}
      OBVIOUS
    <3>4. Top(t).at = "activate" /\ Turns(t, gone, come)
      BY <1>1, <2>2, <3>1, <3>2, <3>3, ActivateNodeTurns
    <3>5. next.at \in {"activate", "startQueues"}
      BY <3>2 DEF Frame, ActivateFrame
    <3>6. HandlerIn(come) /\ HandlerIn(gone) /\ StopperIn(come) /\ StopperIn(gone)
      BY <1>1, <3>3, <3>4, <3>5 DEF HandlerIn, StopperIn, HandlerLabels, LayerLabels
    <3> QED
      BY <3>4, <3>6
  <2>3. CASE HandleIdleUnthrottle(t)
    <3>1. PICK come : come = {Frame("unthrottle")}
      OBVIOUS
    <3>2. Top(t).at = "handleIdle" /\ Turns(t, gone, come)
      BY <1>1, <2>3, <3>1, UnthrottleTurns
    <3>3. HandlerIn(come) /\ HandlerIn(gone) /\ ~StopperIn(come) /\ ~StopperIn(gone)
      BY <1>1, <3>1, <3>2 DEF HandlerIn, StopperIn, HandlerLabels, Turn, Frame
    <3> QED
      BY <3>2, <3>3
  <2>4. CASE UnthrottleSources(t)
    <3>1. PICK A, f : /\ A = AddSet(LetGo(throttled))
                      /\ f = Frame(IF throttled # {} THEN "handleIdle" ELSE "endOfTurn")
      OBVIOUS
    <3>2. PICK come : come = A \cup {Frame("lock"), f}
      OBVIOUS
    <3>3. Top(t).at = "unthrottle" /\ Turns(t, gone, come)
      BY <1>1, <2>4, <3>1, <3>2, UnthrottleSourcesTurns
    <3>4. (\A g \in A : g.at = "add") /\ f.at \in Turn /\ Frame("lock").at = "lock"
      BY <3>1 DEF AddSet, AddFrame, Frame, Turn
    <3>5. HandlerIn(come) /\ HandlerIn(gone) /\ ~StopperIn(come) /\ ~StopperIn(gone)
      BY <1>1, <3>2, <3>3, <3>4 DEF HandlerIn, StopperIn, HandlerLabels, Turn
    <3> QED
      BY <3>3, <3>5
  <2> QED
    BY <2>1, <2>2, <2>3, <2>4
<1>4. state_ # "NOT_STARTED"
  BY <1>2, Begun
<1> QED
  BY <1>2, <1>3, <1>4, HandlingKept

LEMMA HandleIdleHandling ==
  ASSUME Core, NEW t \in Threads, HandleIdle(t)
  PROVE  HandlingSound'
<1>1. CASE HandleIdleBlocked(t)
  <2>1. stack[t] # <<>> /\ UNCHANGED <<handling_idle_, state_, sq, stack>>
    BY <1>1 DEF HandleIdleBlocked, InHandleIdle, At, queueVars
  <2>2. state_ # "NOT_STARTED" /\ Going' = Going
    BY <2>1, Begun DEF Going
  <2> QED
    BY <2>1, <2>2, HandlingNow, HandlingTaken
<1> QED
  BY <1>1, LeavesHandling, EndOfTurnHandling, StopQueuesHandling, StartQueuesHandling,
     LockHandling, TurnHandling DEF HandleIdle

LEMMA CallsMade ==
  /\ \A items : \A f \in AddSet(items) : f.at \in CallLabels
  /\ \A l \in NodeLabels : \A n : NodeFrame(l, n).at \in CallLabels
  /\ Frame("callTrue").at \in CallLabels
BY DEF AddSet, AddFrame, NodeFrame, Frame, CallLabels, AddLabels

LEMMA TaskHandling ==
  ASSUME Core, NEW w \in Workers, Task(w)
  PROVE  HandlingSound'
<1>1. PICK gone, come :
        /\ w \in Threads /\ Turns(w, gone, come)
        /\ \A f \in gone \cup come : f.at \in CallLabels
  <2> USE CallsMade DEF NodeLabels
  <2>1. CASE \E q \in Queues : TakeTask(w, q)
    <3>1. PICK q \in Queues : TakeTask(w, q)
      BY <2>1
    <3>2. PICK i : /\ w \in Threads /\ i.kind \in {"open", "run"}
                   /\ Turns(w, {}, {NodeFrame(i.kind, i.node)})
      BY <3>1, TakeTaskTurns
    <3>3. NodeFrame(i.kind, i.node).at \in CallLabels
      BY <3>2
    <3> QED
      BY <3>2, <3>3
  <2>2. PICK g : g = Top(w)
    OBVIOUS
  <2>3. At(w, "open") \/ At(w, "opened") \/ At(w, "toSourcesQueue") \/ At(w, "run")
        \/ At(w, "close") \/ At(w, "end") \/ At(w, "finish") => g.at \in CallLabels
    BY <2>2 DEF At, CallLabels
  <2>4. CASE OpenNode(w)
    <3>1. PICK A, h : A = AddSet(Items("open", OpenedBy(g.node))) /\ h = NodeFrame("opened", g.node)
      OBVIOUS
    <3>2. w \in Threads /\ (Turns(w, {g}, A \cup {h}) \/ Turns(w, {g}, {h}))
      BY <2>2, <2>4, <3>1, OpenNodeTurns
    <3>3. g.at \in CallLabels /\ h.at \in CallLabels /\ \A f \in A : f.at \in CallLabels
      BY <2>3, <2>4, <3>1 DEF OpenNode
    <3>4. PICK come : Turns(w, {g}, come) /\ come \subseteq A \cup {h} /\ w \in Threads
      BY <3>2
    <3> QED
      BY <3>3, <3>4
  <2>5. CASE NodeOpened(w)
    <3>1. PICK A, h, k : /\ A = AddSet(Items("run", {g.node})) /\ h = NodeFrame("finish", g.node)
                         /\ k = NodeFrame("toSourcesQueue", g.node)
      OBVIOUS
    <3>2. w \in Threads /\ (Turns(w, {g}, A \cup {h}) \/ Turns(w, {g}, {k}))
      BY <2>2, <2>5, <3>1, NodeOpenedTurns
    <3>3. /\ g.at \in CallLabels /\ h.at \in CallLabels /\ k.at \in CallLabels
          /\ \A f \in A : f.at \in CallLabels
      BY <2>3, <2>5, <3>1 DEF NodeOpened
    <3>4. PICK come : Turns(w, {g}, come) /\ come \subseteq A \cup {h, k} /\ w \in Threads
      BY <3>2
    <3> QED
      BY <3>3, <3>4
  <2>6. CASE EndScheduling(w)
    <3>1. PICK A, h : A = AddSet(Items("run", {g.node})) /\ h = NodeFrame("finish", g.node)
      OBVIOUS
    <3>2. w \in Threads /\ (Turns(w, {g}, A \cup {h}) \/ Turns(w, {g}, {h}))
      BY <2>2, <2>6, <3>1, EndSchedulingTurns
    <3>3. g.at \in CallLabels /\ h.at \in CallLabels /\ \A f \in A : f.at \in CallLabels
      BY <2>3, <2>6, <3>1 DEF EndScheduling
    <3>4. PICK come : Turns(w, {g}, come) /\ come \subseteq A \cup {h} /\ w \in Threads
      BY <3>2
    <3> QED
      BY <3>3, <3>4
  <2>7. CASE AddNodeToSourcesQueue(w)
    <3>1. PICK h : h = NodeFrame("finish", g.node)
      OBVIOUS
    <3>2. w \in Threads /\ Turns(w, {g}, {h})
      BY <2>2, <2>7, <3>1, ToSourcesQueueTurns
    <3>3. g.at \in CallLabels /\ h.at \in CallLabels
      BY <2>3, <2>7, <3>1 DEF AddNodeToSourcesQueue
    <3> QED
      BY <3>2, <3>3
  <2>8. CASE MarkClosed(w)
    <3>1. PICK h : h = NodeFrame("end", g.node)
      OBVIOUS
    <3>2. w \in Threads /\ Turns(w, {g}, {h})
      BY <2>2, <2>8, <3>1, MarkClosedTurns
    <3>3. g.at \in CallLabels /\ h.at \in CallLabels
      BY <2>3, <2>8, <3>1 DEF MarkClosed
    <3> QED
      BY <3>2, <3>3
  <2>9. CASE FinishTask(w)
    <3>1. w \in Threads /\ (Turns(w, {g}, {Frame("callTrue")}) \/ Turns(w, {g}, {}))
      BY <2>2, <2>9, FinishTaskTurns
    <3>2. g.at \in CallLabels
      BY <2>3, <2>9 DEF FinishTask
    <3>3. PICK come : Turns(w, {g}, come) /\ come \subseteq {Frame("callTrue")} /\ w \in Threads
      BY <3>1
    <3> QED
      BY <3>2, <3>3
  <2>10. CASE \E n \in Nodes : NodeProcesses(w, n)
    <3>1. PICK n \in Nodes : NodeProcesses(w, n)
      BY <2>10
    <3>2. PICK items \in SUBSET Item :
            w \in Threads /\ Turns(w, {Top(w)}, AddSet(items) \cup {NodeFrame("end", n)})
      BY <3>1, NodeProcessesTurns
    <3>3. PICK A, h : A = AddSet(items) /\ h = NodeFrame("end", n)
      OBVIOUS
    <3>4. g.at \in CallLabels /\ h.at \in CallLabels /\ \A f \in A : f.at \in CallLabels
      BY <2>3, <3>1, <3>3 DEF NodeProcesses, Running
    <3>5. Turns(w, {g}, A \cup {h}) /\ w \in Threads
      BY <2>2, <3>2, <3>3
    <3> QED
      BY <3>4, <3>5
  <2>11. CASE \E n \in Nodes : SourceEmits(w, n) \/ SourceCloses(w, n)
    <3>1. PICK n \in Nodes : SourceEmits(w, n) \/ SourceCloses(w, n)
      BY <2>11
    <3>2. PICK k \in {"end", "close"} :
            w \in Threads
            /\ Turns(w, {Top(w)}, AddSet(Items("run", Downstream[n])) \cup {NodeFrame(k, n)})
      BY <3>1, SourceRunsTurns
    <3>3. PICK A, h : A = AddSet(Items("run", Downstream[n])) /\ h = NodeFrame(k, n)
      OBVIOUS
    <3>4. g.at \in CallLabels /\ h.at \in CallLabels /\ \A f \in A : f.at \in CallLabels
      BY <2>3, <3>1, <3>3 DEF SourceEmits, SourceCloses, Running
    <3>5. Turns(w, {g}, A \cup {h}) /\ w \in Threads
      BY <2>2, <3>2, <3>3
    <3> QED
      BY <3>4, <3>5
  <2>12. CASE \E n \in Nodes : ProcessFails(w, n) \/ ProcessStops(w, n)
    <3>1. PICK n \in Nodes : ProcessFails(w, n) \/ ProcessStops(w, n)
      BY <2>12
    <3>2. PICK h : h = NodeFrame("end", n)
      OBVIOUS
    <3>3. w \in Threads /\ Turns(w, {g}, {h})
      BY <2>2, <3>1, <3>2, FailsOrStopsTurns
    <3>4. g.at \in CallLabels /\ h.at \in CallLabels
      BY <2>3, <3>1, <3>2 DEF ProcessFails, ProcessStops, Running
    <3> QED
      BY <3>3, <3>4
  <2>13. CASE \E n \in Nodes : OpenFails(w, n)
    <3>1. PICK n \in Nodes : OpenFails(w, n)
      BY <2>13
    <3>2. PICK h : h = NodeFrame("finish", n)
      OBVIOUS
    <3>3. w \in Threads /\ Turns(w, {g}, {h})
      BY <2>2, <3>1, <3>2, OpenFailsTurns
    <3>4. g.at \in CallLabels /\ h.at \in CallLabels
      BY <2>3, <3>1, <3>2 DEF OpenFails
    <3> QED
      BY <3>3, <3>4
  <2>14. CASE \E n \in Nodes : CloseFails(w, n)
    <3>1. PICK n \in Nodes : CloseFails(w, n)
      BY <2>14
    <3>2. w \in Threads /\ Turns(w, {}, {})
      BY <3>1, CloseFailsTurns
    <3> QED
      BY <3>2
  <2> QED
    BY <2>1, <2>4, <2>5, <2>6, <2>7, <2>8, <2>9, <2>10, <2>11, <2>12, <2>13, <2>14 DEF Task
<1>2. UNCHANGED <<handling_idle_, state_>>
  BY DEF Task, TakeTask, OpenNode, NodeOpened, AddNodeToSourcesQueue, SourceEmits, SourceCloses,
         NodeProcesses, ProcessFails, ProcessStops, OpenFails, CloseFails, MarkClosed,
         EndScheduling, FinishTask, schedulerVars
<1>3. state_ # "NOT_STARTED"
  <2>1. stack[w] # <<>> \/ \E q \in Queues : executor[q] > 0
    BY DEF Task, TakeTask, OpenNode, NodeOpened, AddNodeToSourcesQueue, SourceEmits, SourceCloses,
           NodeProcesses, ProcessFails, ProcessStops, OpenFails, CloseFails, MarkClosed,
           EndScheduling, FinishTask, Running, At
  <2> QED
    BY <1>1, <2>1, Begun
<1>4. \A q \in Queues : sq'[q].running = sq[q].running
  <2>1. CASE \E q \in Queues : TakeTask(w, q)
    <3>1. PICK x \in Queues : TakeTask(w, x)
      BY <2>1
    <3>2. (\A y \in Queues \ {x} : sq'[y] = sq[y]) /\ sq'[x].running = sq[x].running
      BY <3>1, TakeTaskTurns
    <3> QED
      BY <3>2
  <2>2. CASE FinishTask(w)
    <3>1. PICK x : x = QueueOf[Top(w).node]
      OBVIOUS
    <3>2. (\A y \in Queues \ {x} : sq'[y] = sq[y]) /\ sq'[x].running = sq[x].running
      BY <2>2, <3>1, FinishTaskTurns
    <3> QED
      BY <3>2
  <2>3. CASE ~FinishTask(w) /\ ~\E q \in Queues : TakeTask(w, q)
    BY <2>3 DEF Task, OpenNode, NodeOpened, AddNodeToSourcesQueue, SourceEmits, SourceCloses,
           NodeProcesses, ProcessFails, ProcessStops, OpenFails, CloseFails, MarkClosed,
           EndScheduling, queueVars
  <2> QED
    BY <2>1, <2>2, <2>3
<1> QED
  BY <1>1, <1>2, <1>3, <1>4, CallsHandling

\* The calls that start, stop and start again the queues.
LEMMA StartsHandling ==
  ASSUME Core, NEW a \in AppThreads, Start(a) \/ Resume(a) \/ Cancel(a)
  PROVE  HandlingSound'
<1>1. PICK gone, come : gone = {} /\ come = {SubmitFrame(Queues)}
  OBVIOUS
<1>2. a \in Threads /\ Enters(a, gone, come)
  BY <1>1, StartTurns
<1>3. ~HandlerIn(gone) /\ ~HandlerIn(come)
  <2>1. SubmitFrame(Queues).at = "submit"
    BY DEF SubmitFrame
  <2> QED
    BY <1>1, <2>1 DEF HandlerIn, HandlerLabels, Turn, LayerLabels
<1>4. Alone(handling_idle_', stack') /\ HeldBack(stack') = HeldBack(stack)
  BY <1>2, <1>3, HandlingEntered
<1>5. /\ state_' \in {"RUNNING", "CANCELLING"}
      /\ \/ state_ \in {"NOT_STARTED", "PAUSED"} /\ SetQueuesRunning(1)
         \/ state_ = "RUNNING" /\ sq' = sq
  BY DEF Start, Resume, Cancel
<1>6. Going' = 1
  BY <1>5 DEF Going
<1>7. \A q \in Queues : sq'[q].running = 1 - HeldBack(stack)
  <2>1. CASE state_ \in {"NOT_STARTED", "PAUSED"} /\ SetQueuesRunning(1)
    <3>1. Going = 0
      BY <2>1 DEF Going
    <3>2. \A q \in Queues : sq'[q].running = sq[q].running + 1
      BY <2>1, StartsQueues DEF Core
    <3> QED
      BY <3>1, <3>2, HandlingNow
  <2>2. CASE state_ = "RUNNING" /\ sq' = sq
    <3>1. Going = 1
      BY <2>2 DEF Going
    <3> QED
      BY <3>1, <2>2, HandlingNow
  <2> QED
    BY <1>5, <2>1, <2>2
<1> QED
  BY <1>4, <1>5, <1>6, <1>7, HandlingTaken

LEMMA PauseHandling ==
  ASSUME Core, NEW a \in AppThreads, Pause(a)
  PROVE  HandlingSound'
<1>1. /\ state_ = "RUNNING" /\ state_' = "PAUSED" /\ SetQueuesRunning(-1)
      /\ UNCHANGED <<handling_idle_, stack>>
  BY DEF Pause
<1>2. Going = 1 /\ Going' = 0
  BY <1>1 DEF Going
<1>3. \A q \in Queues : sq'[q].running = sq[q].running + (-1)
  BY <1>1, StartsQueues DEF Core
<1>4. \A q \in Queues : sq'[q].running = 0 - HeldBack(stack)
  BY <1>2, <1>3, HandlingNow
<1> QED
  BY <1>1, <1>2, <1>4, HandlingNow, HandlingTaken

LEMMA AppCallsHandling ==
  ASSUME Core, NEW a \in AppThreads,
         \/ \E n \in InputNodes : AddPacket(a, n)
         \/ \E kind \in {"closeAllInputs", "closeAllPacketSources"} : CloseAllInputs(a, kind)
  PROVE  HandlingSound'
<1>1. PICK gone : gone = {}
  OBVIOUS
<1>2. PICK come : a \in Threads /\ Turns(a, gone, come) /\ \A f \in come : f.at \in CallLabels
  <2>1. CASE \E n \in InputNodes : AddPacket(a, n)
    <3>1. PICK n \in InputNodes : AddPacket(a, n)
      BY <2>1
    <3>2. PICK A, h : A = AddSet(Items("run", {n})) /\ h = Frame("addedPacket")
      OBVIOUS
    <3>3. a \in Threads /\ Turns(a, gone, A \cup {h})
      BY <1>1, <3>1, <3>2, AddPacketTurns
    <3>4. (\A f \in A : f.at \in CallLabels) /\ h.at \in CallLabels
      BY <3>2, CallsMade DEF Frame, CallLabels
    <3>5. \A f \in A \cup {h} : f.at \in CallLabels
      BY <3>4
    <3> QED
      BY <3>3, <3>5
  <2>2. CASE \E kind \in {"closeAllInputs", "closeAllPacketSources"} : CloseAllInputs(a, kind)
    <3>1. PICK kind : CloseAllInputs(a, kind)
      BY <2>2
    <3>2. PICK A : A = AddSet(Items("run", InputNodes))
      OBVIOUS
    <3>3. PICK C : /\ C \subseteq {Frame("closedAll"), Frame("stopSources")}
                   /\ a \in Threads /\ Turns(a, gone, A \cup C)
      BY <1>1, <3>1, <3>2, CloseAllInputsTurns
    <3>4. (\A f \in A : f.at \in CallLabels) /\ \A f \in C : f.at \in CallLabels
      BY <3>2, <3>3, CallsMade DEF Frame, CallLabels
    <3>5. \A f \in A \cup C : f.at \in CallLabels
      BY <3>4
    <3> QED
      BY <3>3, <3>5
  <2> QED
    BY <2>1, <2>2
<1>3. UNCHANGED <<handling_idle_, state_, sq>> /\ state_ # "NOT_STARTED"
  BY DEF AddPacket, CloseAllInputs, AppCall, schedulerVars, queueVars
<1> QED
  BY <1>1, <1>2, <1>3, CallsHandling

LEMMA AppReturnHandling ==
  ASSUME Core, NEW a \in AppThreads, AppReturn(a)
  PROVE  HandlingSound'
<1>1. PICK gone, come : gone = {Top(a)} /\ come = {}
  OBVIOUS
<1>2. /\ a \in Threads /\ Top(a).at \in {"addedPacket", "closedAll", "stopSources"}
      /\ Enters(a, gone, come) \/ (Turns(a, gone, come) /\ handling_idle_' = handling_idle_)
  BY <1>1, AppReturnTurns
<1>3. /\ UNCHANGED <<state_, sq>> /\ stack[a] # <<>>
  BY DEF AppReturn, AddedPacketToGraphInputStream, ClosedAllGraphInputStreams,
         CloseAllSourceNodes, At, schedulerVars, queueVars
<1>4. state_ # "NOT_STARTED" /\ Going' = Going
  BY <1>2, <1>3, Begun DEF Going
<1>5. \A f \in gone \cup come : f.at \in CallLabels
  BY <1>1, <1>2 DEF CallLabels
<1>6. CASE Enters(a, gone, come)
  <2>1. ~HandlerIn(gone) /\ ~HandlerIn(come)
    BY <1>5, NoHandlerCalls
  <2>2. Alone(handling_idle_', stack') /\ HeldBack(stack') = HeldBack(stack)
    BY <1>2, <1>6, <2>1, HandlingEntered
  <2> QED
    BY <1>3, <1>4, <2>2, HandlingNow, HandlingTaken
<1>7. CASE Turns(a, gone, come) /\ handling_idle_' = handling_idle_
  BY <1>2, <1>3, <1>4, <1>5, <1>7, CallsHandling
<1> QED
  BY <1>2, <1>6, <1>7

LEMMA StepKeepsHandling ==
  ASSUME Core, Next
  PROVE  HandlingSound'
<1>1. CASE \E t \in Threads : Shared(t)
  BY <1>1, AddsHandling, IdleCallsHandling, HandleIdleHandling DEF Shared
<1>2. CASE \E a \in AppThreads : Start(a) \/ AppReturn(a) \/ App(a)
  BY <1>2, StartsHandling, PauseHandling, AppCallsHandling, AppReturnHandling DEF App
<1> QED
  BY <1>1, <1>2, TaskHandling DEF Next

-----------------------------------------------------------------------------
(* Types. *)

SchedulerTypes ==
  /\ state_ \in States /\ stateMutex \in Threads \cup {NoThread}
  /\ handling_idle_ \in Nat /\ non_idle_queue_count_ \in Int
  /\ active_sources_ \in Seq(Sources)
  /\ sources_queue_ \subseteq Sources /\ unopened_sources_ \subseteq Sources
  /\ {graph_input_streams_closed_, stopping, has_error} \subseteq BOOLEAN
QueueTypes == sq \in [Queues -> QueueState] /\ executor \in [Queues -> Nat]
NodeTypes ==
  /\ status \in [Nodes -> {"Prepared", "Opened", "Active", "Closed"}]
  /\ inFlight \in [Nodes -> 0 .. 1] /\ ready \in [Nodes -> Nat]
  /\ announced \subseteq Nodes /\ throttled \subseteq Sources

LEMMA TypeParts ==
  TypeOK <=> SchedulerTypes /\ QueueTypes /\ NodeTypes
BY DEF TypeOK, SchedulerTypes, QueueTypes, NodeTypes

LEMMA EntersTyped ==
  ASSUME SchedulerTypes, NEW t \in Threads, NEW s, EnterHandleIdle(t, s)
  PROVE  stateMutex' \in Threads \cup {NoThread} /\ handling_idle_' \in Nat
BY DEF SchedulerTypes, EnterHandleIdle

LEMMA SchedulerVarsTyped ==
  ASSUME SchedulerTypes, UNCHANGED <<schedulerVars, sharedVars>>
  PROVE  SchedulerTypes'
BY DEF SchedulerTypes, schedulerVars, sharedVars

LEMMA HandleIdleTypes ==
  ASSUME Core, NEW t \in Threads, HandleIdle(t)
  PROVE  SchedulerTypes'
<1>1. SchedulerTypes /\ TypeOK
  BY TypeParts DEF Core
<1>2. ActiveSources \in Seq(Sources)
  BY <1>1, Trims
<1>3. CASE HandleIdleNotIdle(t)
  BY <1>1, <1>3 DEF HandleIdleNotIdle, LeaveHandleIdle, SchedulerTypes, sharedVars
<1>4. CASE HandleIdleQuit(t)
  BY <1>1, <1>2, <1>4 DEF HandleIdleQuit, LeaveHandleIdle, SchedulerTypes, sharedVars, States
<1>5. CASE HandleIdleBlocked(t)
  BY <1>1, <1>2, <1>5 DEF HandleIdleBlocked, SchedulerTypes
<1>6. CASE HandleIdleNextLayer(t)
  <2>1. LowestLayer(sources_queue_) \in SUBSET Sources
    BY <1>1 DEF SchedulerTypes, LowestLayer
  <2>2. active_sources_' \in Seq(Sources)
    BY <1>6, <2>1, OrderCovers DEF HandleIdleNextLayer
  <2> QED
    BY <1>1, <1>6, <2>2 DEF HandleIdleNextLayer, SchedulerTypes, sharedVars
<1>7. CASE StopQueuesForLayer(t) \/ ActivateNode(t) \/ StartQueuesForLayer(t)
  BY <1>1, <1>7, SchedulerVarsTyped DEF StopQueuesForLayer, ActivateNode, StartQueuesForLayer
<1>8. CASE LockStateMutex(t)
  BY <1>1, <1>8 DEF LockStateMutex, SchedulerTypes, sharedVars
<1>9. CASE HandleIdleUnthrottle(t)
  BY <1>1, <1>2, <1>9 DEF HandleIdleUnthrottle, SchedulerTypes, sharedVars
<1>10. CASE UnthrottleSources(t)
  BY <1>1, <1>10, SchedulerVarsTyped DEF UnthrottleSources
<1>11. CASE HandleIdleEndOfTurn(t)
  BY <1>1, <1>2, <1>11 DEF HandleIdleEndOfTurn, LeaveHandleIdle, SchedulerTypes, sharedVars
<1> QED
  BY <1>3, <1>4, <1>5, <1>6, <1>7, <1>8, <1>9, <1>10, <1>11 DEF HandleIdle

LEMMA CallsTypes ==
  ASSUME Core, NEW t \in Threads,
         \/ TryAddNode(t) \/ PushItem(t) \/ AddTasks(t) \/ SubmitWaitingTasks(t)
         \/ CallIdleFalse(t) \/ CallIdleTrue(t)
  PROVE  SchedulerTypes'
<1>1. SchedulerTypes
  BY TypeParts DEF Core
<1>2. CASE TryAddNode(t) \/ PushItem(t) \/ AddTasks(t) \/ SubmitWaitingTasks(t)
  BY <1>1, <1>2, SchedulerVarsTyped DEF TryAddNode, PushItem, AddTasks, SubmitWaitingTasks
<1>3. CASE CallIdleFalse(t) \/ CallIdleTrue(t)
  <2>1. PICK by, s : by \in {1, -1} /\ QueueIdleStateChanged(t, by, s)
    BY <1>3 DEF CallIdleFalse, CallIdleTrue
  <2>2. non_idle_queue_count_' \in Int
    BY <1>1, <2>1 DEF QueueIdleStateChanged, SchedulerTypes
  <2>3. stateMutex' \in Threads \cup {NoThread} /\ handling_idle_' \in Nat
    <3>1. CASE EnterHandleIdle(t, s)
      BY <3>1, <1>1, EntersTyped
    <3>2. CASE UNCHANGED <<handling_idle_, stateMutex>>
      BY <3>2, <1>1 DEF SchedulerTypes
    <3> QED
      BY <2>1, <3>1, <3>2 DEF QueueIdleStateChanged
  <2> QED
    BY <1>1, <2>1, <2>2, <2>3 DEF QueueIdleStateChanged, SchedulerTypes, sharedVars
<1> QED
  BY <1>2, <1>3

LEMMA TaskTypes ==
  ASSUME Core, NEW w \in Workers, Task(w)
  PROVE  SchedulerTypes'
<1>1. SchedulerTypes
  BY TypeParts DEF Core
<1>2. CASE AddNodeToSourcesQueue(w)
  <2>1. Top(w).node \in Sources
    BY <1>2, ToSourcesQueueTurns
  <2> QED
    BY <1>1, <1>2, <2>1 DEF AddNodeToSourcesQueue, SchedulerTypes, sharedVars
<1>3. CASE \E n \in Nodes : \/ ProcessFails(w, n) \/ ProcessStops(w, n)
                            \/ OpenFails(w, n) \/ CloseFails(w, n)
  BY <1>1, <1>3 DEF ProcessFails, ProcessStops, OpenFails, CloseFails, SchedulerTypes,
                    schedulerVars
<1>4. CASE UNCHANGED <<schedulerVars, sharedVars>>
  BY <1>1, <1>4, SchedulerVarsTyped
<1> QED
  BY <1>2, <1>3, <1>4
  DEF Task, TakeTask, OpenNode, NodeOpened, SourceEmits, SourceCloses, NodeProcesses,
      MarkClosed, EndScheduling, FinishTask

LEMMA AppTypes ==
  ASSUME Core, NEW a \in AppThreads, Start(a) \/ AppReturn(a) \/ App(a)
  PROVE  SchedulerTypes'
<1>1. SchedulerTypes /\ a \in Threads
  BY TypeParts DEF Core, Threads
<1>2. CASE Start(a) \/ Resume(a) \/ Cancel(a)
  <2>1. stateMutex' \in Threads \cup {NoThread} /\ handling_idle_' \in Nat
    BY <1>1, <1>2, EntersTyped DEF Start, Resume, Cancel
  <2> QED
    BY <1>1, <1>2, <2>1 DEF Start, Resume, Cancel, SchedulerTypes, sharedVars, States
<1>3. CASE Pause(a)
  BY <1>1, <1>3 DEF Pause, SchedulerTypes, sharedVars, States
<1>4. CASE AddedPacketToGraphInputStream(a) \/ ClosedAllGraphInputStreams(a)
  <2>1. stateMutex' \in Threads \cup {NoThread} /\ handling_idle_' \in Nat
    <3>1. CASE EnterHandleIdle(a, Return(a))
      BY <3>1, <1>1, EntersTyped
    <3>2. CASE UNCHANGED <<handling_idle_, stateMutex>>
      BY <3>2, <1>1 DEF SchedulerTypes
    <3> QED
      BY <1>4, <3>1, <3>2 DEF AddedPacketToGraphInputStream, ClosedAllGraphInputStreams
  <2> QED
    BY <1>1, <1>4, <2>1
    DEF AddedPacketToGraphInputStream, ClosedAllGraphInputStreams, SchedulerTypes, sharedVars
<1>5. CASE CloseAllSourceNodes(a)
  BY <1>1, <1>5 DEF CloseAllSourceNodes, SchedulerTypes, schedulerVars
<1>6. CASE UNCHANGED <<schedulerVars, sharedVars>>
  BY <1>1, <1>6, SchedulerVarsTyped
<1> QED
  BY <1>2, <1>3, <1>4, <1>5, <1>6 DEF AppReturn, App, AddPacket, CloseAllInputs

\* The queues, while a task is taken and finished, are typed because tasks are counted.
LEMMA QueuesTyped ==
  ASSUME Core, TasksCounted, Next
  PROVE  QueueTypes'
<1>1. TypeOK /\ QueueTypes
  BY TypeParts DEF Core
<1>2. CASE \E w \in Workers : Task(w)
  <2>1. PICK w \in Workers : Task(w)
    BY <1>2
  <2>2. CASE \E q \in Queues : TakeTask(w, q)
    <3>1. PICK q \in Queues : TakeTask(w, q)
      BY <2>2
    <3>2. sq' \in [Queues -> QueueState]
      BY <3>1, TakeTaskTurns
    <3>3. executor' = [executor EXCEPT ![q] = executor[q] - 1] /\ executor[q] > 0
      BY <3>1 DEF TakeTask
    <3> QED
      BY <1>1, <3>2, <3>3 DEF QueueTypes
  <2>3. CASE FinishTask(w)
    <3>1. sq' \in [Queues -> QueueState]
      BY <2>3, FinishTaskCounts
    <3> QED
      BY <1>1, <2>3, <3>1 DEF QueueTypes, FinishTask
  <2>4. CASE UNCHANGED queueVars
    BY <1>1, <2>4 DEF QueueTypes, queueVars
  <2> QED
    BY <2>1, <2>2, <2>3, <2>4
    DEF Task, OpenNode, NodeOpened, AddNodeToSourcesQueue, SourceEmits, SourceCloses,
        NodeProcesses, ProcessFails, ProcessStops, OpenFails, CloseFails, MarkClosed,
        EndScheduling
<1>3. CASE \E t \in Threads : Shared(t)
  <2>1. PICK t \in Threads : Shared(t)
    BY <1>3
  <2>2. CASE PushItem(t)
    <3>1. sq' \in [Queues -> QueueState]
      BY <2>2, PushItemTurns
    <3> QED
      BY <1>1, <2>2, <3>1 DEF QueueTypes, PushItem
  <2>3. CASE AddTasks(t)
    <3>1. Top(t).q \in Queues /\ Top(t).tasks \in Nat
      BY <2>3, AddTasksTurns
    <3>2. PICK q \in Queues, n \in Nat : q = Top(t).q /\ n = Top(t).tasks
      BY <3>1
    <3>3. executor' = [executor EXCEPT ![q] = executor[q] + n] /\ sq' = sq
      BY <2>3, <3>2 DEF AddTasks
    <3> QED
      BY <1>1, <3>3 DEF QueueTypes
  <2>4. CASE SubmitWaitingTasks(t)
    <3>1. PICK q \in Queues : IF sq[q].running > 0 THEN Submits(q) ELSE UNCHANGED queueVars
      BY <2>4, SubmitWaitingTasksTurns
    <3>2. CASE Submits(q)
      <4>1. sq[q].toAdd \in Nat
        BY <1>1, QueueTyped
      <4> QED
        BY <1>1, <3>2, <4>1 DEF QueueTypes, Submits
    <3>3. CASE UNCHANGED queueVars
      BY <1>1, <3>3 DEF QueueTypes, queueVars
    <3> QED
      BY <3>1, <3>2, <3>3
  <2>5. CASE HandleIdleQuit(t) \/ StopQueuesForLayer(t) \/ StartQueuesForLayer(t)
    <3>1. PICK by \in {1, -1} : SetQueuesRunning(by)
      BY <2>5 DEF HandleIdleQuit, StopQueuesForLayer, StartQueuesForLayer
    <3>2. sq' \in [Queues -> QueueState]
      BY <1>1, <3>1, StartsQueues
    <3> QED
      BY <1>1, <2>5, <3>2 DEF QueueTypes, HandleIdleQuit, StopQueuesForLayer, StartQueuesForLayer
  <2>6. CASE UNCHANGED queueVars
    BY <1>1, <2>6 DEF QueueTypes, queueVars
  <2> QED
    BY <2>1, <2>2, <2>3, <2>4, <2>5, <2>6
    DEF Shared, TryAddNode, CallIdleFalse, CallIdleTrue, QueueIdleStateChanged, HandleIdle,
        HandleIdleNotIdle, HandleIdleBlocked, HandleIdleNextLayer, ActivateNode, LockStateMutex,
        HandleIdleUnthrottle, UnthrottleSources, HandleIdleEndOfTurn
<1>4. CASE \E a \in AppThreads : Start(a) \/ AppReturn(a) \/ App(a)
  <2>1. PICK a \in AppThreads : Start(a) \/ AppReturn(a) \/ App(a)
    BY <1>4
  <2>2. CASE \E by \in {1, -1} : SetQueuesRunning(by) /\ executor' = executor
    <3>1. sq' \in [Queues -> QueueState]
      BY <1>1, <2>2, StartsQueues
    <3> QED
      BY <1>1, <2>2, <3>1 DEF QueueTypes
  <2>3. CASE UNCHANGED queueVars
    BY <1>1, <2>3 DEF QueueTypes, queueVars
  <2> QED
    BY <2>1, <2>2, <2>3
    DEF Start, AppReturn, App, AddedPacketToGraphInputStream, ClosedAllGraphInputStreams,
        CloseAllSourceNodes, AddPacket, CloseAllInputs, Pause, Resume, Cancel, queueVars
<1> QED
  BY <1>2, <1>3, <1>4 DEF Next

LEMMA StatusTyped ==
  ASSUME NodeTypes, NEW n \in Nodes, NEW s \in {"Opened", "Active", "Closed"},
         status' = [status EXCEPT ![n] = s], UNCHANGED <<inFlight, ready, announced, throttled>>
  PROVE  NodeTypes'
BY DEF NodeTypes

LEMMA MoreReady ==
  ASSUME NodeTypes, NEW ns, ready' = [m \in Nodes |-> IF m \in ns THEN ready[m] + 1 ELSE ready[m]]
  PROVE  ready' \in [Nodes -> Nat]
<1>1. ASSUME NEW m \in Nodes PROVE (IF m \in ns THEN ready[m] + 1 ELSE ready[m]) \in Nat
  <2>1. ready[m] \in Nat
    BY DEF NodeTypes
  <2> QED
    BY <2>1
<1> QED
  BY <1>1

LEMMA NodeVarsTyped ==
  ASSUME NodeTypes, UNCHANGED <<status, inFlight, ready, announced, throttled>>
  PROVE  NodeTypes'
BY DEF NodeTypes

\* A node that is not a source is run only if it has an input set.
LEMMA TryAddNodeTyped ==
  ASSUME Core, NEW t \in Threads, TryAddNode(t)
  PROVE  NodeTypes'
<1>1. NodeTypes
  BY TypeParts DEF Core
<1>2. Top(t).todo \in SUBSET Item
  BY TryAddNodeTurns, FrameFields DEF AddLabels
<1>3. PICK i \in Top(t).todo :
        LET n == i.node
            wanted == \/ i.kind = "open"
                      \/ /\ IsReady(n) /\ inFlight[n] = 0
                         /\ i.kind = "run" => n \notin throttled
        IN  /\ inFlight' = [inFlight EXCEPT ![n] =
                              IF wanted /\ i.kind # "open" /\ ~has_error THEN 1 ELSE @]
            /\ ready' = [ready EXCEPT ![n] =
                           IF wanted /\ i.kind # "open" /\ n \notin Sources THEN @ - 1 ELSE @]
  BY DEF TryAddNode
<1>4. PICK n \in Nodes : n = i.node
  BY <1>2 DEF Item
<1>5. inFlight[n] \in 0 .. 1 /\ ready[n] \in Nat
  BY <1>1 DEF NodeTypes
<1>6. PICK k \in 0 .. 1 : inFlight' = [inFlight EXCEPT ![n] = k]
  <2>1. \/ inFlight' = [inFlight EXCEPT ![n] = 1]
        \/ inFlight' = [inFlight EXCEPT ![n] = inFlight[n]]
    BY <1>3, <1>4
  <2> QED
    BY <2>1, <1>5
<1>7. PICK j \in Nat : ready' = [ready EXCEPT ![n] = j]
  <2>1. CASE n \notin Sources /\ IsReady(n)
    <3>1. ready[n] - 1 \in Nat
      BY <2>1, <1>5 DEF IsReady
    <3> QED
      BY <3>1, <1>3, <1>4, <1>5
  <2>2. CASE n \in Sources \/ ~IsReady(n)
    BY <2>2, <1>3, <1>4, <1>5
  <2> QED
    BY <2>1, <2>2
<1> QED
  BY <1>1, <1>6, <1>7 DEF NodeTypes, TryAddNode

LEMMA TaskNodesTyped ==
  ASSUME Core, NEW w \in Workers, Task(w)
  PROVE  NodeTypes'
<1>1. NodeTypes
  BY TypeParts DEF Core
<1>2. CASE OpenNode(w)
  <2>1. Top(w).node \in Nodes
    BY <1>2, OpenNodeTurns
  <2> QED
    BY <1>1, <1>2, <2>1 DEF OpenNode, NodeTypes
<1>3. CASE NodeOpened(w)
  <2>1. Top(w).node \in Nodes
    BY <1>3, NodeOpenedTurns
  <2> QED
    BY <1>1, <1>3, <2>1, StatusTyped DEF NodeOpened
<1>4. CASE MarkClosed(w)
  <2>1. Top(w).node \in Nodes
    BY <1>4, MarkClosedTurns
  <2> QED
    BY <1>1, <1>4, <2>1, StatusTyped DEF MarkClosed
<1>5. CASE EndScheduling(w)
  <2>1. PICK n \in Nodes : n = Top(w).node
    BY <1>5, EndSchedulingTurns
  <2>2. inFlight' = [inFlight EXCEPT ![n] = 0] \/ inFlight' = inFlight
    BY <1>5, <2>1 DEF EndScheduling
  <2> QED
    BY <1>1, <1>5, <2>1, <2>2 DEF EndScheduling, NodeTypes
<1>6. ASSUME NEW n \in Nodes, SourceEmits(w, n) \/ SourceCloses(w, n)
      PROVE  NodeTypes'
  <2>1. ready' \in [Nodes -> Nat]
    BY <1>1, <1>6, MoreReady DEF SourceEmits, SourceCloses, Deliver
  <2>2. throttled' \subseteq Sources
    BY <1>1, <1>6, GraphAssumption DEF SourceEmits, SourceCloses, NodeTypes
  <2> QED
    BY <1>1, <1>6, <2>1, <2>2 DEF SourceEmits, SourceCloses, NodeTypes
<1>7. ASSUME NEW n \in Nodes, NodeProcesses(w, n)
      PROVE  NodeTypes'
  <2>1. ready' \in [Nodes -> Nat]
    BY <1>1, <1>7, MoreReady DEF NodeProcesses, Deliver
  <2>2. throttled' \subseteq Sources /\ announced' \subseteq Nodes
    BY <1>1, <1>7 DEF NodeProcesses, NodeTypes
  <2> QED
    BY <1>1, <1>7, <2>1, <2>2 DEF NodeProcesses, NodeTypes
<1>8. CASE UNCHANGED <<status, inFlight, ready, announced, throttled>>
  BY <1>1, <1>8, NodeVarsTyped
<1> QED
  BY <1>2, <1>3, <1>4, <1>5, <1>6, <1>7, <1>8
  DEF Task, TakeTask, AddNodeToSourcesQueue, ProcessFails, ProcessStops, OpenFails,
      CloseFails, FinishTask, nodeVars

LEMMA SharedNodesTyped ==
  ASSUME Core, NEW t \in Threads, Shared(t)
  PROVE  NodeTypes'
<1>1. NodeTypes
  BY TypeParts DEF Core
<1>2. CASE TryAddNode(t)
  BY <1>2, TryAddNodeTyped
<1>3. CASE ActivateNode(t)
  <2>1. PICK n : n = active_sources_[Top(t).i]
    OBVIOUS
  <2>2. n \in Nodes /\ status' = [status EXCEPT ![n] = "Active"]
    BY <1>3, <2>1, ActivateNodeTurns
  <2> QED
    BY <1>1, <1>3, <2>2, StatusTyped DEF ActivateNode
<1>4. CASE UnthrottleSources(t)
  BY <1>1, <1>4 DEF UnthrottleSources, NodeTypes
<1>5. CASE UNCHANGED nodeVars
  BY <1>1, <1>5, NodeVarsTyped DEF nodeVars
<1> QED
  BY <1>2, <1>3, <1>4, <1>5
  DEF Shared, PushItem, AddTasks, SubmitWaitingTasks, CallIdleFalse, CallIdleTrue,
      QueueIdleStateChanged, HandleIdle, HandleIdleNotIdle, HandleIdleQuit, HandleIdleBlocked,
      HandleIdleNextLayer, StopQueuesForLayer, StartQueuesForLayer, LockStateMutex,
      HandleIdleUnthrottle, HandleIdleEndOfTurn

LEMMA AppNodesTyped ==
  ASSUME Core, NEW a \in AppThreads, Start(a) \/ AppReturn(a) \/ App(a)
  PROVE  NodeTypes'
<1>1. NodeTypes
  BY TypeParts DEF Core
<1>2. ASSUME NEW n \in InputNodes, AddPacket(a, n)
      PROVE  NodeTypes'
  <2>1. n \in Nodes
    BY GraphAssumption
  <2>2. ready[n] \in Nat
    BY <1>1, <2>1 DEF NodeTypes
  <2>3. ready' = [ready EXCEPT ![n] = ready[n] + 1] /\ ready[n] + 1 \in Nat
    BY <1>2, <2>2 DEF AddPacket
  <2> QED
    BY <1>1, <1>2, <2>3 DEF AddPacket, NodeTypes
<1>3. ASSUME NEW kind, CloseAllInputs(a, kind)
      PROVE  NodeTypes'
  <2>1. ready' \in [Nodes -> Nat]
    BY <1>1, <1>3, MoreReady DEF CloseAllInputs
  <2> QED
    BY <1>1, <1>3, <2>1 DEF CloseAllInputs, NodeTypes
<1>4. CASE UNCHANGED nodeVars
  BY <1>1, <1>4, NodeVarsTyped DEF nodeVars
<1> QED
  BY <1>2, <1>3, <1>4
  DEF Start, AppReturn, App, AddedPacketToGraphInputStream, ClosedAllGraphInputStreams,
      CloseAllSourceNodes, Pause, Resume, Cancel

LEMMA StepKeepsTypes ==
  ASSUME Core, TasksCounted, Next
  PROVE  TypeOK'
<1>1. QueueTypes'
  BY QueuesTyped
<1>2. SchedulerTypes' /\ NodeTypes'
  <2>1. CASE \E w \in Workers : Task(w)
    BY <2>1, TaskTypes, TaskNodesTyped
  <2>2. CASE \E t \in Threads : Shared(t)
    BY <2>2, CallsTypes, HandleIdleTypes, SharedNodesTyped DEF Shared
  <2>3. CASE \E a \in AppThreads : Start(a) \/ AppReturn(a) \/ App(a)
    BY <2>3, AppTypes, AppNodesTyped
  <2> QED
    BY <2>1, <2>2, <2>3 DEF Next
<1>3. (TypeOK <=> SchedulerTypes /\ QueueTypes /\ NodeTypes)'
  BY TypeParts, PTL
<1> QED
  BY <1>1, <1>2, <1>3

-----------------------------------------------------------------------------
(* The invariant. *)

QueuesServeAsBefore ==
  /\ executor' = executor
  /\ \A q \in Queues : /\ sq'[q].items = sq[q].items /\ sq'[q].pending = sq[q].pending
                       /\ sq'[q].toAdd = sq[q].toAdd

LEMMA QueuesKept ==
  ASSUME TypeOK
  PROVE  /\ UNCHANGED queueVars => QueuesServeAsBefore
         /\ \A by \in {1, -1} :
              SetQueuesRunning(by) /\ executor' = executor => QueuesServeAsBefore
         /\ QueuesServeAsBefore => SameItems
<1>1. ASSUME NEW by \in {1, -1}, SetQueuesRunning(by), executor' = executor
      PROVE  QueuesServeAsBefore
  BY <1>1, StartsQueues DEF QueuesServeAsBefore
<1> QED
  BY <1>1 DEF queueVars, QueuesServeAsBefore, SameItems

LEMMA StepKeepsStacks ==
  ASSUME Core, Next
  PROVE  StacksOK'
<1>1. CASE \E w \in Workers : Task(w)
  BY <1>1, TakeTaskTurns, OpenNodeTurns, NodeOpenedTurns, ToSourcesQueueTurns, SourceRunsTurns,
     NodeProcessesTurns, FailsOrStopsTurns, OpenFailsTurns, CloseFailsTurns, MarkClosedTurns,
     EndSchedulingTurns, FinishTaskTurns
  DEF Task
<1>2. CASE \E t \in Threads : Shared(t)
  <2>1. PICK t \in Threads : Shared(t)
    BY <1>2
  <2>2. CASE HandleIdleNotIdle(t) \/ HandleIdleQuit(t)
    BY <2>2, LeaveHandleIdleTurns DEF HandleIdleNotIdle, HandleIdleQuit, InHandleIdle
  <2>3. CASE HandleIdleBlocked(t)
    BY <2>3 DEF HandleIdleBlocked, Core, StacksOK
  <2> QED
    BY <2>1, <2>2, <2>3, TryAddNodeTurns, PushItemTurns, AddTasksTurns, SubmitWaitingTasksTurns,
       CallIdleFalseTurns, CallIdleTrueTurns, NextLayerTurns, StopQueuesTurns, ActivateNodeTurns,
       StartQueuesTurns, LockTurns, UnthrottleTurns, UnthrottleSourcesTurns, EndOfTurnTurns
    DEF Shared, HandleIdle
<1>3. CASE \E a \in AppThreads : Start(a) \/ AppReturn(a) \/ App(a)
  <2>1. PICK a \in AppThreads : Start(a) \/ AppReturn(a) \/ App(a)
    BY <1>3
  <2>2. CASE Pause(a)
    BY <2>2 DEF Pause, Core, StacksOK
  <2> QED
    BY <2>1, <2>2, StartTurns, AppReturnTurns, AddPacketTurns, CloseAllInputsTurns DEF App
<1> QED
  BY <1>1, <1>2, <1>3 DEF Next

\* The steps that are not about tasks: nodes, tasks and queues stay as they are.
LEMMA TaskServes ==
  ASSUME Core, TasksCounted, NEW w \in Workers, Task(w)
  PROVE  NodesSound' /\ TasksCounted'
<1>1. TypeOK /\ w \in Threads
  BY DEF Core, Threads
<1>2. CASE \E q \in Queues : TakeTask(w, q)
  BY <1>2, TakeTaskKeeps, TakeTaskCounts
<1>3. CASE FinishTask(w)
  BY <1>3, FinishTaskKeeps, FinishTaskCounts
<1>4. CASE ~FinishTask(w) /\ ~\E q \in Queues : TakeTask(w, q)
  <2>1. UNCHANGED queueVars
    BY <1>4 DEF Task, OpenNode, NodeOpened, AddNodeToSourcesQueue, SourceEmits, SourceCloses,
           NodeProcesses, ProcessFails, ProcessStops, OpenFails, CloseFails, MarkClosed,
           EndScheduling
  <2>2. QueuesServeAsBefore /\ SameItems
    BY <1>1, <2>1, QueuesKept
  <2>3. NodesSound' /\ ServingStays
    <3>1. CASE \E n \in Nodes : \/ SourceEmits(w, n) \/ SourceCloses(w, n)
                                \/ ProcessFails(w, n) \/ ProcessStops(w, n)
                                \/ OpenFails(w, n) \/ CloseFails(w, n)
      <4>1. CalmStep(w)
        BY <3>1, RunCalm
      <4>2. UNCHANGED <<status, announced, unopened_sources_, inFlight>>
        BY <3>1 DEF SourceEmits, SourceCloses, ProcessFails, ProcessStops, OpenFails,
           CloseFails, schedulerVars, nodeVars
      <4> QED
        BY <1>1, <2>2, <4>1, <4>2, CalmKeeps
    <3> QED
      BY <1>4, <3>1, OpenNodeKeeps, NodeOpenedKeeps, ToSourcesQueueKeeps, MarkClosedKeeps,
         NodeProcessesKeeps, EndSchedulingKeeps DEF Task
  <2>4. TasksStay
    BY TaskKeepsTasks
  <2>5. TasksCounted'
    BY <2>2, <2>3, <2>4, TasksCountedStays DEF QueuesServeAsBefore
  <2> QED
    BY <2>3, <2>5
<1> QED
  BY <1>2, <1>3, <1>4

LEMMA HandleIdleServes ==
  ASSUME Core, TasksCounted, NEW t \in Threads, HandleIdle(t)
  PROVE  NodesSound' /\ TasksCounted'
<1>1. TypeOK
  BY DEF Core
<1>2. QueuesServeAsBefore /\ SameItems
  <2>1. CASE HandleIdleQuit(t) \/ StopQueuesForLayer(t) \/ StartQueuesForLayer(t)
    <3>1. PICK by \in {1, -1} : SetQueuesRunning(by) /\ executor' = executor
      BY <2>1 DEF HandleIdleQuit, StopQueuesForLayer, StartQueuesForLayer
    <3> QED
      BY <3>1, <1>1, QueuesKept
  <2>2. CASE UNCHANGED queueVars
    BY <1>1, <2>2, QueuesKept
  <2> QED
    BY <2>1, <2>2
    DEF HandleIdle, HandleIdleNotIdle, HandleIdleBlocked, HandleIdleNextLayer, ActivateNode,
        LockStateMutex, HandleIdleUnthrottle, UnthrottleSources, HandleIdleEndOfTurn
<1>3. NodesSound' /\ ServingStays
  <2>1. CASE \/ HandleIdleNotIdle(t) \/ HandleIdleQuit(t) \/ HandleIdleBlocked(t)
             \/ StartQueuesForLayer(t) \/ LockStateMutex(t)
             \/ HandleIdleUnthrottle(t) \/ UnthrottleSources(t) \/ HandleIdleEndOfTurn(t)
    <3>1. CalmStep(t)
      BY <2>1, HandlerCalm
    <3>2. UNCHANGED <<status, announced, unopened_sources_, inFlight>>
      BY <2>1 DEF HandleIdleNotIdle, HandleIdleQuit, HandleIdleBlocked, StartQueuesForLayer,
             LockStateMutex, HandleIdleUnthrottle, UnthrottleSources, HandleIdleEndOfTurn,
             schedulerVars, nodeVars
    <3> QED
      BY <1>2, <3>1, <3>2, CalmKeeps
  <2> QED
    BY <2>1, LayerKeeps, ActivateNodeKeeps DEF HandleIdle
<1>4. TasksStay
  BY HandleIdleKeepsTasks
<1>5. TasksCounted'
  BY <1>2, <1>3, <1>4, TasksCountedStays DEF QueuesServeAsBefore
<1> QED
  BY <1>3, <1>5

LEMMA CallsServe ==
  ASSUME Core, TasksCounted, NEW t \in Threads, Shared(t)
  PROVE  NodesSound' /\ TasksCounted'
<1>1. TypeOK
  BY DEF Core
<1>2. CASE TryAddNode(t)
  <2>1. QueuesServeAsBefore
    BY <1>1, <1>2, QueuesKept DEF TryAddNode
  <2>2. NodesSound' /\ ServingStays /\ TasksStay
    BY <1>2, TryAddNodeKeeps, CallsKeepTasks
  <2> QED
    BY <2>1, <2>2, TasksCountedStays DEF QueuesServeAsBefore
<1>3. CASE PushItem(t)
  BY <1>3, PushItemKeeps, PushItemCounts
<1>4. CASE AddTasks(t) \/ SubmitWaitingTasks(t)
  <2>1. SameItems
    <3>1. CASE AddTasks(t)
      BY <3>1 DEF AddTasks, SameItems
    <3>2. CASE SubmitWaitingTasks(t)
      <4>1. PICK x \in Queues : IF sq[x].running > 0 THEN Submits(x) ELSE UNCHANGED queueVars
        BY <3>2, SubmitWaitingTasksTurns
      <4> QED
        BY <4>1 DEF Submits, queueVars, SameItems
    <3> QED
      BY <1>4, <3>1, <3>2
  <2>2. CalmStep(t)
    BY <1>4, CallsCalm
  <2>3. UNCHANGED <<status, announced, unopened_sources_, inFlight>>
    BY <1>4 DEF AddTasks, SubmitWaitingTasks, schedulerVars, nodeVars
  <2>4. NodesSound'
    BY <2>1, <2>2, <2>3, CalmKeeps
  <2> QED
    BY <1>4, <2>4, AddTasksCounts, SubmitCounts
<1>5. CASE CallIdleFalse(t) \/ CallIdleTrue(t)
  <2>1. QueuesServeAsBefore /\ SameItems
    BY <1>1, <1>5, QueuesKept DEF CallIdleFalse, CallIdleTrue, QueueIdleStateChanged
  <2>2. CalmStep(t)
    BY <1>5, CallsCalm
  <2>3. UNCHANGED <<status, announced, unopened_sources_, inFlight>>
    BY <1>5 DEF CallIdleFalse, CallIdleTrue, QueueIdleStateChanged, nodeVars
  <2>4. NodesSound' /\ ServingStays
    BY <2>1, <2>2, <2>3, CalmKeeps
  <2>5. TasksStay
    BY <1>5, CallsKeepTasks, CallIdleFalseKeepsTasks
  <2> QED
    BY <2>1, <2>4, <2>5, TasksCountedStays DEF QueuesServeAsBefore
<1> QED
  BY <1>2, <1>3, <1>4, <1>5, HandleIdleServes DEF Shared

LEMMA AppServes ==
  ASSUME Core, TasksCounted, NEW a \in AppThreads, Start(a) \/ AppReturn(a) \/ App(a)
  PROVE  NodesSound' /\ TasksCounted'
<1>1. TypeOK /\ a \in Threads
  BY DEF Core, Threads
<1>2. QueuesServeAsBefore /\ SameItems
  <2>1. CASE \E by \in {1, -1} : SetQueuesRunning(by) /\ executor' = executor
    BY <1>1, <2>1, QueuesKept
  <2>2. CASE UNCHANGED queueVars
    BY <1>1, <2>2, QueuesKept
  <2> QED
    BY <2>1, <2>2
    DEF Start, AppReturn, App, AddedPacketToGraphInputStream, ClosedAllGraphInputStreams,
        CloseAllSourceNodes, AddPacket, CloseAllInputs, Pause, Resume, Cancel, queueVars
<1>3. CalmStep(a)
  BY AppCalm
<1>4. UNCHANGED <<status, announced, unopened_sources_, inFlight>>
  BY DEF Start, AppReturn, App, AddedPacketToGraphInputStream, ClosedAllGraphInputStreams,
         CloseAllSourceNodes, AddPacket, CloseAllInputs, Pause, Resume, Cancel,
         schedulerVars, nodeVars
<1>5. NodesSound' /\ ServingStays
  BY <1>1, <1>2, <1>3, <1>4, CalmKeeps
<1>6. TasksStay
  BY AppKeepsTasks
<1>7. TasksCounted'
  BY <1>2, <1>5, <1>6, TasksCountedStays DEF QueuesServeAsBefore
<1> QED
  BY <1>5, <1>7

LEMMA StepKeepsInv ==
  ASSUME Inv, Next
  PROVE  Inv'
<1>1. Core /\ TasksCounted
  BY InvParts
<1>2. NodesSound' /\ TasksCounted'
  BY <1>1, TaskServes, CallsServe, AppServes DEF Next
<1>3. TypeOK' /\ StacksOK' /\ HandlingSound' /\ SourcesSound'
  BY <1>1, StepKeepsTypes, StepKeepsStacks, StepKeepsHandling, StepKeepsLayers
<1> QED
  BY <1>2, <1>3 DEF Inv

LEMMA StutterKeepsInv ==
  ASSUME Inv, UNCHANGED vars
  PROVE  Inv'
<1> USE DEF vars, schedulerVars, sharedVars, queueVars, nodeVars
<1>1. TypeOK' /\ StacksOK'
  BY DEF Inv, TypeOK, StacksOK
<1>2. HandlingSound'
  BY DEF Inv, HandlingSound, HandlerAlone, RunningExact, Going, Held, StopsQueues, Handles, Has
<1>3. NodesSound'
  BY DEF Inv, NodesSound, ItemsPlaced, OpenedOnce, OpeningsPrepared, FliesOnce, FliesWhenOpen,
         OpensOn, OpenQueued, RunsOn, RunQueued, Reached
<1>4. SourcesSound'
  BY DEF Inv, SourcesSound, SourcesPlaced, LayerToActivate, LowerLayersClosed, LayersInOrder, InActive
<1>5. TasksCounted'
  BY DEF Inv, TasksCounted
<1> QED
  BY <1>1, <1>2, <1>3, <1>4, <1>5 DEF Inv

\* The nodes that wait for nothing are queued to be opened, one item for each.
LEMMA OpeningItems ==
  ASSUME NEW ns \in SUBSET Nodes
  PROVE  /\ Items("open", ns) \subseteq [node : Nodes, kind : {"open", "run"}]
         /\ IsFiniteSet(Items("open", ns))
         /\ Cardinality(Items("open", ns)) = Cardinality(ns) /\ Cardinality(ns) \in Nat
         /\ \A i \in Items("open", ns) : i.node \in ns /\ i.kind = "open"
<1> DEFINE f == [n \in ns |-> OpenItem(n)]
<1>1. f \in Bijection(ns, Items("open", ns))
  BY DEF Bijection, Injection, Surjection, IsInjective, Items, OpenItem
<1>2. ExistsBijection(ns, Items("open", ns))
  BY <1>1 DEF ExistsBijection
<1>3. IsFiniteSet(ns) /\ Cardinality(ns) \in Nat
  BY FiniteAssumption, FS_Subset, FS_CardinalityType
<1>4. /\ IsFiniteSet(Items("open", ns))
      /\ Cardinality(Items("open", ns)) = Cardinality(ns)
  BY <1>2, <1>3, FS_Bijection
<1>5. /\ Items("open", ns) \subseteq [node : Nodes, kind : {"open", "run"}]
      /\ \A i \in Items("open", ns) : i.node \in ns /\ i.kind = "open"
  BY DEF Items
<1> QED
  BY <1>3, <1>4, <1>5

LEMMA InitTypes ==
  ASSUME Init
  PROVE  TypeOK
<1>1. {q \in Queues : OpenableOn(q) # {}} \in SUBSET Queues
  OBVIOUS
<1>2. IsFiniteSet({q \in Queues : OpenableOn(q) # {}})
  BY <1>1, FiniteAssumption, FS_Subset
<1>3. non_idle_queue_count_ \in Int
  BY <1>2, FS_CardinalityType DEF Init
<1>4. ASSUME NEW q \in Queues
      PROVE  /\ OpenableOn(q) \in SUBSET Nodes
             /\ sq[q] \in QueueState /\ executor[q] \in Nat
  <2>1. OpenableOn(q) \in SUBSET Nodes
    BY DEF OpenableOn, Openable
  <2>2. /\ Cardinality(OpenableOn(q)) \in Nat
        /\ Items("open", OpenableOn(q)) \subseteq [node : Nodes, kind : {"open", "run"}]
    BY <2>1, OpeningItems
  <2> QED
    BY <2>1, <2>2 DEF Init, QueueState
<1>5. sq \in [Queues -> QueueState] /\ executor \in [Queues -> Nat]
  BY <1>4 DEF Init
<1>6. active_sources_ \in Seq(Sources)
  BY EmptySeq DEF Init
<1>7. /\ status \in [Nodes -> {"Prepared", "Opened", "Active", "Closed"}]
      /\ inFlight \in [Nodes -> 0 .. 1] /\ ready \in [Nodes -> Nat]
  BY DEF Init
<1>8. {graph_input_streams_closed_, stopping, has_error} \subseteq BOOLEAN
  <2>1. (InputNodes = {}) \in BOOLEAN
    OBVIOUS
  <2> QED
    BY <2>1 DEF Init
<1>9. /\ state_ \in States /\ stateMutex \in Threads \cup {NoThread} /\ handling_idle_ \in Nat
      /\ sources_queue_ \subseteq Sources /\ unopened_sources_ \subseteq Sources
      /\ announced \subseteq Nodes /\ throttled \subseteq Sources
  BY DEF Init, States
<1> QED
  BY <1>3, <1>5, <1>6, <1>7, <1>8, <1>9 DEF TypeOK

LEMMA InitStacks ==
  ASSUME Init
  PROVE  /\ StacksOK
         /\ \A t \in Threads : stack[t] = <<>> /\ On(stack[t]) = {}
<1>1. stack = [t \in Threads |-> <<>>]
  BY DEF Init
<1>2. \A t \in Threads : stack[t] = <<>> /\ On(stack[t]) = {} /\ WellStacked(t, stack[t])
  BY <1>1, Empty
<1>3. stack \in [Threads -> Seq(Frames)]
  BY <1>1, EmptySeq
<1> QED
  BY <1>2, <1>3 DEF StacksOK

LEMMA InitTasks ==
  ASSUME Init
  PROVE  TasksCounted
<1>1. \A t \in Threads : stack[t] = <<>> /\ On(stack[t]) = {}
  BY InitStacks
<1>2. ASSUME NEW q \in Queues
      PROVE  /\ IsFiniteSet(sq[q].items) /\ IsFiniteSet(TasksHeld(stack, q))
             /\ Cardinality(sq[q].items)
                  = executor[q] + sq[q].toAdd + Cardinality(TasksHeld(stack, q))
             /\ sq[q].pending
                  = Cardinality(sq[q].items) - sq[q].toAdd + Cardinality(Serving(stack, q))
  <2>1. TasksHeld(stack, q) = {}
    BY <1>1, HoldsNothing DEF TasksHeld
  <2>2. Serving(stack, q) = {}
    BY <1>1 DEF Serving, Serves, Threads
  <2>3. OpenableOn(q) \in SUBSET Nodes
    BY DEF OpenableOn, Openable
  <2>4. /\ sq[q].items = Items("open", OpenableOn(q)) /\ sq[q].pending = 0
        /\ sq[q].toAdd = Cardinality(OpenableOn(q)) /\ executor[q] = 0
    BY DEF Init
  <2>5. /\ IsFiniteSet(Items("open", OpenableOn(q)))
        /\ Cardinality(Items("open", OpenableOn(q))) = Cardinality(OpenableOn(q))
        /\ Cardinality(OpenableOn(q)) \in Nat
    BY <2>3, OpeningItems
  <2> QED
    BY <2>1, <2>2, <2>4, <2>5, FS_EmptySet
<1> QED
  BY <1>2 DEF TasksCounted

LEMMA InitInv ==
  ASSUME Init
  PROVE  Inv
<1>1. TypeOK /\ StacksOK /\ TasksCounted
  BY InitTypes, InitStacks, InitTasks
<1>2. \A t \in Threads : stack[t] = <<>> /\ On(stack[t]) = {}
  BY InitStacks
<1>3. HandlingSound
  <2>1. \A t \in Threads : ~Handles(t) /\ ~StopsQueues(t)
    BY <1>2 DEF Handles, StopsQueues, Has
  <2>2. \A q \in Queues : executor[q] = 0 /\ sq[q].running = 0
    BY DEF Init
  <2>3. state_ = "NOT_STARTED" /\ handling_idle_ = 0
    BY DEF Init
  <2>4. HandlerAlone
    BY <1>2, <2>1, <2>2, <2>3 DEF HandlerAlone
  <2>5. Going = 0 /\ Held = 0
    BY <2>1, <2>3 DEF Going, Held
  <2>6. RunningExact
    BY <2>2, <2>5 DEF RunningExact
  <2> QED
    BY <2>4, <2>6 DEF HandlingSound
<1>4. \A q \in Queues : \A i \in sq[q].items :
        i.kind = "open" /\ i.node \in Nodes /\ QueueOf[i.node] = q /\ OpenDeps[i.node] = {}
  <2> TAKE q \in Queues
  <2>1. sq[q].items = Items("open", OpenableOn(q)) /\ OpenableOn(q) \in SUBSET Nodes
    BY DEF Init, OpenableOn, Openable
  <2>2. \A i \in sq[q].items : i.node \in OpenableOn(q) /\ i.kind = "open"
    BY <2>1, OpeningItems
  <2> QED
    BY <2>2 DEF OpenableOn, Openable
<1>5. NodesSound
  <2>1. \A n \in Nodes :
          /\ status[n] = "Prepared" /\ ~RunQueued(n) /\ (OpenQueued(n) => OpenDeps[n] = {})
          /\ \A t \in Threads : ~OpensOn(t, n) /\ ~RunsOn(t, n)
    <3> TAKE n \in Nodes
    <3>1. QueueOf[n] \in Queues
      BY GraphAssumption
    <3>2. status[n] = "Prepared"
      BY DEF Init
    <3>3. ~RunQueued(n) /\ (OpenQueued(n) => OpenDeps[n] = {})
      BY <1>4, <3>1 DEF RunQueued, RunItem, OpenQueued, OpenItem
    <3> QED
      BY <1>2, <3>2, <3>3 DEF OpensOn, RunsOn
  <2>2. ItemsPlaced
    BY <1>4 DEF ItemsPlaced
  <2>3. OpenedOnce /\ OpeningsPrepared
    BY <1>2, <2>1 DEF OpenedOnce, OpeningsPrepared
  <2>4. FliesOnce /\ FliesWhenOpen
    BY <1>2, <2>1 DEF FliesOnce, FliesWhenOpen
  <2> QED
    BY <2>2, <2>3, <2>4 DEF NodesSound
<1>6. SourcesSound
  <2>1. \A n \in Nodes : status[n] = "Prepared"
    BY DEF Init
  <2>2. unopened_sources_ = Sources /\ sources_queue_ = {} /\ DOMAIN active_sources_ = {}
    BY DEF Init
  <2>3. SourcesPlaced
    BY <2>1, <2>2, GraphAssumption DEF SourcesPlaced, InActive
  <2>4. LayerToActivate /\ LowerLayersClosed /\ LayersInOrder
    BY <1>2, <2>1, <2>2, GraphAssumption DEF LayerToActivate, LowerLayersClosed, LayersInOrder
  <2> QED
    BY <2>3, <2>4 DEF SourcesSound
<1> QED
  BY <1>1, <1>3, <1>5, <1>6 DEF Inv

-----------------------------------------------------------------------------
(* What the invariant says of every run. *)

LEMMA InvAlways == Spec => []Inv
<1>1. Init => Inv
  BY InitInv
<1>2. Inv /\ [Next]_vars => Inv'
  BY StepKeepsInv, StutterKeepsInv
<1> QED
  BY <1>1, <1>2, PTL DEF Spec

\* Every variable of the scheduler keeps its type: no count of a queue goes below
\* zero, and inFlight stays a flag, whatever the threads do.
THEOREM TypeCorrect == Spec => []TypeOK
<1>1. Inv => TypeOK
  BY DEF Inv
<1> QED
  BY <1>1, InvAlways, PTL

\* HandleIdle starts a source only when every source of a lower layer is closed,
\* for all threads that may find the graph idle and all orders of opening.
THEOREM LayersKeepOrder == Spec => []LayersInOrder
<1>1. Inv => LayersInOrder
  BY DEF Inv, SourcesSound
<1> QED
  BY <1>1, InvAlways, PTL

LEMMA InvChecksHold ==
  ASSUME Inv
  PROVE  ChecksHold
<1>1. RunningCountAtMostOne
  <2>1. RunningExact
    BY DEF Inv, HandlingSound
  <2>2. Going \in 0 .. 1 /\ Held \in 0 .. 1
    BY DEF Going, Held
  <2> QED
    BY <2>1, <2>2 DEF RunningExact, RunningCountAtMostOne
<1>2. OneHandlerOfIdle
  <2> DEFINE H == {t \in Threads : HandlingIdle(t)}
  <2>1. \A t, u \in Threads : Handles(t) /\ Handles(u) => t = u
    BY DEF Inv, HandlingSound, HandlerAlone
  <2>2. \A t \in Threads : HandlingIdle(t) => Handles(t)
    BY DEF HandlingIdle, Inside, Range1, Handles, Has, On, HandlerLabels, Turn
  <2>3. H = {} \/ \E t \in Threads : H = {t}
    BY <2>1, <2>2
  <2>4. Cardinality(H) = 0 \/ Cardinality(H) = 1
    BY <2>3, FS_EmptySet, FS_Singleton
  <2> QED
    BY <2>4 DEF OneHandlerOfIdle
<1>3. TasksFindItems
  <2>1. SUFFICES ASSUME NEW q \in Queues
                 PROVE  executor[q] <= Cardinality(sq[q].items)
    BY DEF TasksFindItems
  <2>2. /\ IsFiniteSet(TasksHeld(stack, q))
        /\ Cardinality(sq[q].items)
             = executor[q] + sq[q].toAdd + Cardinality(TasksHeld(stack, q))
    BY DEF Inv, TasksCounted
  <2>3. Cardinality(TasksHeld(stack, q)) \in Nat
    BY <2>2, FS_CardinalityType
  <2>4. executor[q] \in Nat /\ sq[q].toAdd \in Nat
    BY DEF Inv, TypeOK, QueueState
  <2> QED
    BY <2>2, <2>3, <2>4
<1>4. ClosedNodeNotScheduled
  <2>1. NodesSound /\ TypeOK /\ StacksOK
    BY DEF Inv
  <2>2. ASSUME NEW q \in Queues, NEW i \in sq[q].items
        PROVE  status[i.node] # "Closed"
    <3>1. /\ i.node \in Nodes /\ QueueOf[i.node] = q
          /\ i = OpenItem(i.node) \/ i = RunItem(i.node)
      BY <2>1 DEF TypeOK, QueueState, NodesSound, ItemsPlaced, OpenItem, RunItem
    <3>2. OpenQueued(i.node) \/ RunQueued(i.node)
      BY <3>1 DEF OpenQueued, RunQueued
    <3> QED
      BY <2>1, <3>1, <3>2 DEF NodesSound, OpeningsPrepared, FliesWhenOpen
  <2>3. ASSUME NEW t \in Threads, At(t, "push")
        PROVE  status[Top(t).item.node] # "Closed"
    <3>1. /\ Top(t) \in On(stack[t]) /\ Top(t) \in Frames /\ Top(t).at = "push"
          /\ Top(t).item \in Item
      BY <2>1, <2>3, OnTop, FrameFields DEF At
    <3>2. PICK n \in Nodes : Top(t).item.node = n
      BY <3>1 DEF Item
    <3>3. Opens(Top(t), n) \/ Runs(Top(t), n)
      BY <3>1, <3>2 DEF Opens, Runs, OpenItem, Item
    <3> QED
      BY <2>1, <3>1, <3>2, <3>3 DEF NodesSound, OpeningsPrepared, FliesWhenOpen
  <2> QED
    BY <2>2, <2>3 DEF ClosedNodeNotScheduled
<1> QED
  BY <1>1, <1>2, <1>3, <1>4 DEF ChecksHold

\* The CHECKs and DCHECKs of the scheduler and its queues never fail: SetRunning is
\* balanced, one thread at most is in HandleIdle, a task always finds its item and a
\* closed node is in no queue.
THEOREM ChecksNeverFail == Spec => []ChecksHold
  BY InvChecksHold, InvAlways, PTL

-----------------------------------------------------------------------------
(* A graph that comes to rest.  RestsOnlyForInput speaks of states in which no
   thread does anything; it needs an invariant that says, of every state, who is
   still to do what is left to be done: a frame of some stack, or a queue that is
   not idle and will tell the scheduler when it is. *)

AllFrames == UNION {On(stack[t]) : t \in Threads}

HasAt(F, l) == \E f \in F : f.at = l
HasSubmit(F, q) == \E f \in F : f.at = "submit" /\ q \in f.qs
HasRun(F, n) == \E f \in F : Runs(f, n)
HasAsk(F, n) == \E f \in F : Asks(f, n)
HasMove(F, s) == \E f \in F : f.at = "toSourcesQueue" /\ f.node = s
HasLayer(F, j) == \E f \in F : f.at = "stopQueues" \/ (f.at = "activate" /\ f.i <= j)

\* The tasks that wait in a queue that runs are about to be submitted.
Submitted ==
  \A q \in Queues : sq[q].running > 0 /\ sq[q].toAdd > 0 => HasSubmit(AllFrames, q)

CancelledWithError == state_ = "CANCELLING" => has_error

\* A node that counts as scheduled is in its queue or in the hands of a thread.
FlightsFound ==
  \A n \in Nodes :
    inFlight[n] = 1 /\ status[n] # "Closed" => RunQueued(n) \/ HasRun(AllFrames, n)

\* A node with something to do is scheduled, or will be asked for.
Wants(n) ==
  IF n \in Sources THEN status[n] = "Active" /\ n \notin throttled
                   ELSE status[n] = "Opened" /\ ready[n] > 0
WantsMet ==
  \A n \in Nodes : Wants(n) => inFlight[n] = 1 \/ has_error \/ HasAsk(AllFrames, n)

\* A source that was opened is on its way to the sources queue, in it, or in the
\* layer that is about to be activated.
OpenedMoveOn ==
  /\ \A s \in unopened_sources_ : status[s] = "Opened" => HasMove(AllFrames, s)
  /\ \A j \in DOMAIN active_sources_ :
       status[active_sources_[j]] = "Opened" => HasLayer(AllFrames, j)

\* non_idle_queue_count_ is what the queues have reported: it is behind by the calls
\* of QueueIdleStateChanged that are under way.
Telling(st, l) == {t \in Threads : HasAt(On(st[t]), l)}
NonIdle(queues) == {q \in Queues : ~(queues[q].items = {} /\ queues[q].pending = 0)}
CountExact ==
  non_idle_queue_count_ =
    Cardinality(NonIdle(sq)) - Cardinality(Telling(stack, "callFalse"))
    + Cardinality(Telling(stack, "callTrue"))

\* As long as one of these holds, some thread will call HandleIdle.
Busy == NonIdle(sq) # {} \/ HasAt(AllFrames, "callFalse") \/ HasAt(AllFrames, "callTrue")
\* The loop of HandleIdle will take another turn.
Will == \/ handling_idle_ > 1 \/ HasAt(AllFrames, "handleIdle")
        \/ HasAt(AllFrames, "unthrottle") /\ throttled # {}
NothingToDo ==
  /\ ~has_error /\ ~graph_input_streams_closed_ /\ sources_queue_ = {}
  /\ \A s \in Sources : status[s] # "Active"
Awake == Going = 1 /\ ~Busy /\ ~Will => NothingToDo

RestInv ==
  /\ Submitted /\ CancelledWithError /\ FlightsFound /\ WantsMet /\ OpenedMoveOn
  /\ CountExact /\ Awake

-----------------------------------------------------------------------------
(* What a step hands on of what its frames had to do. *)

LEMMA FramesMove ==
  ASSUME NEW t \in Threads, NEW gone, NEW come, Turns(t, gone, come)
  PROVE  /\ AllFrames \subseteq AllFrames' \cup gone
         /\ AllFrames' \subseteq AllFrames \cup come
         /\ come \subseteq AllFrames' /\ gone \subseteq AllFrames
<1>1. PICK R : /\ \A u \in Threads \ {t} : stack'[u] = stack[u]
               /\ On(stack[t]) = gone \cup R /\ On(stack'[t]) = come \cup R
  BY DEF Turns
<1>2. AllFrames' = UNION {On(stack'[u]) : u \in Threads}
  BY DEF AllFrames
<1>3. ASSUME NEW f \in AllFrames PROVE f \in AllFrames' \cup gone
  <2>1. PICK u \in Threads : f \in On(stack[u])
    BY DEF AllFrames
  <2>2. f \in On(stack'[u]) \/ f \in gone
    BY <1>1, <2>1
  <2> QED
    BY <1>2, <2>2
<1>4. ASSUME NEW f \in AllFrames' PROVE f \in AllFrames \cup come
  <2>1. PICK u \in Threads : f \in On(stack'[u])
    BY <1>2
  <2>2. f \in On(stack[u]) \/ f \in come
    BY <1>1, <2>1
  <2> QED
    BY <2>2 DEF AllFrames
<1>5. come \subseteq AllFrames' /\ gone \subseteq AllFrames
  BY <1>1, <1>2 DEF AllFrames
<1> QED
  BY <1>3, <1>4, <1>5

\* What has to be handed on, by kind.
SubmitsKept(F, G) == \A q \in Queues : HasSubmit(F, q) => HasSubmit(G, q)
RunsKept(F, G) == \A n \in Nodes : HasRun(F, n) => HasRun(G, n)
AsksKept(F, G) == \A n \in Nodes : HasAsk(F, n) => HasAsk(G, n)
MovesKept(F, G) == \A s \in Sources : HasMove(F, s) => HasMove(G, s)
LayerKept(F, G) == \A j \in Nat \ {0} : HasLayer(F, j) => HasLayer(G, j)
AllKept(F, G) ==
  SubmitsKept(F, G) /\ RunsKept(F, G) /\ AsksKept(F, G) /\ MovesKept(F, G) /\ LayerKept(F, G)

LEMMA HandsOn ==
  ASSUME NEW t \in Threads, NEW gone, NEW come, Turns(t, gone, come)
  PROVE  /\ SubmitsKept(gone, come) => SubmitsKept(AllFrames, AllFrames')
         /\ RunsKept(gone, come) => RunsKept(AllFrames, AllFrames')
         /\ AsksKept(gone, come) => AsksKept(AllFrames, AllFrames')
         /\ MovesKept(gone, come) => MovesKept(AllFrames, AllFrames')
         /\ LayerKept(gone, come) => LayerKept(AllFrames, AllFrames')
<1>1. PICK F, G : F = AllFrames /\ G = AllFrames'
  OBVIOUS
<1>2. F \subseteq G \cup gone /\ come \subseteq G
  BY <1>1, FramesMove
<1>3. SubmitsKept(gone, come) => SubmitsKept(F, G)
  BY <1>2 DEF SubmitsKept, HasSubmit
<1>4. RunsKept(gone, come) => RunsKept(F, G)
  BY <1>2 DEF RunsKept, HasRun
<1>5. AsksKept(gone, come) => AsksKept(F, G)
  BY <1>2 DEF AsksKept, HasAsk
<1>6. MovesKept(gone, come) => MovesKept(F, G)
  BY <1>2 DEF MovesKept, HasMove
<1>7. LayerKept(gone, come) => LayerKept(F, G)
  BY <1>2 DEF LayerKept, HasLayer
<1> QED
  BY <1>1, <1>3, <1>4, <1>5, <1>6, <1>7

LEMMA HandsOnAll ==
  ASSUME NEW t \in Threads, NEW gone, NEW come, Turns(t, gone, come), AllKept(gone, come)
  PROVE  AllKept(AllFrames, AllFrames')
  BY HandsOn DEF AllKept

\* Frames at these places have nothing to hand on.
FreeLabels == {"handleIdle", "unthrottle", "endOfTurn", "lock", "startQueues", "callTrue",
               "addedPacket", "closedAll", "stopSources", "open", "opened", "finish"}
LEMMA NothingOwed ==
  ASSUME NEW gone, NEW come, \A f \in gone : f.at \in FreeLabels
  PROVE  AllKept(gone, come)
<1>1. /\ \A q : ~HasSubmit(gone, q)
      /\ \A n : ~HasRun(gone, n) /\ ~HasAsk(gone, n) /\ ~HasMove(gone, n)
  BY DEF FreeLabels, HasSubmit, HasRun, HasAsk, HasMove, Runs, Asks, AddLabels, TaskLabels
<1>2. \A j : ~HasLayer(gone, j)
  BY DEF FreeLabels, HasLayer
<1> QED
  BY <1>1, <1>2 DEF AllKept, SubmitsKept, RunsKept, AsksKept, MovesKept, LayerKept

\* A node goes on from run to close or end.
LEMMA RunGoesOn ==
  ASSUME NEW g, g.at \in {"run", "close"}, NEW h, h.at \in {"close", "end"}, h.node = g.node,
         NEW gone, gone = {g}, NEW come, h \in come
  PROVE  AllKept(gone, come)
<1>1. /\ \A q : ~HasSubmit(gone, q)
      /\ \A n : ~HasAsk(gone, n) /\ ~HasMove(gone, n)
  BY DEF HasSubmit, HasAsk, HasMove, Asks, AddLabels, TaskLabels
<1>2. \A j : ~HasLayer(gone, j)
  BY DEF HasLayer
<1>3. \A n : HasRun(gone, n) => HasRun(come, n)
  BY DEF HasRun, Runs
<1> QED
  BY <1>1, <1>2, <1>3 DEF AllKept, SubmitsKept, RunsKept, AsksKept, MovesKept, LayerKept

\* The items that a frame has to add stay to be added.
LEMMA AddsGoOn ==
  ASSUME NEW g \in Frames, g.at \in AddLabels, NEW gone, gone = {g}, NEW come,
         \/ \E f \in come : f.at \in AddLabels /\ f.todo = g.todo
         \/ g.todo = {}
  PROVE  /\ SubmitsKept(gone, come) /\ AsksKept(gone, come)
         /\ MovesKept(gone, come) /\ LayerKept(gone, come)
         /\ g.at # "push" => RunsKept(gone, come)
<1>1. /\ \A q : ~HasSubmit(gone, q)
      /\ \A s : ~HasMove(gone, s)
      /\ g.at # "push" => \A n : ~HasRun(gone, n)
  BY DEF HasSubmit, HasRun, HasMove, Runs, AddLabels, TaskLabels
<1>2. \A j : ~HasLayer(gone, j)
  BY DEF HasLayer, AddLabels, TaskLabels
<1>3. \A n : HasAsk(gone, n) => HasAsk(come, n)
  BY DEF HasAsk, Asks
<1> QED
  BY <1>1, <1>2, <1>3 DEF SubmitsKept, RunsKept, AsksKept, MovesKept, LayerKept

LEMMA EntersKept ==
  ASSUME NEW t \in Threads, NEW gone, NEW come, Enters(t, gone, come), AllKept(gone, come)
  PROVE  AllKept(AllFrames, AllFrames')
<1>1. PICK new : new = come \cup {Frame("handleIdle")}
  OBVIOUS
<1>2. Turns(t, gone, come) \/ Turns(t, gone, new)
  BY <1>1 DEF Enters
<1>3. AllKept(gone, new)
  BY <1>1 DEF AllKept, SubmitsKept, RunsKept, AsksKept, MovesKept, LayerKept,
              HasSubmit, HasRun, HasAsk, HasMove, HasLayer
<1> QED
  BY <1>2, <1>3, HandsOnAll

LEMMA CallsHandOn ==
  ASSUME Core, NEW t \in Threads, AddTasks(t) \/ CallIdleFalse(t) \/ CallIdleTrue(t)
  PROVE  AllKept(AllFrames, AllFrames')
<1>0. PICK gone : gone = {Top(t)}
  OBVIOUS
<1>1. CASE AddTasks(t)
  <2>1. /\ Top(t) \in Frames /\ Top(t).at = "addTask" /\ Top(t).todo \in SUBSET Item
        /\ Turns(t, {Top(t)}, AddSet(Top(t).todo))
    BY <1>1, AddTasksTurns
  <2>2. PICK come : come = AddSet(Top(t).todo)
    OBVIOUS
  <2>3. (\E f \in come : f.at \in AddLabels /\ f.todo = Top(t).todo) \/ Top(t).todo = {}
    BY <2>1, <2>2, FramesMade DEF AddSet, AddLabels
  <2>4. AllKept(gone, come)
    BY <1>0, <2>1, <2>3, AddsGoOn DEF AllKept, AddLabels, TaskLabels
  <2> QED
    BY <1>0, <2>1, <2>2, <2>4, HandsOnAll
<1>2. CASE CallIdleFalse(t)
  <2>1. /\ Top(t) \in Frames /\ Top(t).at = "callFalse"
        /\ \E f : /\ f.at = "addTask" /\ f.todo = Top(t).todo
                  /\ Tells(t, 1, {Top(t)}, {f})
    BY <1>2, CallIdleFalseTurns
  <2>2. PICK f : /\ f.at = "addTask" /\ f.todo = Top(t).todo
                 /\ Tells(t, 1, {Top(t)}, {f})
    BY <2>1
  <2>3. PICK come : come = {f}
    OBVIOUS
  <2>4. AllKept(gone, come)
    BY <1>0, <2>1, <2>2, <2>3, AddsGoOn DEF AllKept, AddLabels, TaskLabels
  <2>5. Enters(t, gone, come) \/ Turns(t, gone, come)
    BY <1>0, <2>2, <2>3 DEF Tells
  <2> QED
    BY <2>4, <2>5, EntersKept, HandsOnAll
<1>3. CASE CallIdleTrue(t)
  <2>1. Top(t).at = "callTrue" /\ Tells(t, -1, {Top(t)}, {})
    BY <1>3, CallIdleTrueTurns
  <2>2. PICK come : come = {}
    OBVIOUS
  <2>3. AllKept(gone, come)
    BY <1>0, <2>1, NothingOwed DEF FreeLabels
  <2>4. Enters(t, gone, come) \/ Turns(t, gone, come)
    BY <1>0, <2>1, <2>2 DEF Tells
  <2> QED
    BY <2>3, <2>4, EntersKept, HandsOnAll
<1> QED
  BY <1>1, <1>2, <1>3

LEMMA TopIsFree ==
  ASSUME Core, NEW t \in Threads, NEW come, Turns(t, {Top(t)}, come), Top(t).at \in FreeLabels
  PROVE  AllKept(AllFrames, AllFrames')
<1>1. PICK gone : gone = {Top(t)}
  OBVIOUS
<1>2. AllKept(gone, come)
  BY <1>1, NothingOwed
<1> QED
  BY <1>1, <1>2, HandsOnAll

LEMMA SameFrames ==
  ASSUME stack' = stack
  PROVE  AllFrames' = AllFrames /\ AllKept(AllFrames, AllFrames')
<1>1. AllFrames' = AllFrames
  BY DEF AllFrames
<1> QED
  BY <1>1 DEF AllKept, SubmitsKept, RunsKept, AsksKept, MovesKept, LayerKept

LEMMA HandlerHandsOn ==
  ASSUME Core, NEW t \in Threads, HandleIdle(t), ~ActivateNode(t)
  PROVE  AllKept(AllFrames, AllFrames')
<1>1. CASE HandleIdleNotIdle(t) \/ HandleIdleQuit(t)
  <2>1. At(t, "handleIdle") /\ LeaveHandleIdle(t)
    BY <1>1 DEF HandleIdleNotIdle, HandleIdleQuit, InHandleIdle
  <2>2. Turns(t, {Top(t)}, {}) /\ Top(t).at \in FreeLabels
    BY <2>1, LeaveHandleIdleTurns DEF At, FreeLabels
  <2> QED
    BY <2>2, TopIsFree
<1>2. CASE HandleIdleBlocked(t)
  BY <1>2, SameFrames DEF HandleIdleBlocked
<1>3. CASE HandleIdleNextLayer(t)
  <2>1. Top(t).at = "handleIdle" /\ Turns(t, {Top(t)}, {Frame("stopQueues"), Frame("lock"), Top(t)})
    BY <1>3, NextLayerTurns
  <2> QED
    BY <2>1, TopIsFree DEF FreeLabels
<1>4. CASE StopQueuesForLayer(t)
  <2>1. /\ Top(t).at = "stopQueues" /\ ActivateFrame(1) \in Frames
        /\ Turns(t, {Top(t)}, {ActivateFrame(1)})
    BY <1>4, StopQueuesTurns
  <2>2. ActivateFrame(1).at = "activate" /\ ActivateFrame(1).i = 1
    BY FramesMade
  <2>3. PICK gone, f, come : gone = {Top(t)} /\ f = ActivateFrame(1) /\ come = {f}
    OBVIOUS
  <2>4. LayerKept(gone, come)
    BY <2>2, <2>3 DEF LayerKept, HasLayer
  <2>5. SubmitsKept(gone, come) /\ RunsKept(gone, come) /\ AsksKept(gone, come) /\ MovesKept(gone, come)
    BY <2>1, <2>3 DEF SubmitsKept, RunsKept, AsksKept, MovesKept, HasSubmit, HasRun, HasAsk, HasMove,
                      Runs, Asks, AddLabels, TaskLabels
  <2> QED
    BY <2>1, <2>3, <2>4, <2>5, HandsOnAll DEF AllKept
<1>5. CASE StartQueuesForLayer(t)
  <2>1. Top(t).at = "startQueues" /\ Turns(t, {Top(t)}, SubmitSet(Queues))
    BY <1>5, StartQueuesTurns
  <2> QED
    BY <2>1, TopIsFree DEF FreeLabels
<1>6. CASE LockStateMutex(t)
  <2>1. Top(t).at = "lock" /\ Turns(t, {Top(t)}, {})
    BY <1>6, LockTurns
  <2> QED
    BY <2>1, TopIsFree DEF FreeLabels
<1>7. CASE HandleIdleUnthrottle(t) \/ UnthrottleSources(t)
  <2>1. PICK come : Turns(t, {Top(t)}, come) /\ Top(t).at \in {"handleIdle", "unthrottle"}
    BY <1>7, UnthrottleTurns, UnthrottleSourcesTurns
  <2> QED
    BY <2>1, TopIsFree DEF FreeLabels
<1>8. CASE HandleIdleEndOfTurn(t)
  <2>1. /\ Top(t).at \in Turn
        /\ Turns(t, {Top(t)}, {}) \/ Turns(t, {Top(t)}, {Frame("handleIdle")})
    BY <1>8, EndOfTurnTurns
  <2> QED
    BY <2>1, TopIsFree DEF FreeLabels, Turn
<1> QED
  BY <1>1, <1>2, <1>3, <1>4, <1>5, <1>6, <1>7, <1>8 DEF HandleIdle

LEMMA AppHandsOn ==
  ASSUME Core, NEW a \in AppThreads, Start(a) \/ AppReturn(a) \/ App(a)
  PROVE  AllKept(AllFrames, AllFrames')
<1>0. PICK gone : gone = {}
  OBVIOUS
<1>1. CASE Start(a) \/ Resume(a) \/ Cancel(a)
  <2>1. a \in Threads /\ Enters(a, gone, {SubmitFrame(Queues)})
    BY <1>0, <1>1, StartTurns
  <2>2. AllKept(gone, {SubmitFrame(Queues)})
    BY <1>0, NothingOwed
  <2> QED
    BY <2>1, <2>2, EntersKept
<1>2. CASE AppReturn(a)
  <2>1. /\ a \in Threads /\ Top(a).at \in {"addedPacket", "closedAll", "stopSources"}
        /\ Enters(a, {Top(a)}, {}) \/ Turns(a, {Top(a)}, {})
    BY <1>2, AppReturnTurns
  <2>2. PICK g, c : g = {Top(a)} /\ c = {}
    OBVIOUS
  <2>3. AllKept(g, c)
    BY <2>1, <2>2, NothingOwed DEF FreeLabels
  <2> QED
    BY <2>1, <2>2, <2>3, EntersKept, HandsOnAll
<1>3. ASSUME NEW n \in InputNodes, AddPacket(a, n) PROVE AllKept(AllFrames, AllFrames')
  <2>1. PICK come : a \in Threads /\ Turns(a, {}, come)
    BY <1>3, AddPacketTurns
  <2>2. AllKept({}, come)
    BY NothingOwed
  <2> QED
    BY <2>1, <2>2, HandsOnAll
<1>4. ASSUME NEW kind, CloseAllInputs(a, kind) PROVE AllKept(AllFrames, AllFrames')
  <2>1. PICK come : a \in Threads /\ Turns(a, {}, come)
    BY <1>4, CloseAllInputsTurns
  <2>2. AllKept({}, come)
    BY NothingOwed
  <2> QED
    BY <2>1, <2>2, HandsOnAll
<1>5. CASE Pause(a)
  BY <1>5, SameFrames DEF Pause
<1> QED
  BY <1>1, <1>2, <1>3, <1>4, <1>5 DEF App

\* A worker that runs or closes a node goes on with it.
LEMMA RunHandsOn ==
  ASSUME Core, NEW w \in Threads, Top(w).at \in {"run", "close"},
         NEW k \in {"close", "end"}, NEW A, Turns(w, {Top(w)}, A \cup {NodeFrame(k, Top(w).node)})
  PROVE  AllKept(AllFrames, AllFrames')
<1>1. PICK g, h, gone, come : /\ g = Top(w) /\ h = NodeFrame(k, Top(w).node)
                              /\ gone = {g} /\ come = A \cup {h}
  OBVIOUS
<1>2. h.at = k /\ h.node = g.node /\ h \in come
  BY <1>1 DEF NodeFrame
<1>3. AllKept(gone, come)
  BY <1>1, <1>2, RunGoesOn
<1> QED
  BY <1>1, <1>3, HandsOnAll

LEMMA TaskHandsOn ==
  ASSUME Core, NEW w \in Workers, Task(w), ~EndScheduling(w), ~AddNodeToSourcesQueue(w)
  PROVE  AllKept(AllFrames, AllFrames')
<1>0. w \in Threads
  BY DEF Threads
<1>1. CASE \E q \in Queues : TakeTask(w, q)
  <2>1. PICK come : Turns(w, {}, come)
    BY <1>1, TakeTaskTurns
  <2>2. AllKept({}, come)
    BY NothingOwed
  <2> QED
    BY <1>0, <2>1, <2>2, HandsOnAll
<1>2. CASE OpenNode(w) \/ NodeOpened(w) \/ FinishTask(w)
  <2>1. PICK come : Turns(w, {Top(w)}, come) /\ Top(w).at \in {"open", "opened", "finish"}
    BY <1>2, OpenNodeTurns, NodeOpenedTurns, FinishTaskTurns
  <2> QED
    BY <1>0, <2>1, TopIsFree DEF FreeLabels
<1>3. CASE MarkClosed(w)
  <2>1. Top(w).at = "close" /\ Turns(w, {Top(w)}, {} \cup {NodeFrame("end", Top(w).node)})
    BY <1>3, MarkClosedTurns
  <2> QED
    BY <1>0, <2>1, RunHandsOn
<1>4. ASSUME NEW n \in Nodes,
             \/ SourceEmits(w, n) \/ SourceCloses(w, n) \/ NodeProcesses(w, n)
             \/ ProcessFails(w, n) \/ ProcessStops(w, n)
             \/ OpenFails(w, n) \/ CloseFails(w, n)
      PROVE  AllKept(AllFrames, AllFrames')
  <2>1. CASE SourceEmits(w, n) \/ SourceCloses(w, n)
    <3>1. PICK k \in {"end", "close"} : \/ k = "end" /\ SourceEmits(w, n)
                                        \/ k = "close" /\ SourceCloses(w, n)
      BY <2>1
    <3>2. /\ Top(w).at = "run" /\ Top(w).node = n
          /\ Turns(w, {Top(w)}, AddSet(Items("run", Downstream[n])) \cup {NodeFrame(k, n)})
      BY <3>1, SourceRunsTurns
    <3> QED
      BY <1>0, <3>2, RunHandsOn
  <2>2. CASE NodeProcesses(w, n)
    <3>1. PICK A : /\ Top(w).at = "run" /\ Top(w).node = n
                   /\ Turns(w, {Top(w)}, A \cup {NodeFrame("end", n)})
      BY <2>2, NodeProcessesTurns
    <3> QED
      BY <1>0, <3>1, RunHandsOn
  <2>3. CASE ProcessFails(w, n) \/ ProcessStops(w, n)
    <3>1. /\ Top(w).at = "run" /\ Top(w).node = n
          /\ Turns(w, {Top(w)}, {} \cup {NodeFrame("end", n)})
      BY <2>3, FailsOrStopsTurns
    <3> QED
      BY <1>0, <3>1, RunHandsOn
  <2>4. CASE OpenFails(w, n)
    <3>1. PICK come : Turns(w, {Top(w)}, come) /\ Top(w).at = "open"
      BY <2>4, OpenFailsTurns
    <3> QED
      BY <1>0, <3>1, TopIsFree DEF FreeLabels
  <2>5. CASE CloseFails(w, n)
    BY <2>5, SameFrames DEF CloseFails
  <2> QED
    BY <1>4, <2>1, <2>2, <2>3, <2>4, <2>5
<1> QED
  BY <1>1, <1>2, <1>3, <1>4 DEF Task

\* A node that ends its run is asked for once more, unless it is closed.
LEMMA EndHandsOn ==
  ASSUME Core, NEW w \in Workers, EndScheduling(w)
  PROVE  /\ SubmitsKept(AllFrames, AllFrames') /\ AsksKept(AllFrames, AllFrames')
         /\ MovesKept(AllFrames, AllFrames') /\ LayerKept(AllFrames, AllFrames')
         /\ \A n \in Nodes : HasRun(AllFrames, n) => HasRun(AllFrames', n) \/ n = Top(w).node
         /\ status[Top(w).node] # "Closed" => HasAsk(AllFrames', Top(w).node)
<1>0. w \in Threads
  BY DEF Threads
<1>1. PICK g, n, gone, F, G : /\ g = Top(w) /\ n = g.node /\ gone = {g}
                              /\ F = AllFrames /\ G = AllFrames'
  OBVIOUS
<1>2. PICK come :
        /\ g.at = "end" /\ n \in Nodes /\ Turns(w, gone, come)
        /\ status[n] # "Closed" => AddSet(Items("run", {n})) \subseteq come
  <2>1. /\ g.at = "end" /\ n \in Nodes
        /\ status[n] # "Closed" => Turns(w, gone, AddSet(Items("run", {n})) \cup {NodeFrame("finish", n)})
        /\ status[n] = "Closed" => Turns(w, gone, {NodeFrame("finish", n)})
    BY <1>1, EndSchedulingTurns
  <2> QED
    BY <2>1
<1>3. F \subseteq G \cup gone /\ come \subseteq G
  BY <1>0, <1>1, <1>2, FramesMove
<1>4. SubmitsKept(gone, come) /\ AsksKept(gone, come) /\ MovesKept(gone, come) /\ LayerKept(gone, come)
  BY <1>1, <1>2 DEF SubmitsKept, AsksKept, MovesKept, LayerKept, HasSubmit, HasAsk, HasMove,
                    HasLayer, Asks, AddLabels, TaskLabels
<1>5. \A m \in Nodes : HasRun(F, m) => HasRun(G, m) \/ m = n
  BY <1>1, <1>2, <1>3 DEF HasRun, Runs
<1>6. ASSUME status[n] # "Closed" PROVE HasAsk(G, n)
  <2>1. [node |-> n, kind |-> "run"] \in Items("run", {n}) /\ Items("run", {n}) \in SUBSET Item
    BY <1>2, ItemsKinds
  <2>2. AddFrame(Items("run", {n})) \in come
    BY <1>2, <1>6, <2>1 DEF AddSet
  <2>3. Asks(AddFrame(Items("run", {n})), n)
    BY <2>1 DEF Asks, AddFrame, AddLabels
  <2> QED
    BY <1>3, <2>2, <2>3 DEF HasAsk
<1> QED
  BY <1>0, <1>1, <1>2, <1>4, <1>5, <1>6, HandsOn

\* A source that was opened has gone to the sources queue.
LEMMA MoveHandsOn ==
  ASSUME Core, NEW w \in Workers, AddNodeToSourcesQueue(w)
  PROVE  /\ SubmitsKept(AllFrames, AllFrames') /\ RunsKept(AllFrames, AllFrames')
         /\ AsksKept(AllFrames, AllFrames') /\ LayerKept(AllFrames, AllFrames')
         /\ \A s \in Sources : HasMove(AllFrames, s) => HasMove(AllFrames', s) \/ s = Top(w).node
<1>0. w \in Threads
  BY DEF Threads
<1>1. PICK g, gone, F, G : g = Top(w) /\ gone = {g} /\ F = AllFrames /\ G = AllFrames'
  OBVIOUS
<1>2. PICK come : g.at = "toSourcesQueue" /\ Turns(w, gone, come)
  BY <1>1, ToSourcesQueueTurns
<1>3. F \subseteq G \cup gone
  BY <1>0, <1>1, <1>2, FramesMove
<1>4. SubmitsKept(gone, come) /\ RunsKept(gone, come) /\ AsksKept(gone, come) /\ LayerKept(gone, come)
  BY <1>1, <1>2 DEF SubmitsKept, RunsKept, AsksKept, LayerKept, HasSubmit, HasRun, HasAsk,
                    HasLayer, Runs, Asks, AddLabels, TaskLabels
<1>5. \A s \in Sources : HasMove(F, s) => HasMove(G, s) \/ s = g.node
  BY <1>1, <1>3 DEF HasMove
<1> QED
  BY <1>0, <1>1, <1>2, <1>4, <1>5, HandsOn

LEMMA PushHandsOn ==
  ASSUME Core, NEW t \in Threads, PushItem(t)
  PROVE  /\ SubmitsKept(AllFrames, AllFrames') /\ AsksKept(AllFrames, AllFrames')
         /\ MovesKept(AllFrames, AllFrames') /\ LayerKept(AllFrames, AllFrames')
         /\ \A n \in Nodes : HasRun(AllFrames, n) =>
              HasRun(AllFrames', n) \/ (n = Top(t).item.node /\ Top(t).item.kind # "open")
<1>1. PICK g, gone, F, G : g = Top(t) /\ gone = {g} /\ F = AllFrames /\ G = AllFrames'
  OBVIOUS
<1>2. PICK f \in Frames : /\ g \in Frames /\ g.at = "push" /\ f.at \in TaskLabels
                          /\ f.todo = g.todo /\ Turns(t, gone, {f})
  BY <1>1, PushItemTurns DEF TaskLabels
<1>3. PICK come : come = {f}
  OBVIOUS
<1>4. F \subseteq G \cup gone
  BY <1>1, <1>2, FramesMove
<1>5. SubmitsKept(gone, come) /\ AsksKept(gone, come) /\ MovesKept(gone, come) /\ LayerKept(gone, come)
  BY <1>1, <1>2, <1>3, AddsGoOn DEF AddLabels
<1>6. \A n \in Nodes : HasRun(F, n) => HasRun(G, n) \/ (n = g.item.node /\ g.item.kind # "open")
  BY <1>1, <1>2, <1>4 DEF HasRun, Runs
<1> QED
  BY <1>1, <1>2, <1>3, <1>5, <1>6, HandsOn

\* A node that is asked for is pushed if it is wanted, as TryAddNode says.
Asked(i) ==
  /\ i.kind # "open" /\ IsReady(i.node) /\ inFlight[i.node] = 0
  /\ i.kind = "run" => i.node \notin throttled

LEMMA TryHandsOn ==
  ASSUME Core, NEW t \in Threads, TryAddNode(t)
  PROVE  /\ SubmitsKept(AllFrames, AllFrames') /\ RunsKept(AllFrames, AllFrames')
         /\ MovesKept(AllFrames, AllFrames') /\ LayerKept(AllFrames, AllFrames')
         /\ \E i \in Item :
              /\ \A n \in Nodes : HasAsk(AllFrames, n) =>
                   HasAsk(AllFrames', n) \/ (n = i.node /\ i.kind # "open")
              /\ Asked(i) /\ ~has_error =>
                   inFlight' = [inFlight EXCEPT ![i.node] = 1] /\ HasRun(AllFrames', i.node)
              /\ ~(Asked(i) /\ ~has_error) => inFlight' = inFlight
              /\ ready' = ready \/ ready' = [ready EXCEPT ![i.node] = @ - 1]
<1>1. PICK g, gone, F, G : g = Top(t) /\ gone = {g} /\ F = AllFrames /\ G = AllFrames'
  OBVIOUS
<1>2. PICK i \in g.todo :
        LET rest == g.todo \ {i}
            n == i.node
            wanted == \/ i.kind = "open"
                      \/ /\ IsReady(n) /\ inFlight[n] = 0
                         /\ i.kind = "run" => n \notin throttled
        IN  /\ IF wanted /\ ~has_error THEN Turns(t, {g}, {PushFrame(rest, i)})
                                       ELSE Turns(t, {g}, AddSet(rest))
            /\ inFlight' = [inFlight EXCEPT ![n] =
                              IF wanted /\ i.kind # "open" /\ ~has_error THEN 1 ELSE @]
            /\ ready' = [ready EXCEPT ![n] =
                           IF wanted /\ i.kind # "open" /\ n \notin Sources THEN @ - 1 ELSE @]
  BY <1>1, TryAddNodeTurns
<1>3. g \in Frames /\ g.at = "add" /\ g.todo \in SUBSET Item /\ i \in Item
  BY <1>1, <1>2, TryAddNodeTurns, FrameFields DEF AddLabels
<1>4. PICK rest : rest = g.todo \ {i} /\ rest \in SUBSET Item
  BY <1>3
<1>5. PICK wanted \in BOOLEAN :
        wanted = (\/ i.kind = "open"
                  \/ /\ IsReady(i.node) /\ inFlight[i.node] = 0
                     /\ i.kind = "run" => i.node \notin throttled)
  OBVIOUS
<1>6. /\ wanted /\ ~has_error => Turns(t, gone, {PushFrame(rest, i)})
      /\ ~(wanted /\ ~has_error) => Turns(t, gone, AddSet(rest))
  BY <1>1, <1>2, <1>4, <1>5
<1>7. PICK come : /\ Turns(t, gone, come)
                  /\ wanted /\ ~has_error => come = {PushFrame(rest, i)}
                  /\ ~(wanted /\ ~has_error) => come = AddSet(rest)
  BY <1>6
<1>8. F \subseteq G \cup gone /\ come \subseteq G
  BY <1>1, <1>7, FramesMove
<1>9. rest = {} \/ \E f \in come : f.at \in AddLabels /\ f.todo = rest
  BY <1>4, <1>7, <1>3, FramesMade DEF AddSet, AddLabels
<1>10. SubmitsKept(gone, come) /\ RunsKept(gone, come) /\ MovesKept(gone, come) /\ LayerKept(gone, come)
  BY <1>1, <1>3 DEF SubmitsKept, RunsKept, MovesKept, LayerKept, HasSubmit, HasRun, HasMove,
                    HasLayer, Runs
<1>11. ASSUME NEW n \in Nodes, HasAsk(F, n) PROVE HasAsk(G, n) \/ (n = i.node /\ i.kind # "open")
  <2>1. PICK f \in F : Asks(f, n)
    BY <1>11 DEF HasAsk
  <2>2. CASE f \in G
    BY <2>1, <2>2 DEF HasAsk
  <2>3. CASE f = g
    <3>1. PICK j \in g.todo : j.node = n /\ j.kind # "open"
      BY <2>1, <2>3 DEF Asks
    <3>2. CASE j = i
      BY <3>1, <3>2
    <3>3. CASE j # i
      <4>1. j \in rest
        BY <1>4, <3>3
      <4>2. PICK h \in come : h.at \in AddLabels /\ h.todo = rest
        BY <1>9, <4>1
      <4>3. h \in G /\ Asks(h, n)
        BY <1>8, <3>1, <4>1, <4>2 DEF Asks
      <4> QED
        BY <4>3 DEF HasAsk
    <3> QED
      BY <3>2, <3>3
  <2> QED
    BY <1>1, <1>8, <2>1, <2>2, <2>3
<1>12. Asked(i) <=> wanted /\ i.kind # "open"
  BY <1>5 DEF Asked
<1>13. i.node \in Nodes
  BY <1>3 DEF Item
<1>14. ASSUME Asked(i), ~has_error
       PROVE  inFlight' = [inFlight EXCEPT ![i.node] = 1] /\ HasRun(G, i.node)
  <2>1. PushFrame(rest, i) \in G
    BY <1>7, <1>8, <1>12, <1>14
  <2>2. Runs(PushFrame(rest, i), i.node)
    BY <1>12, <1>14 DEF Runs, PushFrame
  <2> QED
    BY <1>2, <1>5, <1>12, <1>14, <2>1, <2>2 DEF HasRun
<1>15. ASSUME ~(Asked(i) /\ ~has_error) PROVE inFlight' = inFlight
  <2>1. inFlight' = [inFlight EXCEPT ![i.node] = inFlight[i.node]]
    BY <1>2, <1>5, <1>12, <1>15
  <2>2. inFlight \in [Nodes -> 0 .. 1]
    BY DEF Core, TypeOK
  <2> QED
    BY <2>1, <2>2
<1>16. ready' = ready \/ ready' = [ready EXCEPT ![i.node] = @ - 1]
  <2>1. CASE wanted /\ i.kind # "open" /\ i.node \notin Sources
    BY <1>2, <1>5, <2>1
  <2>2. CASE ~(wanted /\ i.kind # "open" /\ i.node \notin Sources)
    <3>1. ready' = [ready EXCEPT ![i.node] = ready[i.node]]
      BY <1>2, <1>5, <2>2
    <3>2. ready \in [Nodes -> Nat]
      BY DEF Core, TypeOK
    <3> QED
      BY <3>1, <3>2
  <2> QED
    BY <2>1, <2>2
<1>17. /\ SubmitsKept(F, G) /\ RunsKept(F, G) /\ MovesKept(F, G) /\ LayerKept(F, G)
  BY <1>1, <1>7, <1>10, HandsOn
<1> QED
  BY <1>1, <1>3, <1>11, <1>14, <1>15, <1>16, <1>17

LEMMA SubmitHandsOn ==
  ASSUME Core, NEW t \in Threads, SubmitWaitingTasks(t)
  PROVE  /\ RunsKept(AllFrames, AllFrames') /\ AsksKept(AllFrames, AllFrames')
         /\ MovesKept(AllFrames, AllFrames') /\ LayerKept(AllFrames, AllFrames')
         /\ \E q \in Queues :
              /\ IF sq[q].running > 0 THEN Submits(q) ELSE UNCHANGED queueVars
              /\ \A r \in Queues : HasSubmit(AllFrames, r) => HasSubmit(AllFrames', r) \/ r = q
<1>1. PICK g, gone, F, G : g = Top(t) /\ gone = {g} /\ F = AllFrames /\ G = AllFrames'
  OBVIOUS
<1>2. PICK q \in g.qs : /\ g.at = "submit" /\ g.qs \in SUBSET Queues /\ q \in Queues
                        /\ IF sq[q].running > 0 THEN Submits(q) ELSE UNCHANGED queueVars
                        /\ Turns(t, gone, SubmitSet(g.qs \ {q}))
  BY <1>1, SubmitWaitingTasksTurns
<1>3. PICK come : come = SubmitSet(g.qs \ {q})
  OBVIOUS
<1>4. F \subseteq G \cup gone /\ come \subseteq G
  BY <1>1, <1>2, <1>3, FramesMove
<1>5. RunsKept(gone, come) /\ AsksKept(gone, come) /\ MovesKept(gone, come) /\ LayerKept(gone, come)
  BY <1>1, <1>2 DEF RunsKept, AsksKept, MovesKept, LayerKept, HasRun, HasAsk, HasMove,
                    HasLayer, Runs, Asks, AddLabels, TaskLabels
<1>6. ASSUME NEW r \in Queues, HasSubmit(F, r) PROVE HasSubmit(G, r) \/ r = q
  <2>1. PICK f \in F : f.at = "submit" /\ r \in f.qs
    BY <1>6 DEF HasSubmit
  <2>2. CASE f \in G
    BY <2>1, <2>2 DEF HasSubmit
  <2>3. CASE f = g /\ r # q
    <3>1. SubmitFrame(g.qs \ {q}) \in G
      BY <1>3, <1>4, <2>1, <2>3 DEF SubmitSet
    <3>2. SubmitFrame(g.qs \ {q}).at = "submit" /\ r \in SubmitFrame(g.qs \ {q}).qs
      BY <2>1, <2>3 DEF SubmitFrame
    <3> QED
      BY <3>1, <3>2 DEF HasSubmit
  <2> QED
    BY <1>1, <1>4, <2>2, <2>3
<1>7. RunsKept(F, G) /\ AsksKept(F, G) /\ MovesKept(F, G) /\ LayerKept(F, G)
  BY <1>1, <1>2, <1>3, <1>5, HandsOn
<1> QED
  BY <1>1, <1>2, <1>6, <1>7

LEMMA ActivateHandsOn ==
  ASSUME Core, NEW t \in Threads, ActivateNode(t)
  PROVE  /\ SubmitsKept(AllFrames, AllFrames') /\ RunsKept(AllFrames, AllFrames')
         /\ AsksKept(AllFrames, AllFrames') /\ MovesKept(AllFrames, AllFrames')
         /\ Top(t).i \in DOMAIN active_sources_ /\ active_sources_[Top(t).i] \in Sources
         /\ status' = [status EXCEPT ![active_sources_[Top(t).i]] = "Active"]
         /\ HasAsk(AllFrames', active_sources_[Top(t).i])
         /\ \A j \in DOMAIN active_sources_ :
              HasLayer(AllFrames, j) => HasLayer(AllFrames', j) \/ j = Top(t).i
<1>1. PICK g, gone, F, G, n : /\ g = Top(t) /\ gone = {g} /\ F = AllFrames /\ G = AllFrames'
                              /\ n = active_sources_[g.i]
  OBVIOUS
<1>2. PICK next : next = IF g.i = Len(active_sources_) THEN Frame("startQueues")
                                                       ELSE ActivateFrame(g.i + 1)
  OBVIOUS
<1>3. PICK ask : ask = AddFrame(Items("run", {n}))
  OBVIOUS
<1>4. /\ g.at = "activate" /\ g.i \in DOMAIN active_sources_ /\ n \in Sources /\ n \in Nodes
      /\ g.i \in Nat \ {0} /\ status' = [status EXCEPT ![n] = "Active"]
      /\ Turns(t, gone, {ask, next})
  BY <1>1, <1>2, <1>3, ActivateNodeTurns
<1>5. PICK come : come = {ask, next}
  OBVIOUS
<1>6. F \subseteq G \cup gone /\ come \subseteq G
  BY <1>1, <1>4, <1>5, FramesMove
<1>7. SubmitsKept(gone, come) /\ RunsKept(gone, come) /\ AsksKept(gone, come) /\ MovesKept(gone, come)
  BY <1>1, <1>4 DEF SubmitsKept, RunsKept, AsksKept, MovesKept, HasSubmit, HasRun, HasAsk, HasMove,
                    Runs, Asks, AddLabels, TaskLabels
<1>8. HasAsk(G, n)
  <2>1. [node |-> n, kind |-> "run"] \in Items("run", {n})
    BY <1>4, ItemsKinds
  <2>2. Asks(ask, n)
    BY <1>3, <2>1 DEF Asks, AddFrame, AddLabels
  <2> QED
    BY <1>5, <1>6, <2>2 DEF HasAsk
<1>9. ASSUME NEW j \in DOMAIN active_sources_, HasLayer(F, j) PROVE HasLayer(G, j) \/ j = g.i
  <2>1. /\ active_sources_ \in Seq(Sources) /\ DOMAIN active_sources_ = 1 .. Len(active_sources_)
        /\ Len(active_sources_) \in Nat
    BY LenProperties DEF Core, TypeOK
  <2>2. PICK f \in F : f.at = "stopQueues" \/ (f.at = "activate" /\ f.i <= j)
    BY <1>9 DEF HasLayer
  <2>3. CASE f \in G
    BY <2>2, <2>3 DEF HasLayer
  <2>4. CASE f = g /\ j # g.i
    <3>1. g.i + 1 <= j /\ g.i # Len(active_sources_)
      BY <1>4, <2>1, <2>2, <2>4
    <3>2. next.at = "activate" /\ next.i <= j
      BY <1>2, <3>1 DEF ActivateFrame
    <3> QED
      BY <1>5, <1>6, <3>2 DEF HasLayer
  <2> QED
    BY <1>1, <1>6, <2>3, <2>4
<1>10. SubmitsKept(F, G) /\ RunsKept(F, G) /\ AsksKept(F, G) /\ MovesKept(F, G)
  BY <1>1, <1>4, <1>5, <1>7, HandsOn
<1> QED
  BY <1>1, <1>4, <1>8, <1>9, <1>10

\* The other steps have nothing of what is left to do in hand, or hand it on.
LEMMA StepHandsOn ==
  ASSUME Core, Next
  PROVE  \/ AllKept(AllFrames, AllFrames')
         \/ \E t \in Threads :
              TryAddNode(t) \/ PushItem(t) \/ SubmitWaitingTasks(t) \/ ActivateNode(t)
         \/ \E w \in Workers : EndScheduling(w) \/ AddNodeToSourcesQueue(w)
<1>1. CASE \E w \in Workers : Task(w)
  BY <1>1, TaskHandsOn
<1>2. CASE \E t \in Threads : Shared(t)
  BY <1>2, CallsHandOn, HandlerHandsOn DEF Shared
<1>3. CASE \E a \in AppThreads : Start(a) \/ AppReturn(a) \/ App(a)
  BY <1>3, AppHandsOn
<1> QED
  BY <1>1, <1>2, <1>3 DEF Next

-----------------------------------------------------------------------------
(* The tasks that wait in a queue. *)

LEMMA SubmitsAll ==
  ASSUME NEW t \in Threads, NEW gone, NEW come, Turns(t, gone, come),
         SubmitFrame(Queues) \in come
  PROVE  \A q \in Queues : HasSubmit(AllFrames', q)
<1>1. PICK G : G = AllFrames'
  OBVIOUS
<1>2. SubmitFrame(Queues) \in G
  BY <1>1, FramesMove
<1>3. SubmitFrame(Queues).at = "submit" /\ SubmitFrame(Queues).qs = Queues
  BY DEF SubmitFrame
<1>4. \A q \in Queues : HasSubmit(G, q)
  BY <1>2, <1>3 DEF HasSubmit
<1> QED
  BY <1>1, <1>4

SameTasks ==
  \A q \in Queues : /\ sq'[q].items = sq[q].items /\ sq'[q].pending = sq[q].pending
                    /\ sq'[q].toAdd = sq[q].toAdd
NoneStarted == \A q \in Queues : sq'[q].running > 0 => sq[q].running > 0

LEMMA SameQueues ==
  ASSUME TypeOK, sq' = sq
  PROVE  SameTasks /\ NoneStarted
  BY DEF SameTasks, NoneStarted

LEMMA QueueSteps ==
  ASSUME Core, Next
  PROVE  \/ \E t \in Threads : PushItem(t) \/ SubmitWaitingTasks(t)
         \/ \E w \in Workers : FinishTask(w) \/ \E q \in Queues : TakeTask(w, q)
         \/ /\ SameTasks
            /\ NoneStarted \/ \A q \in Queues : HasSubmit(AllFrames', q)
<1>0. TypeOK
  BY DEF Core
<1>1. ASSUME SetQueuesRunning(-1) PROVE SameTasks /\ NoneStarted
  <2>1. \A q \in Queues : /\ sq'[q].items = sq[q].items /\ sq'[q].pending = sq[q].pending
                          /\ sq'[q].toAdd = sq[q].toAdd /\ sq'[q].running = sq[q].running + (-1)
                          /\ sq[q].running \in Int
    BY <1>0, <1>1, StartsQueues, QueueTyped
  <2>2. \A q \in Queues : sq'[q].running > 0 => sq[q].running > 0
    BY <2>1
  <2> QED
    BY <2>1, <2>2 DEF SameTasks, NoneStarted
<1>2. ASSUME SetQueuesRunning(1) PROVE SameTasks
  BY <1>0, <1>2, StartsQueues DEF SameTasks
<1>3. CASE \E w \in Workers : Task(w)
  <2>1. PICK w \in Workers : Task(w)
    BY <1>3
  <2>2. \/ sq' = sq \/ FinishTask(w) \/ \E q \in Queues : TakeTask(w, q)
    BY <2>1 DEF Task, OpenNode, NodeOpened, AddNodeToSourcesQueue, SourceEmits, SourceCloses,
           NodeProcesses, ProcessFails, ProcessStops, OpenFails, CloseFails, MarkClosed,
           EndScheduling, queueVars
  <2> QED
    BY <1>0, <2>2, SameQueues
<1>4. CASE \E t \in Threads : Shared(t)
  <2>1. PICK t \in Threads : Shared(t)
    BY <1>4
  <2>2. CASE HandleIdle(t)
    <3>1. CASE HandleIdleQuit(t) \/ StopQueuesForLayer(t)
      BY <1>1, <3>1 DEF HandleIdleQuit, StopQueuesForLayer
    <3>2. CASE StartQueuesForLayer(t)
      <4>1. Turns(t, {Top(t)}, SubmitSet(Queues)) /\ SetQueuesRunning(1)
        BY <3>2, StartQueuesTurns DEF StartQueuesForLayer
      <4>2. CASE Queues = {}
        BY <4>2 DEF SameTasks, NoneStarted
      <4>3. CASE Queues # {}
        <5>1. SubmitFrame(Queues) \in SubmitSet(Queues)
          BY <4>3 DEF SubmitSet
        <5>2. \A q \in Queues : HasSubmit(AllFrames', q)
          BY <4>1, <5>1, SubmitsAll
        <5> QED
          BY <1>2, <4>1, <5>2
      <4> QED
        BY <4>2, <4>3
    <3>3. CASE sq' = sq
      BY <1>0, <3>3, SameQueues
    <3> QED
      BY <2>2, <3>1, <3>2, <3>3
      DEF HandleIdle, HandleIdleNotIdle, HandleIdleBlocked, HandleIdleNextLayer, ActivateNode,
          LockStateMutex, HandleIdleUnthrottle, UnthrottleSources, HandleIdleEndOfTurn,
          queueVars
  <2>3. CASE TryAddNode(t) \/ AddTasks(t) \/ CallIdleFalse(t) \/ CallIdleTrue(t)
    <3>1. sq' = sq
      BY <2>3 DEF TryAddNode, AddTasks, CallIdleFalse, CallIdleTrue, QueueIdleStateChanged, queueVars
    <3> QED
      BY <1>0, <3>1, SameQueues
  <2> QED
    BY <2>1, <2>2, <2>3 DEF Shared
<1>5. CASE \E a \in AppThreads : Start(a) \/ AppReturn(a) \/ App(a)
  <2>1. PICK a \in AppThreads : Start(a) \/ AppReturn(a) \/ App(a)
    BY <1>5
  <2>2. CASE Start(a) \/ Resume(a) \/ Cancel(a)
    <3>1. a \in Threads /\ Enters(a, {}, {SubmitFrame(Queues)})
      BY <2>2, StartTurns
    <3>2. \/ Turns(a, {}, {SubmitFrame(Queues)} \cup {Frame("handleIdle")})
          \/ Turns(a, {}, {SubmitFrame(Queues)})
      BY <3>1 DEF Enters
    <3>3. \A q \in Queues : HasSubmit(AllFrames', q)
      BY <3>1, <3>2, SubmitsAll
    <3>4. SetQueuesRunning(1) \/ sq' = sq
      BY <2>2 DEF Start, Resume, Cancel
    <3> QED
      BY <1>0, <1>2, <3>3, <3>4, SameQueues
  <2>3. CASE Pause(a)
    BY <1>1, <2>3 DEF Pause
  <2>4. CASE sq' = sq
    BY <1>0, <2>4, SameQueues
  <2> QED
    BY <2>1, <2>2, <2>3, <2>4
    DEF AppReturn, App, AddedPacketToGraphInputStream, ClosedAllGraphInputStreams,
        CloseAllSourceNodes, AddPacket, CloseAllInputs, queueVars
<1> QED
  BY <1>3, <1>4, <1>5 DEF Next

LEMMA SubmittedKept ==
  ASSUME Core, Submitted, Next
  PROVE  Submitted'
<1>0. TypeOK
  BY DEF Core
<1>1. PICK F, G : F = AllFrames /\ G = AllFrames'
  OBVIOUS
<1>2. SUFFICES ASSUME NEW q \in Queues, sq'[q].running > 0, sq'[q].toAdd > 0
               PROVE  HasSubmit(G, q)
  BY <1>1 DEF Submitted
<1>3. /\ sq[q].running \in Int /\ sq[q].toAdd \in Nat
      /\ sq[q].running > 0 /\ sq[q].toAdd > 0 => HasSubmit(F, q)
  BY <1>0, <1>1, QueueTyped DEF Submitted
<1>4. (\E t \in Threads : SubmitWaitingTasks(t)) \/ SubmitsKept(F, G)
  <2>1. AllKept(F, G) => SubmitsKept(F, G)
    BY DEF AllKept
  <2> QED
    BY <1>1, <2>1, StepHandsOn, TryHandsOn, PushHandsOn, ActivateHandsOn, EndHandsOn, MoveHandsOn
<1>5. CASE \E t \in Threads : SubmitWaitingTasks(t)
  <2>1. PICK x \in Queues :
          /\ IF sq[x].running > 0 THEN Submits(x) ELSE UNCHANGED queueVars
          /\ \A r \in Queues : HasSubmit(F, r) => HasSubmit(G, r) \/ r = x
    BY <1>1, <1>5, SubmitHandsOn
  <2>2. CASE sq[x].running > 0
    <3>1. q # x /\ sq'[q] = sq[q]
      BY <1>2, <2>1, <2>2 DEF Submits
    <3> QED
      BY <1>2, <1>3, <2>1, <3>1
  <2>3. CASE ~(sq[x].running > 0)
    <3>1. sq' = sq /\ q # x
      BY <1>2, <2>1, <2>3 DEF queueVars
    <3> QED
      BY <1>2, <1>3, <2>1, <3>1
  <2> QED
    BY <2>2, <2>3
<1>6. ASSUME SubmitsKept(F, G), sq[q].running > 0, sq[q].toAdd > 0 PROVE HasSubmit(G, q)
  BY <1>3, <1>6 DEF SubmitsKept
<1>7. ASSUME ~\E t \in Threads : SubmitWaitingTasks(t)
      PROVE  HasSubmit(G, q)
  <2>1. SubmitsKept(F, G)
    BY <1>4, <1>7
  <2>2. CASE \E t \in Threads : PushItem(t)
    <3>1. PICK t \in Threads : PushItem(t)
      BY <2>2
    <3>2. PICK x : x = QueueOf[Top(t).item.node]
      OBVIOUS
    <3>3. /\ \A y \in Queues \ {x} : sq'[y] = sq[y]
          /\ sq'[x].running = sq[x].running
          /\ sq[x].running > 0 => sq'[x].toAdd = 0
      BY <3>1, <3>2, PushItemTurns
    <3>4. q # x
      BY <1>2, <3>3
    <3> QED
      BY <1>2, <1>6, <2>1, <3>3, <3>4
  <2>3. CASE \E w \in Workers : FinishTask(w) \/ \E x \in Queues : TakeTask(w, x)
    <3>1. sq'[q].toAdd = sq[q].toAdd /\ sq'[q].running = sq[q].running
      <4>1. CASE \E w \in Workers : FinishTask(w)
        <5>1. PICK w \in Workers : FinishTask(w)
          BY <4>1
        <5> QED
          BY <5>1, FinishTaskTurns
      <4>2. CASE \E w \in Workers : \E x \in Queues : TakeTask(w, x)
        <5>1. PICK w \in Workers, x \in Queues : TakeTask(w, x)
          BY <4>2
        <5> QED
          BY <5>1, TakeTaskTurns
      <4> QED
        BY <2>3, <4>1, <4>2
    <3> QED
      BY <1>2, <1>6, <2>1, <3>1
  <2>4. CASE SameTasks /\ NoneStarted
    <3>1. sq'[q].toAdd = sq[q].toAdd /\ sq[q].running > 0
      BY <1>2, <2>4 DEF SameTasks, NoneStarted
    <3> QED
      BY <1>2, <1>6, <2>1, <3>1
  <2> QED
    BY <1>1, <1>7, <2>2, <2>3, <2>4, QueueSteps
<1> QED
  BY <1>5, <1>7

-----------------------------------------------------------------------------
(* The life cycle of nodes, and errors. *)

LEMMA ErrorStays ==
  ASSUME Next
  PROVE  /\ has_error => has_error'
         /\ state_' = "CANCELLING" => state_ = "CANCELLING" \/ has_error'
<1>1. CASE \E w \in Workers : Task(w)
  BY <1>1 DEF Task, TakeTask, FinishTask, OpenNode, NodeOpened, AddNodeToSourcesQueue, SourceEmits,
     SourceCloses, NodeProcesses, ProcessFails, ProcessStops, OpenFails, CloseFails,
     MarkClosed, EndScheduling, schedulerVars, sharedVars
<1>2. CASE \E t \in Threads : HandleIdleBlocked(t)
  <2>1. has_error' = (has_error \/ graph_input_streams_closed_) /\ state_' = state_
    BY <1>2 DEF HandleIdleBlocked
  <2> QED
    BY <2>1
<1>3. CASE \E t \in Threads : Shared(t) /\ ~HandleIdleBlocked(t)
  <2>1. PICK t \in Threads : Shared(t) /\ ~HandleIdleBlocked(t)
    BY <1>3
  <2>2. CASE HandleIdle(t)
    <3>1. has_error' = has_error /\ (state_' = state_ \/ state_' = "TERMINATED")
      BY <2>1, <2>2 DEF HandleIdle, HandleIdleNotIdle, HandleIdleQuit, HandleIdleNextLayer,
         StopQueuesForLayer, ActivateNode, StartQueuesForLayer, LockStateMutex,
         HandleIdleUnthrottle, UnthrottleSources, HandleIdleEndOfTurn, schedulerVars, sharedVars
    <3> QED
      BY <3>1
  <2>3. CASE ~HandleIdle(t)
    <3>1. has_error' = has_error /\ state_' = state_
      BY <2>1, <2>3 DEF Shared, TryAddNode, PushItem, AddTasks, SubmitWaitingTasks, CallIdleFalse,
         CallIdleTrue, QueueIdleStateChanged, schedulerVars, sharedVars
    <3> QED
      BY <3>1
  <2> QED
    BY <2>2, <2>3
<1>4. CASE \E a \in AppThreads : Start(a) \/ AppReturn(a) \/ App(a)
  <2>1. PICK a \in AppThreads : Start(a) \/ AppReturn(a) \/ App(a)
    BY <1>4
  <2>2. CASE Cancel(a)
    BY <2>2 DEF Cancel
  <2>3. CASE ~Cancel(a)
    <3>1. has_error' = has_error /\ (state_' = state_ \/ state_' \in {"RUNNING", "PAUSED"})
      BY <2>1, <2>3 DEF Start, AppReturn, App, AddedPacketToGraphInputStream,
         ClosedAllGraphInputStreams, CloseAllSourceNodes, AddPacket, CloseAllInputs, Pause, Resume,
         schedulerVars, sharedVars
    <3> QED
      BY <3>1
  <2> QED
    BY <2>2, <2>3
<1> QED
  BY <1>1, <1>2, <1>3, <1>4 DEF Next

LEMMA CancelledKept ==
  ASSUME CancelledWithError, Next
  PROVE  CancelledWithError'
  BY ErrorStays DEF CancelledWithError

\* What changes status and inFlight.
LEMMA StatusSteps ==
  ASSUME Next
  PROVE  /\ \/ status' = status
            \/ \E w \in Workers : NodeOpened(w) \/ MarkClosed(w)
            \/ \E t \in Threads : ActivateNode(t)
         /\ \/ inFlight' = inFlight
            \/ \E t \in Threads : TryAddNode(t)
            \/ \E w \in Workers : EndScheduling(w)
<1>1. CASE \E w \in Workers : Task(w)
  BY ZenonT(90), <1>1 DEF Task, TakeTask, FinishTask, OpenNode, NodeOpened,
     AddNodeToSourcesQueue, SourceEmits,
     SourceCloses, NodeProcesses, ProcessFails, ProcessStops, OpenFails, CloseFails,
     MarkClosed, EndScheduling, nodeVars
<1>2. CASE \E t \in Threads : Shared(t)
  BY ZenonT(30), <1>2 DEF Shared, TryAddNode, PushItem, AddTasks, SubmitWaitingTasks, CallIdleFalse,
     CallIdleTrue, QueueIdleStateChanged, HandleIdle, HandleIdleNotIdle, HandleIdleQuit,
     HandleIdleBlocked, HandleIdleNextLayer, StopQueuesForLayer, ActivateNode, StartQueuesForLayer,
     LockStateMutex, HandleIdleUnthrottle, UnthrottleSources, HandleIdleEndOfTurn, nodeVars
<1>3. CASE \E a \in AppThreads : Start(a) \/ AppReturn(a) \/ App(a)
  BY <1>3 DEF Start, AppReturn, App, AddedPacketToGraphInputStream, ClosedAllGraphInputStreams,
     CloseAllSourceNodes, AddPacket, CloseAllInputs, Pause, Resume, Cancel, nodeVars
<1> QED
  BY <1>1, <1>2, <1>3 DEF Next

LEMMA Opening ==
  ASSUME Core, NEW w \in Workers, NodeOpened(w)
  PROVE  /\ Top(w).node \in Nodes /\ status[Top(w).node] = "Prepared"
         /\ status' = [status EXCEPT ![Top(w).node] = "Opened"]
<1>1. Top(w) \in On(stack[w]) /\ w \in Threads /\ Top(w).at = "opened" /\ Top(w).node \in Nodes
  <2>1. w \in Threads /\ At(w, "opened") /\ StacksOK
    BY DEF NodeOpened, Threads, Core
  <2> QED
    BY <2>1, TopMost, NodeOpenedTurns
<1>2. Opens(Top(w), Top(w).node)
  BY <1>1 DEF Opens
<1>3. status[Top(w).node] = "Prepared"
  BY <1>1, <1>2 DEF Core, OpeningsPrepared
<1> QED
  BY <1>1, <1>3 DEF NodeOpened

LEMMA Closing ==
  ASSUME Core, NEW w \in Workers, MarkClosed(w)
  PROVE  /\ Top(w).node \in Sources /\ status' = [status EXCEPT ![Top(w).node] = "Closed"]
  BY MarkClosedTurns DEF MarkClosed

LEMMA Activating ==
  ASSUME Core, NEW t \in Threads, ActivateNode(t)
  PROVE  LET n == active_sources_[Top(t).i]
         IN  /\ n \in Sources /\ status[n] = "Opened"
             /\ status' = [status EXCEPT ![n] = "Active"] /\ HasAsk(AllFrames', n)
  BY ActivateNodeTurns, ActivateHandsOn

LEMMA ClosedStays ==
  ASSUME Core, Next, NEW n \in Nodes, status[n] = "Closed"
  PROVE  status'[n] = "Closed"
<1>1. status \in [Nodes -> {"Prepared", "Opened", "Active", "Closed"}] /\ Sources \subseteq Nodes
  BY GraphAssumption DEF Core, TypeOK
<1>2. CASE \E w \in Workers : NodeOpened(w)
  BY <1>1, <1>2, Opening
<1>3. CASE \E w \in Workers : MarkClosed(w)
  BY <1>1, <1>3, Closing
<1>4. CASE \E t \in Threads : ActivateNode(t)
  BY <1>1, <1>4, Activating
<1> QED
  BY <1>2, <1>3, <1>4, StatusSteps

LEMMA FlightsFoundKept ==
  ASSUME Core, FlightsFound, Next
  PROVE  FlightsFound'
<1>0. TypeOK /\ inFlight \in [Nodes -> 0 .. 1] /\ QueueOf \in [Nodes -> Queues]
  BY GraphAssumption DEF Core, TypeOK
<1>1. PICK F, G : F = AllFrames /\ G = AllFrames'
  OBVIOUS
<1>2. SUFFICES ASSUME NEW n \in Nodes, inFlight'[n] = 1, status'[n] # "Closed"
               PROVE  RunItem(n) \in sq'[QueueOf[n]].items \/ HasRun(G, n)
  BY <1>1 DEF FlightsFound, RunQueued
<1>3. status[n] # "Closed"
  BY <1>2, ClosedStays
<1>4. inFlight[n] = 1 => RunItem(n) \in sq[QueueOf[n]].items \/ HasRun(F, n)
  BY <1>1, <1>3 DEF FlightsFound, RunQueued
<1>5. QueueOf[n] \in Queues
  BY <1>0
<1>6. AllKept(F, G) => RunsKept(F, G)
  BY DEF AllKept
<1>7. CASE \E w \in Workers : \E q \in Queues : TakeTask(w, q)
  <2>1. PICK w \in Workers, q \in Queues : TakeTask(w, q)
    BY <1>7
  <2>2. w \in Threads /\ stack[w] = <<>> /\ inFlight' = inFlight
    BY <2>1 DEF TakeTask, Threads, nodeVars
  <2>3. RunsKept(F, G)
    <3>1. ~EndScheduling(w) /\ ~AddNodeToSourcesQueue(w) /\ Task(w)
      BY <2>1, <2>2 DEF EndScheduling, AddNodeToSourcesQueue, At, Task
    <3> QED
      BY <1>1, <1>6, <3>1, TaskHandsOn
  <2>4. PICK i \in sq[q].items :
          /\ \A x \in Queues \ {q} : sq'[x] = sq[x]
          /\ sq'[q].items = sq[q].items \ {i}
          /\ Turns(w, {}, {NodeFrame(i.kind, i.node)})
    BY <2>1, TakeTaskTurns
  <2>5. CASE RunItem(n) \in sq[QueueOf[n]].items
    <3>1. CASE i = RunItem(n)
      <4>1. NodeFrame("run", n) \in G
        BY <1>1, <2>2, <2>4, <3>1, FramesMove DEF RunItem
      <4>2. Runs(NodeFrame("run", n), n)
        BY DEF Runs, NodeFrame
      <4> QED
        BY <4>1, <4>2 DEF HasRun
    <3>2. CASE i # RunItem(n)
      BY <1>5, <2>4, <2>5, <3>2
    <3> QED
      BY <3>1, <3>2
  <2> QED
    BY <1>2, <1>4, <2>2, <2>3, <2>5 DEF RunsKept
<1>8. CASE \E t \in Threads : PushItem(t)
  <2>1. PICK t \in Threads : PushItem(t)
    BY <1>8
  <2>2. inFlight' = inFlight
    BY <2>1 DEF PushItem, nodeVars
  <2>3. PICK i, q, kind : /\ i = Top(t).item /\ q = QueueOf[i.node]
                          /\ kind = IF i.kind = "open" THEN "open" ELSE "run"
    OBVIOUS
  <2>4. /\ \A x \in Queues \ {q} : sq'[x] = sq[x]
        /\ sq'[q].items = sq[q].items \cup {[node |-> i.node, kind |-> kind]}
    BY <2>1, <2>3, PushItemTurns
  <2>5. HasRun(F, n) => HasRun(G, n) \/ (n = i.node /\ i.kind # "open")
    BY <1>1, <2>1, <2>3, PushHandsOn
  <2>6. CASE n = i.node /\ i.kind # "open"
    BY <2>3, <2>4, <2>6 DEF RunItem
  <2>7. CASE RunItem(n) \in sq[QueueOf[n]].items
    BY <1>5, <2>4, <2>7
  <2> QED
    BY <1>2, <1>4, <2>2, <2>5, <2>6, <2>7
<1>9. CASE \E t \in Threads : TryAddNode(t)
  <2>1. PICK t \in Threads : TryAddNode(t)
    BY <1>9
  <2>2. sq' = sq
    BY <2>1 DEF TryAddNode, queueVars
  <2>3. PICK i \in Item :
          /\ Asked(i) /\ ~has_error =>
               inFlight' = [inFlight EXCEPT ![i.node] = 1] /\ HasRun(G, i.node)
          /\ ~(Asked(i) /\ ~has_error) => inFlight' = inFlight
    BY <1>1, <2>1, TryHandsOn
  <2>4. RunsKept(F, G)
    BY <1>1, <2>1, TryHandsOn
  <2>5. inFlight[n] = 1 \/ HasRun(G, n)
    BY <1>0, <1>2, <2>3
  <2> QED
    BY <1>4, <2>2, <2>4, <2>5 DEF RunsKept
<1>10. CASE \E w \in Workers : EndScheduling(w)
  <2>1. PICK w \in Workers : EndScheduling(w)
    BY <1>10
  <2>2. sq' = sq /\ status' = status
    BY <2>1 DEF EndScheduling, queueVars
  <2>3. PICK m : m = Top(w).node
    OBVIOUS
  <2>4. /\ m \in Nodes
        /\ status[m] # "Closed" => inFlight' = [inFlight EXCEPT ![m] = 0]
        /\ status[m] = "Closed" => inFlight' = inFlight
    BY <2>1, <2>3, EndSchedulingTurns
  <2>5. n # m /\ inFlight[n] = 1
    BY <1>0, <1>2, <2>2, <2>4
  <2>6. HasRun(F, n) => HasRun(G, n)
    BY <1>1, <2>1, <2>3, <2>5, EndHandsOn
  <2> QED
    BY <1>4, <2>2, <2>5, <2>6
<1>11. ASSUME ~\E w \in Workers : \E q \in Queues : TakeTask(w, q),
              ~\E t \in Threads : PushItem(t), ~\E t \in Threads : TryAddNode(t),
              ~\E w \in Workers : EndScheduling(w)
       PROVE  RunItem(n) \in sq'[QueueOf[n]].items \/ HasRun(G, n)
  <2>1. RunsKept(F, G)
    BY <1>1, <1>6, <1>11, StepHandsOn, SubmitHandsOn, ActivateHandsOn, MoveHandsOn
  <2>2. inFlight' = inFlight
    BY <1>11, StatusSteps
  <2>3. sq'[QueueOf[n]].items = sq[QueueOf[n]].items
    <3>1. CASE \E t \in Threads : SubmitWaitingTasks(t)
      <4>1. PICK x \in Queues : IF sq[x].running > 0 THEN Submits(x) ELSE UNCHANGED queueVars
        BY <3>1, SubmitWaitingTasksTurns
      <4> QED
        BY <1>5, <4>1 DEF Submits, queueVars
    <3>2. CASE \E w \in Workers : FinishTask(w)
      <4>1. PICK w \in Workers : FinishTask(w)
        BY <3>2
      <4> QED
        BY <1>5, <4>1, FinishTaskTurns
    <3>3. CASE SameTasks
      BY <1>5, <3>3 DEF SameTasks
    <3> QED
      BY <1>11, <3>1, <3>2, <3>3, QueueSteps
  <2> QED
    BY <1>2, <1>4, <2>1, <2>2, <2>3 DEF RunsKept
<1> QED
  BY <1>7, <1>8, <1>9, <1>10, <1>11

-----------------------------------------------------------------------------
(* The nodes with something to do. *)

LEMMA AsksAll ==
  ASSUME NEW t \in Threads, NEW gone, NEW come, Turns(t, gone, come),
         NEW items, AddSet(items) \subseteq come, NEW i \in items, i.kind # "open"
  PROVE  HasAsk(AllFrames', i.node)
<1>1. PICK G, f : G = AllFrames' /\ f = AddFrame(items)
  OBVIOUS
<1>2. f \in G
  BY <1>1, FramesMove DEF AddSet
<1>3. Asks(f, i.node)
  BY <1>1 DEF Asks, AddFrame, AddLabels
<1>4. HasAsk(G, i.node)
  BY <1>2, <1>3 DEF HasAsk
<1> QED
  BY <1>1, <1>4

LEMMA AsksItems ==
  ASSUME NEW t \in Threads, NEW gone, NEW come, Turns(t, gone, come),
         NEW items, AddSet(items) \subseteq come,
         NEW ns \in SUBSET Nodes, Items("run", ns) \subseteq items, NEW n \in ns
  PROVE  HasAsk(AllFrames', n)
<1>1. PICK i \in items : i.kind = "run" /\ i.node = n
  <2>1. [node |-> n, kind |-> "run"] \in items
    BY ItemsKinds
  <2> QED
    BY <2>1
<1>2. HasAsk(AllFrames', i.node)
  BY <1>1, AsksAll
<1> QED
  BY <1>1, <1>2

\* The sources that are let go are asked for, unless they are not active.
LEMMA AsksLetGo ==
  ASSUME NEW t \in Threads, NEW gone, NEW come, Turns(t, gone, come),
         NEW items, AddSet(items) \subseteq come,
         NEW ss, LetGo(ss) \subseteq items, NEW n \in ss, status[n] = "Active"
  PROVE  HasAsk(AllFrames', n)
<1>1. PICK i : i = [node |-> n, kind |-> "unthrottled"]
  OBVIOUS
<1>2. i \in items
  BY <1>1 DEF LetGo, Items
<1>3. HasAsk(AllFrames', i.node)
  BY <1>1, <1>2, AsksAll
<1> QED
  BY <1>1, <1>3

WantsThen(n) ==
  IF n \in Sources THEN status'[n] = "Active" /\ n \notin throttled'
                   ELSE status'[n] = "Opened" /\ ready'[n] > 0

LEMMA WantsTask ==
  ASSUME Core, NEW w \in Workers, Task(w), NEW n \in Nodes, WantsThen(n)
  PROVE  Wants(n) \/ HasAsk(AllFrames', n)
<1>0. /\ status \in [Nodes -> {"Prepared", "Opened", "Active", "Closed"}]
      /\ ready \in [Nodes -> Nat] /\ w \in Threads /\ Sources \subseteq Nodes
  BY GraphAssumption DEF Core, TypeOK, Threads
<1>1. CASE UNCHANGED <<status, throttled, ready>>
  BY <1>1 DEF WantsThen, Wants
<1>2. CASE NodeOpened(w)
  <2>1. PICK m : m = Top(w).node
    OBVIOUS
  <2>2. /\ m \in Nodes /\ status' = [status EXCEPT ![m] = "Opened"]
        /\ throttled' = throttled /\ ready' = ready
    BY <1>2, <2>1, Opening DEF NodeOpened
  <2>3. CASE n # m
    BY <1>0, <2>2, <2>3 DEF WantsThen, Wants
  <2>4. CASE n = m
    <3>1. n \notin Sources
      BY <1>0, <2>2, <2>4 DEF WantsThen
    <3>2. PICK come, items : /\ Turns(w, {Top(w)}, come) /\ AddSet(items) \subseteq come
                             /\ items = Items("run", {n})
      <4>1. Turns(w, {Top(w)}, AddSet(Items("run", {n})) \cup {NodeFrame("finish", n)})
        BY <1>2, <2>1, <2>4, <3>1, NodeOpenedTurns
      <4> QED
        BY <4>1
    <3>3. Items("run", {n}) \subseteq items /\ {n} \in SUBSET Nodes /\ n \in {n}
      BY <3>2
    <3> QED
      BY <1>0, <3>2, <3>3, AsksItems
  <2> QED
    BY <2>3, <2>4
<1>3. CASE MarkClosed(w)
  <2>1. PICK m : m = Top(w).node
    OBVIOUS
  <2>2. /\ m \in Sources /\ status' = [status EXCEPT ![m] = "Closed"]
        /\ throttled' = throttled /\ ready' = ready
    BY <1>3, <2>1, Closing DEF MarkClosed
  <2> QED
    BY <1>0, <2>2 DEF WantsThen, Wants
<1>4. ASSUME NEW m \in Nodes, SourceEmits(w, m) \/ SourceCloses(w, m)
      PROVE  Wants(n) \/ HasAsk(AllFrames', n)
  <2>1. PICK k \in {"end", "close"} : \/ k = "end" /\ SourceEmits(w, m)
                                      \/ k = "close" /\ SourceCloses(w, m)
    BY <1>4
  <2>2. PICK come, items :
          /\ Turns(w, {Top(w)}, come) /\ AddSet(items) \subseteq come
          /\ items = Items("run", Downstream[m])
          /\ ready' = [x \in Nodes |-> IF x \in Downstream[m] THEN ready[x] + 1 ELSE ready[x]]
    <3>1. /\ Turns(w, {Top(w)}, AddSet(Items("run", Downstream[m])) \cup {NodeFrame(k, m)})
          /\ ready' = [x \in Nodes |-> IF x \in Downstream[m] THEN ready[x] + 1 ELSE ready[x]]
      BY <2>1, SourceRunsTurns
    <3> QED
      BY <3>1
  <2>3. status' = status /\ throttled \subseteq throttled'
    BY <1>4 DEF SourceEmits, SourceCloses
  <2>4. CASE n \in Downstream[m]
    <3>1. Downstream[m] \in SUBSET Nodes /\ Items("run", Downstream[m]) \subseteq items
      BY <1>4, <2>2, GraphAssumption
    <3> QED
      BY <1>0, <2>2, <2>4, <3>1, AsksItems
  <2>5. CASE n \notin Downstream[m]
    BY <2>2, <2>3, <2>5 DEF WantsThen, Wants
  <2> QED
    BY <2>4, <2>5
<1>5. ASSUME NEW m \in Nodes, NodeProcesses(w, m)
      PROVE  Wants(n) \/ HasAsk(AllFrames', n)
  <2>1. PICK ss \in SUBSET Sources, gives \in SUBSET ({m} \ announced) :
          /\ throttled' = throttled \ ss
          /\ Items("run", Downstream[m]) \cup LetGo(ss) \subseteq Processed(m, ss, gives)
          /\ Turns(w, {Top(w)}, AddSet(Processed(m, ss, gives)) \cup {NodeFrame("end", m)})
    BY <1>5, NodeProcessesTurns
  <2>2. PICK come, items :
          /\ Turns(w, {Top(w)}, come) /\ AddSet(items) \subseteq come
          /\ Items("run", Downstream[m]) \subseteq items /\ LetGo(ss) \subseteq items
    BY <2>1
  <2>3. /\ ready' = [x \in Nodes |-> IF x \in Downstream[m] THEN ready[x] + 1 ELSE ready[x]]
        /\ status' = status
    BY <1>5, NodeProcessesTurns DEF NodeProcesses
  <2>4. CASE n \in Downstream[m]
    <3>1. Downstream[m] \in SUBSET Nodes
      BY <1>5, GraphAssumption
    <3> QED
      BY <1>0, <2>2, <2>4, <3>1, AsksItems
  <2>5. CASE n \in ss /\ status[n] = "Active"
    BY <1>0, <2>2, <2>5, AsksLetGo
  <2>6. CASE n \notin Downstream[m] /\ ~(n \in ss /\ status[n] = "Active")
    BY <2>1, <2>3, <2>6 DEF WantsThen, Wants
  <2> QED
    BY <2>4, <2>5, <2>6
<1> QED
  BY <1>1, <1>2, <1>3, <1>4, <1>5
  DEF Task, TakeTask, FinishTask, OpenNode, AddNodeToSourcesQueue, ProcessFails, ProcessStops,
      OpenFails, CloseFails, EndScheduling, nodeVars

LEMMA WantsShared ==
  ASSUME Core, NEW t \in Threads, Shared(t), NEW n \in Nodes, WantsThen(n)
  PROVE  Wants(n) \/ HasAsk(AllFrames', n)
<1>0. /\ status \in [Nodes -> {"Prepared", "Opened", "Active", "Closed"}]
      /\ ready \in [Nodes -> Nat] /\ Sources \subseteq Nodes
  BY GraphAssumption DEF Core, TypeOK
<1>1. CASE UNCHANGED <<status, throttled, ready>>
  BY <1>1 DEF WantsThen, Wants
<1>2. CASE TryAddNode(t)
  <2>1. PICK i \in Item : ready' = ready \/ ready' = [ready EXCEPT ![i.node] = @ - 1]
    BY <1>2, TryHandsOn
  <2>2. UNCHANGED <<status, throttled>>
    BY <1>2 DEF TryAddNode
  <2>3. i.node \in Nodes /\ ready[i.node] \in Nat /\ ready[n] \in Nat
    BY <1>0 DEF Item
  <2>4. ready'[n] > 0 => ready[n] > 0
    <3>1. ready'[n] = ready[n] \/ ready'[n] = ready[n] - 1
      BY <1>0, <2>1, <2>3
    <3> QED
      BY <2>3, <3>1
  <2> QED
    BY <2>2, <2>4 DEF WantsThen, Wants
<1>3. CASE ActivateNode(t)
  <2>1. PICK m : m = active_sources_[Top(t).i]
    OBVIOUS
  <2>2. /\ m \in Sources /\ status' = [status EXCEPT ![m] = "Active"] /\ HasAsk(AllFrames', m)
        /\ UNCHANGED <<throttled, ready>>
    BY <1>3, <2>1, Activating DEF ActivateNode
  <2> QED
    BY <1>0, <2>2 DEF WantsThen, Wants
<1>4. CASE UnthrottleSources(t)
  <2>1. PICK come, items :
          /\ Turns(t, {Top(t)}, come) /\ AddSet(items) \subseteq come
          /\ items = LetGo(throttled)
    <3>1. Turns(t, {Top(t)},
                AddSet(LetGo(throttled))
                \cup {Frame("lock"),
                      Frame(IF throttled # {} THEN "handleIdle" ELSE "endOfTurn")})
      BY <1>4, UnthrottleSourcesTurns
    <3> QED
      BY <3>1
  <2>2. UNCHANGED <<status, ready>>
    BY <1>4 DEF UnthrottleSources
  <2>3. CASE n \in throttled /\ status[n] = "Active"
    <3>1. LetGo(throttled) \subseteq items
      BY <2>1
    <3> QED
      BY <2>1, <2>3, <3>1, AsksLetGo
  <2>4. CASE ~(n \in throttled /\ status[n] = "Active")
    BY <2>2, <2>4 DEF WantsThen, Wants
  <2> QED
    BY <2>3, <2>4
<1> QED
  BY <1>1, <1>2, <1>3, <1>4
  DEF Shared, PushItem, AddTasks, SubmitWaitingTasks, CallIdleFalse,
     CallIdleTrue, QueueIdleStateChanged, HandleIdle, HandleIdleNotIdle, HandleIdleQuit,
     HandleIdleBlocked, HandleIdleNextLayer, StopQueuesForLayer, StartQueuesForLayer,
     LockStateMutex, HandleIdleUnthrottle, HandleIdleEndOfTurn, nodeVars

LEMMA WantsApp ==
  ASSUME Core, NEW a \in AppThreads, Start(a) \/ AppReturn(a) \/ App(a),
         NEW n \in Nodes, WantsThen(n)
  PROVE  Wants(n) \/ HasAsk(AllFrames', n)
<1>0. ready \in [Nodes -> Nat]
  BY DEF Core, TypeOK
<1>1. CASE UNCHANGED <<status, throttled, ready>>
  BY <1>1 DEF WantsThen, Wants
<1>2. ASSUME NEW m \in InputNodes, AddPacket(a, m)
      PROVE  Wants(n) \/ HasAsk(AllFrames', n)
  <2>1. PICK come, items :
          /\ a \in Threads /\ m \in Nodes
          /\ Turns(a, {}, come) /\ AddSet(items) \subseteq come /\ items = Items("run", {m})
    <3>1. /\ a \in Threads /\ m \in Nodes
          /\ Turns(a, {}, AddSet(Items("run", {m})) \cup {Frame("addedPacket")})
      BY <1>2, AddPacketTurns
    <3> QED
      BY <3>1
  <2>2. /\ ready' = [ready EXCEPT ![m] = @ + 1] /\ UNCHANGED <<status, throttled>>
    BY <1>2 DEF AddPacket
  <2>3. CASE n = m
    <3>1. {m} \in SUBSET Nodes /\ Items("run", {m}) \subseteq items /\ n \in {m}
      BY <2>1, <2>3
    <3> QED
      BY <2>1, <3>1, AsksItems
  <2>4. CASE n # m
    BY <1>0, <2>2, <2>4 DEF WantsThen, Wants
  <2> QED
    BY <2>3, <2>4
<1>3. ASSUME NEW kind, CloseAllInputs(a, kind)
      PROVE  Wants(n) \/ HasAsk(AllFrames', n)
  <2>1. PICK come, items :
          /\ a \in Threads
          /\ Turns(a, {}, come) /\ AddSet(items) \subseteq come /\ items = Items("run", InputNodes)
    <3>1. PICK C : a \in Threads /\ Turns(a, {}, AddSet(Items("run", InputNodes)) \cup C)
      BY <1>3, CloseAllInputsTurns
    <3> QED
      BY <3>1
  <2>2. /\ ready' = [x \in Nodes |-> IF x \in InputNodes THEN ready[x] + 1 ELSE ready[x]]
        /\ UNCHANGED <<status, throttled>>
    BY <1>3 DEF CloseAllInputs
  <2>3. CASE n \in InputNodes
    <3>1. InputNodes \in SUBSET Nodes /\ Items("run", InputNodes) \subseteq items
      BY <2>1, GraphAssumption
    <3> QED
      BY <2>1, <2>3, <3>1, AsksItems
  <2>4. CASE n \notin InputNodes
    BY <2>2, <2>4 DEF WantsThen, Wants
  <2> QED
    BY <2>3, <2>4
<1> QED
  BY <1>1, <1>2, <1>3
  DEF Start, AppReturn, App, AddedPacketToGraphInputStream, ClosedAllGraphInputStreams,
      CloseAllSourceNodes, Pause, Resume, Cancel, nodeVars

LEMMA WantsMetKept ==
  ASSUME Core, WantsMet, Next
  PROVE  WantsMet'
<1>0. inFlight \in [Nodes -> 0 .. 1] /\ throttled \subseteq Sources /\ Sources \subseteq Nodes
  BY GraphAssumption DEF Core, TypeOK
<1>1. PICK F, G : F = AllFrames /\ G = AllFrames'
  OBVIOUS
<1>2. SUFFICES ASSUME NEW n \in Nodes, WantsThen(n), inFlight'[n] # 1, ~has_error', ~HasAsk(G, n)
               PROVE  FALSE
  BY <1>1 DEF WantsMet, Wants, WantsThen
<1>3. Wants(n)
  BY <1>1, <1>2, WantsTask, WantsShared, WantsApp DEF Next
<1>4. inFlight[n] = 1 \/ HasAsk(F, n)
  BY <1>1, <1>2, <1>3, ErrorStays DEF WantsMet
<1>5. CASE \E t \in Threads : TryAddNode(t)
  <2>1. PICK t \in Threads : TryAddNode(t)
    BY <1>5
  <2>2. PICK i \in Item :
          /\ HasAsk(F, n) => HasAsk(G, n) \/ (n = i.node /\ i.kind # "open")
          /\ Asked(i) /\ ~has_error => inFlight' = [inFlight EXCEPT ![i.node] = 1]
          /\ ~(Asked(i) /\ ~has_error) => inFlight' = inFlight
    BY <1>1, <2>1, TryHandsOn
  <2>3. inFlight[n] # 1
    BY <1>0, <1>2, <2>2
  <2>4. n = i.node /\ i.kind # "open"
    BY <1>2, <1>4, <2>2, <2>3
  <2>5. Asked(i)
    BY <1>0, <1>3, <2>3, <2>4 DEF Asked, IsReady, Wants
  <2> QED
    BY <1>0, <1>2, <2>2, <2>4, <2>5, ErrorStays
<1>6. CASE \E w \in Workers : EndScheduling(w)
  <2>1. PICK w \in Workers : EndScheduling(w)
    BY <1>6
  <2>2. PICK m : m = Top(w).node
    OBVIOUS
  <2>3. /\ m \in Nodes
        /\ status[m] # "Closed" => inFlight' = [inFlight EXCEPT ![m] = 0] /\ HasAsk(G, m)
        /\ status[m] = "Closed" => inFlight' = inFlight
        /\ AsksKept(F, G)
    BY <1>1, <2>1, <2>2, EndSchedulingTurns, EndHandsOn
  <2>4. inFlight[n] = 1
    BY <1>2, <1>4, <2>3 DEF AsksKept
  <2> QED
    BY <1>0, <1>2, <2>3, <2>4
<1>7. ASSUME ~\E t \in Threads : TryAddNode(t), ~\E w \in Workers : EndScheduling(w)
      PROVE  FALSE
  <2>1. inFlight' = inFlight
    BY <1>7, StatusSteps
  <2>2. AllKept(F, G) => AsksKept(F, G)
    BY DEF AllKept
  <2>3. AsksKept(F, G)
    BY <1>1, <1>7, <2>2, StepHandsOn, SubmitHandsOn, PushHandsOn, ActivateHandsOn, MoveHandsOn
  <2> QED
    BY <1>2, <1>4, <2>1, <2>3 DEF AsksKept
<1> QED
  BY <1>5, <1>6, <1>7

-----------------------------------------------------------------------------
(* The sources that were opened. *)

\* What changes the places of sources.
LEMMA SourceSteps ==
  ASSUME Next
  PROVE  /\ unopened_sources_' = unopened_sources_ \/ \E w \in Workers : AddNodeToSourcesQueue(w)
         /\ \/ active_sources_' \in {active_sources_, ActiveSources}
            \/ \E t \in Threads : HandleIdleNextLayer(t)
         /\ \/ sources_queue_' = sources_queue_
            \/ \E w \in Workers : AddNodeToSourcesQueue(w)
            \/ \E t \in Threads : HandleIdleNextLayer(t)
<1>1. CASE \E w \in Workers : Task(w)
  BY <1>1 DEF Task, TakeTask, FinishTask, OpenNode, NodeOpened, AddNodeToSourcesQueue, SourceEmits,
     SourceCloses, NodeProcesses, ProcessFails, ProcessStops, OpenFails, CloseFails,
     MarkClosed, EndScheduling, schedulerVars
<1>2. CASE \E t \in Threads : Shared(t)
  BY ZenonT(30), <1>2 DEF Shared, TryAddNode, PushItem, AddTasks, SubmitWaitingTasks, CallIdleFalse,
     CallIdleTrue, QueueIdleStateChanged, HandleIdle, HandleIdleNotIdle, HandleIdleQuit,
     HandleIdleBlocked, HandleIdleNextLayer, StopQueuesForLayer, ActivateNode, StartQueuesForLayer,
     LockStateMutex, HandleIdleUnthrottle, UnthrottleSources, HandleIdleEndOfTurn, schedulerVars
<1>3. CASE \E a \in AppThreads : Start(a) \/ AppReturn(a) \/ App(a)
  BY <1>3 DEF Start, AppReturn, App, AddedPacketToGraphInputStream, ClosedAllGraphInputStreams,
     CloseAllSourceNodes, AddPacket, CloseAllInputs, Pause, Resume, Cancel, schedulerVars
<1> QED
  BY <1>1, <1>2, <1>3 DEF Next

\* A source becomes open when it was prepared, and then it goes to the sources queue.
LEMMA BecomesOpen ==
  ASSUME Core, Next, NEW s \in Sources, status'[s] = "Opened"
  PROVE  status[s] = "Opened" \/ (status[s] = "Prepared" /\ HasMove(AllFrames', s))
<1>0. /\ status \in [Nodes -> {"Prepared", "Opened", "Active", "Closed"}] /\ s \in Nodes
  BY GraphAssumption DEF Core, TypeOK
<1>1. CASE \E w \in Workers : NodeOpened(w)
  <2>1. PICK w \in Workers : NodeOpened(w)
    BY <1>1
  <2>2. PICK m : m = Top(w).node
    OBVIOUS
  <2>3. m \in Nodes /\ status[m] = "Prepared" /\ status' = [status EXCEPT ![m] = "Opened"]
    BY <2>1, <2>2, Opening
  <2>4. CASE m = s
    <3>1. w \in Threads /\ Turns(w, {Top(w)}, {NodeFrame("toSourcesQueue", s)})
      BY <2>1, <2>2, <2>4, NodeOpenedTurns
    <3>2. PICK G, come : G = AllFrames' /\ come = {NodeFrame("toSourcesQueue", s)}
      OBVIOUS
    <3>3. NodeFrame("toSourcesQueue", s) \in G
      BY <3>1, <3>2, FramesMove
    <3>4. HasMove(G, s)
      BY <3>3 DEF HasMove, NodeFrame
    <3> QED
      BY <2>3, <2>4, <3>2, <3>4
  <2> QED
    BY <1>0, <2>3, <2>4
<1>2. CASE \E w \in Workers : MarkClosed(w)
  BY <1>0, <1>2, Closing
<1>3. CASE \E t \in Threads : ActivateNode(t)
  BY <1>0, <1>3, Activating
<1> QED
  BY <1>1, <1>2, <1>3, StatusSteps

LEMMA OpenedMoveOnKept ==
  ASSUME Core, OpenedMoveOn, Next
  PROVE  OpenedMoveOn'
<1>0. /\ status \in [Nodes -> {"Prepared", "Opened", "Active", "Closed"}] /\ Sources \subseteq Nodes
      /\ active_sources_ \in Seq(Sources) /\ unopened_sources_ \subseteq Sources /\ TypeOK
  BY GraphAssumption DEF Core, TypeOK
<1>1. PICK F, G : F = AllFrames /\ G = AllFrames'
  OBVIOUS
<1>2. AllKept(F, G) => MovesKept(F, G) /\ LayerKept(F, G)
  BY DEF AllKept
<1>3. ASSUME NEW s \in unopened_sources_', status'[s] = "Opened" PROVE HasMove(G, s)
  <2>1. CASE \E w \in Workers : AddNodeToSourcesQueue(w)
    <3>1. PICK w \in Workers : AddNodeToSourcesQueue(w)
      BY <2>1
    <3>2. PICK m : m = Top(w).node
      OBVIOUS
    <3>3. unopened_sources_' = unopened_sources_ \ {m} /\ status' = status
      BY <3>1, <3>2 DEF AddNodeToSourcesQueue, nodeVars
    <3>4. s \in unopened_sources_ /\ s # m /\ s \in Sources /\ status[s] = "Opened"
      BY <1>0, <1>3, <3>3
    <3>5. HasMove(F, s)
      BY <1>1, <3>4 DEF OpenedMoveOn
    <3> QED
      BY <1>1, <3>1, <3>2, <3>4, <3>5, MoveHandsOn
  <2>2. CASE ~\E w \in Workers : AddNodeToSourcesQueue(w)
    <3>1. s \in unopened_sources_ /\ s \in Sources
      BY <1>0, <1>3, <2>2, SourceSteps
    <3>2. MovesKept(F, G)
      BY <1>1, <1>2, <2>2, StepHandsOn, TryHandsOn, SubmitHandsOn, PushHandsOn, ActivateHandsOn,
         EndHandsOn
    <3>3. status[s] = "Opened" => HasMove(F, s)
      BY <1>1, <3>1 DEF OpenedMoveOn
    <3>4. status[s] = "Opened" \/ HasMove(G, s)
      BY <1>1, <1>3, <3>1, BecomesOpen
    <3> QED
      BY <3>1, <3>2, <3>3, <3>4 DEF MovesKept
  <2> QED
    BY <2>1, <2>2
<1>4. ASSUME NEW j \in DOMAIN active_sources_', status'[active_sources_'[j]] = "Opened"
      PROVE  HasLayer(G, j)
  <2>1. CASE \E t \in Threads : HandleIdleNextLayer(t)
    <3>1. PICK t \in Threads : HandleIdleNextLayer(t)
      BY <2>1
    <3>2. PICK come : come = {Frame("stopQueues"), Frame("lock"), Top(t)}
      OBVIOUS
    <3>3. Turns(t, {Top(t)}, come)
      BY <3>1, <3>2, NextLayerTurns
    <3>4. Frame("stopQueues") \in G
      BY <1>1, <3>2, <3>3, FramesMove
    <3> QED
      BY <3>4 DEF HasLayer, Frame
  <2>2. CASE ~\E t \in Threads : HandleIdleNextLayer(t)
    <3>1. active_sources_' = active_sources_ \/ active_sources_' = ActiveSources
      BY <2>2, SourceSteps
    <3>2. j \in DOMAIN active_sources_ /\ active_sources_'[j] = active_sources_[j]
      BY <1>0, <1>4, <3>1, Trims
    <3>3. PICK s \in Sources : s = active_sources_[j] /\ status'[s] = "Opened"
      BY <1>0, <1>4, <3>2
    <3>4. status[s] # "Prepared"
      <4>1. InActive(s)
        BY <3>2, <3>3 DEF InActive
      <4> QED
        BY <4>1 DEF Core, SourcesPlaced
    <3>5. status[s] = "Opened" /\ HasLayer(F, j)
      BY <1>1, <3>2, <3>3, <3>4, BecomesOpen DEF OpenedMoveOn
    <3>6. CASE \E t \in Threads : ActivateNode(t)
      <4>1. PICK t \in Threads : ActivateNode(t)
        BY <3>6
      <4>2. PICK i : i = Top(t).i
        OBVIOUS
      <4>3. /\ i \in DOMAIN active_sources_ /\ active_sources_[i] \in Sources
            /\ status' = [status EXCEPT ![active_sources_[i]] = "Active"]
            /\ HasLayer(G, j) \/ j = i
        BY <1>1, <3>2, <3>5, <4>1, <4>2, ActivateHandsOn
      <4>4. j # i
        BY <1>0, <3>3, <4>3
      <4> QED
        BY <4>3, <4>4
    <3>7. CASE ~\E t \in Threads : ActivateNode(t)
      <4>1. LayerKept(F, G)
        BY <1>1, <1>2, <3>7, StepHandsOn, TryHandsOn, SubmitHandsOn, PushHandsOn, EndHandsOn,
           MoveHandsOn
      <4>2. j \in Nat \ {0}
        BY <1>0, <3>2, LenProperties
      <4> QED
        BY <3>5, <4>1, <4>2 DEF LayerKept
    <3> QED
      BY <3>6, <3>7
  <2> QED
    BY <2>1, <2>2
<1> QED
  BY <1>1, <1>3, <1>4 DEF OpenedMoveOn

-----------------------------------------------------------------------------
(* What the queues have told the scheduler. *)

Calls == {"callFalse", "callTrue"}

LEMMA Finite ==
  ASSUME NEW st, NEW l, NEW queues
  PROVE  /\ IsFiniteSet(Telling(st, l)) /\ Cardinality(Telling(st, l)) \in Nat
         /\ IsFiniteSet(NonIdle(queues)) /\ Cardinality(NonIdle(queues)) \in Nat
<1>1. Telling(st, l) \subseteq Threads /\ NonIdle(queues) \subseteq Queues
  BY DEF Telling, NonIdle
<1>2. IsFiniteSet(Telling(st, l)) /\ IsFiniteSet(NonIdle(queues))
  BY <1>1, FS_Subset, FiniteAssumption
<1> QED
  BY <1>2, FS_CardinalityType

LEMMA OneMore ==
  ASSUME NEW S, IsFiniteSet(S), NEW x, x \notin S, NEW T, T = S \cup {x}
  PROVE  Cardinality(T) = Cardinality(S) + 1
  BY FS_AddElement

LEMMA OneLess ==
  ASSUME NEW S, IsFiniteSet(S), NEW x \in S, NEW T, T = S \ {x}
  PROVE  Cardinality(T) = Cardinality(S) - 1
  BY FS_RemoveElement

LEMMA TellingStays ==
  ASSUME NEW t \in Threads, NEW gone, NEW come, Turns(t, gone, come), NEW l,
         HasAt(come, l) <=> HasAt(gone, l)
  PROVE  Telling(stack', l) = Telling(stack, l)
<1>1. PICK R : /\ \A u \in Threads \ {t} : stack'[u] = stack[u]
               /\ On(stack[t]) = gone \cup R /\ On(stack'[t]) = come \cup R
  BY DEF Turns
<1>2. HasAt(On(stack'[t]), l) <=> HasAt(On(stack[t]), l)
  BY <1>1 DEF HasAt
<1> QED
  BY <1>1, <1>2 DEF Telling

\* Such a frame is on top, and under it there is none.
LEMMA TellingTurns ==
  ASSUME NEW t \in Threads, NEW gone, NEW come, Turns(t, gone, come), gone # {}, NEW l \in Calls
  PROVE  /\ t \in Telling(stack, l) <=> HasAt(gone, l)
         /\ HasAt(come, l) => Telling(stack', l) = Telling(stack, l) \cup {t}
         /\ ~HasAt(come, l) => Telling(stack', l) = Telling(stack, l) \ {t}
<1>1. PICK R : /\ \A u \in Threads \ {t} : stack'[u] = stack[u]
               /\ On(stack[t]) = gone \cup R /\ On(stack'[t]) = come \cup R
               /\ \A f \in gone : Fits(t, f, R)
  BY DEF Turns
<1>2. \A g \in R : g.at # l
  BY <1>1 DEF Fits, TopLabels, Calls
<1>3. /\ HasAt(On(stack'[t]), l) <=> HasAt(come, l)
      /\ HasAt(On(stack[t]), l) <=> HasAt(gone, l)
  BY <1>1, <1>2 DEF HasAt
<1>4. \A u \in Threads : u \in Telling(stack', l) <=> HasAt(On(stack'[u]), l)
  BY DEF Telling
<1>5. \A u \in Threads : u \in Telling(stack, l) <=> HasAt(On(stack[u]), l)
  BY DEF Telling
<1>6. Telling(stack', l) \subseteq Threads /\ Telling(stack, l) \subseteq Threads
  BY DEF Telling
<1> QED
  BY <1>1, <1>3, <1>4, <1>5, <1>6

\* The calls outside of tasks in which nodes are added, and the steps that begin them.
OuterLabels == FeedLabels \cup {"unthrottle", "lock"}
BeginsOuter(t, l) ==
  \/ l = "unthrottle" /\ HandleIdleUnthrottle(t)
  \/ l = "lock" /\ (HandleIdleNextLayer(t) \/ UnthrottleSources(t))
  \/ /\ l \in FeedLabels /\ t \in AppThreads
     /\ \/ \E n \in InputNodes : AddPacket(t, n)
        \/ \E kind \in {"closeAllInputs", "closeAllPacketSources"} : CloseAllInputs(t, kind)

\* A step that tells nothing, and what its new frames may be.
Silent(t) ==
  \E gone, come :
    /\ Turns(t, gone, come)
    /\ gone = {} => stack[t] = <<>>
    /\ \A f \in gone \cup come : f.at \notin Calls
    /\ \A f \in come : f.at \in OuterLabels => BeginsOuter(t, f.at)

LEMMA SilentTelling ==
  ASSUME NEW t \in Threads, Silent(t), NEW l \in Calls
  PROVE  Telling(stack', l) = Telling(stack, l)
<1>1. PICK gone, come : Turns(t, gone, come) /\ \A f \in gone \cup come : f.at \notin Calls
  BY DEF Silent
<1>2. ~HasAt(gone, l) /\ ~HasAt(come, l)
  BY <1>1 DEF HasAt
<1> QED
  BY <1>1, <1>2, TellingStays

LEMMA Labels ==
  /\ \A items : \A f \in AddSet(items) : f.at = "add"
  /\ \A qs : \A f \in SubmitSet(qs) : f.at = "submit"
  /\ \A l : Frame(l).at = l
  /\ \A l, n : NodeFrame(l, n).at = l
  /\ \A qs : SubmitFrame(qs).at = "submit"
  /\ \A i : ActivateFrame(i).at = "activate"
  /\ \A items : AddFrame(items).at = "add"
  /\ \A items, i : PushFrame(items, i).at = "push"
  BY DEF AddSet, SubmitSet, Frame, NodeFrame, SubmitFrame, ActivateFrame, AddFrame, PushFrame

LEMMA TopSilent ==
  ASSUME NEW t, NEW come, Turns(t, {Top(t)}, come), Top(t).at \notin Calls,
         \A f \in come : f.at \notin Calls /\ (f.at \in OuterLabels => BeginsOuter(t, f.at))
  PROVE  Silent(t)
<1>1. \A f \in {Top(t)} \cup come : f.at \notin Calls
  OBVIOUS
<1> QED
  BY <1>1 DEF Silent

LEMMA EntersSilent ==
  ASSUME NEW t, NEW gone, NEW come, Enters(t, gone, come), gone = {} => stack[t] = <<>>,
         \A f \in gone \cup come : f.at \notin Calls,
         \A f \in come : f.at \in OuterLabels => BeginsOuter(t, f.at)
  PROVE  Silent(t)
<1>1. PICK new : new = come \cup {Frame("handleIdle")}
  OBVIOUS
<1>2. Turns(t, gone, come) \/ Turns(t, gone, new)
  BY <1>1 DEF Enters
<1>3. /\ \A f \in gone \cup new : f.at \notin Calls
      /\ \A f \in new : f.at \in OuterLabels => BeginsOuter(t, f.at)
  BY <1>1, Labels DEF Calls, OuterLabels, FeedLabels
<1> QED
  BY <1>2, <1>3 DEF Silent

LEMMA TaskSilent ==
  ASSUME Core, NEW w \in Workers, Task(w), ~FinishTask(w)
  PROVE  Silent(w) \/ stack' = stack
<1> USE Labels DEF Calls, OuterLabels, FeedLabels
<1>1. CASE \E q \in Queues : TakeTask(w, q)
  <2>1. PICK q \in Queues : TakeTask(w, q)
    BY <1>1
  <2>2. PICK i \in sq[q].items : i.kind \in {"open", "run"} /\ Turns(w, {}, {NodeFrame(i.kind, i.node)})
    BY <2>1, TakeTaskTurns
  <2>3. stack[w] = <<>>
    BY <2>1 DEF TakeTask
  <2> QED
    BY <2>2, <2>3 DEF Silent
<1>2. CASE OpenNode(w)
  <2>1. PICK n : n = Top(w).node
    OBVIOUS
  <2>2. PICK come : /\ Top(w).at = "open" /\ Turns(w, {Top(w)}, come)
                    /\ \/ come = AddSet(Items("open", OpenedBy(n))) \cup {NodeFrame("opened", n)}
                       \/ come = {NodeFrame("opened", n)}
    BY <1>2, <2>1, OpenNodeTurns
  <2>3. \A f \in come : f.at \notin Calls /\ f.at \notin OuterLabels
    BY <2>2
  <2> QED
    BY <2>2, <2>3, TopSilent
<1>3. CASE NodeOpened(w)
  <2>1. PICK n : n = Top(w).node
    OBVIOUS
  <2>2. PICK come : /\ Top(w).at = "opened" /\ Turns(w, {Top(w)}, come)
                    /\ \/ come = AddSet(Items("run", {n})) \cup {NodeFrame("finish", n)}
                       \/ come = {NodeFrame("toSourcesQueue", n)}
    BY <1>3, <2>1, NodeOpenedTurns
  <2>3. \A f \in come : f.at \notin Calls /\ f.at \notin OuterLabels
    BY <2>2
  <2> QED
    BY <2>2, <2>3, TopSilent
<1>4. CASE AddNodeToSourcesQueue(w)
  <2>1. Top(w).at = "toSourcesQueue" /\ Turns(w, {Top(w)}, {NodeFrame("finish", Top(w).node)})
    BY <1>4, ToSourcesQueueTurns
  <2> QED
    BY <2>1 DEF Silent
<1>5. CASE MarkClosed(w)
  <2>1. Top(w).at = "close" /\ Turns(w, {Top(w)}, {NodeFrame("end", Top(w).node)})
    BY <1>5, MarkClosedTurns
  <2> QED
    BY <2>1 DEF Silent
<1>6. CASE EndScheduling(w)
  <2>1. PICK n : n = Top(w).node
    OBVIOUS
  <2>2. PICK come : /\ Top(w).at = "end" /\ Turns(w, {Top(w)}, come)
                    /\ \/ come = AddSet(Items("run", {n})) \cup {NodeFrame("finish", n)}
                       \/ come = {NodeFrame("finish", n)}
    BY <1>6, <2>1, EndSchedulingTurns
  <2>3. \A f \in come : f.at \notin Calls /\ f.at \notin OuterLabels
    BY <2>2
  <2> QED
    BY <2>2, <2>3, TopSilent
<1>7. ASSUME NEW n \in Nodes,
             \/ SourceEmits(w, n) \/ SourceCloses(w, n) \/ NodeProcesses(w, n)
             \/ ProcessFails(w, n) \/ ProcessStops(w, n)
             \/ OpenFails(w, n) \/ CloseFails(w, n)
      PROVE  Silent(w) \/ stack' = stack
  <2>1. CASE SourceEmits(w, n) \/ SourceCloses(w, n)
    <3>1. PICK k \in {"end", "close"} : \/ k = "end" /\ SourceEmits(w, n)
                                        \/ k = "close" /\ SourceCloses(w, n)
      BY <2>1
    <3>2. /\ Top(w).at = "run"
          /\ Turns(w, {Top(w)}, AddSet(Items("run", Downstream[n])) \cup {NodeFrame(k, n)})
      BY <3>1, SourceRunsTurns
    <3> QED
      BY <3>2 DEF Silent
  <2>2. CASE NodeProcesses(w, n)
    <3>1. PICK items : /\ Top(w).at = "run"
                       /\ Turns(w, {Top(w)}, AddSet(items) \cup {NodeFrame("end", n)})
      BY <2>2, NodeProcessesTurns
    <3> QED
      BY <3>1 DEF Silent
  <2>3. CASE ProcessFails(w, n) \/ ProcessStops(w, n)
    <3>1. Top(w).at = "run" /\ Turns(w, {Top(w)}, {NodeFrame("end", n)})
      BY <2>3, FailsOrStopsTurns
    <3> QED
      BY <3>1 DEF Silent
  <2>4. CASE OpenFails(w, n)
    <3>1. Top(w).at = "open" /\ Turns(w, {Top(w)}, {NodeFrame("finish", n)})
      BY <2>4, OpenFailsTurns
    <3> QED
      BY <3>1 DEF Silent
  <2>5. CASE CloseFails(w, n)
    BY <2>5 DEF CloseFails
  <2> QED
    BY <1>7, <2>1, <2>2, <2>3, <2>4, <2>5
<1> QED
  BY <1>1, <1>2, <1>3, <1>4, <1>5, <1>6, <1>7 DEF Task

LEMMA SharedSilent ==
  ASSUME Core, NEW t \in Threads, Shared(t), ~PushItem(t), ~CallIdleFalse(t), ~CallIdleTrue(t)
  PROVE  Silent(t) \/ stack' = stack
<1> USE Labels DEF Calls, OuterLabels, FeedLabels
<1>1. CASE TryAddNode(t)
  <2>1. PICK come : /\ Turns(t, {Top(t)}, come) /\ Top(t).at = "add"
                    /\ \A f \in come : f.at \in {"add", "push"}
    <3>1. PICK i, rest : \/ Turns(t, {Top(t)}, {PushFrame(rest, i)})
                         \/ Turns(t, {Top(t)}, AddSet(rest))
      BY <1>1, TryAddNodeTurns
    <3> QED
      BY <1>1, <3>1, TryAddNodeTurns
  <2> QED
    BY <2>1 DEF Silent
<1>2. CASE AddTasks(t)
  <2>1. PICK come : come = AddSet(Top(t).todo)
    OBVIOUS
  <2>2. Top(t).at = "addTask" /\ Turns(t, {Top(t)}, come)
    BY <1>2, <2>1, AddTasksTurns
  <2>3. \A f \in come : f.at \notin Calls /\ f.at \notin OuterLabels
    BY <2>1, <2>2
  <2> QED
    BY <2>2, <2>3, TopSilent
<1>3. CASE SubmitWaitingTasks(t)
  <2>1. PICK qs : Top(t).at = "submit" /\ Turns(t, {Top(t)}, SubmitSet(qs))
    BY <1>3, SubmitWaitingTasksTurns
  <2> QED
    BY <2>1 DEF Silent
<1>4. CASE HandleIdle(t)
  <2>1. CASE HandleIdleNotIdle(t) \/ HandleIdleQuit(t)
    <3>1. At(t, "handleIdle") /\ LeaveHandleIdle(t)
      BY <2>1 DEF HandleIdleNotIdle, HandleIdleQuit, InHandleIdle
    <3>2. Turns(t, {Top(t)}, {}) /\ Top(t).at = "handleIdle"
      BY <3>1, LeaveHandleIdleTurns DEF At
    <3> QED
      BY <3>2 DEF Silent
  <2>2. CASE HandleIdleNextLayer(t)
    <3>1. PICK come : come = {Frame("stopQueues"), Frame("lock"), Top(t)}
      OBVIOUS
    <3>2. Top(t).at = "handleIdle" /\ Turns(t, {Top(t)}, come)
      BY <2>2, <3>1, NextLayerTurns
    <3>3. \A f \in come : f.at \notin Calls
      BY <3>1, <3>2
    <3>4. BeginsOuter(t, "lock")
      BY <2>2 DEF BeginsOuter
    <3>5. \A f \in come : f.at \in OuterLabels => f.at = "lock"
      BY <3>1, <3>2
    <3> QED
      BY <3>2, <3>3, <3>4, <3>5, TopSilent
  <2>3. CASE StopQueuesForLayer(t)
    <3>1. PICK come : come = {ActivateFrame(1)}
      OBVIOUS
    <3>2. Top(t).at = "stopQueues" /\ Turns(t, {Top(t)}, come)
      BY <2>3, <3>1, StopQueuesTurns
    <3>3. \A f \in come : f.at \notin Calls /\ f.at \notin OuterLabels
      BY <3>1, <3>2
    <3> QED
      BY <3>2, <3>3, TopSilent
  <2>4. CASE ActivateNode(t)
    <3>1. PICK f, i, items :
            /\ f.at \in {"startQueues", "activate"} /\ Top(t).at = "activate"
            /\ Turns(t, {Top(t)}, {AddFrame(items), f})
      <4>1. PICK i, n, next : /\ i = Top(t).i /\ n = active_sources_[i]
                              /\ next = IF i = Len(active_sources_) THEN Frame("startQueues")
                                                                    ELSE ActivateFrame(i + 1)
        OBVIOUS
      <4>2. Top(t).at = "activate" /\ Turns(t, {Top(t)}, {AddFrame(Items("run", {n})), next})
        BY <2>4, <4>1, ActivateNodeTurns
      <4>3. next.at \in {"startQueues", "activate"}
        BY <4>1
      <4> QED
        BY <4>2, <4>3
    <3> QED
      BY <3>1 DEF Silent
  <2>5. CASE StartQueuesForLayer(t)
    <3>1. PICK come : come = SubmitSet(Queues)
      OBVIOUS
    <3>2. Top(t).at = "startQueues" /\ Turns(t, {Top(t)}, come)
      BY <2>5, <3>1, StartQueuesTurns
    <3>3. \A f \in come : f.at \notin Calls /\ f.at \notin OuterLabels
      BY <3>1, <3>2
    <3> QED
      BY <3>2, <3>3, TopSilent
  <2>6. CASE LockStateMutex(t)
    <3>1. PICK come : come = {}
      OBVIOUS
    <3>2. Top(t).at = "lock" /\ Turns(t, {Top(t)}, come)
      BY <2>6, <3>1, LockTurns
    <3>3. \A f \in come : f.at \notin Calls /\ f.at \notin OuterLabels
      BY <3>1, <3>2
    <3> QED
      BY <3>2, <3>3, TopSilent
  <2>7. CASE UnthrottleSources(t)
    <3>1. PICK items, l : /\ l \in {"handleIdle", "endOfTurn"} /\ Top(t).at = "unthrottle"
                          /\ Turns(t, {Top(t)}, AddSet(items) \cup {Frame("lock"), Frame(l)})
      <4>1. PICK l : l = IF throttled # {} THEN "handleIdle" ELSE "endOfTurn"
        OBVIOUS
      <4>2. /\ Top(t).at = "unthrottle"
            /\ Turns(t, {Top(t)}, AddSet(LetGo(throttled)) \cup {Frame("lock"), Frame(l)})
        BY <2>7, <4>1, UnthrottleSourcesTurns
      <4>3. l \in {"handleIdle", "endOfTurn"}
        BY <4>1
      <4> QED
        BY <4>2, <4>3
    <3>2. BeginsOuter(t, "lock")
      BY <2>7 DEF BeginsOuter
    <3>3. PICK come : come = AddSet(items) \cup {Frame("lock"), Frame(l)}
      OBVIOUS
    <3>4. \A f \in come : f.at \notin Calls /\ (f.at \in OuterLabels => f.at = "lock")
      BY <3>1, <3>3
    <3> QED
      BY <3>1, <3>2, <3>3, <3>4, TopSilent
  <2>8. CASE HandleIdleEndOfTurn(t)
    <3>1. PICK come : /\ Top(t).at \in Turn /\ Turns(t, {Top(t)}, come)
                      /\ come = {} \/ come = {Frame("handleIdle")}
      BY <2>8, EndOfTurnTurns
    <3>2. \A f \in come : f.at \notin Calls /\ f.at \notin OuterLabels
      BY <3>1
    <3>3. Top(t).at \notin Calls
      BY <3>1 DEF Turn
    <3> QED
      BY <3>1, <3>2, <3>3, TopSilent
  <2>9. CASE HandleIdleBlocked(t)
    BY <2>9 DEF HandleIdleBlocked
  <2>10. CASE HandleIdleUnthrottle(t)
    <3>1. PICK come : come = {Frame("unthrottle")}
      OBVIOUS
    <3>2. Top(t).at = "handleIdle" /\ Turns(t, {Top(t)}, come)
      BY <2>10, <3>1, UnthrottleTurns
    <3>3. BeginsOuter(t, "unthrottle")
      BY <2>10 DEF BeginsOuter
    <3>4. \A f \in come : f.at \notin Calls /\ f.at = "unthrottle"
      BY <3>1
    <3> QED
      BY <3>2, <3>3, <3>4, TopSilent
  <2> QED
    BY <1>4, <2>1, <2>2, <2>3, <2>4, <2>5, <2>6, <2>7, <2>8, <2>9, <2>10 DEF HandleIdle
<1> QED
  BY <1>1, <1>2, <1>3, <1>4 DEF Shared

LEMMA AppSilent ==
  ASSUME Core, NEW a \in AppThreads, Start(a) \/ AppReturn(a) \/ App(a)
  PROVE  Silent(a) \/ stack' = stack
<1> USE Labels DEF Calls, OuterLabels, FeedLabels
<1>1. CASE Start(a) \/ Resume(a) \/ Cancel(a)
  <2>1. Enters(a, {}, {SubmitFrame(Queues)})
    BY <1>1, StartTurns
  <2>2. \A f \in {} \cup {SubmitFrame(Queues)} : f.at \notin Calls
    OBVIOUS
  <2>3. stack[a] = <<>>
    BY <1>1 DEF Start, Resume, Cancel, AppCall
  <2> QED
    BY <2>1, <2>2, <2>3, EntersSilent
<1>2. CASE AppReturn(a)
  <2>1. /\ Top(a).at \in {"addedPacket", "closedAll", "stopSources"}
        /\ Enters(a, {Top(a)}, {}) \/ Turns(a, {Top(a)}, {})
    BY <1>2, AppReturnTurns
  <2>2. \A f \in {Top(a)} \cup {} : f.at \notin Calls
    BY <2>1
  <2> QED
    BY SMTT(30), <2>1, <2>2, EntersSilent DEF Silent
<1>3. ASSUME NEW n \in InputNodes, AddPacket(a, n) PROVE Silent(a)
  <2>1. PICK come : come = AddSet(Items("run", {n})) \cup {Frame("addedPacket")}
    OBVIOUS
  <2>2. Turns(a, {}, come) /\ \A f \in {} \cup come : f.at \notin Calls
    BY <1>3, <2>1, AddPacketTurns
  <2>3. BeginsOuter(a, "addedPacket") /\ stack[a] = <<>>
    BY <1>3 DEF BeginsOuter, AddPacket, AppCall
  <2>4. \A f \in come : f.at \in OuterLabels => f.at = "addedPacket"
    BY <2>1
  <2> QED
    BY <2>2, <2>3, <2>4 DEF Silent
<1>4. ASSUME NEW kind \in {"closeAllInputs", "closeAllPacketSources"}, CloseAllInputs(a, kind)
      PROVE  Silent(a)
  <2>1. PICK C \in {{Frame("closedAll")}, {Frame("closedAll"), Frame("stopSources")}} :
          Turns(a, {}, AddSet(Items("run", InputNodes)) \cup C)
    BY <1>4, CloseAllInputsTurns
  <2>2. BeginsOuter(a, "closedAll") /\ stack[a] = <<>>
    BY <1>4 DEF BeginsOuter, CloseAllInputs, AppCall
  <2>3. PICK come : come = AddSet(Items("run", InputNodes)) \cup C
    OBVIOUS
  <2>4. \A f \in come : f.at \notin Calls /\ (f.at \in OuterLabels => f.at = "closedAll")
    BY <2>1, <2>3
  <2> QED
    BY <2>1, <2>2, <2>3, <2>4 DEF Silent
<1>5. CASE Pause(a)
  BY <1>5 DEF Pause
<1> QED
  BY <1>1, <1>2, <1>3, <1>4, <1>5 DEF App

\* The tasks of an executor and the ones that are being run are pending.
LEMMA PendingCounts ==
  ASSUME Inv, NEW q \in Queues
  PROVE  /\ sq[q].pending \in Nat /\ sq[q].toAdd \in Nat /\ executor[q] \in Nat
         /\ executor[q] > 0 \/ Serving(stack, q) # {} => sq[q].pending > 0
         /\ sq[q].items = {} => sq[q].toAdd = 0
<1>1. TypeOK /\ TasksCounted
  BY DEF Inv
<1>2. PICK it, held, serving :
        /\ it = Cardinality(sq[q].items) /\ held = Cardinality(TasksHeld(stack, q))
        /\ serving = Cardinality(Serving(stack, q))
  OBVIOUS
<1>3. /\ sq[q].pending \in Nat /\ sq[q].toAdd \in Nat /\ executor[q] \in Nat
      /\ it \in Nat /\ held \in Nat /\ serving \in Nat
  BY <1>1, <1>2, CountsTyped
<1>4. it = executor[q] + sq[q].toAdd + held /\ sq[q].pending = it - sq[q].toAdd + serving
  BY <1>1, <1>2 DEF TasksCounted
<1>5. Serving(stack, q) # {} => serving > 0
  <2>1. IsFiniteSet(Serving(stack, q))
    BY ServingCounts
  <2>2. Serving(stack, q) # {} => serving # 0
    BY <1>2, <2>1, FS_EmptySet
  <2> QED
    BY <1>3, <2>2
<1>6. sq[q].items = {} => it = 0
  BY <1>2, FS_EmptySet
<1> QED
  BY <1>3, <1>4, <1>5, <1>6

LEMMA NonIdleStays ==
  ASSUME Inv, Next, ~\E t \in Threads : PushItem(t), ~\E w \in Workers : FinishTask(w)
  PROVE  NonIdle(sq') = NonIdle(sq)
<1>0. Core
  BY InvParts
<1>1. CASE SameTasks
  BY <1>1 DEF SameTasks, NonIdle
<1>2. CASE \E w \in Workers : \E q \in Queues : TakeTask(w, q)
  <2>1. PICK w \in Workers, q \in Queues : TakeTask(w, q)
    BY <1>2
  <2>2. PICK i \in sq[q].items :
          /\ \A x \in Queues \ {q} : sq'[x] = sq[x]
          /\ sq'[q].pending = sq[q].pending
    BY <1>0, <2>1, TakeTaskTurns
  <2>3. executor[q] > 0
    BY <2>1 DEF TakeTask
  <2>4. sq[q].pending \in Nat /\ sq[q].pending > 0
    BY <2>3, PendingCounts
  <2> QED
    BY <2>2, <2>4 DEF NonIdle
<1>3. CASE \E t \in Threads : SubmitWaitingTasks(t)
  <2>1. PICK q \in Queues : IF sq[q].running > 0 THEN Submits(q) ELSE UNCHANGED queueVars
    BY <1>0, <1>3, SubmitWaitingTasksTurns
  <2>2. CASE Submits(q)
    <3>1. /\ \A x \in Queues \ {q} : sq'[x] = sq[x]
          /\ sq'[q].items = sq[q].items /\ sq'[q].pending = sq[q].pending + sq[q].toAdd
      BY <2>2 DEF Submits
    <3>2. /\ sq[q].pending \in Nat /\ sq[q].toAdd \in Nat
          /\ sq[q].items = {} => sq[q].toAdd = 0
      BY PendingCounts
    <3> QED
      BY <3>1, <3>2 DEF NonIdle
  <2>3. CASE UNCHANGED queueVars
    BY <2>3 DEF queueVars
  <2> QED
    BY <2>1, <2>2, <2>3
<1> QED
  BY <1>0, <1>1, <1>2, <1>3, QueueSteps

\* What changes the count.
LEMMA CountSteps ==
  ASSUME Next
  PROVE  \/ non_idle_queue_count_' = non_idle_queue_count_
         \/ \E t \in Threads : CallIdleFalse(t) \/ CallIdleTrue(t)
<1>1. CASE \E w \in Workers : Task(w)
  BY <1>1 DEF Task, TakeTask, FinishTask, OpenNode, NodeOpened, AddNodeToSourcesQueue, SourceEmits,
     SourceCloses, NodeProcesses, ProcessFails, ProcessStops, OpenFails, CloseFails,
     MarkClosed, EndScheduling, schedulerVars
<1>2. CASE \E t \in Threads : Shared(t)
  BY ZenonT(30), <1>2 DEF Shared, TryAddNode, PushItem, AddTasks, SubmitWaitingTasks, HandleIdle,
     HandleIdleNotIdle, HandleIdleQuit, HandleIdleBlocked, HandleIdleNextLayer, StopQueuesForLayer,
     ActivateNode, StartQueuesForLayer, LockStateMutex, HandleIdleUnthrottle,
     UnthrottleSources, HandleIdleEndOfTurn, schedulerVars
<1>3. CASE \E a \in AppThreads : Start(a) \/ AppReturn(a) \/ App(a)
  BY <1>3 DEF Start, AppReturn, App, AddedPacketToGraphInputStream, ClosedAllGraphInputStreams,
     CloseAllSourceNodes, AddPacket, CloseAllInputs, Pause, Resume, Cancel, schedulerVars
<1> QED
  BY <1>1, <1>2, <1>3 DEF Next

LEMMA OtherSteps ==
  ASSUME Core, Next, ~\E t \in Threads : PushItem(t), ~\E w \in Workers : FinishTask(w),
         ~\E t \in Threads : CallIdleFalse(t) \/ CallIdleTrue(t)
  PROVE  (\E t \in Threads : Silent(t)) \/ stack' = stack
<1>1. Workers \subseteq Threads /\ AppThreads \subseteq Threads
  BY DEF Threads
<1> QED
  BY <1>1, TaskSilent, SharedSilent, AppSilent DEF Next

LEMMA StepSilent ==
  ASSUME Core, Next, ~\E t \in Threads : PushItem(t), ~\E w \in Workers : FinishTask(w),
         ~\E t \in Threads : CallIdleFalse(t) \/ CallIdleTrue(t), NEW l \in Calls
  PROVE  Telling(stack', l) = Telling(stack, l)
  BY OtherSteps, SilentTelling

LEMMA CountExactKept ==
  ASSUME Inv, CountExact, Next
  PROVE  CountExact'
<1>0. Core /\ TypeOK
  BY InvParts DEF Core
<1>1. PICK N, A, B, M, C, D :
        /\ N = NonIdle(sq) /\ A = Telling(stack, "callFalse") /\ B = Telling(stack, "callTrue")
        /\ M = NonIdle(sq') /\ C = Telling(stack', "callFalse") /\ D = Telling(stack', "callTrue")
  OBVIOUS
<1>2. /\ IsFiniteSet(N) /\ IsFiniteSet(A) /\ IsFiniteSet(B)
      /\ IsFiniteSet(M) /\ IsFiniteSet(C) /\ IsFiniteSet(D)
  BY <1>1, Finite
<1>3. PICK n \in Nat, a \in Nat, b \in Nat, m \in Nat, c \in Nat, d \in Nat :
        /\ n = Cardinality(N) /\ a = Cardinality(A) /\ b = Cardinality(B)
        /\ m = Cardinality(M) /\ c = Cardinality(C) /\ d = Cardinality(D)
  BY <1>2, FS_CardinalityType
<1>4. non_idle_queue_count_ = n - a + b
  BY <1>1, <1>3 DEF CountExact
<1>5. SUFFICES non_idle_queue_count_' = m - c + d
  BY <1>1, <1>3 DEF CountExact
<1>6. "callFalse" \in Calls /\ "callTrue" \in Calls
  BY DEF Calls
<1>7. CASE \E t \in Threads : PushItem(t)
  <2>1. PICK t \in Threads : PushItem(t)
    BY <1>7
  <2>2. PICK g, i, q, gone : g = Top(t) /\ i = g.item /\ q = QueueOf[i.node] /\ gone = {g}
    OBVIOUS
  <2>3. PICK f \in Frames : /\ f.at = IF QueueIdle(q) THEN "callFalse" ELSE "addTask"
                            /\ Turns(t, gone, {f})
    BY <1>0, <2>1, <2>2, PushItemTurns
  <2>4. /\ g.at = "push" /\ q \in Queues /\ \A x \in Queues \ {q} : sq'[x] = sq[x]
        /\ sq'[q].items # {}
    <3>1. PICK kind : kind = IF i.kind = "open" THEN "open" ELSE "run"
      OBVIOUS
    <3>2. sq'[q].items = sq[q].items \cup {[node |-> i.node, kind |-> kind]}
      BY <1>0, <2>1, <2>2, <3>1, PushItemTurns
    <3> QED
      BY <1>0, <2>1, <2>2, <3>2, PushItemTurns
  <2>5. PICK come : come = {f}
    OBVIOUS
  <2>6. /\ Turns(t, gone, come) /\ gone # {}
        /\ ~HasAt(gone, "callFalse") /\ ~HasAt(gone, "callTrue") /\ ~HasAt(come, "callTrue")
    BY <2>2, <2>3, <2>4, <2>5 DEF HasAt
  <2>7. D = B
    BY <1>1, <2>6, TellingStays
  <2>8. non_idle_queue_count_' = non_idle_queue_count_
    BY <2>1 DEF PushItem, schedulerVars
  <2>9. CASE QueueIdle(q)
    <3>1. HasAt(come, "callFalse")
      BY <2>3, <2>5, <2>9 DEF HasAt
    <3>2. C = A \cup {t} /\ t \notin A
      BY <1>1, <1>6, <2>6, <3>1, TellingTurns
    <3>3. M = N \cup {q} /\ q \notin N
      BY <1>1, <2>4, <2>9 DEF NonIdle, QueueIdle
    <3>4. c = a + 1 /\ m = n + 1
      BY <1>2, <1>3, <3>2, <3>3, OneMore
    <3> QED
      BY <1>3, <1>4, <2>7, <2>8, <3>4
  <2>10. CASE ~QueueIdle(q)
    <3>1. ~HasAt(come, "callFalse")
      BY <2>3, <2>5, <2>10 DEF HasAt
    <3>2. C = A
      BY <1>1, <2>6, <3>1, TellingStays
    <3>3. M = N
      BY <1>1, <2>4, <2>10 DEF NonIdle, QueueIdle
    <3> QED
      BY <1>3, <1>4, <2>7, <2>8, <3>2, <3>3
  <2> QED
    BY <2>9, <2>10
<1>8. CASE \E w \in Workers : FinishTask(w)
  <2>1. PICK w \in Workers : FinishTask(w)
    BY <1>8
  <2>2. PICK g, q, gone : g = Top(w) /\ q = QueueOf[g.node] /\ gone = {g}
    OBVIOUS
  <2>3. /\ w \in Threads /\ g.at = "finish" /\ q \in Queues
        /\ \A x \in Queues \ {q} : sq'[x] = sq[x]
        /\ sq'[q].items = sq[q].items /\ sq'[q].pending = sq[q].pending - 1
        /\ sq[q].items = {} /\ sq[q].pending = 1 => Turns(w, gone, {Frame("callTrue")})
        /\ ~(sq[q].items = {} /\ sq[q].pending = 1) => Turns(w, gone, {})
    BY <1>0, <2>1, <2>2, FinishTaskTurns
  <2>4. sq[q].pending \in Nat /\ sq[q].pending > 0
    BY <2>1, <2>2, <2>3, FinishTaskCounts, PendingCounts, InvParts
  <2>5. non_idle_queue_count_' = non_idle_queue_count_
    BY <2>1 DEF FinishTask, schedulerVars
  <2>6. PICK come : /\ Turns(w, gone, come) /\ gone # {}
                    /\ sq[q].items = {} /\ sq[q].pending = 1 => come = {Frame("callTrue")}
                    /\ ~(sq[q].items = {} /\ sq[q].pending = 1) => come = {}
    BY <2>2, <2>3
  <2>7. /\ ~HasAt(gone, "callFalse") /\ ~HasAt(gone, "callTrue") /\ ~HasAt(come, "callFalse")
    BY <2>2, <2>3, <2>6, Labels DEF HasAt
  <2>8. C = A
    BY <1>1, <2>3, <2>6, <2>7, TellingStays
  <2>9. CASE sq[q].items = {} /\ sq[q].pending = 1
    <3>1. HasAt(come, "callTrue")
      BY <2>6, <2>9, Labels DEF HasAt
    <3>2. D = B \cup {w} /\ w \notin B
      BY <1>1, <1>6, <2>3, <2>6, <2>7, <3>1, TellingTurns
    <3>3. sq'[q].items = {} /\ sq'[q].pending = 0
      BY <2>3, <2>9
    <3>4. M = N \ {q} /\ q \in N
      BY <1>1, <2>3, <2>9, <3>3 DEF NonIdle
    <3>5. d = b + 1 /\ m = n - 1
      BY <1>2, <1>3, <3>2, <3>4, OneMore, OneLess
    <3> QED
      BY <1>3, <1>4, <2>5, <2>8, <3>5
  <2>10. CASE ~(sq[q].items = {} /\ sq[q].pending = 1)
    <3>1. ~HasAt(come, "callTrue")
      BY <2>6, <2>10 DEF HasAt
    <3>2. D = B
      BY <1>1, <2>3, <2>6, <2>7, <3>1, TellingStays
    <3>3. sq'[q].items # {} \/ sq'[q].pending # 0
      BY <2>3, <2>4, <2>10
    <3>4. sq[q].pending # 0
      BY <2>4
    <3>5. M = N
      BY <1>1, <2>3, <3>3, <3>4 DEF NonIdle
    <3> QED
      BY <1>3, <1>4, <2>5, <2>8, <3>2, <3>5
  <2> QED
    BY <2>9, <2>10
<1>9. ASSUME NEW t \in Threads, CallIdleFalse(t) \/ CallIdleTrue(t)
      PROVE  non_idle_queue_count_' = m - c + d
  <2>1. PICK gone : gone = {Top(t)}
    OBVIOUS
  <2>2. M = N
    BY <1>1, <1>9 DEF CallIdleFalse, CallIdleTrue, QueueIdleStateChanged, queueVars
  <2>3. PICK come :
          /\ Turns(t, gone, come) /\ gone # {} /\ ~HasAt(come, "callFalse") /\ ~HasAt(come, "callTrue")
          /\ \/ HasAt(gone, "callFalse") /\ ~HasAt(gone, "callTrue")
                /\ non_idle_queue_count_' = non_idle_queue_count_ + 1
             \/ HasAt(gone, "callTrue") /\ ~HasAt(gone, "callFalse")
                /\ non_idle_queue_count_' = non_idle_queue_count_ + (-1)
    <3>1. PICK new, by :
            /\ Tells(t, by, gone, new) /\ \A f \in new : f.at \notin Calls
            /\ \/ by = 1 /\ HasAt(gone, "callFalse") /\ ~HasAt(gone, "callTrue")
               \/ by = -1 /\ HasAt(gone, "callTrue") /\ ~HasAt(gone, "callFalse")
      <4>1. CASE CallIdleFalse(t)
        <5>1. PICK f, new : /\ Top(t).at = "callFalse" /\ f.at = "addTask" /\ new = {f}
                            /\ Tells(t, 1, gone, new)
          BY <1>0, <2>1, <4>1, CallIdleFalseTurns
        <5>2. (\A f1 \in new : f1.at \notin Calls) /\ HasAt(gone, "callFalse") /\ ~HasAt(gone, "callTrue")
          BY <2>1, <5>1 DEF Calls, HasAt
        <5> QED
          BY <5>1, <5>2
      <4>2. CASE CallIdleTrue(t)
        <5>1. Top(t).at = "callTrue" /\ Tells(t, -1, gone, {})
          BY <1>0, <2>1, <4>2, CallIdleTrueTurns
        <5>2. HasAt(gone, "callTrue") /\ ~HasAt(gone, "callFalse")
          BY <2>1, <5>1 DEF HasAt
        <5> QED
          BY <5>1, <5>2
      <4> QED
        BY <1>9, <4>1, <4>2
    <3>2. PICK more : more = new \cup {Frame("handleIdle")}
      OBVIOUS
    <3>3. PICK come \in {new, more} : Turns(t, gone, come)
      BY <3>1, <3>2 DEF Tells, Enters
    <3>4. ~HasAt(come, "callFalse") /\ ~HasAt(come, "callTrue")
      BY <3>1, <3>2, <3>3, Labels DEF HasAt, Calls
    <3>5. gone # {} /\ non_idle_queue_count_' = non_idle_queue_count_ + by
      BY <2>1, <3>1 DEF Tells
    <3> QED
      BY <3>1, <3>3, <3>4, <3>5
  <2>4. CASE /\ HasAt(gone, "callFalse") /\ ~HasAt(gone, "callTrue")
             /\ non_idle_queue_count_' = non_idle_queue_count_ + 1
    <3>1. C = A \ {t} /\ t \in A /\ D = B
      BY <1>1, <1>6, <2>3, <2>4, TellingTurns, TellingStays
    <3>2. c = a - 1
      BY <1>2, <1>3, <3>1, OneLess
    <3> QED
      BY <1>3, <1>4, <2>2, <2>4, <3>1, <3>2
  <2>5. CASE /\ HasAt(gone, "callTrue") /\ ~HasAt(gone, "callFalse")
             /\ non_idle_queue_count_' = non_idle_queue_count_ + (-1)
    <3>1. D = B \ {t} /\ t \in B /\ C = A
      BY <1>1, <1>6, <2>3, <2>5, TellingTurns, TellingStays
    <3>2. d = b - 1
      BY <1>2, <1>3, <3>1, OneLess
    <3> QED
      BY <1>3, <1>4, <2>2, <2>5, <3>1, <3>2
  <2> QED
    BY <2>3, <2>4, <2>5
<1>10. ASSUME ~\E t \in Threads : PushItem(t), ~\E w \in Workers : FinishTask(w),
              ~\E t \in Threads : CallIdleFalse(t) \/ CallIdleTrue(t)
       PROVE  non_idle_queue_count_' = m - c + d
  <2>1. M = N
    BY <1>1, <1>10, NonIdleStays
  <2>2. C = A /\ D = B
    BY <1>0, <1>1, <1>6, <1>10, StepSilent
  <2>3. non_idle_queue_count_' = non_idle_queue_count_
    BY <1>10, CountSteps
  <2> QED
    BY <1>3, <1>4, <2>1, <2>2, <2>3
<1> QED
  BY <1>7, <1>8, <1>9, <1>10

-----------------------------------------------------------------------------
(* The graph stays awake while there is something to do. *)

LEMMA AtMoves ==
  ASSUME NEW t \in Threads, NEW gone, NEW come, Turns(t, gone, come), NEW l
  PROVE  /\ HasAt(come, l) => HasAt(AllFrames', l)
         /\ HasAt(AllFrames, l) => HasAt(AllFrames', l) \/ HasAt(gone, l)
<1>1. PICK F, G : F = AllFrames /\ G = AllFrames'
  OBVIOUS
<1>2. F \subseteq G \cup gone /\ come \subseteq G
  BY <1>1, FramesMove
<1>3. /\ HasAt(come, l) => HasAt(G, l)
      /\ HasAt(F, l) => HasAt(G, l) \/ HasAt(gone, l)
  BY <1>2 DEF HasAt
<1> QED
  BY <1>1, <1>3

\* A call of HandleIdle makes some thread look for something to do.
LEMMA EntersWakes ==
  ASSUME handling_idle_ \in Nat, NEW t \in Threads, NEW gone, NEW come, Enters(t, gone, come)
  PROVE  Will'
<1>1. CASE handling_idle_ # 0
  <2>1. handling_idle_' = handling_idle_ + 1
    BY <1>1 DEF Enters
  <2>2. handling_idle_' > 1
    BY <1>1, <2>1
  <2> QED
    BY <2>2 DEF Will
<1>2. CASE handling_idle_ = 0
  <2>1. PICK new : new = come \cup {Frame("handleIdle")}
    OBVIOUS
  <2>2. Turns(t, gone, new)
    BY <1>2, <2>1 DEF Enters
  <2>3. HasAt(new, "handleIdle")
    BY <2>1, Labels DEF HasAt
  <2>4. HasAt(AllFrames', "handleIdle")
    BY <2>2, <2>3, AtMoves
  <2> QED
    BY <2>4 DEF Will
<1> QED
  BY <1>1, <1>2

\* The places at which a thread will take another turn of the loop.
Turning == {"handleIdle", "unthrottle"}
LEMMA StaysAwake ==
  ASSUME Awake,
         UNCHANGED <<state_, handling_idle_, has_error, graph_input_streams_closed_,
                     sources_queue_, status, throttled>>,
         NonIdle(sq') = NonIdle(sq),
         \A l \in Calls \cup Turning : HasAt(AllFrames, l) => HasAt(AllFrames', l)
  PROVE  Awake'
<1>1. PICK N, M, F, G : N = NonIdle(sq) /\ M = NonIdle(sq') /\ F = AllFrames /\ G = AllFrames'
  OBVIOUS
<1>2. SUFFICES ASSUME Going' = 1, ~Busy', ~Will' PROVE NothingToDo'
  BY DEF Awake
<1>3. /\ M = {} /\ ~HasAt(G, "callFalse") /\ ~HasAt(G, "callTrue")
      /\ ~(handling_idle_' > 1) /\ ~HasAt(G, "handleIdle")
      /\ throttled' = {} \/ ~HasAt(G, "unthrottle")
  BY <1>1, <1>2 DEF Busy, Will
<1>4. /\ N = {} /\ ~HasAt(F, "callFalse") /\ ~HasAt(F, "callTrue") /\ ~HasAt(F, "handleIdle")
      /\ throttled = {} \/ ~HasAt(F, "unthrottle")
  BY <1>1, <1>3 DEF Calls, Turning
<1>5. ~Busy /\ ~Will
  BY <1>1, <1>3, <1>4 DEF Busy, Will
<1>6. Going = 1
  BY <1>2 DEF Going
<1>7. NothingToDo
  BY <1>5, <1>6 DEF Awake
<1> QED
  BY <1>7 DEF NothingToDo

\* A step that pops a frame that is in none of these calls.
LEMMA TopStaysAwake ==
  ASSUME Awake,
         UNCHANGED <<state_, handling_idle_, has_error, graph_input_streams_closed_,
                     sources_queue_, status, throttled>>,
         NonIdle(sq') = NonIdle(sq),
         NEW t \in Threads, NEW gone, NEW come, Turns(t, gone, come),
         \A f \in gone : f.at \notin Calls \cup Turning
  PROVE  Awake'
<1>1. \A l \in Calls \cup Turning : HasAt(AllFrames, l) => HasAt(AllFrames', l)
  <2> TAKE l \in Calls \cup Turning
  <2>1. ~HasAt(gone, l)
    BY DEF HasAt
  <2> QED
    BY <2>1, AtMoves
<1> QED
  BY <1>1, StaysAwake

\* Once no queue has more to tell, none counts.
LEMMA QuietCounts ==
  ASSUME CountExact', ~Busy'
  PROVE  non_idle_queue_count_' = 0
<1>1. PICK G, N, C, D : /\ G = AllFrames' /\ N = NonIdle(sq')
                        /\ C = Telling(stack', "callFalse") /\ D = Telling(stack', "callTrue")
  OBVIOUS
<1>2. N = {} /\ ~HasAt(G, "callFalse") /\ ~HasAt(G, "callTrue")
  BY <1>1 DEF Busy
<1>3. \A t \in Threads : On(stack'[t]) \subseteq G
  BY <1>1 DEF AllFrames
<1>4. C = {} /\ D = {}
  BY <1>1, <1>2, <1>3 DEF Telling, HasAt
<1>5. Cardinality(N) = 0 /\ Cardinality(C) = 0 /\ Cardinality(D) = 0
  BY <1>2, <1>4, FS_EmptySet
<1>6. non_idle_queue_count_' = Cardinality(N) - Cardinality(C) + Cardinality(D)
  BY <1>1 DEF CountExact
<1> QED
  BY <1>5, <1>6

\* A frame of a stack fits what is under it.
LEMMA OnFits ==
  ASSUME StacksOK, NEW t \in Threads, NEW f \in On(stack[t])
  PROVE  f \in Frames /\ \E R \in SUBSET On(stack[t]) : Fits(t, f, R)
<1>1. PICK s : s = stack[t]
  OBVIOUS
<1>2. s \in Seq(Frames) /\ \A i \in DOMAIN s : Fits(t, s[i], Under(s, i))
  BY <1>1 DEF StacksOK, WellStacked
<1>3. PICK i \in DOMAIN s : f = s[i]
  BY <1>1 DEF On
<1>4. Len(s) \in Nat /\ DOMAIN s = 1 .. Len(s)
  BY <1>2, LenProperties
<1>5. Under(s, i) \subseteq On(s)
  BY <1>3, <1>4 DEF Under, On
<1>6. s[i] \in Frames
  BY <1>2, <1>3
<1> QED
  BY <1>1, <1>2, <1>3, <1>5, <1>6

\* The queue of a task that a worker has in hand is not idle.
LEMMA InHandBusy ==
  ASSUME Inv, NEW t \in Threads, NEW f \in On(stack[t]), f.at \in NodeLabels
  PROVE  NonIdle(sq) # {}
<1>1. StacksOK
  BY DEF Inv
<1>2. t \in Workers /\ f \in Frames
  BY <1>1, OnFits DEF Fits
<1>3. PICK q \in Queues : q = QueueOf[f.node]
  BY <1>2, FrameFields, GraphAssumption
<1>4. t \in Serving(stack, q)
  BY <1>2, <1>3 DEF Serving, Serves
<1>5. sq[q].pending \in Nat /\ sq[q].pending > 0
  BY <1>4, PendingCounts
<1> QED
  BY <1>5 DEF NonIdle

LEMMA TaskBusy ==
  ASSUME Inv, NEW w \in Workers, Task(w)
  PROVE  NonIdle(sq) # {}
<1>1. StacksOK /\ w \in Threads
  BY DEF Inv, Threads
<1>2. CASE \E q \in Queues : TakeTask(w, q)
  <2>1. PICK q \in Queues : executor[q] > 0
    BY <1>2 DEF TakeTask
  <2>2. sq[q].pending \in Nat /\ sq[q].pending > 0
    BY <2>1, PendingCounts
  <2> QED
    BY <2>2 DEF NonIdle
<1>3. CASE ~\E q \in Queues : TakeTask(w, q)
  <2>1. PICK l \in NodeLabels : At(w, l)
    BY <1>3 DEF Task, FinishTask, OpenNode, NodeOpened, AddNodeToSourcesQueue, SourceEmits,
       SourceCloses, NodeProcesses, ProcessFails, ProcessStops, OpenFails, CloseFails,
       MarkClosed, EndScheduling, Running, NodeLabels
  <2>2. Top(w) \in On(stack[w]) /\ Top(w).at = l
    BY <1>1, <2>1, TopMost
  <2> QED
    BY <1>1, <2>1, <2>2, InHandBusy
<1> QED
  BY <1>2, <1>3

\* A queue that is told of an item or of the end of a task is not idle, or says so.
LEMMA PushBusy ==
  ASSUME Inv, NEW t \in Threads, PushItem(t)
  PROVE  Busy'
<1>1. PICK i, q, kind : /\ i = Top(t).item /\ q = QueueOf[i.node]
                        /\ kind = IF i.kind = "open" THEN "open" ELSE "run"
  OBVIOUS
<1>2. q \in Queues /\ sq'[q].items = sq[q].items \cup {[node |-> i.node, kind |-> kind]}
  BY <1>1, PushItemTurns, InvParts
<1>3. q \in NonIdle(sq')
  BY <1>2 DEF NonIdle
<1> QED
  BY <1>3 DEF Busy

LEMMA FinishBusy ==
  ASSUME Inv, NEW w \in Workers, FinishTask(w)
  PROVE  Busy'
<1>1. PICK q : q = QueueOf[Top(w).node]
  OBVIOUS
<1>2. /\ w \in Threads /\ q \in Queues
      /\ sq'[q].items = sq[q].items /\ sq'[q].pending = sq[q].pending - 1
      /\ sq[q].items = {} /\ sq[q].pending = 1 => Turns(w, {Top(w)}, {Frame("callTrue")})
  BY <1>1, FinishTaskTurns, InvParts
<1>3. CASE sq[q].items = {} /\ sq[q].pending = 1
  <2>1. PICK gone, come : gone = {Top(w)} /\ come = {Frame("callTrue")}
    OBVIOUS
  <2>2. HasAt(come, "callTrue")
    BY <2>1, Labels DEF HasAt
  <2>3. HasAt(AllFrames', "callTrue")
    BY <1>2, <1>3, <2>1, <2>2, AtMoves
  <2> QED
    BY <2>3 DEF Busy
<1>4. CASE ~(sq[q].items = {} /\ sq[q].pending = 1)
  <2>1. sq[q].pending \in Nat
    BY <1>2, PendingCounts
  <2>2. q \in NonIdle(sq')
    BY <1>2, <1>4, <2>1 DEF NonIdle
  <2> QED
    BY <2>2 DEF Busy
<1> QED
  BY <1>3, <1>4

-----------------------------------------------------------------------------
(* The turns of HandleIdle. *)

LEMMA SomeLeftActive ==
  ASSUME ActiveSources # <<>>
  PROVE  \E j \in DOMAIN active_sources_ : status[active_sources_[j]] # "Closed"
<1>1. SUFFICES ASSUME \A j \in DOMAIN active_sources_ : status[active_sources_[j]] = "Closed"
               PROVE  FALSE
  OBVIOUS
<1>2. PICK open : open = {i \in DOMAIN active_sources_ : status[active_sources_[i]] # "Closed"}
  OBVIOUS
<1>3. open \cup {0} = {0}
  BY <1>1, <1>2
<1>4. Max({0}) \in {0}
  <2>1. 0 \in Nat /\ {0} \in SUBSET (0 .. 0) /\ {0} # {}
    OBVIOUS
  <2> QED
    BY <2>1, LargestOf
<1>5. Max(open \cup {0}) = 0
  BY <1>3, <1>4
<1>6. ActiveSources = SubSeq(active_sources_, 1, 0)
  BY <1>2, <1>5 DEF ActiveSources
<1>7. SubSeq(active_sources_, 1, 0) = <<>>
  OBVIOUS
<1> QED
  BY <1>6, <1>7

\* A thread that is about to schedule a source, while another is in its turn of
\* HandleIdle, has a task of a queue in hand.
LEMMA AskerBusy ==
  ASSUME Inv, NEW t \in Threads, At(t, "handleIdle"), NEW s \in Sources,
         HasAsk(AllFrames, s) \/ HasRun(AllFrames, s)
  PROVE  NonIdle(sq) # {}
<1>1. Core /\ StacksOK
  BY InvParts DEF Inv
<1>2. PICK u, f : u \in Threads /\ f \in On(stack[u]) /\ (Asks(f, s) \/ Runs(f, s))
  BY DEF HasAsk, HasRun, AllFrames
<1>3. PICK R \in SUBSET On(stack[u]) : Fits(u, f, R)
  BY <1>1, <1>2, OnFits
<1>4. CASE f.at \in NodeLabels
  BY <1>2, <1>4, InHandBusy
<1>5. CASE f.at \notin NodeLabels
  <2>1. Asks(f, s) \/ (f.at = "push" /\ Runs(f, s))
    BY <1>2, <1>5 DEF Runs, NodeLabels
  <2>2. PICK g \in R : g.at \in NodeLabels \cup {"lock"}
    BY <1>3, <2>1 DEF Fits
  <2>3. g \in On(stack[u]) /\ g.at \notin LayerLabels \cup {"lock"}
    BY <1>1, <1>2, <2>2, TurnAlone
  <2> QED
    BY <1>2, <2>2, <2>3, InHandBusy
<1> QED
  BY <1>4, <1>5

\* If a source is left active that nothing throttles, then it is scheduled.
LEMMA ActiveBusy ==
  ASSUME Inv, FlightsFound, WantsMet, OpenedMoveOn, NEW t \in Threads, At(t, "handleIdle"),
         ~has_error, throttled = {}, ActiveSources # <<>>
  PROVE  NonIdle(sq) # {}
<1>1. Core /\ TypeOK /\ SourcesPlaced
  BY InvParts DEF Inv, Core
<1>2. PICK j \in DOMAIN active_sources_ : status[active_sources_[j]] # "Closed"
  BY SomeLeftActive
<1>3. PICK s : s = active_sources_[j]
  OBVIOUS
<1>4. s \in Sources /\ s \in Nodes /\ status[s] \in {"Prepared", "Opened", "Active", "Closed"}
  <2>1. s \in Sources
    BY <1>1, <1>3 DEF TypeOK
  <2> QED
    BY <1>1, <2>1, GraphAssumption DEF TypeOK
<1>5. status[s] # "Prepared"
  BY <1>1, <1>3, <1>4 DEF SourcesPlaced, InActive
<1>6. status[s] # "Opened"
  <2>1. SUFFICES ASSUME status[s] = "Opened" PROVE FALSE
    OBVIOUS
  <2>2. HasLayer(AllFrames, j)
    BY <1>3, <2>1 DEF OpenedMoveOn
  <2>3. PICK u, f : /\ u \in Threads /\ f \in On(stack[u])
                    /\ f.at = "stopQueues" \/ f.at = "activate"
    BY <2>2 DEF HasLayer, AllFrames
  <2> QED
    BY <1>1, <2>3, TurnAlone DEF LayerLabels
<1>7. status[s] = "Active"
  BY <1>2, <1>3, <1>4, <1>5, <1>6
<1>8. inFlight[s] = 1 \/ HasAsk(AllFrames, s)
  BY <1>4, <1>7 DEF WantsMet, Wants
<1>9. HasAsk(AllFrames, s) \/ HasRun(AllFrames, s) \/ RunQueued(s)
  BY <1>4, <1>7, <1>8 DEF FlightsFound
<1>10. CASE RunQueued(s)
  <2>1. PICK q \in Queues : q = QueueOf[s]
    BY <1>4, GraphAssumption
  <2>2. sq[q].items # {}
    BY <1>10, <2>1 DEF RunQueued
  <2> QED
    BY <2>2 DEF NonIdle
<1> QED
  BY <1>4, <1>9, <1>10, AskerBusy

\* HandleIdle found nothing to do.
LEMMA TurnFindsNothing ==
  ASSUME Inv, ~MustQuit, ActiveSources = <<>>, sources_queue_ = {}
  PROVE  NothingToDo
<1>1. TypeOK /\ SourcesPlaced
  BY InvParts DEF Inv, Core
<1>2. ~has_error /\ ~graph_input_streams_closed_
  BY DEF MustQuit
<1>3. \A j \in DOMAIN active_sources_ : status[active_sources_[j]] = "Closed"
  BY <1>1, NoneLeftActive
<1>4. ASSUME NEW s \in Sources, status[s] = "Active" PROVE FALSE
  <2>1. InActive(s)
    BY <1>1, <1>4 DEF SourcesPlaced
  <2> QED
    BY <1>3, <1>4, <2>1 DEF InActive
<1> QED
  BY <1>2, <1>4 DEF NothingToDo

\* A thread that adds a layer goes back to HandleIdle.
LEMMA LayerWakes ==
  ASSUME Inv, NEW t \in Threads, stack[t] # <<>>, Top(t).at \in LayerLabels, NEW come,
         Turns(t, {Top(t)}, come)
  PROVE  Will'
<1>1. StacksOK
  BY DEF Inv
<1>2. /\ Fits(t, Top(t), On(Return(t))) /\ On(stack[t]) = {Top(t)} \cup On(Return(t))
  BY <1>1, OnTop
<1>3. PICK g \in On(Return(t)) : g.at = "handleIdle"
  BY <1>2 DEF Fits
<1>4. HasAt(AllFrames, "handleIdle")
  BY <1>2, <1>3 DEF HasAt, AllFrames
<1>5. PICK gone : gone = {Top(t)}
  OBVIOUS
<1>6. ~HasAt(gone, "handleIdle")
  BY <1>5 DEF HasAt, LayerLabels
<1>7. HasAt(AllFrames', "handleIdle")
  BY <1>4, <1>5, <1>6, AtMoves
<1> QED
  BY <1>7 DEF Will

LEMMA EndOfTurnAwake ==
  ASSUME Inv, Awake, NEW t \in Threads, HandleIdleEndOfTurn(t), NonIdle(sq') = NonIdle(sq)
  PROVE  Awake'
<1>0. Core /\ StacksOK /\ HandlerAlone /\ handling_idle_ \in Nat
  BY InvParts DEF Inv, Core, TypeOK
<1>1. PICK gone : gone = {Top(t)}
  OBVIOUS
<1>2. /\ Top(t) \in Frames /\ Top(t).at \in Turn
      /\ CalledAgain => Turns(t, gone, {Frame("handleIdle")})
      /\ ~CalledAgain => handling_idle_' = 0 /\ Turns(t, gone, {})
  BY <1>0, <1>1, EndOfTurnTurns
<1>3. CASE CalledAgain
  <2>1. PICK come : come = {Frame("handleIdle")}
    OBVIOUS
  <2>2. HasAt(come, "handleIdle")
    BY <2>1, Labels DEF HasAt
  <2>3. HasAt(AllFrames', "handleIdle")
    BY <1>2, <1>3, <2>1, <2>2, AtMoves
  <2> QED
    BY <2>3 DEF Awake, Will
<1>4. CASE ~CalledAgain
  <2>1. UNCHANGED <<state_, graph_input_streams_closed_, sources_queue_, has_error, status>>
    BY DEF HandleIdleEndOfTurn, sharedVars, nodeVars
  <2>2. CASE At(t, "endOfTurn")
    <3>1. SUFFICES ASSUME Going' = 1, ~Busy', ~Will' PROVE NothingToDo'
      BY DEF Awake
    <3>2. PICK N, M, F, G : N = NonIdle(sq) /\ M = NonIdle(sq') /\ F = AllFrames /\ G = AllFrames'
      OBVIOUS
    <3>3. M = {} /\ ~HasAt(G, "callFalse") /\ ~HasAt(G, "callTrue")
      BY <3>1, <3>2 DEF Busy
    <3>4. ~HasAt(gone, "callFalse") /\ ~HasAt(gone, "callTrue")
      BY <1>1, <1>2 DEF HasAt, Turn
    <3>5. ~HasAt(F, "callFalse") /\ ~HasAt(F, "callTrue")
      BY <1>2, <1>4, <3>2, <3>3, <3>4, AtMoves
    <3>6. ~HasAt(F, "handleIdle") /\ ~HasAt(F, "unthrottle")
      <4>1. SUFFICES ASSUME NEW u \in Threads, NEW f \in On(stack[u]), f.at \in Turning
                     PROVE  FALSE
        BY <3>2 DEF HasAt, AllFrames, Turning
      <4>2. /\ Top(t).at = "endOfTurn" /\ On(stack[t]) = {Top(t)} \cup On(Return(t))
            /\ \A g \in On(Return(t)) : g.at \notin HandlerLabels
        BY <1>0, <2>2, TurnOnTop DEF At
      <4>3. Handles(t) /\ Handles(u)
        BY <4>1, <4>2 DEF Handles, Has, HandlerLabels, Turn, Turning
      <4>4. u = t
        BY <1>0, <4>3 DEF HandlerAlone
      <4> QED
        BY <4>1, <4>2, <4>4 DEF HandlerLabels, Turn, Turning
    <3>7. ~Busy /\ ~Will
      BY <1>0, <1>4, <3>2, <3>3, <3>5, <3>6 DEF Busy, Will, CalledAgain
    <3>8. Going = 1
      BY <2>1, <3>1 DEF Going
    <3>9. NothingToDo
      BY <3>7, <3>8 DEF Awake
    <3> QED
      BY <2>1, <3>9 DEF NothingToDo
  <2>3. CASE ~At(t, "endOfTurn")
    <3>1. ~MustQuit /\ ActiveSources = <<>> /\ sources_queue_ = {}
      BY <2>3 DEF HandleIdleEndOfTurn
    <3>2. NothingToDo
      BY <3>1, TurnFindsNothing
    <3> QED
      BY <2>1, <3>2 DEF NothingToDo, Awake
  <2> QED
    BY <2>2, <2>3
<1> QED
  BY <1>3, <1>4

LEMMA UnthrottleAwake ==
  ASSUME Inv, RestInv, NEW t \in Threads, HandleIdleUnthrottle(t), NonIdle(sq') = NonIdle(sq)
  PROVE  Awake'
<1>0. Core
  BY InvParts
<1>1. /\ At(t, "handleIdle") /\ ~has_error /\ ActiveSources # <<>>
  BY DEF HandleIdleUnthrottle, InHandleIdle, MustQuit
<1>2. CASE throttled = {}
  <2>1. NonIdle(sq) # {}
    BY <1>1, <1>2, ActiveBusy DEF RestInv
  <2> QED
    BY <2>1 DEF Awake, Busy
<1>3. CASE throttled # {}
  <2>1. PICK come : come = {Frame("unthrottle")}
    OBVIOUS
  <2>2. \E gone : Turns(t, gone, come)
    BY <1>0, <2>1, UnthrottleTurns
  <2>3. HasAt(come, "unthrottle")
    BY <2>1, Labels DEF HasAt
  <2>4. HasAt(AllFrames', "unthrottle") /\ throttled' = throttled
    BY <2>2, <2>3, AtMoves DEF HandleIdleUnthrottle, nodeVars
  <2> QED
    BY <1>3, <2>4 DEF Awake, Will
<1> QED
  BY <1>2, <1>3

LEMMA UnthrottledAwake ==
  ASSUME Inv, Awake, NEW t \in Threads, UnthrottleSources(t), NonIdle(sq') = NonIdle(sq)
  PROVE  Awake'
<1>1. PICK gone, come, items :
        /\ gone = {Top(t)} /\ items = AddSet(LetGo(throttled))
        /\ come = items
                  \cup {Frame("lock"), Frame(IF throttled # {} THEN "handleIdle" ELSE "endOfTurn")}
  OBVIOUS
<1>2. Top(t).at = "unthrottle" /\ Turns(t, gone, come)
  BY <1>1, UnthrottleSourcesTurns, InvParts
<1>3. CASE throttled # {}
  <2>1. HasAt(come, "handleIdle")
    BY <1>1, <1>3, Labels DEF HasAt
  <2>2. HasAt(AllFrames', "handleIdle")
    BY <1>2, <2>1, AtMoves
  <2> QED
    BY <2>2 DEF Awake, Will
<1>4. CASE throttled = {}
  <2>1. UNCHANGED <<state_, handling_idle_, has_error, graph_input_streams_closed_,
                    sources_queue_, status>>
    BY DEF UnthrottleSources, schedulerVars, sharedVars
  <2>2. SUFFICES ASSUME Going' = 1, ~Busy', ~Will' PROVE NothingToDo'
    BY DEF Awake
  <2>3. PICK N, M, F, G : N = NonIdle(sq) /\ M = NonIdle(sq') /\ F = AllFrames /\ G = AllFrames'
    OBVIOUS
  <2>4. /\ M = {} /\ ~HasAt(G, "callFalse") /\ ~HasAt(G, "callTrue") /\ ~HasAt(G, "handleIdle")
        /\ ~(handling_idle_' > 1)
    BY <2>2, <2>3 DEF Busy, Will
  <2>5. \A l \in {"callFalse", "callTrue", "handleIdle"} : ~HasAt(gone, l)
    BY <1>1, <1>2 DEF HasAt
  <2>6. ~HasAt(F, "callFalse") /\ ~HasAt(F, "callTrue") /\ ~HasAt(F, "handleIdle")
    BY <1>2, <2>3, <2>4, <2>5, AtMoves
  <2>7. ~Busy /\ ~Will
    BY <1>4, <2>1, <2>3, <2>4, <2>6 DEF Busy, Will
  <2>8. NothingToDo
    BY <2>1, <2>2, <2>7 DEF Awake, Going
  <2> QED
    BY <2>1, <2>8 DEF NothingToDo
<1> QED
  BY <1>3, <1>4

LEMMA HandleIdleAwake ==
  ASSUME Inv, RestInv, NEW t \in Threads, HandleIdle(t), NonIdle(sq') = NonIdle(sq), CountExact'
  PROVE  Awake'
<1>0. Core /\ StacksOK /\ Awake
  BY InvParts DEF Core, RestInv
<1>1. CASE HandleIdleNotIdle(t)
  <2>1. /\ non_idle_queue_count_ # 0 \/ state_ \notin {"RUNNING", "CANCELLING"}
        /\ non_idle_queue_count_' = non_idle_queue_count_ /\ state_' = state_
    BY <1>1 DEF HandleIdleNotIdle, KeepsHandling, IsIdle
  <2>2. Going' # 1 \/ non_idle_queue_count_' # 0
    BY <2>1 DEF Going
  <2> QED
    BY <2>2, QuietCounts DEF Awake
<1>2. CASE HandleIdleQuit(t)
  <2>1. state_' = "TERMINATED"
    BY <1>2 DEF HandleIdleQuit
  <2>2. Going' # 1
    BY <2>1 DEF Going
  <2> QED
    BY <2>2 DEF Awake
<1>3. CASE HandleIdleBlocked(t)
  <2>1. At(t, "handleIdle") /\ stack' = stack
    BY <1>3 DEF HandleIdleBlocked, InHandleIdle
  <2>2. Top(t) \in On(stack[t]) /\ Top(t).at = "handleIdle"
    BY <1>0, <2>1, TopMost DEF HandlerLabels
  <2>3. HasAt(AllFrames, "handleIdle") /\ AllFrames' = AllFrames
    BY <2>1, <2>2, SameFrames DEF HasAt, AllFrames
  <2>4. PICK G : G = AllFrames'
    OBVIOUS
  <2>5. HasAt(G, "handleIdle")
    BY <2>3, <2>4
  <2> QED
    BY <2>4, <2>5 DEF Awake, Will
<1>4. CASE HandleIdleNextLayer(t)
  <2>1. PICK gone, come : gone = {Top(t)} /\ come = {Frame("stopQueues"), Frame("lock"), Top(t)}
    OBVIOUS
  <2>2. Top(t).at = "handleIdle" /\ Turns(t, gone, come)
    BY <1>0, <1>4, <2>1, NextLayerTurns
  <2>3. HasAt(come, "handleIdle")
    BY <2>1, <2>2 DEF HasAt
  <2>4. HasAt(AllFrames', "handleIdle")
    BY <2>2, <2>3, AtMoves
  <2> QED
    BY <2>4 DEF Awake, Will
<1>5. CASE StopQueuesForLayer(t) \/ ActivateNode(t) \/ StartQueuesForLayer(t)
  <2>1. PICK come : Turns(t, {Top(t)}, come) /\ Top(t).at \in LayerLabels
    <3>1. CASE StopQueuesForLayer(t)
      <4>1. Turns(t, {Top(t)}, {ActivateFrame(1)}) /\ Top(t).at = "stopQueues"
        BY <1>0, <3>1, StopQueuesTurns
      <4> QED
        BY <4>1 DEF LayerLabels
    <3>2. CASE ActivateNode(t)
      <4>1. \E come : Turns(t, {Top(t)}, come) /\ Top(t).at = "activate"
        BY <1>0, <3>2, ActivateNodeTurns
      <4> QED
        BY <4>1 DEF LayerLabels
    <3>3. CASE StartQueuesForLayer(t)
      <4>1. Turns(t, {Top(t)}, SubmitSet(Queues)) /\ Top(t).at = "startQueues"
        BY <1>0, <3>3, StartQueuesTurns
      <4> QED
        BY <4>1 DEF LayerLabels
    <3> QED
      BY <1>5, <3>1, <3>2, <3>3
  <2>2. stack[t] # <<>>
    BY <1>5 DEF StopQueuesForLayer, ActivateNode, StartQueuesForLayer, At
  <2> QED
    BY <2>1, <2>2, LayerWakes DEF Awake
<1>6. CASE LockStateMutex(t)
  <2>1. Top(t).at = "lock" /\ Turns(t, {Top(t)}, {})
    BY <1>0, <1>6, LockTurns
  <2>2. UNCHANGED <<state_, handling_idle_, has_error, graph_input_streams_closed_,
                    sources_queue_, status, throttled>>
    BY <1>6 DEF LockStateMutex, sharedVars, nodeVars
  <2>3. PICK gone : gone = {Top(t)}
    OBVIOUS
  <2>4. \A f \in gone : f.at \notin Calls \cup Turning
    BY <2>1, <2>3 DEF Calls, Turning
  <2> QED
    BY <1>0, <2>1, <2>2, <2>3, <2>4, TopStaysAwake
<1>7. CASE HandleIdleUnthrottle(t)
  BY <1>7, UnthrottleAwake
<1>8. CASE UnthrottleSources(t)
  BY <1>0, <1>8, UnthrottledAwake
<1>9. CASE HandleIdleEndOfTurn(t)
  BY <1>0, <1>9, EndOfTurnAwake
<1> QED
  BY <1>1, <1>2, <1>3, <1>4, <1>5, <1>6, <1>7, <1>8, <1>9 DEF HandleIdle

LEMMA CallsAwake ==
  ASSUME Inv, RestInv, NEW t \in Threads, Shared(t), ~HandleIdle(t), ~PushItem(t),
         NonIdle(sq') = NonIdle(sq), CountExact'
  PROVE  Awake'
<1>0. Core /\ Awake /\ handling_idle_ \in Nat
  BY InvParts DEF Core, RestInv, TypeOK
<1>1. CASE TryAddNode(t) \/ AddTasks(t) \/ SubmitWaitingTasks(t)
  <2>1. UNCHANGED <<state_, handling_idle_, has_error, graph_input_streams_closed_,
                    sources_queue_, status, throttled>>
    BY <1>1 DEF TryAddNode, AddTasks, SubmitWaitingTasks, schedulerVars, sharedVars, nodeVars
  <2>2. PICK come : Turns(t, {Top(t)}, come)
    <3>1. CASE TryAddNode(t)
      BY <1>0, <3>1, TryAddNodeTurns
    <3>2. CASE AddTasks(t)
      BY <1>0, <3>2, AddTasksTurns
    <3>3. CASE SubmitWaitingTasks(t)
      BY <1>0, <3>3, SubmitWaitingTasksTurns
    <3> QED
      BY <1>1, <3>1, <3>2, <3>3
  <2>3. Top(t).at \in {"add", "addTask", "submit"}
    BY <1>1 DEF TryAddNode, AddTasks, SubmitWaitingTasks, At
  <2>4. PICK gone : gone = {Top(t)}
    OBVIOUS
  <2>5. \A f \in gone : f.at \notin Calls \cup Turning
    BY <2>3, <2>4 DEF Calls, Turning
  <2> QED
    BY <1>0, <2>1, <2>2, <2>4, <2>5, TopStaysAwake
<1>2. CASE CallIdleFalse(t) \/ CallIdleTrue(t)
  <2>1. PICK by, come : Tells(t, by, {Top(t)}, come)
    BY <1>0, <1>2, CallIdleFalseTurns, CallIdleTrueTurns
  <2>2. CASE non_idle_queue_count_' = 0
    BY <1>0, <2>1, <2>2, EntersWakes DEF Tells, Awake
  <2>3. CASE non_idle_queue_count_' # 0
    BY <2>3, QuietCounts DEF Awake
  <2> QED
    BY <2>2, <2>3
<1> QED
  BY <1>1, <1>2 DEF Shared

LEMMA AppAwake ==
  ASSUME Inv, Awake, NEW a \in AppThreads, Start(a) \/ AppReturn(a) \/ App(a),
         NonIdle(sq') = NonIdle(sq)
  PROVE  Awake'
<1>0. Core /\ handling_idle_ \in Nat /\ a \in Threads
  BY InvParts DEF Core, TypeOK, Threads
<1>1. CASE Start(a) \/ Resume(a) \/ Cancel(a)
  <2>1. Enters(a, {}, {SubmitFrame(Queues)})
    BY <1>0, <1>1, StartTurns
  <2> QED
    BY <1>0, <2>1, EntersWakes DEF Awake
<1>2. CASE AppReturn(a)
  <2>1. CASE Enters(a, {Top(a)}, {})
    BY <1>0, <2>1, EntersWakes DEF Awake
  <2>2. CASE ~Enters(a, {Top(a)}, {})
    <3>1. /\ Turns(a, {Top(a)}, {}) /\ handling_idle_' = handling_idle_
          /\ Top(a).at \in {"addedPacket", "stopSources"}
      BY <1>0, <1>2, <2>2, AppReturnTurns
    <3>2. ~ClosedAllGraphInputStreams(a)
      BY <3>1 DEF ClosedAllGraphInputStreams, At
    <3>3. UNCHANGED <<state_, has_error, graph_input_streams_closed_, sources_queue_, status,
                      throttled>>
      BY <1>2, <3>2 DEF AppReturn, AddedPacketToGraphInputStream, CloseAllSourceNodes,
                        schedulerVars, sharedVars, nodeVars
    <3>4. PICK gone : gone = {Top(a)}
      OBVIOUS
    <3>5. \A f \in gone : f.at \notin Calls \cup Turning
      BY <3>1, <3>4 DEF Calls, Turning
    <3> QED
      BY <1>0, <3>1, <3>3, <3>4, <3>5, TopStaysAwake
  <2> QED
    BY <2>1, <2>2
<1>3. CASE \/ \E n \in InputNodes : AddPacket(a, n)
           \/ \E kind \in {"closeAllInputs", "closeAllPacketSources"} : CloseAllInputs(a, kind)
  <2>1. UNCHANGED <<state_, handling_idle_, has_error, graph_input_streams_closed_,
                    sources_queue_, status, throttled>>
    BY <1>3 DEF AddPacket, CloseAllInputs, schedulerVars, sharedVars
  <2>2. PICK come : Turns(a, {}, come)
    BY <1>0, <1>3, AddPacketTurns, CloseAllInputsTurns
  <2>3. PICK gone : gone = {}
    OBVIOUS
  <2>4. Turns(a, gone, come) /\ \A f \in gone : f.at \notin Calls \cup Turning
    BY <2>2, <2>3
  <2> QED
    BY <1>0, <2>1, <2>4, TopStaysAwake
<1>4. CASE Pause(a)
  <2>1. state_' = "PAUSED"
    BY <1>4 DEF Pause
  <2>2. Going' # 1
    BY <2>1 DEF Going
  <2> QED
    BY <2>2 DEF Awake
<1> QED
  BY <1>1, <1>2, <1>3, <1>4 DEF App

LEMMA AwakeKept ==
  ASSUME Inv, RestInv, Next, CountExact'
  PROVE  Awake'
<1>1. CASE \E t \in Threads : PushItem(t)
  BY <1>1, PushBusy DEF Awake
<1>2. CASE \E w \in Workers : FinishTask(w)
  BY <1>2, FinishBusy DEF Awake
<1>3. CASE /\ ~\E t \in Threads : PushItem(t)
           /\ ~\E w \in Workers : FinishTask(w)
  <2>1. NonIdle(sq') = NonIdle(sq)
    BY <1>3, NonIdleStays
  <2>2. CASE \E w \in Workers : Task(w)
    <3>1. NonIdle(sq') # {}
      BY <2>1, <2>2, TaskBusy
    <3> QED
      BY <3>1 DEF Awake, Busy
  <2>3. CASE \E t \in Threads : Shared(t)
    BY <1>3, <2>1, <2>3, HandleIdleAwake, CallsAwake
  <2>4. CASE \E a \in AppThreads : Start(a) \/ AppReturn(a) \/ App(a)
    BY <2>1, <2>4, AppAwake DEF RestInv
  <2> QED
    BY <2>2, <2>3, <2>4 DEF Next
<1> QED
  BY <1>1, <1>2, <1>3

-----------------------------------------------------------------------------
(* The invariant holds in every run, and what it says of a graph at rest. *)

LEMMA InitRest ==
  ASSUME Init
  PROVE  RestInv
<1>1. PICK F, N, C, D : /\ F = AllFrames /\ N = NonIdle(sq)
                        /\ C = Telling(stack, "callFalse") /\ D = Telling(stack, "callTrue")
  OBVIOUS
<1>2. \A t \in Threads : On(stack[t]) = {}
  BY InitStacks
<1>3. F = {} /\ C = {} /\ D = {}
  BY <1>1, <1>2 DEF AllFrames, Telling, HasAt
<1>4. /\ \A q \in Queues : sq[q].running = 0
      /\ \A n \in Nodes : status[n] = "Prepared" /\ inFlight[n] = 0
      /\ unopened_sources_ = Sources /\ DOMAIN active_sources_ = {}
      /\ state_ = "NOT_STARTED"
  BY DEF Init
<1>5. Submitted /\ CancelledWithError /\ FlightsFound /\ Awake
  BY <1>4 DEF Submitted, CancelledWithError, FlightsFound, Awake, Going
<1>6. WantsMet /\ OpenedMoveOn
  BY <1>4, GraphAssumption DEF WantsMet, Wants, OpenedMoveOn
<1>7. CountExact
  <2>1. \A q \in Queues : /\ sq[q].items = Items("open", OpenableOn(q)) /\ sq[q].pending = 0
    BY DEF Init
  <2>2. \A q \in Queues : Items("open", OpenableOn(q)) = {} <=> OpenableOn(q) = {}
    BY DEF Items
  <2>3. N = {q \in Queues : OpenableOn(q) # {}}
    BY <1>1, <2>1, <2>2 DEF NonIdle
  <2>4. non_idle_queue_count_ = Cardinality(N)
    BY <2>3 DEF Init
  <2>5. Cardinality(C) = 0 /\ Cardinality(D) = 0
    BY <1>3, FS_EmptySet
  <2>6. Cardinality(N) \in Nat
    BY <1>1, Finite
  <2>7. non_idle_queue_count_ = Cardinality(N) - Cardinality(C) + Cardinality(D)
    BY <2>4, <2>5, <2>6
  <2> QED
    BY <1>1, <2>7 DEF CountExact
<1> QED
  BY <1>5, <1>6, <1>7 DEF RestInv

LEMMA StutterKeepsRest ==
  ASSUME RestInv, UNCHANGED vars
  PROVE  RestInv'
<1>1. /\ UNCHANGED <<state_, handling_idle_, non_idle_queue_count_, graph_input_streams_closed_>>
      /\ UNCHANGED <<active_sources_, sources_queue_, unopened_sources_, has_error, sq, stack>>
      /\ UNCHANGED <<status, inFlight, ready, throttled>>
  BY DEF vars, schedulerVars, sharedVars, queueVars, nodeVars
<1>2. AllFrames' = AllFrames
  BY <1>1 DEF AllFrames
<1>3. Submitted' /\ CancelledWithError'
  BY <1>1, <1>2 DEF RestInv, Submitted, CancelledWithError
<1>4. FlightsFound'
  BY <1>1, <1>2 DEF RestInv, FlightsFound, RunQueued
<1>5. WantsMet'
  BY <1>1, <1>2 DEF RestInv, WantsMet, Wants
<1>6. OpenedMoveOn'
  BY <1>1, <1>2 DEF RestInv, OpenedMoveOn
<1>7. CountExact'
  BY <1>1 DEF RestInv, CountExact, NonIdle, Telling
<1>8. Awake'
  BY <1>1, <1>2 DEF RestInv, Awake, Going, Busy, Will, NothingToDo, NonIdle
<1> QED
  BY <1>3, <1>4, <1>5, <1>6, <1>7, <1>8 DEF RestInv

LEMMA RestAlways == Spec => [](Inv /\ RestInv)
<1>1. Init => Inv /\ RestInv
  BY InitInv, InitRest
<1>2. ASSUME Inv, RestInv, Next
      PROVE  Inv' /\ RestInv'
  <2>1. Core
    BY <1>2, InvParts
  <2>2. Inv'
    BY <1>2, StepKeepsInv
  <2>3. Submitted' /\ CancelledWithError' /\ FlightsFound' /\ WantsMet' /\ OpenedMoveOn'
    BY <1>2, <2>1, SubmittedKept, CancelledKept, FlightsFoundKept, WantsMetKept,
       OpenedMoveOnKept DEF RestInv
  <2>4. CountExact'
    BY <1>2, CountExactKept DEF RestInv
  <2>5. Awake'
    BY <1>2, <2>4, AwakeKept
  <2> QED
    BY <2>2, <2>3, <2>4, <2>5 DEF RestInv
<1>3. Inv /\ RestInv /\ [Next]_vars => Inv' /\ RestInv'
  BY <1>2, StutterKeepsInv, StutterKeepsRest
<1> QED
  BY <1>1, <1>3, PTL DEF Spec

\* At rest nothing is left that a thread or a queue has still to do.
LEMMA AtRest ==
  ASSUME Inv, RestInv, Quiet, Going = 1
  PROVE  /\ AllFrames = {} /\ IsIdle /\ NothingToDo
         /\ \A q \in Queues : sq[q].items = {} /\ sq[q].pending = 0
<1>1. PICK F, N, C, D : /\ F = AllFrames /\ N = NonIdle(sq)
                        /\ C = Telling(stack, "callFalse") /\ D = Telling(stack, "callTrue")
  OBVIOUS
<1>2. /\ TypeOK /\ HandlerAlone /\ RunningExact /\ TasksCounted /\ handling_idle_ \in Nat
  BY DEF Inv, HandlingSound, TypeOK
<1>3. \A t \in Threads : stack[t] = <<>> /\ On(stack[t]) = {}
  BY DEF Quiet, Doing, On
<1>4. F = {} /\ C = {} /\ D = {}
  BY <1>1, <1>3 DEF AllFrames, Telling, HasAt
<1>5. ASSUME NEW q \in Queues PROVE sq[q].items = {} /\ sq[q].pending = 0
  <2>1. Held = 0
    BY <1>3 DEF Held, StopsQueues, Has
  <2>2. sq[q].running = 1
    BY <1>2, <2>1 DEF RunningExact
  <2>3. executor[q] = 0
    BY DEF Quiet
  <2>4. sq[q].pending \in Nat /\ sq[q].toAdd \in Nat
    BY PendingCounts
  <2>5. ~(sq[q].toAdd > 0)
    <3>1. ~HasSubmit(F, q)
      BY <1>4 DEF HasSubmit
    <3> QED
      BY <1>1, <2>2, <3>1 DEF RestInv, Submitted
  <2>6. TasksHeld(stack, q) = {}
    BY <1>3, Empty DEF TasksHeld, HeldIn
  <2>7. Serving(stack, q) = {}
    BY <1>3 DEF Serving, Serves, Threads
  <2>8. Cardinality(TasksHeld(stack, q)) = 0 /\ Cardinality(Serving(stack, q)) = 0
    BY <2>6, <2>7, FS_EmptySet
  <2>9. /\ IsFiniteSet(sq[q].items)
        /\ Cardinality(sq[q].items) = executor[q] + sq[q].toAdd + Cardinality(TasksHeld(stack, q))
        /\ sq[q].pending = Cardinality(sq[q].items) - sq[q].toAdd + Cardinality(Serving(stack, q))
    BY <1>2 DEF TasksCounted
  <2>10. Cardinality(sq[q].items) = 0 /\ sq[q].pending = 0
    BY <2>3, <2>4, <2>5, <2>8, <2>9
  <2> QED
    BY <2>9, <2>10, FS_EmptySet
<1>6. N = {}
  BY <1>1, <1>5 DEF NonIdle
<1>7. non_idle_queue_count_ = 0
  <2>1. Cardinality(N) = 0 /\ Cardinality(C) = 0 /\ Cardinality(D) = 0
    BY <1>4, <1>6, FS_EmptySet
  <2>2. non_idle_queue_count_ = Cardinality(N) - Cardinality(C) + Cardinality(D)
    BY <1>1 DEF RestInv, CountExact
  <2> QED
    BY <2>1, <2>2
<1>8. handling_idle_ = 0
  <2>1. \A t \in Threads : ~Handles(t)
    BY <1>3 DEF Handles, Has
  <2> QED
    BY <1>2, <2>1 DEF HandlerAlone
<1>9. ~Busy /\ ~Will
  <2>1. \A l : ~HasAt(F, l)
    BY <1>4 DEF HasAt
  <2> QED
    BY <1>1, <1>6, <1>8, <2>1 DEF Busy, Will
<1>10. NothingToDo
  BY <1>9 DEF RestInv, Awake
<1> QED
  BY <1>1, <1>4, <1>5, <1>7, <1>10 DEF IsIdle

LEMMA InvRests ==
  ASSUME Inv, RestInv
  PROVE  RestsOnlyForInput /\ CancelTerminates
<1>1. CancelTerminates
  <2>1. SUFFICES ASSUME Quiet, state_ = "CANCELLING" PROVE FALSE
    BY DEF CancelTerminates
  <2>2. Going = 1 /\ has_error
    BY <2>1 DEF Going, RestInv, CancelledWithError
  <2>3. NothingToDo
    BY <2>1, <2>2, AtRest
  <2> QED
    BY <2>2, <2>3 DEF NothingToDo
<1>2. RestsOnlyForInput
  <2>1. SUFFICES ASSUME Quiet, state_ = "RUNNING"
                 PROVE  /\ IsIdle
                        /\ \A q \in Queues : sq[q].items = {} /\ sq[q].pending = 0
                        /\ ~graph_input_streams_closed_ /\ ~has_error
                        /\ sources_queue_ = {}
                        /\ \A s \in Sources : status[s] \in {"Prepared", "Closed"}
                        /\ \A n \in Nodes \ Sources : status[n] = "Opened" => ready[n] = 0
    BY DEF RestsOnlyForInput
  <2>2. Going = 1
    BY <2>1 DEF Going
  <2>3. PICK F : F = AllFrames
    OBVIOUS
  <2>4. /\ F = {} /\ IsIdle /\ NothingToDo
        /\ \A q \in Queues : sq[q].items = {} /\ sq[q].pending = 0
    BY <2>1, <2>2, <2>3, AtRest
  <2>5. /\ \A n : ~HasAsk(F, n) /\ ~HasRun(F, n) /\ ~HasMove(F, n) /\ ~HasLayer(F, n)
    BY <2>4 DEF HasAsk, HasRun, HasMove, HasLayer
  <2>6. TypeOK /\ SourcesPlaced
    BY DEF Inv, SourcesSound
  <2>7. ASSUME NEW s \in Sources PROVE status[s] \in {"Prepared", "Closed"}
    <3>1. s \in Nodes /\ status[s] \in {"Prepared", "Opened", "Active", "Closed"}
      BY <2>6, GraphAssumption DEF TypeOK
    <3>2. status[s] # "Active" /\ s \notin sources_queue_
      BY <2>4 DEF NothingToDo
    <3>3. s \in unopened_sources_ => status[s] # "Opened"
      BY <2>3, <2>5 DEF RestInv, OpenedMoveOn
    <3>4. InActive(s) => status[s] # "Opened"
      BY <2>3, <2>5 DEF RestInv, OpenedMoveOn, InActive
    <3>5. s \in unopened_sources_ \/ InActive(s) \/ status[s] = "Closed"
      BY <2>6, <3>2 DEF SourcesPlaced
    <3> QED
      BY <3>1, <3>2, <3>3, <3>4, <3>5
  <2>8. ASSUME NEW n \in Nodes \ Sources, status[n] = "Opened" PROVE ready[n] = 0
    <3>1. ready[n] \in Nat /\ QueueOf[n] \in Queues
      BY <2>6, GraphAssumption DEF TypeOK
    <3>2. ~RunQueued(n)
      BY <2>4, <3>1 DEF RunQueued
    <3>3. inFlight[n] # 1
      BY <2>3, <2>5, <2>8, <3>2 DEF RestInv, FlightsFound
    <3>4. ~has_error
      BY <2>4 DEF NothingToDo
    <3>5. ~Wants(n)
      BY <2>3, <2>5, <3>3, <3>4 DEF RestInv, WantsMet
    <3> QED
      BY <2>8, <3>1, <3>5 DEF Wants
  <2> QED
    BY <2>4, <2>7, <2>8 DEF NothingToDo
<1> QED
  BY <1>1, <1>2

\* HandleIdle is called often enough: for every graph and every interleaving of the
\* idle callbacks with the calls of the application, a graph that runs comes to rest
\* only when all it can do is to wait for a packet.
THEOREM NoWakeupLost == Spec => []RestsOnlyForInput
<1>1. Inv /\ RestInv => RestsOnlyForInput
  BY InvRests
<1> QED
  BY <1>1, RestAlways, PTL

\* Nor is a run stranded by what the application does to it: what NoWakeupLost says,
\* and that a run Cancel has reached does not stop short of Quit, whatever its threads
\* were about then, and whether it was paused or not.
THEOREM NoRunStranded == Spec => []RestsOnlyWhenDone
<1>1. Inv /\ RestInv => RestsOnlyWhenDone
  BY InvRests DEF RestsOnlyWhenDone
<1> QED
  BY <1>1, RestAlways, PTL
-----------------------------------------------------------------------------
(* Waits.  A queue that is not idle any more says so late, and the count is short
   by the reports that are under way.  What makes IsIdle true all the same is that
   every report is made by a thread that is itself in the middle of a task, of a
   queue that is not idle either; were all these queues still to be reported, each
   would have been pushed to from one of the others. *)

\* The thread t is about to report that q is not idle any more.
Reports(st, t, q) == \E f \in On(st[t]) : f.at = "callFalse" /\ f.q = q

\* The calls each thread may still make.
CallsLeft ==
  /\ calls \in [AppThreads -> [CallKinds -> Nat]]
  /\ \A a \in AppThreads, k \in CallKinds : Budget[a][k] = 0 => calls[a][k] = 0

\* Nothing stops the queues between Start and the end of the run.
NeverHeld ==
  /\ state_ # "PAUSED"
  /\ \A t \in Threads : \A l \in {"unthrottle", "lock"} : ~HasAt(On(stack[t]), l)

\* A queue that is still to be reported keeps a task until it is: the thread that
\* reports it submits the task later, or the run is over.
ReportersHold ==
  \A t \in Threads : \A f \in On(stack[t]) :
    f.at = "callFalse" => f.tasks > 0 \/ (state_ = "TERMINATED" /\ sq[f.q].toAdd > 0)

OneReporter ==
  \A t, u \in Threads : \A q \in Queues : Reports(stack, t, q) /\ Reports(stack, u, q) => t = u

\* Each queue of S is reported by a thread in the middle of a task of a queue of S.
Circle(st, S) ==
  S # {} /\ \A q \in S : \E t \in Threads : Reports(st, t, q) /\ \E p \in S : t \in Serving(st, p)
NoCircle == \A S \in SUBSET Queues : ~Circle(stack, S)

WaitInv == CallsLeft /\ NeverHeld /\ ReportersHold /\ OneReporter /\ NoCircle

\* A frame that is only on top, and where the others of the stack are.
LEMMA ReportsTop ==
  ASSUME StacksOK, NEW t \in Threads, NEW f \in On(stack[t]), f.at = "callFalse"
  PROVE  /\ f \in Frames /\ f.q \in Queues /\ f.tasks \in Nat
         /\ At(t, "callFalse") /\ f = Top(t)
<1>1. f \in Frames
  BY OnFits
<1>2. stack[t] # <<>>
  BY Empty
<1>3. On(stack[t]) = {Top(t)} \cup On(Return(t)) /\ Fits(t, Top(t), On(Return(t)))
  BY <1>2, OnTop
<1>4. f = Top(t)
  BY <1>3 DEF Fits, TopLabels
<1> QED
  BY <1>1, <1>2, <1>4, FrameFields DEF At, TaskLabels

\* The new frames of every step.
LEMMA StackSteps ==
  ASSUME Core, Next
  PROVE  \/ stack' = stack
         \/ \E t \in Threads : \E gone, come :
              /\ Turns(t, gone, come)
              /\ gone = {} => stack[t] = <<>>
              /\ \A f \in come : f.at \in OuterLabels => BeginsOuter(t, f.at)
              /\ \A f \in come : f.at = "callFalse" => PushItem(t)
<1>1. ASSUME NEW t \in Threads, PushItem(t)
      PROVE  \E gone, come :
               /\ Turns(t, gone, come)
               /\ gone = {} => stack[t] = <<>>
               /\ \A f \in come : f.at \notin OuterLabels
  <2>1. PICK q, f : /\ f.at = IF QueueIdle(q) THEN "callFalse" ELSE "addTask"
                    /\ Turns(t, {Top(t)}, {f})
    BY <1>1, PushItemTurns
  <2>2. PICK gone, come : gone = {Top(t)} /\ come = {f}
    OBVIOUS
  <2> QED
    BY <2>1, <2>2 DEF OuterLabels, FeedLabels
<1>2. ASSUME NEW w \in Workers, FinishTask(w)
      PROVE  w \in Threads /\ \E gone, come :
               /\ Turns(w, gone, come)
               /\ gone = {} => stack[w] = <<>>
               /\ \A f \in come : f.at \notin OuterLabels \cup {"callFalse"}
  <2>1. PICK gone : gone = {Top(w)}
    OBVIOUS
  <2>2. PICK come : /\ w \in Threads /\ Turns(w, gone, come)
                    /\ come = {} \/ come = {Frame("callTrue")}
    BY <1>2, <2>1, FinishTaskTurns
  <2> QED
    BY <2>1, <2>2, Labels DEF OuterLabels, FeedLabels
<1>3. ASSUME NEW t \in Threads, CallIdleFalse(t) \/ CallIdleTrue(t)
      PROVE  \E gone, come :
               /\ Turns(t, gone, come)
               /\ gone = {} => stack[t] = <<>>
               /\ \A f \in come : f.at \notin OuterLabels \cup {"callFalse"}
  <2>1. PICK gone : gone = {Top(t)}
    OBVIOUS
  <2>2. PICK by, new : Tells(t, by, gone, new) /\ \A f \in new : f.at = "addTask"
    <3>1. CASE CallIdleFalse(t)
      <4>1. PICK f : f.at = "addTask" /\ Tells(t, 1, {Top(t)}, {f})
        BY <3>1, CallIdleFalseTurns
      <4>2. PICK new : new = {f}
        OBVIOUS
      <4> QED
        BY <2>1, <4>1, <4>2
    <3>2. CASE CallIdleTrue(t)
      <4>1. Tells(t, -1, gone, {})
        BY <2>1, <3>2, CallIdleTrueTurns
      <4> QED
        BY <4>1
    <3> QED
      BY <1>3, <3>1, <3>2
  <2>3. PICK come \in {new, new \cup {Frame("handleIdle")}} : Turns(t, gone, come)
    BY <2>2 DEF Tells, Enters
  <2>4. \A f \in come : f.at \in {"addTask", "handleIdle"}
    BY <2>2, <2>3, Labels
  <2> QED
    BY <2>1, <2>3, <2>4 DEF OuterLabels, FeedLabels
<1>4. ASSUME NEW t \in Threads, Silent(t)
      PROVE  \E gone, come :
               /\ Turns(t, gone, come)
               /\ gone = {} => stack[t] = <<>>
               /\ \A f \in come : f.at \in OuterLabels => BeginsOuter(t, f.at)
               /\ \A f \in come : f.at # "callFalse"
  BY <1>4 DEF Silent, Calls
<1>5. CASE \/ \E t \in Threads : PushItem(t)
           \/ \E w \in Workers : FinishTask(w)
           \/ \E t \in Threads : CallIdleFalse(t) \/ CallIdleTrue(t)
  BY <1>1, <1>2, <1>3, <1>5
<1>6. CASE /\ ~\E t \in Threads : PushItem(t)
           /\ ~\E w \in Workers : FinishTask(w)
           /\ ~\E t \in Threads : CallIdleFalse(t) \/ CallIdleTrue(t)
  BY <1>4, <1>6, OtherSteps
<1> QED
  BY <1>5, <1>6

LEMMA OnlyPushReports ==
  ASSUME Core, Next, ~\E t \in Threads : PushItem(t)
  PROVE  \A t \in Threads : stack'[t] = stack[t] \/ ~HasAt(On(stack'[t]), "callFalse")
<1>1. CASE stack' = stack
  BY <1>1
<1>2. ASSUME NEW u \in Threads, NEW gone, NEW come, Turns(u, gone, come),
             gone = {} => stack[u] = <<>>, \A f \in come : f.at # "callFalse"
      PROVE  \A t \in Threads : stack'[t] = stack[t] \/ ~HasAt(On(stack'[t]), "callFalse")
  <2>1. PICK R : /\ \A t \in Threads \ {u} : stack'[t] = stack[t]
                 /\ On(stack[u]) = gone \cup R /\ On(stack'[u]) = come \cup R
                 /\ \A f \in gone : Fits(u, f, R)
    BY <1>2 DEF Turns
  <2>2. \A g \in R : g.at # "callFalse"
    <3>1. CASE gone = {}
      BY <1>2, <2>1, <3>1, Empty
    <3>2. CASE gone # {}
      BY <2>1, <3>2 DEF Fits, TopLabels
    <3> QED
      BY <3>1, <3>2
  <2>3. ~HasAt(On(stack'[u]), "callFalse")
    BY <1>2, <2>1, <2>2 DEF HasAt
  <2> QED
    BY <2>1, <2>3
<1> QED
  BY <1>1, <1>2, StackSteps

\* A thread makes no more calls than it may.
LEMMA CallsLeftKept ==
  ASSUME CallsLeft, Next
  PROVE  CallsLeft'
<1>1. CASE calls' = calls
  BY <1>1 DEF CallsLeft
<1>2. ASSUME NEW a \in AppThreads, NEW k \in CallKinds, AppCall(a, k) PROVE CallsLeft'
  <2>1. calls' = [calls EXCEPT ![a] = [calls[a] EXCEPT ![k] = calls[a][k] - 1]] /\ calls[a][k] > 0
    BY <1>2 DEF AppCall
  <2>2. calls[a] \in [CallKinds -> Nat] /\ calls[a][k] \in Nat
    BY DEF CallsLeft
  <2>3. PICK less : less = [calls[a] EXCEPT ![k] = calls[a][k] - 1]
    OBVIOUS
  <2>4. calls[a][k] - 1 \in Nat
    BY <2>1, <2>2
  <2>5. less \in [CallKinds -> Nat] /\ \A j \in CallKinds : j # k => less[j] = calls[a][j]
    BY <2>2, <2>3, <2>4
  <2>6. calls' = [calls EXCEPT ![a] = less]
    BY <2>1, <2>3
  <2>7. calls' \in [AppThreads -> [CallKinds -> Nat]]
    BY <2>5, <2>6 DEF CallsLeft
  <2>8. ASSUME NEW b \in AppThreads, NEW j \in CallKinds, Budget[b][j] = 0 PROVE calls'[b][j] = 0
    <3>1. calls[b][j] = 0
      BY <2>8 DEF CallsLeft
    <3>2. ~(b = a /\ j = k)
      BY <2>1, <3>1
    <3>3. b = a => calls'[b] = less
      BY <2>6 DEF CallsLeft
    <3>4. b # a => calls'[b] = calls[b]
      BY <2>6 DEF CallsLeft
    <3> QED
      BY <2>5, <3>1, <3>2, <3>3, <3>4
  <2> QED
    BY <2>7, <2>8 DEF CallsLeft
<1>3. ASSUME NEW w \in Workers, Task(w) PROVE calls' = calls
  BY <1>3 DEF Task, TakeTask, OpenNode, NodeOpened, AddNodeToSourcesQueue, SourceEmits,
     SourceCloses, NodeProcesses, ProcessFails, ProcessStops, OpenFails, CloseFails,
     MarkClosed, EndScheduling, FinishTask
<1>4. ASSUME NEW t \in Threads, Shared(t) PROVE calls' = calls
  BY <1>4 DEF Shared, TryAddNode, PushItem, AddTasks, SubmitWaitingTasks, CallIdleFalse,
     CallIdleTrue, QueueIdleStateChanged, HandleIdle, HandleIdleNotIdle, HandleIdleQuit,
     HandleIdleBlocked, HandleIdleNextLayer, StopQueuesForLayer, ActivateNode,
     StartQueuesForLayer, LockStateMutex, HandleIdleUnthrottle, UnthrottleSources,
     HandleIdleEndOfTurn
<1>5. ASSUME NEW a \in AppThreads, Start(a) \/ AppReturn(a) PROVE calls' = calls
  BY <1>5 DEF Start, AppReturn, AddedPacketToGraphInputStream, ClosedAllGraphInputStreams,
     CloseAllSourceNodes
<1>6. ASSUME NEW a \in AppThreads, App(a) PROVE \E k \in CallKinds : AppCall(a, k)
  BY <1>6 DEF App, AddPacket, CloseAllInputs, Pause, Resume, Cancel, CallKinds
<1> QED
  BY <1>1, <1>2, <1>3, <1>4, <1>5, <1>6 DEF Next

\* Without sources there is no layer to add and no source to let go.
LEMMA NoLayers ==
  ASSUME TypeOK, Sources = {}, NEW t
  PROVE  ~HandleIdleNextLayer(t) /\ ~HandleIdleUnthrottle(t) /\ ~HandleIdleBlocked(t)
<1>1. sources_queue_ = {}
  BY DEF TypeOK
<1>2. ActiveSources \in Seq(Sources)
  BY Trims
<1>3. ActiveSources = <<>>
  <2>1. PICK s : s = ActiveSources
    OBVIOUS
  <2>2. s # <<>> => Head(s) \in Sources
    BY <1>2, <2>1
  <2> QED
    BY <2>1, <2>2
<1> QED
  BY <1>1, <1>3 DEF HandleIdleNextLayer, HandleIdleUnthrottle, HandleIdleBlocked

\* What becomes of a run without pauses.
LEMMA StateSteps ==
  ASSUME Next
  PROVE  /\ state_ = "TERMINATED" => state_' = "TERMINATED"
         /\ state_' = state_ \/ state_' \in {"RUNNING", "TERMINATED", "CANCELLING"}
            \/ \E a \in AppThreads : Pause(a)
         /\ state_' = "TERMINATED" => state_ = "TERMINATED" \/ \E t \in Threads : HandleIdleQuit(t)
<1>1. ASSUME NEW w \in Workers, Task(w) PROVE state_' = state_
  BY <1>1 DEF Task, TakeTask, OpenNode, NodeOpened, AddNodeToSourcesQueue, SourceEmits,
     SourceCloses, NodeProcesses, ProcessFails, ProcessStops, OpenFails, CloseFails,
     MarkClosed, EndScheduling, FinishTask, schedulerVars
<1>2. ASSUME NEW t \in Threads, Shared(t), ~HandleIdleQuit(t) PROVE state_' = state_
  BY <1>2 DEF Shared, TryAddNode, PushItem, AddTasks, SubmitWaitingTasks, CallIdleFalse,
     CallIdleTrue, QueueIdleStateChanged, HandleIdle, HandleIdleNotIdle,
     HandleIdleBlocked, HandleIdleNextLayer, StopQueuesForLayer, ActivateNode,
     StartQueuesForLayer, LockStateMutex, HandleIdleUnthrottle, UnthrottleSources,
     HandleIdleEndOfTurn, schedulerVars
<1>3. ASSUME NEW t \in Threads, HandleIdleQuit(t) PROVE state_' = "TERMINATED"
  BY <1>3 DEF HandleIdleQuit
<1>4. ASSUME NEW a \in AppThreads, AppReturn(a) PROVE state_' = state_
  BY <1>4 DEF AppReturn, AddedPacketToGraphInputStream, ClosedAllGraphInputStreams,
     CloseAllSourceNodes, schedulerVars
<1>5. ASSUME NEW a \in AppThreads, Start(a)
      PROVE  state_ = "NOT_STARTED" /\ state_' = "RUNNING"
  BY <1>5 DEF Start
<1>6. ASSUME NEW a \in AppThreads, App(a)
      PROVE  \/ state_' = state_
             \/ state_ \in {"RUNNING", "PAUSED"} /\ state_' \in {"RUNNING", "CANCELLING"}
             \/ Pause(a) /\ state_ = "RUNNING" /\ state_' = "PAUSED"
  BY <1>6 DEF App, AddPacket, CloseAllInputs, Pause, Resume, Cancel, schedulerVars
<1> QED
  BY <1>1, <1>2, <1>3, <1>4, <1>5, <1>6 DEF Next

\* Nothing stops the queues of a graph without sources that the application may not
\* pause.
NeverStopped == Sources = {} /\ \A a \in AppThreads : Budget[a]["pause"] = 0

LEMMA NeverHeldKept ==
  ASSUME NeverStopped, Core, CallsLeft, NeverHeld, Next
  PROVE  NeverHeld'
<1>1. ASSUME NEW a \in AppThreads PROVE ~Pause(a)
  <2>1. "pause" \in CallKinds
    BY DEF CallKinds
  <2>2. calls[a]["pause"] = 0
    BY <2>1 DEF NeverStopped, CallsLeft
  <2> QED
    BY <2>2 DEF Pause, AppCall
<1>2. state_' # "PAUSED"
  BY <1>1, StateSteps DEF NeverHeld
<1>3. ASSUME NEW u \in Threads, NEW gone, NEW come, Turns(u, gone, come),
             NEW l \in {"unthrottle", "lock"}, ~HasAt(come, l)
      PROVE  \A t \in Threads : ~HasAt(On(stack'[t]), l)
  <2>1. PICK R : /\ \A t \in Threads \ {u} : stack'[t] = stack[t]
                 /\ On(stack[u]) = gone \cup R /\ On(stack'[u]) = come \cup R
    BY <1>3 DEF Turns
  <2>2. ~HasAt(On(stack'[u]), l)
    BY <1>3, <2>1 DEF HasAt, NeverHeld
  <2> QED
    BY <2>1, <2>2 DEF NeverHeld
<1>4. CASE stack' = stack
  BY <1>2, <1>4 DEF NeverHeld
<1>5. ASSUME NEW u \in Threads, NEW gone, NEW come, Turns(u, gone, come),
             \A f \in come : f.at \in OuterLabels => BeginsOuter(u, f.at)
      PROVE  NeverHeld'
  <2>1. ~HandleIdleNextLayer(u) /\ ~HandleIdleUnthrottle(u)
    BY NoLayers DEF Core, NeverStopped
  <2>2. ~UnthrottleSources(u)
    <3>1. ~At(u, "unthrottle")
      BY TopMost DEF Core, NeverHeld, HasAt
    <3> QED
      BY <3>1 DEF UnthrottleSources
  <2>3. ~HasAt(come, "lock") /\ ~HasAt(come, "unthrottle")
    BY <1>5, <2>1, <2>2 DEF HasAt, OuterLabels, BeginsOuter, FeedLabels
  <2> QED
    BY <1>2, <1>3, <1>5, <2>3 DEF NeverHeld
<1> QED
  BY <1>4, <1>5, StackSteps

\* A queue that is still to be reported has items.
LEMMA ReporterBusy ==
  ASSUME Inv, ReportersHold, NEW t \in Threads, NEW q \in Queues, Reports(stack, t, q)
  PROVE  sq[q].items # {} /\ q \in NonIdle(sq)
<1>1. StacksOK /\ TypeOK /\ TasksCounted
  BY DEF Inv
<1>2. PICK f \in On(stack[t]) : f.at = "callFalse" /\ f.q = q
  BY DEF Reports
<1>3. f.tasks \in Nat /\ f = Top(t) /\ stack[t] # <<>>
  BY <1>1, <1>2, ReportsTop DEF At
<1>4. CASE f.tasks > 0
  <2>1. PICK r : r = Return(t)
    OBVIOUS
  <2>2. HeldBy(f, q) = f.tasks
    BY <1>2 DEF HeldBy, TaskLabels
  <2>3. r \in Seq(Frames) /\ HeldIn(stack[t], q) = HeldIn(r, q) \cup ({Len(r)} \X (1 .. f.tasks))
    <3>1. Holds(stack[t], Return(t), q, f.tasks)
      BY <1>1, <1>3, <2>2, HeldIsOfTop
    <3> QED
      BY <1>1, <1>3, <2>1, <3>1, TopHolds DEF Holds
  <2>4. Len(r) \in Nat /\ 1 \in 1 .. f.tasks
    BY <1>3, <1>4, <2>3, LenProperties
  <2>5. PICK x : x = <<Len(r), 1>>
    OBVIOUS
  <2>6. x \in {Len(r)} \X (1 .. f.tasks) /\ x \in Nat \X Nat
    BY <2>4, <2>5
  <2>7. <<t, x>> \in TasksHeld(stack, q)
    BY <2>3, <2>6 DEF TasksHeld
  <2>8. PICK held, it : held = Cardinality(TasksHeld(stack, q)) /\ it = Cardinality(sq[q].items)
    OBVIOUS
  <2>9. it = executor[q] + sq[q].toAdd + held /\ IsFiniteSet(TasksHeld(stack, q))
    BY <1>1, <2>8 DEF TasksCounted
  <2>10. held > 0
    BY <2>7, <2>8, <2>9, FS_EmptySet, FS_CardinalityType
  <2>11. it # 0
    BY <1>1, <2>8, <2>9, <2>10, CountsTyped
  <2> QED
    BY <2>8, <2>11, FS_EmptySet DEF NonIdle
<1>5. CASE sq[q].toAdd > 0
  <2>1. sq[q].items # {}
    BY <1>5, PendingCounts
  <2> QED
    BY <2>1 DEF NonIdle
<1> QED
  BY <1>2, <1>4, <1>5 DEF ReportersHold

\* The queues run as the state says.
LEMMA RunsAsStated ==
  ASSUME Core, NeverHeld, NEW q \in Queues
  PROVE  sq[q].running = Going /\ (sq[q].running > 0 <=> Going = 1)
<1>1. ASSUME NEW t \in Threads PROVE ~StopsQueues(t)
  <2>1. SUFFICES ASSUME NEW f \in On(stack[t]), f.at \in {"activate", "startQueues"} PROVE FALSE
    BY DEF StopsQueues, Has
  <2>2. \E R \in SUBSET On(stack[t]) : Fits(t, f, R)
    BY OnFits DEF Core
  <2> QED
    BY <2>1, <2>2 DEF Fits, LayerLabels, NeverHeld, HasAt
<1>2. Held = 0
  BY <1>1 DEF Held
<1>3. Going \in {0, 1}
  BY DEF Going
<1> QED
  BY <1>2, <1>3 DEF Core, RunningExact

LEMMA ReportersHoldKept ==
  ASSUME Core, NeverHeld, ReportersHold, Next
  PROVE  ReportersHold'
<1>1. SUFFICES ASSUME NEW t \in Threads, NEW f \in On(stack'[t]), f.at = "callFalse"
               PROVE  f.tasks > 0 \/ (state_' = "TERMINATED" /\ sq'[f.q].toAdd > 0)
  BY DEF ReportersHold
<1>2. ASSUME f \in On(stack[t])
      PROVE  f.tasks > 0 \/ (state_' = "TERMINATED" /\ sq'[f.q].toAdd > 0)
  <2>1. CASE f.tasks > 0
    BY <2>1
  <2>2. CASE state_ = "TERMINATED" /\ sq[f.q].toAdd > 0
    <3>1. f.q \in Queues
      BY <1>1, <1>2, ReportsTop DEF Core
    <3>2. state_' = "TERMINATED"
      BY <2>2, StateSteps
    <3>3. \A q \in Queues : ~(sq[q].running > 0)
      BY <2>2, RunsAsStated DEF Going
    <3>4. sq'[f.q].toAdd > 0
      <4>1. CASE \E u \in Threads : PushItem(u)
        <5>1. PICK u \in Threads : PushItem(u)
          BY <4>1
        <5>2. PICK q : q = QueueOf[Top(u).item.node]
          OBVIOUS
        <5>3. /\ q \in Queues /\ \A x \in Queues \ {q} : sq'[x] = sq[x]
              /\ ~(sq[q].running > 0) => sq'[q].toAdd = sq[q].toAdd + 1
          BY <5>1, <5>2, PushItemTurns
        <5>4. sq[q].toAdd \in Nat
          BY <5>3, QueueTyped DEF Core
        <5> QED
          BY <2>2, <3>1, <3>3, <5>3, <5>4
      <4>2. CASE \E u \in Threads : SubmitWaitingTasks(u)
        BY <2>2, <3>3, <4>2, SubmitWaitingTasksTurns DEF queueVars
      <4>3. CASE \E w \in Workers : FinishTask(w) \/ \E q \in Queues : TakeTask(w, q)
        <5>1. PICK w \in Workers : FinishTask(w) \/ \E q \in Queues : TakeTask(w, q)
          BY <4>3
        <5>2. \A x \in Queues : sq'[x].toAdd = sq[x].toAdd
          <6>1. CASE FinishTask(w)
            <7>1. PICK q : q = QueueOf[Top(w).node]
              OBVIOUS
            <7>2. (\A x \in Queues \ {q} : sq'[x] = sq[x]) /\ sq'[q].toAdd = sq[q].toAdd
              BY <6>1, <7>1, FinishTaskTurns
            <7> QED
              BY <7>2
          <6>2. ASSUME NEW q \in Queues, TakeTask(w, q) PROVE \A x \in Queues : sq'[x].toAdd = sq[x].toAdd
            <7>1. (\A x \in Queues \ {q} : sq'[x] = sq[x]) /\ sq'[q].toAdd = sq[q].toAdd
              BY <6>2, TakeTaskTurns
            <7> QED
              BY <7>1
          <6> QED
            BY <5>1, <6>1, <6>2
        <5> QED
          BY <2>2, <3>1, <5>2
      <4>4. CASE SameTasks
        BY <2>2, <3>1, <4>4 DEF SameTasks
      <4> QED
        BY <4>1, <4>2, <4>3, <4>4, QueueSteps
    <3> QED
      BY <3>2, <3>4
  <2> QED
    BY <1>1, <1>2, <2>1, <2>2 DEF ReportersHold
<1>3. CASE \E u \in Threads : PushItem(u)
  <2>1. PICK u \in Threads : PushItem(u)
    BY <1>3
  <2>2. PICK q : q = QueueOf[Top(u).item.node]
    OBVIOUS
  <2>3. PICK g \in Frames :
          /\ q \in Queues /\ g.q = q /\ Turns(u, {Top(u)}, {g})
          /\ g.tasks = IF sq[q].running > 0 THEN sq[q].toAdd + 1 ELSE 0
          /\ ~(sq[q].running > 0) => sq'[q].toAdd = sq[q].toAdd + 1
    BY <2>1, <2>2, PushItemTurns
  <2>4. sq[q].toAdd \in Nat
    BY <2>3, QueueTyped DEF Core
  <2>5. f \in On(stack[t]) \/ f = g
    BY <1>1, <2>3 DEF Turns
  <2>6. ASSUME f = g, f \notin On(stack[t]), ~(sq[q].running > 0) PROVE state_' = "TERMINATED"
    <3>1. Going = 0
      BY <2>3, <2>6, RunsAsStated DEF Going
    <3>2. state_ # "NOT_STARTED"
      BY <2>1 DEF PushItem, At, Core, HandlerAlone
    <3>3. state_ = "TERMINATED"
      BY <3>1, <3>2 DEF Going, NeverHeld, Core, TypeOK, States
    <3> QED
      BY <3>3, StateSteps
  <2> QED
    BY <1>2, <2>3, <2>4, <2>5, <2>6
<1>4. CASE ~\E u \in Threads : PushItem(u)
  <2>1. stack'[t] = stack[t]
    BY <1>1, <1>4, OnlyPushReports DEF HasAt
  <2> QED
    BY <1>1, <1>2, <2>1
<1> QED
  BY <1>3, <1>4

\* A queue that is pushed to when idle was reported by nobody, and is from then on by
\* the thread that pushes.
LEMMA PushReports ==
  ASSUME Inv, NEW t \in Threads, PushItem(t)
  PROVE  LET q == QueueOf[Top(t).item.node]
         IN  /\ q \in Queues
             /\ \A u \in Threads \ {t} : stack'[u] = stack[u]
             /\ \A x : Reports(stack', t, x) => x = q /\ QueueIdle(q)
             /\ \A x : Serving(stack', x) = Serving(stack, x)
             /\ QueueIdle(q) => Serving(stack, q) = {}
<1>1. PICK q : q = QueueOf[Top(t).item.node]
  OBVIOUS
<1>2. PICK f \in Frames : /\ q \in Queues /\ f.q = q /\ Turns(t, {Top(t)}, {f})
                          /\ f.at = IF QueueIdle(q) THEN "callFalse" ELSE "addTask"
  BY <1>1, PushItemTurns, InvParts
<1>3. PICK R : /\ \A u \in Threads \ {t} : stack'[u] = stack[u]
               /\ On(stack'[t]) = {f} \cup R /\ Fits(t, Top(t), R)
  BY <1>2 DEF Turns
<1>4. ASSUME NEW x, Reports(stack', t, x) PROVE x = q /\ QueueIdle(q)
  <2>1. PICK g \in On(stack'[t]) : g.at = "callFalse" /\ g.q = x
    BY <1>4 DEF Reports
  <2>2. g = f
    BY <1>3, <2>1 DEF Fits, TopLabels
  <2> QED
    BY <1>2, <2>1, <2>2
<1>5. \A x : Serving(stack', x) = Serving(stack, x)
  BY PushItemKeeps, InvParts DEF ServingStays
<1>6. QueueIdle(q) => Serving(stack, q) = {}
  <2>1. sq[q].pending \in Nat /\ (Serving(stack, q) # {} => sq[q].pending > 0)
    BY <1>2, PendingCounts
  <2> QED
    BY <2>1 DEF QueueIdle
<1> QED
  BY <1>1, <1>2, <1>3, <1>4, <1>5, <1>6

LEMMA OneReporterKept ==
  ASSUME Inv, ReportersHold, OneReporter, Next
  PROVE  OneReporter'
<1>1. SUFFICES ASSUME NEW t \in Threads, NEW u \in Threads, NEW q \in Queues,
                      Reports(stack', t, q), Reports(stack', u, q)
               PROVE  t = u
  BY DEF OneReporter
<1>2. CASE \E v \in Threads : PushItem(v)
  <2>1. PICK v \in Threads : PushItem(v)
    BY <1>2
  <2>2. ASSUME NEW x \in Threads \ {v}, Reports(stack', x, q) PROVE ~Reports(stack', v, q)
    <3>1. stack'[x] = stack[x]
      BY <2>1, PushReports
    <3>2. Reports(stack, x, q)
      BY <2>2, <3>1 DEF Reports
    <3>3. ~QueueIdle(q)
      BY <3>2, ReporterBusy DEF QueueIdle
    <3> QED
      BY <2>1, <3>3, PushReports
  <2>3. ASSUME t # v, u # v PROVE t = u
    <3>1. stack'[t] = stack[t] /\ stack'[u] = stack[u]
      BY <2>1, <2>3, PushReports
    <3> QED
      BY <1>1, <3>1 DEF OneReporter, Reports
  <2> QED
    BY <1>1, <2>2, <2>3
<1>3. CASE ~\E v \in Threads : PushItem(v)
  <2>1. stack'[t] = stack[t] /\ stack'[u] = stack[u]
    BY <1>1, <1>3, OnlyPushReports, InvParts DEF Reports, HasAt
  <2> QED
    BY <1>1, <2>1 DEF OneReporter, Reports
<1> QED
  BY <1>2, <1>3

LEMMA NoCircleKept ==
  ASSUME Inv, NoCircle, Next
  PROVE  NoCircle'
<1>1. SUFFICES ASSUME NEW S \in SUBSET Queues, Circle(stack', S) PROVE FALSE
  BY DEF NoCircle, Circle, Reports, Serving, Serves
<1>2. CASE \E t \in Threads : PushItem(t)
  <2>1. PICK t \in Threads : PushItem(t)
    BY <1>2
  <2>2. PICK q : q = QueueOf[Top(t).item.node]
    OBVIOUS
  <2>3. /\ q \in Queues /\ \A u \in Threads \ {t} : stack'[u] = stack[u]
        /\ \A x : Reports(stack', t, x) => x = q /\ QueueIdle(q)
        /\ \A x : Serving(stack', x) = Serving(stack, x)
        /\ QueueIdle(q) => Serving(stack, q) = {}
    BY <2>1, <2>2, PushReports
  <2>4. PICK T : T = IF QueueIdle(q) THEN S \ {q} ELSE S
    OBVIOUS
  <2>5. ASSUME NEW p \in T
        PROVE  \E u \in Threads : Reports(stack, u, p) /\ \E r \in T : u \in Serving(stack, r)
    <3>1. PICK u \in Threads, r \in S : Reports(stack', u, p) /\ u \in Serving(stack', r)
      BY <1>1, <2>4 DEF Circle
    <3>2. u # t
      BY <2>3, <2>4, <3>1
    <3>3. Reports(stack, u, p)
      BY <2>3, <3>1, <3>2 DEF Reports
    <3>4. r \in T
      BY <2>3, <2>4, <3>1
    <3> QED
      BY <2>3, <3>1, <3>3, <3>4
  <2>6. T # {}
    <3>1. PICK p \in S : TRUE
      BY <1>1 DEF Circle
    <3>2. PICK u \in Threads, r \in S : u \in Serving(stack', r)
      BY <1>1, <3>1 DEF Circle
    <3> QED
      BY <2>3, <2>4, <3>2
  <2>7. T \in SUBSET Queues
    BY <2>4
  <2> QED
    BY <2>5, <2>6, <2>7 DEF NoCircle, Circle
<1>3. CASE ~\E t \in Threads : PushItem(t)
  <2>1. ASSUME NEW p \in S
        PROVE  \E u \in Threads : Reports(stack, u, p) /\ \E r \in S : u \in Serving(stack, r)
    <3>1. PICK u \in Threads, r \in S : Reports(stack', u, p) /\ u \in Serving(stack', r)
      BY <1>1 DEF Circle
    <3>2. stack'[u] = stack[u]
      BY <1>3, <3>1, OnlyPushReports, InvParts DEF Reports, HasAt
    <3> QED
      BY <3>1, <3>2 DEF Reports, Serving
  <2> QED
    BY <1>1, <2>1 DEF NoCircle, Circle
<1> QED
  BY <1>2, <1>3

\* When the count is zero and no thread reports but for the tasks it is in, all
\* queues are idle, and none is still to say so.
LEMMA AllTold ==
  ASSUME Inv, CountExact, ReportersHold, OneReporter, NoCircle, IsIdle,
         \A t \in Threads : \A f \in On(stack[t]) : f.at \notin OuterLabels
  PROVE  NonIdle(sq) = {} /\ ~HasAt(AllFrames, "callFalse") /\ ~HasAt(AllFrames, "callTrue")
<1>1. StacksOK
  BY DEF Inv
<1>2. PICK N, A, B : /\ N = NonIdle(sq) /\ A = Telling(stack, "callFalse")
                     /\ B = Telling(stack, "callTrue")
  OBVIOUS
<1>3. /\ IsFiniteSet(N) /\ IsFiniteSet(A) /\ IsFiniteSet(B) /\ A \subseteq Threads
      /\ N \subseteq Queues
      /\ Cardinality(N) \in Nat /\ Cardinality(A) \in Nat /\ Cardinality(B) \in Nat
  BY <1>2, Finite DEF Telling, NonIdle
<1>4. \A t \in A : \E q \in N : Reports(stack, t, q)
  <2> TAKE t \in A
  <2>1. PICK f \in On(stack[t]) : f.at = "callFalse"
    BY <1>2 DEF Telling, HasAt
  <2>2. f.q \in Queues /\ Reports(stack, t, f.q)
    BY <1>1, <1>3, <2>1, ReportsTop DEF Reports
  <2> QED
    BY <1>2, <1>3, <2>2, ReporterBusy
<1>5. PICK F : F = [t \in A |-> CHOOSE q \in N : Reports(stack, t, q)]
  OBVIOUS
<1>6. \A t \in A : F[t] \in N /\ Reports(stack, t, F[t])
  BY <1>4, <1>5
<1>7. F \in Injection(A, N)
  <2>1. F \in [A -> N]
    BY <1>5, <1>6
  <2>2. \A t, u \in A : F[t] = F[u] => t = u
    BY <1>3, <1>6 DEF OneReporter
  <2> QED
    BY <1>5, <2>1, <2>2 DEF Injection, IsInjective
<1>8. Cardinality(A) <= Cardinality(N) /\ (Cardinality(A) = Cardinality(N) <=> F \in Surjection(A, N))
  BY <1>3, <1>7, FS_Injection
<1>9. Cardinality(A) = Cardinality(N) /\ Cardinality(B) = 0
  <2>1. PICK n, a, b : n = Cardinality(N) /\ a = Cardinality(A) /\ b = Cardinality(B)
    OBVIOUS
  <2>2. 0 = n - a + b /\ n \in Nat /\ a \in Nat /\ b \in Nat /\ a <= n
    BY <1>2, <1>3, <1>8, <2>1 DEF CountExact, IsIdle
  <2>3. a = n /\ b = 0
    BY <2>2
  <2> QED
    BY <2>1, <2>3
<1>10. \A q \in N : \E t \in A : Reports(stack, t, q)
  BY <1>6, <1>8, <1>9 DEF Surjection
<1>11. \A t \in A : \E p \in N : t \in Serving(stack, p)
  <2> TAKE t \in A
  <2>1. PICK f \in On(stack[t]) : f.at = "callFalse"
    BY <1>2 DEF Telling, HasAt
  <2>2. PICK R \in SUBSET On(stack[t]) : Fits(t, f, R)
    BY <1>1, <1>3, <2>1, OnFits
  <2>3. PICK g \in On(stack[t]) : g.at \in AddingLabels
    BY <2>1, <2>2 DEF Fits, AddLabels, TaskLabels
  <2>4. g.at \in NodeLabels
    BY <1>3, <2>3 DEF AddingLabels, OuterLabels
  <2>5. t \in Workers /\ g \in Frames
    BY <1>1, <1>3, <2>4, OnFits DEF Fits
  <2>6. PICK p \in Queues : p = QueueOf[g.node]
    BY <2>4, <2>5, FrameFields, GraphAssumption
  <2>7. t \in Serving(stack, p)
    BY <2>3, <2>4, <2>5, <2>6 DEF Serving, Serves
  <2>8. sq[p].pending \in Nat /\ sq[p].pending > 0
    BY <2>7, PendingCounts
  <2> QED
    BY <1>2, <2>7, <2>8 DEF NonIdle
<1>12. N = {}
  <2>1. N # {} => Circle(stack, N)
    BY <1>3, <1>10, <1>11 DEF Circle
  <2> QED
    BY <1>3, <2>1 DEF NoCircle
<1>13. A = {} /\ B = {}
  BY <1>3, <1>9, <1>12, FS_EmptySet
<1> QED
  BY <1>2, <1>12, <1>13 DEF Telling, HasAt, AllFrames

-----------------------------------------------------------------------------
(* The end of the run, for a graph none of whose nodes fails, that is not cancelled
   and that one thread feeds.  Then HandleIdle quits only when the inputs are closed
   and that thread is done with closing them, so that all queues are really idle. *)

FeedKinds == {"addPacket", "closeAllInputs", "closeAllPacketSources"}
NoErrors == MayFail = {} /\ \A a \in AppThreads : Budget[a]["cancel"] = 0
FedBy(f) == \A a \in AppThreads \ {f} : \A k \in FeedKinds : Budget[a][k] = 0

\* Who adds packets or closes the inputs.
FedByOne(f) ==
  \A t \in Threads : \A g \in On(stack[t]) :
    g.at \in FeedLabels => t = f /\ ~graph_input_streams_closed_

\* All that is left to do then is to look for tasks, and to tell the sources to stop.
LastLabels == {"submit", "stopSources"}
EndedIdle ==
  state_ = "TERMINATED" =>
    /\ graph_input_streams_closed_ /\ NonIdle(sq) = {}
    /\ \A t \in Threads : \A g \in On(stack[t]) : g.at \in LastLabels

EndInv(f) == ~has_error /\ FedByOne(f) /\ EndedIdle

LEMMA ErrorFreeKept ==
  ASSUME NeverStopped, NoErrors, TypeOK, CallsLeft, ~has_error, Next
  PROVE  ~has_error'
<1>1. ASSUME NEW a \in AppThreads PROVE ~Cancel(a)
  <2>1. calls[a]["cancel"] = 0
    BY DEF NoErrors, CallsLeft, CallKinds
  <2> QED
    BY <2>1 DEF Cancel, AppCall
<1>2. ASSUME NEW w \in Workers, Task(w) PROVE has_error' = has_error
  BY <1>2 DEF Task, TakeTask, OpenNode, NodeOpened, AddNodeToSourcesQueue, SourceEmits,
     SourceCloses, NodeProcesses, ProcessFails, ProcessStops, OpenFails, CloseFails,
     MarkClosed, EndScheduling, FinishTask, NoErrors, sharedVars
<1>3. ASSUME NEW t \in Threads, Shared(t) PROVE has_error' = has_error
  <2>1. ~HandleIdleBlocked(t)
    BY NoLayers DEF NeverStopped
  <2> QED
    BY <1>3, <2>1 DEF Shared, TryAddNode, PushItem, AddTasks, SubmitWaitingTasks, CallIdleFalse,
       CallIdleTrue, QueueIdleStateChanged, HandleIdle, HandleIdleNotIdle, HandleIdleQuit,
       HandleIdleNextLayer, StopQueuesForLayer, ActivateNode, StartQueuesForLayer,
       LockStateMutex, HandleIdleUnthrottle, UnthrottleSources, HandleIdleEndOfTurn, sharedVars
<1>4. ASSUME NEW a \in AppThreads, Start(a) \/ AppReturn(a) \/ App(a) PROVE has_error' = has_error
  BY <1>1, <1>4 DEF Start, AppReturn, AddedPacketToGraphInputStream, ClosedAllGraphInputStreams,
     CloseAllSourceNodes, App, AddPacket, CloseAllInputs, Pause, Resume, sharedVars
<1> QED
  BY <1>2, <1>3, <1>4 DEF Next

LEMMA ClosedSteps ==
  ASSUME Next
  PROVE  \/ graph_input_streams_closed_' = graph_input_streams_closed_
         \/ \E a \in AppThreads : ClosedAllGraphInputStreams(a)
<1>1. ASSUME NEW w \in Workers, Task(w)
      PROVE  graph_input_streams_closed_' = graph_input_streams_closed_
  BY <1>1 DEF Task, TakeTask, OpenNode, NodeOpened, AddNodeToSourcesQueue, SourceEmits,
     SourceCloses, NodeProcesses, ProcessFails, ProcessStops, OpenFails, CloseFails,
     MarkClosed, EndScheduling, FinishTask, schedulerVars
<1>2. ASSUME NEW t \in Threads, Shared(t)
      PROVE  graph_input_streams_closed_' = graph_input_streams_closed_
  BY <1>2 DEF Shared, TryAddNode, PushItem, AddTasks, SubmitWaitingTasks, CallIdleFalse,
     CallIdleTrue, QueueIdleStateChanged, HandleIdle, HandleIdleNotIdle, HandleIdleQuit,
     HandleIdleBlocked, HandleIdleNextLayer, StopQueuesForLayer, ActivateNode,
     StartQueuesForLayer, LockStateMutex, HandleIdleUnthrottle, UnthrottleSources,
     HandleIdleEndOfTurn, schedulerVars
<1>3. ASSUME NEW a \in AppThreads, Start(a) \/ AppReturn(a) \/ App(a), ~ClosedAllGraphInputStreams(a)
      PROVE  graph_input_streams_closed_' = graph_input_streams_closed_
  BY <1>3 DEF Start, AppReturn, AddedPacketToGraphInputStream, CloseAllSourceNodes, App,
     AddPacket, CloseAllInputs, Pause, Resume, Cancel, schedulerVars
<1> QED
  BY <1>1, <1>2, <1>3 DEF Next

\* Only the thread that may feed the graph does, and no more once the inputs are closed.
LEMMA FedByOneKept ==
  ASSUME NEW f, FedBy(f), Core, CallsLeft, FedByOne(f), Next
  PROVE  FedByOne(f)'
<1>1. CASE \E a \in AppThreads : ClosedAllGraphInputStreams(a)
  <2>1. PICK a \in AppThreads : ClosedAllGraphInputStreams(a)
    BY <1>1
  <2>2. PICK gone : gone = {Top(a)}
    OBVIOUS
  <2>3. /\ a \in Threads /\ Top(a).at = "closedAll" /\ stack[a] # <<>>
        /\ Enters(a, gone, {}) \/ Turns(a, gone, {})
    BY <2>1, <2>2, AppReturnTurns DEF AppReturn, ClosedAllGraphInputStreams, At
  <2>4. a = f
    <3>1. Top(a) \in On(stack[a])
      BY <2>3, OnTop DEF Core
    <3> QED
      BY <2>3, <3>1 DEF FedByOne, FeedLabels
  <2>5. PICK come \in {{}, {Frame("handleIdle")}} : Turns(a, gone, come)
    <3>1. {} \cup {Frame("handleIdle")} = {Frame("handleIdle")}
      OBVIOUS
    <3> QED
      BY <2>3, <3>1 DEF Enters
  <2>6. PICK R : /\ \A u \in Threads \ {a} : stack'[u] = stack[u]
                 /\ On(stack'[a]) = come \cup R /\ Fits(a, Top(a), R)
    BY <2>2, <2>5 DEF Turns
  <2>7. \A g \in On(stack'[a]) : g.at \notin FeedLabels
    BY <2>3, <2>5, <2>6, Labels DEF Fits, FeedLabels
  <2>8. \A u \in Threads \ {a} : \A g \in On(stack[u]) : g.at \notin FeedLabels
    BY <2>4 DEF FedByOne
  <2>9. \A t \in Threads : \A g \in On(stack'[t]) : g.at \notin FeedLabels
    BY <2>6, <2>7, <2>8
  <2> QED
    BY <2>9 DEF FedByOne
<1>2. CASE graph_input_streams_closed_' = graph_input_streams_closed_
  <2>1. CASE stack' = stack
    BY <1>2, <2>1 DEF FedByOne
  <2>2. ASSUME NEW t \in Threads, NEW gone, NEW come, Turns(t, gone, come),
               \A g \in come : g.at \in OuterLabels => BeginsOuter(t, g.at)
        PROVE  FedByOne(f)'
    <3>1. PICK R : /\ \A u \in Threads \ {t} : stack'[u] = stack[u]
                   /\ On(stack[t]) = gone \cup R /\ On(stack'[t]) = come \cup R
      BY <2>2 DEF Turns
    <3>2. ASSUME NEW g \in come, g.at \in FeedLabels PROVE t = f /\ ~graph_input_streams_closed_
      <4>1. t \in AppThreads /\ \E k \in FeedKinds : calls[t][k] > 0 /\ ~graph_input_streams_closed_
        BY <2>2, <3>2 DEF OuterLabels, BeginsOuter, AddPacket, CloseAllInputs, AppCall, FeedKinds,
                          FeedLabels
      <4>2. ASSUME t # f, NEW k \in FeedKinds PROVE calls[t][k] = 0
        BY <4>1, <4>2 DEF FedBy, CallsLeft, FeedKinds, CallKinds
      <4> QED
        BY <4>1, <4>2
    <3>3. ASSUME NEW u \in Threads, NEW g \in On(stack'[u]), g.at \in FeedLabels
          PROVE  u = f /\ ~graph_input_streams_closed_
      BY <3>1, <3>2, <3>3 DEF FedByOne
    <3> QED
      BY <1>2, <3>3 DEF FedByOne
  <2> QED
    BY <2>1, <2>2, StackSteps
<1> QED
  BY <1>1, <1>2, ClosedSteps

\* Once the run has ended with nothing left, no thread does more than LastLabels says.
LEMMA AfterEnd ==
  ASSUME Inv, EndedIdle, state_ = "TERMINATED", Next
  PROVE  \/ \E t \in Threads : SubmitWaitingTasks(t)
         \/ \E a \in AppThreads : CloseAllSourceNodes(a)
<1>1. StacksOK
  BY DEF Inv
<1>2. ASSUME NEW t \in Threads, NEW l, At(t, l) PROVE l \in LastLabels
  <2>1. Top(t).at = l /\ Top(t) \in On(stack[t])
    BY <1>1, <1>2, TopMost
  <2> QED
    BY <2>1 DEF EndedIdle
<1>3. ASSUME NEW w \in Workers, Task(w) PROVE FALSE
  BY <1>3, TaskBusy DEF EndedIdle
<1>4. ASSUME NEW t \in Threads, Shared(t) PROVE SubmitWaitingTasks(t)
  <2>1. /\ ~At(t, "add") /\ ~At(t, "push") /\ ~At(t, "addTask") /\ ~At(t, "callFalse")
        /\ ~At(t, "callTrue") /\ ~At(t, "handleIdle") /\ ~At(t, "stopQueues")
        /\ ~At(t, "activate") /\ ~At(t, "startQueues") /\ ~At(t, "lock") /\ ~At(t, "endOfTurn")
        /\ ~At(t, "unthrottle")
    BY <1>2 DEF LastLabels
  <2> QED
    BY <1>4, <2>1 DEF Shared, TryAddNode, PushItem, AddTasks, CallIdleFalse, CallIdleTrue,
       HandleIdle, HandleIdleNotIdle, HandleIdleQuit, HandleIdleBlocked, HandleIdleNextLayer,
       StopQueuesForLayer, ActivateNode, StartQueuesForLayer, LockStateMutex,
       HandleIdleUnthrottle, UnthrottleSources, HandleIdleEndOfTurn, InHandleIdle
<1>5. ASSUME NEW a \in AppThreads, AppReturn(a) PROVE CloseAllSourceNodes(a)
  <2>1. a \in Threads
    BY DEF Threads
  <2> QED
    BY <1>2, <1>5, <2>1 DEF AppReturn, AddedPacketToGraphInputStream,
       ClosedAllGraphInputStreams, LastLabels
<1>6. ASSUME NEW a \in AppThreads, Start(a) \/ App(a) PROVE FALSE
  BY <1>6 DEF Start, App, AddPacket, CloseAllInputs, Pause, Resume, Cancel, EndedIdle
<1> QED
  BY <1>3, <1>4, <1>5, <1>6 DEF Next

\* A graph that quits without an error has nothing left to run, nor to say.
LEMMA QuitsAtRest ==
  ASSUME Inv, CountExact, WaitInv, NEW f, EndInv(f), NEW t \in Threads, HandleIdleQuit(t)
  PROVE  /\ graph_input_streams_closed_ /\ NonIdle(sq) = {}
         /\ \A u \in Threads : \A g \in On(stack[u]) :
              (u = t /\ g = Top(t)) \/ g.at \in LastLabels
<1>1. StacksOK /\ Core /\ HandlerAlone
  BY InvParts DEF Core
<1>2. graph_input_streams_closed_ /\ IsIdle
  BY DEF HandleIdleQuit, MustQuit, KeepsHandling, EndInv
<1>3. \A u \in Threads : \A g \in On(stack[u]) : g.at \notin OuterLabels
  BY <1>2 DEF OuterLabels, EndInv, FedByOne, WaitInv, NeverHeld, HasAt
<1>4. NonIdle(sq) = {} /\ ~HasAt(AllFrames, "callFalse") /\ ~HasAt(AllFrames, "callTrue")
  BY <1>2, <1>3, AllTold DEF WaitInv
<1>5. At(t, "handleIdle") /\ stack[t] # <<>>
  BY DEF HandleIdleQuit, InHandleIdle, At
<1>6. /\ On(stack[t]) = {Top(t)} \cup On(Return(t)) /\ Top(t).at = "handleIdle"
      /\ \A g \in On(Return(t)) : g.at \notin HandlerLabels
  BY <1>1, <1>5, TurnOnTop DEF At
<1>7. Handles(t)
  BY <1>6 DEF Handles, Has, HandlerLabels, Turn
<1>8. ASSUME NEW u \in Threads, NEW g \in On(stack[u]), ~(u = t /\ g = Top(t))
      PROVE  g.at \in LastLabels
  <2>1. g.at \notin HandlerLabels
    <3>1. CASE u = t
      BY <1>6, <1>8, <3>1
    <3>2. CASE u # t
      BY <1>1, <1>7, <3>2 DEF HandlerAlone, Handles, Has
    <3> QED
      BY <3>1, <3>2
  <2>2. g \in Frames /\ \E R \in SUBSET On(stack[u]) : Fits(u, g, R)
    BY <1>1, OnFits
  <2>3. g.at \notin NodeLabels
    BY <1>4, InHandBusy
  <2>4. \A h \in On(stack[u]) : h.at \notin AddingLabels
    BY <1>3, <1>4, InHandBusy DEF AddingLabels, OuterLabels
  <2>5. g.at \notin AddLabels
    BY <2>2, <2>4 DEF Fits
  <2>6. g.at # "callTrue"
    BY <1>4 DEF HasAt, AllFrames
  <2>7. g.at \notin FeedLabels
    BY <1>3 DEF OuterLabels
  <2> QED
    BY <2>1, <2>2, <2>3, <2>5, <2>6, <2>7, FrameFields
       DEF PlainLabels, HandlerLabels, Turn, LayerLabels, FeedLabels, LastLabels
<1> QED
  BY <1>2, <1>4, <1>8

LEMMA EndedIdleKept ==
  ASSUME Inv, CountExact, WaitInv, NEW f, EndInv(f), Next
  PROVE  EndedIdle'
<1>1. Core /\ StacksOK /\ EndedIdle
  BY InvParts DEF Core, EndInv
<1>2. CASE state_ = "TERMINATED"
  <2>1. /\ graph_input_streams_closed_ /\ NonIdle(sq) = {}
        /\ \A t \in Threads : \A g \in On(stack[t]) : g.at \in LastLabels
    BY <1>1, <1>2 DEF EndedIdle
  <2>2. ASSUME NEW t \in Threads, NEW l, At(t, l) PROVE l \in LastLabels
    <3>1. Top(t).at = l /\ Top(t) \in On(stack[t])
      BY <1>1, <2>2, TopMost
    <3> QED
      BY <2>1, <3>1
  <2>3. NonIdle(sq') = {}
    <3>1. ~\E t \in Threads : PushItem(t)
      <4>1. \A t \in Threads : ~At(t, "push")
        BY <2>2 DEF LastLabels
      <4> QED
        BY <4>1 DEF PushItem
    <3>2. ~\E w \in Workers : FinishTask(w)
      BY <2>1, TaskBusy DEF Task
    <3> QED
      BY <2>1, <3>1, <3>2, NonIdleStays
  <2>4. graph_input_streams_closed_'
    <3>1. ~\E a \in AppThreads : ClosedAllGraphInputStreams(a)
      BY <2>2 DEF ClosedAllGraphInputStreams, LastLabels, Threads
    <3> QED
      BY <2>1, <3>1, ClosedSteps
  <2>5. PICK t \in Threads :
          \E gone, come : Turns(t, gone, come) /\ \A g \in come : g.at = "submit"
    <3>1. CASE \E t \in Threads : SubmitWaitingTasks(t)
      <4>1. PICK t \in Threads : \E q : Turns(t, {Top(t)}, SubmitSet(Top(t).qs \ {q}))
        BY <1>1, <3>1, SubmitWaitingTasksTurns
      <4> QED
        BY <4>1, Labels
    <3>2. CASE \E a \in AppThreads : CloseAllSourceNodes(a)
      <4>1. PICK a \in AppThreads : CloseAllSourceNodes(a)
        BY <3>2
      <4>2. a \in Threads /\ Top(a).at = "stopSources"
        BY <4>1 DEF CloseAllSourceNodes, At, Threads
      <4>3. Turns(a, {Top(a)}, {})
        BY <1>1, <4>1, <4>2, AppReturnTurns DEF AppReturn
      <4> QED
        BY <4>2, <4>3
    <3> QED
      BY <1>1, <1>2, <3>1, <3>2, AfterEnd
  <2>6. PICK gone, come : Turns(t, gone, come) /\ \A g \in come : g.at = "submit"
    BY <2>5
  <2>7. PICK R : /\ \A u \in Threads \ {t} : stack'[u] = stack[u]
                 /\ On(stack[t]) = gone \cup R /\ On(stack'[t]) = come \cup R
    BY <2>6 DEF Turns
  <2>8. \A u \in Threads : \A g \in On(stack'[u]) : g.at \in LastLabels
    BY <2>1, <2>6, <2>7 DEF LastLabels
  <2> QED
    BY <2>3, <2>4, <2>8 DEF EndedIdle
<1>3. CASE state_ # "TERMINATED" /\ state_' = "TERMINATED"
  <2>1. PICK t \in Threads : HandleIdleQuit(t)
    BY <1>3, StateSteps
  <2>2. /\ graph_input_streams_closed_ /\ NonIdle(sq) = {}
        /\ \A u \in Threads : \A g \in On(stack[u]) :
             (u = t /\ g = Top(t)) \/ g.at \in LastLabels
    BY <2>1, QuitsAtRest
  <2>3. At(t, "handleIdle") /\ LeaveHandleIdle(t) /\ SetQueuesRunning(-1)
        /\ graph_input_streams_closed_' = graph_input_streams_closed_
    BY <2>1 DEF HandleIdleQuit, InHandleIdle
  <2>4. PICK R : /\ \A u \in Threads \ {t} : stack'[u] = stack[u]
                 /\ On(stack[t]) = {Top(t)} \cup R /\ On(stack'[t]) = {} \cup R
                 /\ Top(t).at = "handleIdle" /\ Fits(t, Top(t), R)
    <3>1. Turns(t, {Top(t)}, {})
      BY <1>1, <2>3, LeaveHandleIdleTurns
    <3> QED
      BY <2>3, <3>1 DEF Turns, At
  <2>5. \A g \in R : g # Top(t)
    BY <2>4 DEF Fits, Turn, HandlerLabels
  <2>6. \A u \in Threads : \A g \in On(stack'[u]) : g.at \in LastLabels
    BY <2>2, <2>4, <2>5
  <2>7. NonIdle(sq') = {}
    <3>1. ~\E u \in Threads : PushItem(u)
      <4>1. \A u \in Threads : At(u, "push") => FALSE
        BY <1>1, <2>2, <2>4, TopMost DEF LastLabels
      <4> QED
        BY <4>1 DEF PushItem
    <3>2. ~\E w \in Workers : FinishTask(w)
      BY <2>2, TaskBusy DEF Task
    <3> QED
      BY <2>2, <3>1, <3>2, NonIdleStays
  <2> QED
    BY <2>2, <2>3, <2>6, <2>7 DEF EndedIdle
<1> QED
  BY <1>2, <1>3 DEF EndedIdle

-----------------------------------------------------------------------------
(* What an application is told. *)

LEMMA InitWait ==
  ASSUME Init
  PROVE  WaitInv /\ \A f : EndInv(f)
<1>1. \A t \in Threads : On(stack[t]) = {}
  BY InitStacks
<1>2. calls = Budget /\ state_ = "NOT_STARTED" /\ has_error = FALSE
  BY DEF Init
<1>3. CallsLeft
  BY <1>2, BudgetAssumption DEF CallsLeft
<1>4. NeverHeld /\ ReportersHold
  BY <1>1, <1>2 DEF NeverHeld, HasAt, ReportersHold
<1>5. \A t \in Threads : \A q : ~Reports(stack, t, q)
  BY <1>1 DEF Reports
<1>6. OneReporter /\ NoCircle
  BY <1>5 DEF OneReporter, NoCircle, Circle
<1>7. \A f : EndInv(f)
  BY <1>1, <1>2 DEF EndInv, FedByOne, EndedIdle
<1> QED
  BY <1>3, <1>4, <1>6, <1>7 DEF WaitInv

LEMMA StutterKeepsWait ==
  ASSUME UNCHANGED vars
  PROVE  /\ WaitInv => WaitInv'
         /\ \A f : EndInv(f) => EndInv(f)'
<1>1. UNCHANGED <<state_, graph_input_streams_closed_, has_error, sq, calls, stack>>
  BY DEF vars, schedulerVars, sharedVars, queueVars
<1>2. \A t, q : Reports(stack', t, q) <=> Reports(stack, t, q)
  BY <1>1
<1>3. \A p : Serving(stack', p) = Serving(stack, p)
  BY <1>1
<1>4. WaitInv => CallsLeft' /\ NeverHeld' /\ ReportersHold' /\ OneReporter' /\ NoCircle'
  <2>1. CallsLeft => CallsLeft'
    BY <1>1 DEF CallsLeft
  <2>2. NeverHeld => NeverHeld'
    BY <1>1 DEF NeverHeld
  <2>3. ReportersHold => ReportersHold'
    BY <1>1 DEF ReportersHold
  <2>4. OneReporter => OneReporter'
    BY <1>1 DEF OneReporter
  <2>5. NoCircle => NoCircle'
    BY <1>1 DEF NoCircle
  <2> QED
    BY <2>1, <2>2, <2>3, <2>4, <2>5 DEF WaitInv
<1>5. \A f : EndInv(f) => EndInv(f)'
  BY <1>1 DEF EndInv, FedByOne, EndedIdle, NonIdle
<1> QED
  BY <1>4, <1>5 DEF WaitInv

LEMMA WaitKept ==
  ASSUME NeverStopped, Inv, WaitInv, Next
  PROVE  WaitInv'
<1>1. Core
  BY InvParts
<1>2. CallsLeft'
  BY CallsLeftKept DEF WaitInv
<1>3. NeverHeld'
  BY <1>1, NeverHeldKept DEF WaitInv
<1>4. ReportersHold'
  BY <1>1, ReportersHoldKept DEF WaitInv
<1>5. OneReporter'
  BY OneReporterKept DEF WaitInv
<1>6. NoCircle'
  BY NoCircleKept DEF WaitInv
<1> QED
  BY <1>2, <1>3, <1>4, <1>5, <1>6 DEF WaitInv

LEMMA EndKept ==
  ASSUME NeverStopped, NoErrors, NEW f, FedBy(f), Inv, CountExact, WaitInv, EndInv(f), Next
  PROVE  EndInv(f)'
<1>1. Core /\ TypeOK
  BY InvParts DEF Core
<1>2. ~has_error'
  BY <1>1, ErrorFreeKept DEF WaitInv, EndInv
<1>3. FedByOne(f)'
  BY <1>1, FedByOneKept DEF WaitInv, EndInv
<1>4. EndedIdle'
  BY EndedIdleKept
<1> QED
  BY <1>2, <1>3, <1>4 DEF EndInv

LEMMA WaitAlways ==
  ASSUME NeverStopped
  PROVE  Spec => [](Inv /\ RestInv /\ WaitInv)
<1>1. Init => WaitInv
  BY InitWait
<1>2. NeverStopped
  OBVIOUS
<1>3. Inv /\ WaitInv /\ [Next]_vars => WaitInv'
  BY <1>2, WaitKept, StutterKeepsWait
<1> QED
  BY <1>1, <1>3, RestAlways, PTL DEF Spec

\* Outside of the calls in which the application feeds the graph, an idle count is
\* the truth.
LEMMA WaitersAreRight ==
  ASSUME Inv, CountExact, WaitInv
  PROVE  WaitUntilIdleMeansIdle
<1>1. SUFFICES ASSUME NEW a \in AppThreads, Waiting(a), IsIdle, NEW q \in Queues
               PROVE  executor[q] = 0 /\ sq[q].items = {} /\ sq[q].pending = 0
  BY DEF WaitUntilIdleMeansIdle
<1>2. StacksOK
  BY DEF Inv
<1>3. ASSUME NEW t \in Threads, NEW f \in On(stack[t]), f.at \in FeedLabels PROVE FALSE
  <2>1. t \in AppThreads
    BY <1>2, <1>3, OnFits DEF Fits, FeedLabels, AppLabels
  <2>2. CASE t = a
    BY <1>1, <1>3, <2>2, Empty DEF Waiting
  <2>3. CASE t # a
    <3>1. f \in Range1(t)
      BY <1>3 DEF On, Range1
    <3> QED
      BY <1>1, <1>3, <2>1, <2>3, <3>1 DEF Waiting, Inside, FeedLabels
  <2> QED
    BY <2>2, <2>3
<1>4. \A t \in Threads : \A f \in On(stack[t]) : f.at \notin OuterLabels
  BY <1>3 DEF OuterLabels, WaitInv, NeverHeld, HasAt
<1>5. NonIdle(sq) = {}
  BY <1>1, <1>4, AllTold DEF WaitInv
<1>6. sq[q].items = {} /\ sq[q].pending = 0
  BY <1>5 DEF NonIdle
<1>7. executor[q] = 0
  <2>1. executor[q] \in Nat /\ (executor[q] > 0 => sq[q].pending > 0)
    BY PendingCounts
  <2> QED
    BY <1>6, <2>1
<1> QED
  BY <1>6, <1>7

LEMMA DoneIsDone ==
  ASSUME Inv, EndedIdle
  PROVE  DoneMeansDone
<1>1. SUFFICES ASSUME state_ = "TERMINATED"
               PROVE  /\ \A w \in Workers : stack[w] = <<>>
                      /\ \A q \in Queues : executor[q] = 0 /\ sq[q].pending = 0
  BY DEF DoneMeansDone
<1>2. StacksOK
  BY DEF Inv
<1>3. ASSUME NEW w \in Workers PROVE stack[w] = <<>>
  <2>1. SUFFICES ASSUME stack[w] # <<>> PROVE FALSE
    OBVIOUS
  <2>2. w \in Threads /\ w \notin AppThreads
    BY ThreadsAssumption DEF Threads
  <2>3. Top(w) \in On(stack[w]) /\ On(Return(w)) \subseteq On(stack[w]) /\ Fits(w, Top(w), On(Return(w)))
    BY <1>2, <2>1, <2>2, OnTop
  <2>4. Top(w).at \in LastLabels /\ \A g \in On(Return(w)) : g.at \in LastLabels
    BY <1>1, <2>2, <2>3 DEF EndedIdle
  <2> QED
    BY <2>2, <2>3, <2>4 DEF LastLabels, Fits, AppLabels
<1>4. ASSUME NEW q \in Queues PROVE executor[q] = 0 /\ sq[q].pending = 0
  <2>1. sq[q].pending = 0
    BY <1>1 DEF EndedIdle, NonIdle
  <2>2. executor[q] \in Nat /\ (executor[q] > 0 => sq[q].pending > 0)
    BY PendingCounts
  <2> QED
    BY <2>1, <2>2
<1> QED
  BY <1>3, <1>4

\* A thread that waits for an idle graph and adds nothing meanwhile is told so only
\* when nothing is left to run: in every graph without sources that is not paused, and
\* though the queues report late, and one after another, that they are not idle.
THEOREM IdleMeansIdle ==
  ASSUME NeverStopped
  PROVE  Spec => []WaitUntilIdleMeansIdle
<1>1. Inv /\ RestInv /\ WaitInv => WaitUntilIdleMeansIdle
  BY WaitersAreRight DEF RestInv
<1> QED
  BY <1>1, WaitAlways, PTL

\* What is told at the end of the run is true as well where no node fails, nobody
\* cancels and one thread at most adds packets and closes the inputs.
THEOREM WaitsAreSound ==
  ASSUME NeverStopped, NoErrors, NEW f, FedBy(f)
  PROVE  Spec => []WaitsEndWhenIdle
<1>1. Init => EndInv(f)
  BY InitWait
<1>2. Inv /\ RestInv /\ WaitInv /\ EndInv(f) /\ [Next]_vars => EndInv(f)'
  <2>1. ASSUME Inv, RestInv, WaitInv, EndInv(f), Next PROVE EndInv(f)'
    BY <2>1, EndKept DEF RestInv
  <2>2. ASSUME EndInv(f), UNCHANGED vars PROVE EndInv(f)'
    BY <2>2, StutterKeepsWait
  <2> QED
    BY <2>1, <2>2
<1>3. Inv /\ RestInv /\ WaitInv /\ EndInv(f) => WaitsEndWhenIdle
  BY WaitersAreRight, DoneIsDone DEF RestInv, EndInv, WaitsEndWhenIdle
<1> QED
  BY <1>1, <1>2, <1>3, WaitAlways, PTL DEF Spec
=============================================================================
