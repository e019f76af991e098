--------------------------- MODULE SchedulerQueue ---------------------------
(***************************************************************************)
(* One SchedulerQueue of the framework: a priority queue of items (a node  *)
(* to open or to run) whose items are executed by the tasks the queue      *)
(* gives to an executor.  Any thread may add an item; an executor thread   *)
(* that got a task calls RunNextTask, which pops whatever item is on top.  *)
(*                                                                         *)
(* What makes the class delicate is that each of its methods does its      *)
(* bookkeeping under mutex_ and then acts, with the mutex released, on     *)
(* what it read there: it reports "became active" or "became idle" to the  *)
(* scheduler and it hands tasks to the executor.  An action below is one   *)
(* such critical section or one such call outside it.                      *)
(*                                                                         *)
(* A task has no identity in the code.  Here the task is named after the   *)
(* item whose addition made it, so that a task can be followed while it    *)
(* waits, is held by the thread that must submit it, sits in the executor  *)
(* and runs; the item it pops may be any item of the queue.  Priorities    *)
(* are left to the module Scheduler.                                       *)
(***************************************************************************)
EXTENDS FrameworkThreads

CONSTANTS
  Items,       \* the items that may be in the queue at the same time
  MaxStops     \* bound: SetRunning(false) calls not yet undone, 0 for none ever

ASSUME ItemsAssumption == IsFiniteSet(Items)
ASSUME MaxStopsAssumption == MaxStops \in Nat

VARIABLES
  queue_,             \* the items in the queue
  num_pending_tasks_, \* tasks submitted, or about to be, and not finished
  num_tasks_to_add_,  \* tasks not submitted because the queue is not running
  running_count_,     \* the queue is running iff this is positive
  task,               \* where the task made by each item is
  owner,              \* the thread that holds or runs that task
  doing,              \* what each thread does next
  idle_count          \* what the idle callback has summed up in the scheduler

queueVars == <<queue_, num_pending_tasks_, num_tasks_to_add_, running_count_, task,
          owner, doing, idle_count>>

TaskPlaces == {"none", "waiting", "held", "executor", "taken", "popped"}

Doings == {"outside", "callFalse", "addTask", "submit", "pop", "run", "callTrue"}

\* The tasks that are at one of the places ps.
TasksAt(ps) == {i \in Items : task[i] \in ps}

\* The tasks counted by num_pending_tasks_.
PendingPlaces == {"held", "executor", "taken", "popped"}

IsIdle == queue_ = {} /\ num_pending_tasks_ = 0

\* The tasks thread t has grabbed and not yet given to the executor.
Held(t) == {i \in Items : task[i] = "held" /\ owner[i] = t}

\* A thread that adds an item while it runs a node goes back to the node.
GoesBackTo(t) ==
  IF \E i \in Items : task[i] = "popped" /\ owner[i] = t THEN "run" ELSE "outside"

QueueTyped ==
  /\ queue_ \subseteq Items
  /\ num_pending_tasks_ \in Nat
  /\ num_tasks_to_add_ \in Nat
  /\ running_count_ \in -MaxStops .. 1
  /\ task \in [Items -> TaskPlaces]
  /\ owner \in [Items -> Threads \cup {NoThread}]
  /\ doing \in [Threads -> Doings]
  /\ idle_count \in Int

\* What Reset leaves; a queue that never stops is seen from its start on.
QueueInit ==
  /\ queue_ = {}
  /\ num_pending_tasks_ = 0
  /\ num_tasks_to_add_ = 0
  /\ running_count_ = IF MaxStops = 0 THEN 1 ELSE 0
  /\ task = [i \in Items |-> "none"]
  /\ owner = [i \in Items |-> NoThread]
  /\ doing = [t \in Threads |-> "outside"]
  /\ idle_count = 0

-----------------------------------------------------------------------------
\* Mutant of GrabTasks: the tasks just made are not counted as pending.
GrabTasksUncounted(t, extra) ==
  LET grabbed == TasksAt({"waiting"}) \cup extra
  IN  /\ task' = [i \in Items |-> IF i \in grabbed THEN "held" ELSE task[i]]
      /\ owner' = [i \in Items |-> IF i \in grabbed THEN t ELSE owner[i]]
      /\ num_pending_tasks_' = num_pending_tasks_ + num_tasks_to_add_
      /\ num_tasks_to_add_' = 0

(* GetTasksToSubmitToExecutor: thread t takes over the waiting tasks, and the
   tasks in extra, which have just been made. *)
GrabTasks(t, extra) ==
  LET grabbed == TasksAt({"waiting"}) \cup extra
  IN  /\ task' = [i \in Items |-> IF i \in grabbed THEN "held" ELSE task[i]]
      /\ owner' = [i \in Items |-> IF i \in grabbed THEN t ELSE owner[i]]
      /\ num_pending_tasks_' =
           num_pending_tasks_ + num_tasks_to_add_ + Cardinality(extra)
      /\ num_tasks_to_add_' = 0

\* The critical section of AddItemToQueue.
AddItemToQueue(t, i) ==
  /\ doing[t] \in {"outside", "run"}
  /\ i \notin queue_ /\ task[i] = "none"
  /\ queue_' = queue_ \cup {i}
  /\ \/ /\ running_count_ > 0
        /\ GrabTasks(t, {i})
     \/ /\ running_count_ <= 0
        /\ task' = [task EXCEPT ![i] = "waiting"]
        /\ num_tasks_to_add_' = num_tasks_to_add_ + 1
        /\ UNCHANGED <<num_pending_tasks_, owner>>
  /\ doing' = [doing EXCEPT ![t] = IF IsIdle THEN "callFalse" ELSE "addTask"]
  /\ UNCHANGED <<running_count_, idle_count>>

\* idle_callback_(false), called by AddItemToQueue after it released the mutex.
CallIdleFalse(t) ==
  /\ doing[t] = "callFalse"
  /\ idle_count' = idle_count + 1
  /\ doing' = [doing EXCEPT ![t] = "addTask"]
  /\ UNCHANGED <<queue_, num_pending_tasks_, num_tasks_to_add_, running_count_,
                 task, owner>>

\* Mutant of AddTasks: the tasks are dropped.
AddNoTasks(t) ==
  /\ doing[t] = "addTask"
  /\ doing' = [doing EXCEPT ![t] = GoesBackTo(t)]
  /\ UNCHANGED <<queue_, num_pending_tasks_, num_tasks_to_add_, running_count_, task,
                 owner, idle_count>>

\* The loop that calls executor_->AddTask for each task the thread grabbed.
AddTasks(t) ==
  /\ doing[t] = "addTask"
  /\ task' = [i \in Items |-> IF i \in Held(t) THEN "executor" ELSE task[i]]
  /\ owner' = [i \in Items |-> IF i \in Held(t) THEN NoThread ELSE owner[i]]
  /\ doing' = [doing EXCEPT ![t] = GoesBackTo(t)]
  /\ UNCHANGED <<queue_, num_pending_tasks_, num_tasks_to_add_, running_count_,
                 idle_count>>

\* Mutant of StartRunning: the waiting tasks are not submitted.
StartWithoutSubmit(t) ==
  /\ doing[t] = "outside"
  /\ running_count_ < 1
  /\ running_count_' = running_count_ + 1
  /\ UNCHANGED <<queue_, num_pending_tasks_, num_tasks_to_add_, task, owner, doing,
                 idle_count>>

\* SetRunning(true); its caller must then submit the waiting tasks.
StartRunning(t) ==
  /\ doing[t] = "outside"
  /\ running_count_ < 1
  /\ running_count_' = running_count_ + 1
  /\ doing' = [doing EXCEPT ![t] = "submit"]
  /\ UNCHANGED <<queue_, num_pending_tasks_, num_tasks_to_add_, task, owner,
                 idle_count>>

\* SetRunning(false): pausing, quitting, or adding a layer of sources.
StopRunning(t) ==
  /\ doing[t] = "outside"
  /\ running_count_ > 1 - MaxStops
  /\ running_count_' = running_count_ - 1
  /\ UNCHANGED <<queue_, num_pending_tasks_, num_tasks_to_add_, task, owner,
                 doing, idle_count>>

\* The critical section of SubmitWaitingTasksToExecutor.
SubmitWaitingTasksToExecutor(t) ==
  /\ doing[t] = "submit"
  /\ \/ running_count_ > 0 /\ GrabTasks(t, {})
     \/ /\ running_count_ <= 0
        /\ UNCHANGED <<task, owner, num_pending_tasks_, num_tasks_to_add_>>
  /\ doing' = [doing EXCEPT ![t] = "addTask"]
  /\ UNCHANGED <<queue_, running_count_, idle_count>>

\* An executor thread gets a task and calls RunNextTask.
TakeTask(t, i) ==
  /\ doing[t] = "outside"
  /\ task[i] = "executor"
  /\ task' = [task EXCEPT ![i] = "taken"]
  /\ owner' = [owner EXCEPT ![i] = t]
  /\ doing' = [doing EXCEPT ![t] = "pop"]
  /\ UNCHANGED <<queue_, num_pending_tasks_, num_tasks_to_add_, running_count_,
                 idle_count>>

\* The first critical section of RunNextTask: task i pops item j.
PopItem(t, i, j) ==
  /\ doing[t] = "pop"
  /\ task[i] = "taken" /\ owner[i] = t
  /\ j \in queue_
  /\ queue_' = queue_ \ {j}
  /\ task' = [task EXCEPT ![i] = "popped"]
  /\ doing' = [doing EXCEPT ![t] = "run"]
  /\ UNCHANGED <<num_pending_tasks_, num_tasks_to_add_, running_count_, owner,
                 idle_count>>

\* Mutant of FinishTask: an empty queue counts as idle while other tasks run.
FinishTaskOfEmptyQueue(t, i) ==
  /\ doing[t] = "run"
  /\ task[i] = "popped" /\ owner[i] = t
  /\ task' = [task EXCEPT ![i] = "none"]
  /\ owner' = [owner EXCEPT ![i] = NoThread]
  /\ num_pending_tasks_' = num_pending_tasks_ - 1
  /\ doing' = [doing EXCEPT ![t] = IF queue_ = {} THEN "callTrue" ELSE "outside"]
  /\ UNCHANGED <<queue_, num_tasks_to_add_, running_count_, idle_count>>

\* The second critical section of RunNextTask, when the node has run.
FinishTask(t, i) ==
  /\ doing[t] = "run"
  /\ task[i] = "popped" /\ owner[i] = t
  /\ task' = [task EXCEPT ![i] = "none"]
  /\ owner' = [owner EXCEPT ![i] = NoThread]
  /\ num_pending_tasks_' = num_pending_tasks_ - 1
  /\ doing' = [doing EXCEPT ![t] = IF queue_ = {} /\ num_pending_tasks_' = 0
                               THEN "callTrue" ELSE "outside"]
  /\ UNCHANGED <<queue_, num_tasks_to_add_, running_count_, idle_count>>

\* idle_callback_(true), called by RunNextTask after it released the mutex.
CallIdleTrue(t) ==
  /\ doing[t] = "callTrue"
  /\ idle_count' = idle_count - 1
  /\ doing' = [doing EXCEPT ![t] = "outside"]
  /\ UNCHANGED <<queue_, num_pending_tasks_, num_tasks_to_add_, running_count_,
                 task, owner>>

\* A thread carries on with a call of this class that it has begun.
ContinueCall(t) ==
  \/ CallIdleFalse(t)
  \/ AddTasks(t)
  \/ SubmitWaitingTasksToExecutor(t)
  \/ \E i \in Items : \E j \in Items : PopItem(t, i, j)
  \/ CallIdleTrue(t)

QueueNext ==
  \E t \in Threads :
    \/ \E i \in Items : AddItemToQueue(t, i)
    \/ StartRunning(t)
    \/ StopRunning(t)
    \/ \E i \in Items : TakeTask(t, i) \/ FinishTask(t, i)
    \/ ContinueCall(t)

(* A thread does not stop inside a call, the run of a node ends although the
   node may add items meanwhile, and the executor gives a task to some thread
   when one is free again and again. *)
QueueFairness ==
  /\ \A t \in Threads : WF_queueVars(ContinueCall(t))
  /\ \A t \in Threads, i \in Items : SF_queueVars(FinishTask(t, i))
  /\ \A i \in Items : SF_queueVars(\E t \in Threads : TakeTask(t, i))

QueueSpec == QueueInit /\ [][QueueNext]_queueVars
FairQueueSpec == QueueSpec /\ QueueFairness

-----------------------------------------------------------------------------
Calling(p) == {t \in Threads : doing[t] = p}

(* CHECK(!queue_.empty()) in RunNextTask: however many threads add, submit and
   run, a task that was submitted finds an item to pop. *)
RunNextTaskFindsItem == \A t \in Threads : doing[t] = "pop" => queue_ # {}

(* The two CHECKs of CleanupAfterRun agree: once no task is pending, exactly the
   tasks that wait for the queue to run stand for the items left in it. *)
CleanupFindsOnlyWaitingTasks ==
  num_pending_tasks_ = 0 => num_tasks_to_add_ = Cardinality(queue_)

(* A task that waits while the queue runs is about to be submitted: no
   interleaving of AddItemToQueue and SetRunning strands it. *)
NoStrandedTask ==
  num_tasks_to_add_ > 0 /\ running_count_ > 0 => Calling("submit") # {}

(* Tasks and items are made and taken in different steps by many threads, and still
   there is a task for every item and an item for every task, somebody submits the
   tasks that wait, and the CHECKs of the queue hold. *)
TasksMatchItems ==
  RunNextTaskFindsItem /\ CleanupFindsOnlyWaitingTasks /\ NoStrandedTask

(* The count the scheduler keeps is exact up to the callbacks that are under way:
   it misses the queue for each pending idle_callback_(false), and counts it once
   too often for each pending idle_callback_(true). *)
IdleCountExact ==
  idle_count = (IF IsIdle THEN 0 ELSE 1)
                 - Cardinality(Calling("callFalse"))
                 + Cardinality(Calling("callTrue"))

(* A task grabbed from the queue gets to the executor and is run, whatever the
   other threads do: num_pending_tasks_ does not stay up because of it. *)
PendingTaskFinishes ==
  \A i \in Items : task[i] \in PendingPlaces ~> task[i] = "none"
=============================================================================
