------------------------ MODULE QueueAndNode_proofs ------------------------
(***************************************************************************)
(* The safety properties of SchedulerQueue and of CalculatorNode, which    *)
(* have the threads but no variable in common and are proved one after the *)
(* other.                                                                  *)
(*                                                                         *)
(* SchedulerQueue, for any number of threads and of items and however      *)
(* often the queue is stopped: an accounting argument. The counters of the *)
(* code are the cardinalities of sets of tasks, and the size of the queue  *)
(* is the number of tasks that have not popped an item yet; since each     *)
(* step moves tasks from one place to another, the two lemmas WhereMove    *)
(* and WhereGrab about what a move does to a cardinality carry the whole   *)
(* proof.                                                                  *)
(*                                                                         *)
(* CalculatorNode, for any number of threads, of parallel invocations and  *)
(* of input sets: a scheduling thread is alone (OneSchedulingThread), so   *)
(* only it adds to the invocations in flight and its allowance can only be *)
(* too small, and then scheduling_state_ says so (Allowances). Hence it    *)
(* leaves the loop with nothing left to do, or with others to see to it    *)
(* (Wakeup). That closing comes last follows from how far the input sets   *)
(* and the closing invocation have got (Sets, Closing).                    *)
(***************************************************************************)
EXTENDS SchedulerQueue, CalculatorNode, FiniteSetTheorems, TLAPS

-----------------------------------------------------------------------------
(* SchedulerQueue: the inductive invariant. *)

Threaded == {"held", "taken", "popped"}
QueuedPlaces == {"waiting", "held", "executor", "taken"}

\* A task has an owner iff a thread holds it or runs it.
TaskOwned == \A i \in Items : task[i] \in Threaded <=> owner[i] \in Threads

\* A thread runs at most one task.
OneTask ==
  \A i, j \in Items :
    /\ task[i] \in {"taken", "popped"}
    /\ task[j] \in {"taken", "popped"}
    /\ owner[i] = owner[j]
    => i = j

\* What a thread does next agrees with the tasks it has.
PcAgrees ==
  \A i \in Items :
    /\ task[i] = "held" => doing[owner[i]] \in {"callFalse", "addTask"}
    /\ task[i] = "taken" => doing[owner[i]] = "pop"
    /\ task[i] = "popped" => doing[owner[i]] \in {"callFalse", "addTask", "run"}

\* A thread about to pop has a task to do it for.
PopHasTask ==
  \A t \in Threads :
    doing[t] = "pop" => \E i \in Items : task[i] = "taken" /\ owner[i] = t

\* The counters count tasks, and the queue holds an item for each task that has
\* not popped one.
Counts ==
  /\ num_tasks_to_add_ = Cardinality(TasksAt({"waiting"}))
  /\ num_pending_tasks_ = Cardinality(TasksAt(PendingPlaces))
  /\ Cardinality(queue_) = Cardinality(TasksAt(QueuedPlaces))

Tokens == TaskOwned /\ OneTask /\ PcAgrees /\ PopHasTask

QueueInv == QueueTyped /\ Tokens /\ Counts /\ NoStrandedTask /\ IdleCountExact

-----------------------------------------------------------------------------
(* Lemmas about counting. *)

\* g is f but for t, which it maps to q.
TaskMoves(g, f, t, q) == g = [f EXCEPT ![t] = q]

\* The items that a function f from items to places maps to one of ps.
Where(f, ps) == {i \in Items : f[i] \in ps}

\* What taking over the waiting tasks does to such a function.
Grab(f) == [i \in Items |-> IF f[i] = "waiting" THEN "held" ELSE f[i]]

\* The tasks at some places are finitely many, as the items are.
LEMMA WhereFinite ==
  ASSUME NEW f, NEW ps
  PROVE  IsFiniteSet(Where(f, ps)) /\ Cardinality(Where(f, ps)) \in Nat
<1>1. Where(f, ps) \in SUBSET Items
  BY DEF Where
<1>2. IsFiniteSet(Where(f, ps))
  BY <1>1, ItemsAssumption, FS_Subset
<1> QED
  BY <1>2, FS_CardinalityType

\* Moving the task of one item adds it to the places it goes to and takes it
\* from those it leaves.
LEMMA WhereMove ==
  ASSUME NEW f \in [Items -> TaskPlaces], NEW i \in Items, NEW p, NEW ps,
         NEW g, TaskMoves(g, f, i, p)
  PROVE  Cardinality(Where(g, ps)) =
           Cardinality(Where(f, ps)) + (IF p \in ps THEN 1 ELSE 0)
                                     - (IF f[i] \in ps THEN 1 ELSE 0)
<1> DEFINE A == Where(f, ps)
           B == Where(g, ps)
<1>1. \A j \in Items : g[j] = IF j = i THEN p ELSE f[j]
  BY DEF TaskMoves
<1>2. IsFiniteSet(A) /\ Cardinality(A) \in Nat
  BY WhereFinite
<1>3. CASE p \in ps
  <2>1. B = A \cup {i}
    BY <1>1, <1>3 DEF Where
  <2>2. i \in A <=> f[i] \in ps
    BY DEF Where
  <2> HIDE DEF A, B
  <2>3. Cardinality(B) = IF i \in A THEN Cardinality(A) ELSE Cardinality(A) + 1
    BY <2>1, <1>2, FS_AddElement
  <2> QED
    BY <1>2, <1>3, <2>2, <2>3 DEF A, B
<1>4. CASE p \notin ps
  <2>1. B = A \ {i}
    BY <1>1, <1>4 DEF Where
  <2>2. i \in A <=> f[i] \in ps
    BY DEF Where
  <2> HIDE DEF A, B
  <2>3. Cardinality(B) = IF i \in A THEN Cardinality(A) - 1 ELSE Cardinality(A)
    BY <2>1, <1>2, FS_RemoveElement
  <2> QED
    BY <1>2, <1>4, <2>2, <2>3 DEF A, B
<1> QED
  BY <1>3, <1>4

\* Taking over the waiting tasks makes all of them pending and none of them
\* leave the queue.
LEMMA WhereGrab ==
  ASSUME NEW f \in [Items -> TaskPlaces]
  PROVE  /\ Cardinality(Where(Grab(f), {"waiting"})) = 0
         /\ Cardinality(Where(Grab(f), PendingPlaces)) =
              Cardinality(Where(f, PendingPlaces))
                + Cardinality(Where(f, {"waiting"}))
         /\ Where(Grab(f), QueuedPlaces) = Where(f, QueuedPlaces)
<1>1. \A i \in Items : Grab(f)[i] = IF f[i] = "waiting" THEN "held" ELSE f[i]
  BY DEF Grab
<1>2. Where(Grab(f), {"waiting"}) = {}
  BY <1>1 DEF Where
<1>3. Where(Grab(f), PendingPlaces) = Where(f, PendingPlaces) \cup Where(f, {"waiting"})
  BY <1>1 DEF Where, PendingPlaces
<1>4. Where(f, PendingPlaces) \cap Where(f, {"waiting"}) = {}
  BY DEF Where, PendingPlaces
<1>5. Where(Grab(f), QueuedPlaces) = Where(f, QueuedPlaces)
  BY <1>1 DEF Where, QueuedPlaces
<1>6. /\ IsFiniteSet(Where(f, PendingPlaces))
      /\ Cardinality(Where(f, PendingPlaces)) \in Nat
      /\ IsFiniteSet(Where(f, {"waiting"}))
      /\ Cardinality(Where(f, {"waiting"})) \in Nat
  BY WhereFinite
<1>7. Cardinality({}) = 0
  BY FS_EmptySet
<1>8. Cardinality(Where(f, PendingPlaces) \cup Where(f, {"waiting"})) =
        Cardinality(Where(f, PendingPlaces)) + Cardinality(Where(f, {"waiting"}))
          - Cardinality(Where(f, PendingPlaces) \cap Where(f, {"waiting"}))
  BY <1>6, FS_Union
<1>9. Cardinality(Where(Grab(f), {"waiting"})) = 0
  BY <1>2, <1>7
<1>10. Cardinality(Where(f, PendingPlaces) \cap Where(f, {"waiting"})) = 0
  BY <1>4, <1>7
<1>11. Cardinality(Where(Grab(f), PendingPlaces)) =
         Cardinality(Where(f, PendingPlaces)) + Cardinality(Where(f, {"waiting"}))
  BY <1>3, <1>6, <1>8, <1>10
<1> QED
  BY <1>5, <1>9, <1>11

\* The threads that f sends to the step p.
CallingIn(f, p) == {t \in Threads : f[t] = p}

\* They are finitely many.
LEMMA CallingFinite ==
  ASSUME NEW f, NEW p
  PROVE  IsFiniteSet(CallingIn(f, p)) /\ Cardinality(CallingIn(f, p)) \in Nat
<1>1. CallingIn(f, p) \in SUBSET Threads
  BY DEF CallingIn
<1>2. IsFiniteSet(CallingIn(f, p))
  BY <1>1, ThreadsAssumption, FS_Subset
<1> QED
  BY <1>2, FS_CardinalityType

\* One thread moving from step to step changes their number by one at most.
LEMMA CallingMove ==
  ASSUME NEW f \in [Threads -> Doings], NEW t \in Threads, NEW q, NEW p,
         NEW g, TaskMoves(g, f, t, q)
  PROVE  Cardinality(CallingIn(g, p)) =
           Cardinality(CallingIn(f, p)) + (IF q = p THEN 1 ELSE 0)
                                        - (IF f[t] = p THEN 1 ELSE 0)
<1> DEFINE A == CallingIn(f, p)
           B == CallingIn(g, p)
<1>1. \A u \in Threads : g[u] = IF u = t THEN q ELSE f[u]
  BY DEF TaskMoves
<1>2. IsFiniteSet(A) /\ Cardinality(A) \in Nat
  BY CallingFinite
<1>3. t \in A <=> f[t] = p
  BY DEF CallingIn
<1>4. CASE q = p
  <2>1. B = A \cup {t}
    BY <1>1, <1>4 DEF CallingIn
  <2> HIDE DEF A, B
  <2>2. Cardinality(B) = IF t \in A THEN Cardinality(A) ELSE Cardinality(A) + 1
    BY <2>1, <1>2, FS_AddElement
  <2> QED
    BY <1>2, <1>3, <1>4, <2>2 DEF A, B
<1>5. CASE q # p
  <2>1. B = A \ {t}
    BY <1>1, <1>5 DEF CallingIn
  <2> HIDE DEF A, B
  <2>2. Cardinality(B) = IF t \in A THEN Cardinality(A) - 1 ELSE Cardinality(A)
    BY <2>1, <1>2, FS_RemoveElement
  <2> QED
    BY <1>2, <1>3, <1>5, <2>2 DEF A, B
<1> QED
  BY <1>4, <1>5

-----------------------------------------------------------------------------
(* Facts about the states that satisfy the invariant. *)

\* A task at one of the places ps shows in their count.
LEMMA WhereSome ==
  ASSUME NEW f, NEW i \in Items, NEW ps, f[i] \in ps
  PROVE  Cardinality(Where(f, ps)) > 0
<1>1. Where(f, ps) # {}
  BY DEF Where
<1>2. IsFiniteSet(Where(f, ps)) /\ Cardinality(Where(f, ps)) \in Nat
  BY WhereFinite
<1>3. Cardinality(Where(f, ps)) # 0
  BY <1>1, <1>2, FS_EmptySet
<1> QED
  BY <1>2, <1>3

\* The queue holds finitely many items, and none iff its size is 0.
LEMMA QueueSize ==
  ASSUME NEW q \in SUBSET Items
  PROVE  /\ IsFiniteSet(q)
         /\ Cardinality(q) \in Nat
         /\ Cardinality(q) = 0 <=> q = {}
BY ItemsAssumption, FS_Subset, FS_CardinalityType, FS_EmptySet

\* In a state that counts right, an empty queue leaves no task waiting.
LEMMA EmptyQueueNoneWaiting ==
  ASSUME QueueTyped, Counts, queue_ = {}
  PROVE  num_tasks_to_add_ = 0
<1>1. Cardinality(Where(task, QueuedPlaces)) = 0
  BY QueueSize DEF QueueTyped, Counts, TasksAt, Where
<1>2. Where(task, QueuedPlaces) = {}
  BY <1>1, WhereFinite, FS_EmptySet
<1>3. TasksAt({"waiting"}) = {}
  BY <1>2 DEF TasksAt, Where, QueuedPlaces
<1> QED
  BY <1>3, FS_EmptySet DEF Counts

\* A submitted task that has not popped an item yet finds one.
LEMMA TaskFindsItem ==
  ASSUME QueueTyped, Counts, NEW i \in Items, task[i] \in QueuedPlaces
  PROVE  queue_ # {}
<1>1. Cardinality(Where(task, QueuedPlaces)) > 0
  BY WhereSome
<1>2. Cardinality(queue_) > 0
  BY <1>1 DEF Counts, TasksAt, Where
<1>3. queue_ \in SUBSET Items
  BY DEF QueueTyped
<1> QED
  BY <1>2, <1>3, QueueSize

\* A task that a thread runs is pending, so the queue is not idle.
LEMMA PendingTaskNotIdle ==
  ASSUME QueueTyped, Counts, NEW i \in Items, task[i] \in PendingPlaces
  PROVE  num_pending_tasks_ > 0 /\ ~IsIdle
<1>1. Cardinality(Where(task, PendingPlaces)) > 0
  BY WhereSome
<1> QED
  BY <1>1 DEF Counts, TasksAt, Where, IsIdle, QueueTyped

\* Once nothing is pending, every task stands for an item that waits.
LEMMA NonePending ==
  ASSUME QueueTyped, Counts, num_pending_tasks_ = 0
  PROVE  num_tasks_to_add_ = Cardinality(queue_)
<1>1. Cardinality(Where(task, PendingPlaces)) = 0
  BY DEF Counts, TasksAt, Where
<1>2. Where(task, PendingPlaces) = {}
  BY <1>1, WhereFinite, FS_EmptySet
<1>3. TasksAt({"waiting"}) = TasksAt(QueuedPlaces)
  BY <1>2 DEF TasksAt, Where, PendingPlaces, QueuedPlaces
<1> QED
  BY <1>3 DEF Counts

-----------------------------------------------------------------------------
(* The initial state. *)

LEMMA InitQueueInv == QueueInit => QueueInv
<1> SUFFICES ASSUME QueueInit PROVE QueueInv
  OBVIOUS
<1>1. QueueTyped
  BY MaxStopsAssumption DEF QueueInit, QueueTyped, TaskPlaces, Doings
<1>2. Tokens
  BY ThreadsAssumption
  DEF QueueInit, Tokens, TaskOwned, OneTask, PcAgrees, PopHasTask, Threaded
<1>3. /\ TasksAt({"waiting"}) = {}
      /\ TasksAt(PendingPlaces) = {}
      /\ TasksAt(QueuedPlaces) = {}
  BY DEF QueueInit, TasksAt, PendingPlaces, QueuedPlaces
<1>4. Counts
  BY <1>3, FS_EmptySet DEF QueueInit, Counts
<1>5. NoStrandedTask
  BY DEF QueueInit, NoStrandedTask
<1>6. Calling("callFalse") = {} /\ Calling("callTrue") = {}
  BY DEF QueueInit, Calling
<1>7. IdleCountExact
  BY <1>6, FS_EmptySet DEF QueueInit, IdleCountExact, IsIdle
<1> QED
  BY <1>1, <1>2, <1>4, <1>5, <1>7 DEF QueueInv

-----------------------------------------------------------------------------
(* What a step does to the idle accounting, given how it moves its thread. *)

\* The step of t to q leaves the balance of the idle count as it is.
KeepsIdleBalance(t, q) ==
  idle_count' - (IF IsIdle' THEN 0 ELSE 1)
      + (IF q = "callFalse" THEN 1 ELSE 0) - (IF q = "callTrue" THEN 1 ELSE 0)
    = idle_count - (IF IsIdle THEN 0 ELSE 1)
      + (IF doing[t] = "callFalse" THEN 1 ELSE 0)
      - (IF doing[t] = "callTrue" THEN 1 ELSE 0)

LEMMA IdleAccounting ==
  ASSUME QueueTyped, IdleCountExact, NEW t \in Threads, NEW q \in Doings,
         TaskMoves(doing', doing, t, q), KeepsIdleBalance(t, q), idle_count' \in Int
  PROVE  IdleCountExact'
<1>1. doing \in [Threads -> Doings]
  BY DEF QueueTyped
<1>2. Cardinality(CallingIn(doing', "callFalse")) =
        Cardinality(CallingIn(doing, "callFalse"))
          + (IF q = "callFalse" THEN 1 ELSE 0) - (IF doing[t] = "callFalse" THEN 1 ELSE 0)
  BY <1>1, CallingMove
<1>3. Cardinality(CallingIn(doing', "callTrue")) =
        Cardinality(CallingIn(doing, "callTrue"))
          + (IF q = "callTrue" THEN 1 ELSE 0) - (IF doing[t] = "callTrue" THEN 1 ELSE 0)
  BY <1>1, CallingMove
<1>4. /\ Cardinality(CallingIn(doing, "callFalse")) \in Nat
      /\ Cardinality(CallingIn(doing, "callTrue")) \in Nat
      /\ Cardinality(CallingIn(doing', "callFalse")) \in Nat
      /\ Cardinality(CallingIn(doing', "callTrue")) \in Nat
  BY CallingFinite
<1>5. /\ \A p : Calling(p) = CallingIn(doing, p)
      /\ \A p : Calling(p)' = CallingIn(doing', p)
  BY DEF Calling, CallingIn
<1>6. idle_count = (IF IsIdle THEN 0 ELSE 1)
                     - Cardinality(CallingIn(doing, "callFalse"))
                     + Cardinality(CallingIn(doing, "callTrue"))
  BY <1>5 DEF IdleCountExact
<1>7. idle_count' = (IF IsIdle' THEN 0 ELSE 1)
                      - Cardinality(CallingIn(doing', "callFalse"))
                      + Cardinality(CallingIn(doing', "callTrue"))
  <2>1. idle_count \in Int
    BY DEF QueueTyped
  <2> QED
    BY <1>2, <1>3, <1>4, <1>6, <2>1 DEF KeepsIdleBalance
<1> QED
  BY <1>5, <1>7 DEF IdleCountExact

(* A waiting task is still about to be submitted after a step of a thread that
   neither submits nor makes a task wait. *)
LEMMA StrandedStays ==
  ASSUME QueueTyped, NoStrandedTask, NEW t \in Threads, NEW q \in Doings,
         TaskMoves(doing', doing, t, q),
         doing[t] # "submit",
         num_tasks_to_add_' = num_tasks_to_add_,
         running_count_' > 0 => running_count_ > 0
  PROVE  NoStrandedTask'
<1> SUFFICES ASSUME num_tasks_to_add_' > 0, running_count_' > 0
             PROVE  Calling("submit")' # {}
  BY DEF NoStrandedTask
<1>1. PICK u \in Threads : doing[u] = "submit"
  BY DEF NoStrandedTask, Calling
<1>2. doing'[u] = "submit"
  BY <1>1 DEF QueueTyped, TaskMoves
<1> QED
  BY <1>2 DEF Calling

(* The size of the queue and the counters after one task has moved. *)
KeepsCounts(i, p) ==
  /\ num_tasks_to_add_' = num_tasks_to_add_
       + (IF p = "waiting" THEN 1 ELSE 0) - (IF task[i] = "waiting" THEN 1 ELSE 0)
  /\ num_pending_tasks_' = num_pending_tasks_
       + (IF p \in PendingPlaces THEN 1 ELSE 0)
       - (IF task[i] \in PendingPlaces THEN 1 ELSE 0)
  /\ Cardinality(queue_') = Cardinality(queue_)
       + (IF p \in QueuedPlaces THEN 1 ELSE 0)
       - (IF task[i] \in QueuedPlaces THEN 1 ELSE 0)

LEMMA CountsMove ==
  ASSUME QueueTyped, Counts, NEW i \in Items, NEW p \in TaskPlaces,
         TaskMoves(task', task, i, p), KeepsCounts(i, p)
  PROVE  Counts'
<1>1. task \in [Items -> TaskPlaces]
  BY DEF QueueTyped
<1>2. \A ps : Cardinality(Where(task', ps)) =
                Cardinality(Where(task, ps)) + (IF p \in ps THEN 1 ELSE 0)
                                             - (IF task[i] \in ps THEN 1 ELSE 0)
  BY <1>1, WhereMove
<1>3. \A ps : TasksAt(ps) = Where(task, ps) /\ TasksAt(ps)' = Where(task', ps)
  BY DEF TasksAt, Where
<1>4. Cardinality(TasksAt({"waiting"})') = num_tasks_to_add_'
  BY <1>2, <1>3 DEF Counts, KeepsCounts
<1>5. Cardinality(TasksAt(PendingPlaces)') = num_pending_tasks_'
  BY <1>2, <1>3 DEF Counts, KeepsCounts
<1>6. Cardinality(TasksAt(QueuedPlaces)') = Cardinality(queue_')
  BY <1>2, <1>3 DEF Counts, KeepsCounts
<1> QED
  BY <1>4, <1>5, <1>6 DEF Counts, PendingPlaces, QueuedPlaces

-----------------------------------------------------------------------------
(* One lemma per action. *)

LEMMA CallIdleFalseStep ==
  ASSUME QueueInv, NEW t \in Threads, CallIdleFalse(t)
  PROVE  QueueInv'
<1> USE DEF QueueInv, CallIdleFalse
<1>1. TaskMoves(doing', doing, t, "addTask") /\ "addTask" \in Doings
  BY DEF TaskMoves, Doings
<1>2. QueueTyped'
  BY DEF QueueTyped, Doings
<1>3. Tokens'
  BY DEF Tokens, QueueTyped, TaskOwned, OneTask, PcAgrees, PopHasTask, Threaded
<1>4. Counts'
  BY DEF Counts, TasksAt
<1>5. NoStrandedTask'
  BY <1>1, StrandedStays
<1>6. IdleCountExact'
  <2>1. IsIdle' <=> IsIdle
    BY DEF IsIdle
  <2>2. KeepsIdleBalance(t, "addTask")
    BY <2>1 DEF KeepsIdleBalance, QueueTyped
  <2>3. idle_count' \in Int
    BY <1>2 DEF QueueTyped
  <2> QED
    BY <1>1, <2>2, <2>3, IdleAccounting
<1> QED
  BY <1>2, <1>3, <1>4, <1>5, <1>6

LEMMA CallIdleTrueStep ==
  ASSUME QueueInv, NEW t \in Threads, CallIdleTrue(t)
  PROVE  QueueInv'
<1> USE DEF QueueInv, CallIdleTrue
<1>1. TaskMoves(doing', doing, t, "outside") /\ "outside" \in Doings
  BY DEF TaskMoves, Doings
<1>2. QueueTyped'
  BY DEF QueueTyped, Doings
<1>3. Tokens'
  BY DEF Tokens, QueueTyped, TaskOwned, OneTask, PcAgrees, PopHasTask, Threaded
<1>4. Counts'
  BY DEF Counts, TasksAt
<1>5. NoStrandedTask'
  BY <1>1, StrandedStays
<1>6. IdleCountExact'
  <2>1. IsIdle' <=> IsIdle
    BY DEF IsIdle
  <2>2. KeepsIdleBalance(t, "outside")
    BY <2>1 DEF KeepsIdleBalance, QueueTyped
  <2>3. idle_count' \in Int
    BY <1>2 DEF QueueTyped
  <2> QED
    BY <1>1, <2>2, <2>3, IdleAccounting
<1> QED
  BY <1>2, <1>3, <1>4, <1>5, <1>6

LEMMA StartRunningStep ==
  ASSUME QueueInv, NEW t \in Threads, StartRunning(t)
  PROVE  QueueInv'
<1> USE DEF QueueInv, StartRunning
<1>1. TaskMoves(doing', doing, t, "submit") /\ "submit" \in Doings
  BY DEF TaskMoves, Doings
<1>2. QueueTyped'
  BY MaxStopsAssumption DEF QueueTyped, Doings
<1>3. Tokens'
  BY DEF Tokens, QueueTyped, TaskOwned, OneTask, PcAgrees, PopHasTask, Threaded
<1>4. Counts'
  BY DEF Counts, TasksAt
<1>5. NoStrandedTask'
  BY DEF NoStrandedTask, Calling, QueueTyped
<1>6. IdleCountExact'
  <2>1. IsIdle' <=> IsIdle
    BY DEF IsIdle
  <2>2. KeepsIdleBalance(t, "submit")
    BY <2>1 DEF KeepsIdleBalance, QueueTyped
  <2>3. idle_count' \in Int
    BY <1>2 DEF QueueTyped
  <2> QED
    BY <1>1, <2>2, <2>3, IdleAccounting
<1> QED
  BY <1>2, <1>3, <1>4, <1>5, <1>6

LEMMA StopRunningStep ==
  ASSUME QueueInv, NEW t \in Threads, StopRunning(t)
  PROVE  QueueInv'
<1> USE DEF QueueInv, StopRunning
<1>1. QueueTyped'
  BY MaxStopsAssumption DEF QueueTyped
<1>2. Tokens'
  BY DEF Tokens, QueueTyped, TaskOwned, OneTask, PcAgrees, PopHasTask, Threaded
<1>3. Counts'
  BY DEF Counts, TasksAt
<1>4. NoStrandedTask'
  BY MaxStopsAssumption DEF NoStrandedTask, Calling, QueueTyped
<1>5. IdleCountExact'
  BY DEF IdleCountExact, IsIdle, Calling
<1> QED
  BY <1>1, <1>2, <1>3, <1>4, <1>5

LEMMA TakeTaskStep ==
  ASSUME QueueInv, NEW t \in Threads, NEW i \in Items, TakeTask(t, i)
  PROVE  QueueInv'
<1> USE DEF QueueInv, TakeTask
<1>1. /\ TaskMoves(doing', doing, t, "pop") /\ "pop" \in Doings
      /\ TaskMoves(task', task, i, "taken") /\ "taken" \in TaskPlaces
  BY DEF TaskMoves, Doings, TaskPlaces
<1>2. QueueTyped'
  BY DEF QueueTyped, Doings, TaskPlaces
<1>3. Tokens'
  BY ThreadsAssumption
  DEF Tokens, QueueTyped, TaskOwned, OneTask, PcAgrees, PopHasTask, Threaded
<1>4. Counts'
  <2>1. Cardinality(queue_) \in Nat
    BY QueueSize DEF QueueTyped
  <2>2. KeepsCounts(i, "taken")
    BY <2>1 DEF KeepsCounts, QueueTyped, PendingPlaces, QueuedPlaces
  <2> QED
    BY <1>1, <2>2, CountsMove
<1>5. NoStrandedTask'
  BY <1>1, StrandedStays
<1>6. IdleCountExact'
  <2>1. IsIdle' <=> IsIdle
    BY DEF IsIdle
  <2>2. KeepsIdleBalance(t, "pop")
    BY <2>1 DEF KeepsIdleBalance, QueueTyped
  <2>3. idle_count' \in Int
    BY <1>2 DEF QueueTyped
  <2> QED
    BY <1>1, <2>2, <2>3, IdleAccounting
<1> QED
  BY <1>2, <1>3, <1>4, <1>5, <1>6

LEMMA PopItemStep ==
  ASSUME QueueInv, NEW t \in Threads, NEW i \in Items, NEW j \in Items,
         PopItem(t, i, j)
  PROVE  QueueInv'
<1> USE DEF QueueInv, PopItem
<1>1. /\ TaskMoves(doing', doing, t, "run") /\ "run" \in Doings
      /\ TaskMoves(task', task, i, "popped") /\ "popped" \in TaskPlaces
  BY DEF TaskMoves, Doings, TaskPlaces
<1>2. QueueTyped'
  BY DEF QueueTyped, Doings, TaskPlaces
<1>3. Tokens'
  BY ThreadsAssumption
  DEF Tokens, QueueTyped, TaskOwned, OneTask, PcAgrees, PopHasTask, Threaded
<1>4. Counts'
  <2>1. Cardinality(queue_) \in Nat /\ IsFiniteSet(queue_)
    BY QueueSize DEF QueueTyped
  <2>2. Cardinality(queue_') = Cardinality(queue_) - 1
    BY <2>1, FS_RemoveElement
  <2>3. KeepsCounts(i, "popped")
    BY <2>1, <2>2 DEF KeepsCounts, QueueTyped, PendingPlaces, QueuedPlaces
  <2> QED
    BY <1>1, <2>3, CountsMove
<1>5. NoStrandedTask'
  BY <1>1, StrandedStays
<1>6. IdleCountExact'
  <2>1. num_pending_tasks_ > 0
    BY PendingTaskNotIdle DEF PendingPlaces
  <2>2. ~IsIdle /\ ~IsIdle'
    BY <2>1 DEF IsIdle, QueueTyped
  <2>3. KeepsIdleBalance(t, "run")
    BY <2>2 DEF KeepsIdleBalance, QueueTyped
  <2>4. idle_count' \in Int
    BY <1>2 DEF QueueTyped
  <2> QED
    BY <1>1, <2>3, <2>4, IdleAccounting
<1> QED
  BY <1>2, <1>3, <1>4, <1>5, <1>6

LEMMA FinishTaskStep ==
  ASSUME QueueInv, NEW t \in Threads, NEW i \in Items, FinishTask(t, i)
  PROVE  QueueInv'
<1> USE DEF QueueInv, FinishTask
<1> DEFINE q == IF queue_ = {} /\ num_pending_tasks_' = 0
                  THEN "callTrue" ELSE "outside"
<1>1. /\ TaskMoves(doing', doing, t, q) /\ q \in Doings
      /\ TaskMoves(task', task, i, "none") /\ "none" \in TaskPlaces
  BY DEF TaskMoves, Doings, TaskPlaces
<1>2. num_pending_tasks_ > 0 /\ ~IsIdle
  BY PendingTaskNotIdle DEF PendingPlaces
<1>3. QueueTyped'
  BY <1>2 DEF QueueTyped, Doings, TaskPlaces
<1>4. Tokens'
  BY ThreadsAssumption
  DEF Tokens, QueueTyped, TaskOwned, OneTask, PcAgrees, PopHasTask, Threaded
<1>5. Counts'
  <2>1. Cardinality(queue_) \in Nat
    BY QueueSize DEF QueueTyped
  <2>2. KeepsCounts(i, "none")
    BY <2>1 DEF KeepsCounts, QueueTyped, PendingPlaces, QueuedPlaces
  <2> QED
    BY <1>1, <2>2, CountsMove
<1>6. NoStrandedTask'
  BY <1>1, StrandedStays
<1>7. IdleCountExact'
  <2>1. IsIdle' <=> q = "callTrue"
    BY DEF IsIdle
  <2>2. q # "callFalse"
    OBVIOUS
  <2>3. KeepsIdleBalance(t, q)
    BY <1>2, <2>1, <2>2 DEF KeepsIdleBalance, QueueTyped
  <2>4. idle_count' \in Int
    BY <1>3 DEF QueueTyped
  <2> HIDE DEF q
  <2> QED
    BY <1>1, <2>3, <2>4, IdleAccounting
<1> QED
  BY <1>3, <1>4, <1>5, <1>6, <1>7

(* The counters after the waiting tasks have been taken over. *)
LEMMA CountsGrab ==
  ASSUME NEW f \in [Items -> TaskPlaces],
         task' = Grab(f),
         num_tasks_to_add_' = 0,
         num_pending_tasks_' = Cardinality(Where(f, PendingPlaces))
                                 + Cardinality(Where(f, {"waiting"})),
         Cardinality(queue_') = Cardinality(Where(f, QueuedPlaces))
  PROVE  Counts'
<1>1. \A ps : TasksAt(ps)' = Where(Grab(f), ps)
  BY DEF TasksAt, Where
<1> QED
  BY <1>1, WhereGrab DEF Counts, PendingPlaces, QueuedPlaces

LEMMA SubmitStep ==
  ASSUME QueueInv, NEW t \in Threads, SubmitWaitingTasksToExecutor(t)
  PROVE  QueueInv'
<1> USE DEF QueueInv, SubmitWaitingTasksToExecutor
<1>1. TaskMoves(doing', doing, t, "addTask") /\ "addTask" \in Doings
  BY DEF TaskMoves, Doings
<1>2. CASE running_count_ <= 0
  <2> USE <1>2
  <2>1. /\ UNCHANGED <<task, owner, num_pending_tasks_, num_tasks_to_add_>>
        /\ ~(running_count_' > 0)
    BY DEF QueueTyped
  <2>2. QueueTyped'
    BY <2>1 DEF QueueTyped, Doings
  <2>3. Tokens'
    BY <2>1 DEF Tokens, QueueTyped, TaskOwned, OneTask, PcAgrees, PopHasTask, Threaded
  <2>4. Counts'
    BY <2>1 DEF Counts, TasksAt
  <2>5. NoStrandedTask'
    BY <2>1 DEF NoStrandedTask
  <2>6. IdleCountExact'
    <3>1. IsIdle' <=> IsIdle
      BY <2>1 DEF IsIdle
    <3>2. KeepsIdleBalance(t, "addTask")
      BY <3>1 DEF KeepsIdleBalance, QueueTyped
    <3>3. idle_count' \in Int
      BY <2>2 DEF QueueTyped
    <3> QED
      BY <1>1, <3>2, <3>3, IdleAccounting
  <2> QED
    BY <2>2, <2>3, <2>4, <2>5, <2>6
<1>3. CASE running_count_ > 0
  <2>1. GrabTasks(t, {})
    BY <1>3 DEF QueueTyped
  <2>2. /\ task' = [i \in Items |-> IF task[i] = "waiting" THEN "held" ELSE task[i]]
        /\ owner' = [i \in Items |-> IF task[i] = "waiting" THEN t ELSE owner[i]]
        /\ num_pending_tasks_' = num_pending_tasks_ + num_tasks_to_add_
        /\ num_tasks_to_add_' = 0
    BY <2>1, FS_EmptySet DEF GrabTasks, TasksAt, QueueTyped
  <2>3. QueueTyped'
    BY <2>2 DEF QueueTyped, Doings, TaskPlaces
  <2>4. Tokens'
    BY <2>2, ThreadsAssumption
    DEF Tokens, QueueTyped, TaskOwned, OneTask, PcAgrees, PopHasTask, Threaded
  <2>5. Counts'
    <3>1. task \in [Items -> TaskPlaces] /\ task' = Grab(task)
      BY <2>2 DEF QueueTyped, Grab
    <3>2. /\ num_pending_tasks_' = Cardinality(Where(task, PendingPlaces))
                                     + Cardinality(Where(task, {"waiting"}))
          /\ Cardinality(queue_') = Cardinality(Where(task, QueuedPlaces))
      BY <2>2 DEF Counts, TasksAt, Where
    <3> QED
      BY <2>2, <3>1, <3>2, CountsGrab
  <2>6. NoStrandedTask'
    BY <2>2 DEF NoStrandedTask
  <2>7. IdleCountExact'
    <3>1. IsIdle' <=> IsIdle
      <4>1. queue_ = {} => num_tasks_to_add_ = 0
        BY EmptyQueueNoneWaiting
      <4> QED
        BY <2>2, <4>1 DEF IsIdle, QueueTyped
    <3>2. KeepsIdleBalance(t, "addTask")
      BY <3>1 DEF KeepsIdleBalance, QueueTyped
    <3>3. idle_count' \in Int
      BY <2>3 DEF QueueTyped
    <3> QED
      BY <1>1, <3>2, <3>3, IdleAccounting
  <2> QED
    BY <2>3, <2>4, <2>5, <2>6, <2>7
<1> QED
  BY <1>2, <1>3 DEF QueueTyped

LEMMA AddTasksStep ==
  ASSUME QueueInv, NEW t \in Threads, AddTasks(t)
  PROVE  QueueInv'
<1> USE DEF QueueInv, AddTasks
<1>1. TaskMoves(doing', doing, t, GoesBackTo(t)) /\ GoesBackTo(t) \in {"run", "outside"}
  BY DEF TaskMoves, GoesBackTo
<1>2. /\ \A i \in Items :
           /\ task'[i] = IF task[i] = "held" /\ owner[i] = t THEN "executor" ELSE task[i]
           /\ owner'[i] = IF task[i] = "held" /\ owner[i] = t THEN NoThread ELSE owner[i]
      /\ task' \in [Items -> TaskPlaces]
      /\ owner' \in [Items -> Threads \cup {NoThread}]
  BY DEF Held, QueueTyped, TaskPlaces
<1>3. QueueTyped'
  BY <1>1, <1>2 DEF QueueTyped, Doings
<1>4. Tokens'
  <2>1. TaskOwned'
    BY <1>2, ThreadsAssumption DEF Tokens, TaskOwned, Threaded, QueueTyped
  <2>2. OneTask'
    BY <1>2 DEF Tokens, OneTask
  <2>3. \A u \in Threads : doing'[u] = IF u = t THEN GoesBackTo(t) ELSE doing[u]
    BY DEF QueueTyped
  <2>4. \A i \in Items : task[i] = "popped" /\ owner[i] = t => GoesBackTo(t) = "run"
    BY DEF GoesBackTo
  <2>5. PcAgrees'
    <3> SUFFICES ASSUME NEW i \in Items
                 PROVE  /\ task'[i] = "held" => doing'[owner'[i]] \in {"callFalse", "addTask"}
                        /\ task'[i] = "taken" => doing'[owner'[i]] = "pop"
                        /\ task'[i] = "popped" =>
                             doing'[owner'[i]] \in {"callFalse", "addTask", "run"}
      BY DEF PcAgrees
    <3>1. task'[i] \in Threaded => task'[i] = task[i] /\ owner'[i] = owner[i]
                                     /\ owner[i] \in Threads
      BY <1>2 DEF Threaded, Tokens, TaskOwned
    <3> QED
      BY <1>2, <2>3, <2>4, <3>1 DEF Tokens, PcAgrees, Threaded
  <2>6. PopHasTask'
    BY <1>1, <1>2, <2>3 DEF Tokens, PopHasTask
  <2> QED
    BY <2>1, <2>2, <2>5, <2>6 DEF Tokens
<1>5. Counts'
  <2>1. /\ TasksAt({"waiting"})' = TasksAt({"waiting"})
        /\ TasksAt(PendingPlaces)' = TasksAt(PendingPlaces)
        /\ TasksAt(QueuedPlaces)' = TasksAt(QueuedPlaces)
    BY <1>2 DEF TasksAt, PendingPlaces, QueuedPlaces
  <2> QED
    BY <2>1 DEF Counts
<1>6. NoStrandedTask'
  BY <1>1, StrandedStays DEF Doings
<1>7. IdleCountExact'
  <2>1. IsIdle' <=> IsIdle
    BY DEF IsIdle
  <2>2. KeepsIdleBalance(t, GoesBackTo(t))
    BY <1>1, <2>1 DEF KeepsIdleBalance, QueueTyped
  <2>3. idle_count' \in Int
    BY <1>3 DEF QueueTyped
  <2> QED
    BY <1>1, <2>2, <2>3, IdleAccounting DEF Doings
<1> QED
  BY <1>3, <1>4, <1>5, <1>6, <1>7

LEMMA AddItemStep ==
  ASSUME QueueInv, NEW t \in Threads, NEW i \in Items, AddItemToQueue(t, i)
  PROVE  QueueInv'
<1> USE DEF QueueInv, AddItemToQueue
<1> DEFINE q == IF IsIdle THEN "callFalse" ELSE "addTask"
<1>1. TaskMoves(doing', doing, t, q) /\ q \in Doings
  BY DEF TaskMoves, Doings
<1>2. /\ IsFiniteSet(queue_)
      /\ Cardinality(queue_) \in Nat
      /\ Cardinality(queue_') = Cardinality(queue_) + 1
  BY QueueSize, FS_AddElement DEF QueueTyped
<1>3. ~IsIdle'
  BY DEF IsIdle
\* The doing of the other threads, and what the thread did before, are as the
\* invariant of the tokens needs them.
<1>4. /\ \A u \in Threads : doing'[u] = IF u = t THEN q ELSE doing[u]
      /\ q \in {"callFalse", "addTask"}
  BY DEF QueueTyped
<1>5. CASE running_count_ <= 0
  <2>1. /\ task' = [task EXCEPT ![i] = "waiting"]
        /\ num_tasks_to_add_' = num_tasks_to_add_ + 1
        /\ UNCHANGED <<num_pending_tasks_, owner>>
        /\ ~(running_count_' > 0)
    BY <1>5 DEF QueueTyped
  <2>2. QueueTyped'
    BY <2>1, <1>1 DEF QueueTyped, Doings, TaskPlaces
  <2>3. Tokens'
    BY <2>1, <1>4, ThreadsAssumption
    DEF Tokens, QueueTyped, TaskOwned, OneTask, PcAgrees, PopHasTask, Threaded
  <2>4. Counts'
    <3>1. TaskMoves(task', task, i, "waiting") /\ "waiting" \in TaskPlaces
      BY <2>1 DEF TaskMoves, TaskPlaces
    <3>2. KeepsCounts(i, "waiting")
      BY <1>2, <2>1 DEF KeepsCounts, QueueTyped, PendingPlaces, QueuedPlaces
    <3> QED
      BY <3>1, <3>2, CountsMove
  <2>5. NoStrandedTask'
    BY <2>1 DEF NoStrandedTask
  <2>6. IdleCountExact'
    <3>1. KeepsIdleBalance(t, q)
      BY <1>3 DEF KeepsIdleBalance, QueueTyped
    <3>2. idle_count' \in Int
      BY <2>2 DEF QueueTyped
    <3> HIDE DEF q
    <3> QED
      BY <1>1, <3>1, <3>2, IdleAccounting
  <2> QED
    BY <2>2, <2>3, <2>4, <2>5, <2>6
<1>6. CASE running_count_ > 0
  <2>1. GrabTasks(t, {i})
    BY <1>6 DEF QueueTyped
  <2> DEFINE f == [task EXCEPT ![i] = "waiting"]
  <2>2. /\ Cardinality({i}) = 1
        /\ num_pending_tasks_' = num_pending_tasks_ + num_tasks_to_add_ + 1
        /\ num_tasks_to_add_' = 0
        /\ task' = Grab(f)
        /\ owner' = [j \in Items |-> IF task[j] = "waiting" \/ j = i
                                       THEN t ELSE owner[j]]
    BY <2>1, FS_Singleton DEF GrabTasks, Grab, TasksAt, QueueTyped
  <2>3. \A j \in Items : task'[j] = IF task[j] = "waiting" \/ j = i
                                      THEN "held" ELSE task[j]
    BY <2>2 DEF Grab, QueueTyped
  <2>4. QueueTyped'
    BY <2>1, <2>2, <1>1 DEF QueueTyped, Doings, TaskPlaces, GrabTasks
  <2>5. Tokens'
    <3>1. TaskOwned'
      BY <2>2, <2>3, ThreadsAssumption DEF Tokens, TaskOwned, Threaded
    <3>2. OneTask'
      BY <2>2, <2>3 DEF Tokens, OneTask
    <3>3. PcAgrees'
      <4> SUFFICES ASSUME NEW j \in Items
                   PROVE  /\ task'[j] = "held" => doing'[owner'[j]] \in {"callFalse", "addTask"}
                          /\ task'[j] = "taken" => doing'[owner'[j]] = "pop"
                          /\ task'[j] = "popped" =>
                               doing'[owner'[j]] \in {"callFalse", "addTask", "run"}
        BY DEF PcAgrees
      <4> HIDE DEF q
      <4>1. CASE task[j] = "waiting" \/ j = i
        BY <4>1, <2>2, <2>3, <1>4
      <4>2. CASE ~(task[j] = "waiting" \/ j = i)
        <5>1. task'[j] = task[j] /\ owner'[j] = owner[j]
          BY <4>2, <2>2, <2>3
        <5>2. task[j] \in Threaded => owner[j] \in Threads
          BY DEF Tokens, TaskOwned
        <5>3. doing[t] \in {"outside", "run"}
          OBVIOUS
        <5> QED
          BY <5>1, <5>2, <5>3, <1>4 DEF Tokens, PcAgrees, Threaded
      <4> QED
        BY <4>1, <4>2
    <3>4. PopHasTask'
      <4> SUFFICES ASSUME NEW u \in Threads, doing'[u] = "pop"
                   PROVE  \E j \in Items : task'[j] = "taken" /\ owner'[j] = u
        BY DEF PopHasTask
      <4> HIDE DEF q
      <4>1. doing[u] = "pop"
        BY <1>4
      <4>2. PICK j \in Items : task[j] = "taken" /\ owner[j] = u
        BY <4>1 DEF Tokens, PopHasTask
      <4>3. j # i /\ task[j] # "waiting"
        BY <4>2
      <4> QED
        BY <4>2, <4>3, <2>2, <2>3
    <3> QED
      BY <3>1, <3>2, <3>3, <3>4 DEF Tokens
  <2>6. Counts'
    <3>1. /\ f \in [Items -> TaskPlaces]
          /\ task \in [Items -> TaskPlaces]
          /\ TaskMoves(f, task, i, "waiting")
      BY DEF QueueTyped, TaskPlaces, TaskMoves
    <3>2. \A ps : Cardinality(Where(f, ps)) =
                    Cardinality(Where(task, ps)) + (IF "waiting" \in ps THEN 1 ELSE 0)
                                                 - (IF task[i] \in ps THEN 1 ELSE 0)
      BY <3>1, WhereMove
    <3>3. \A ps : Cardinality(Where(task, ps)) \in Nat
      BY WhereFinite
    <3>4. /\ "waiting" \notin PendingPlaces /\ task[i] \notin PendingPlaces
          /\ "waiting" \in QueuedPlaces /\ task[i] \notin QueuedPlaces
          /\ task[i] \notin {"waiting"}
      BY DEF PendingPlaces, QueuedPlaces
    <3>5. /\ Cardinality(Where(f, PendingPlaces)) = num_pending_tasks_
          /\ Cardinality(Where(f, {"waiting"})) = num_tasks_to_add_ + 1
          /\ Cardinality(Where(f, QueuedPlaces)) = Cardinality(queue_) + 1
      <4>1. /\ num_pending_tasks_ = Cardinality(Where(task, PendingPlaces))
            /\ num_tasks_to_add_ = Cardinality(Where(task, {"waiting"}))
            /\ Cardinality(queue_) = Cardinality(Where(task, QueuedPlaces))
        BY DEF Counts, TasksAt, Where
      <4> HIDE DEF f
      <4>2. Cardinality(Where(f, PendingPlaces)) = num_pending_tasks_
        BY <3>2, <3>3, <3>4, <4>1
      <4>3. Cardinality(Where(f, {"waiting"})) = num_tasks_to_add_ + 1
        BY <3>2, <3>3, <3>4, <4>1
      <4>4. Cardinality(Where(f, QueuedPlaces)) = Cardinality(queue_) + 1
        BY <3>2, <3>3, <3>4, <4>1
      <4> QED
        BY <4>2, <4>3, <4>4
    <3>6. /\ num_pending_tasks_' = Cardinality(Where(f, PendingPlaces))
                                     + Cardinality(Where(f, {"waiting"}))
          /\ Cardinality(queue_') = Cardinality(Where(f, QueuedPlaces))
      BY <3>5, <2>2, <1>2 DEF QueueTyped
    <3> HIDE DEF f
    <3> QED
      BY <3>1, <3>6, <2>2, CountsGrab
  <2>7. NoStrandedTask'
    BY <2>2 DEF NoStrandedTask
  <2>8. IdleCountExact'
    <3>1. KeepsIdleBalance(t, q)
      BY <1>3 DEF KeepsIdleBalance, QueueTyped
    <3>2. idle_count' \in Int
      BY <2>4 DEF QueueTyped
    <3> HIDE DEF q
    <3> QED
      BY <1>1, <3>1, <3>2, IdleAccounting
  <2> QED
    BY <2>4, <2>5, <2>6, <2>7, <2>8
<1> QED
  BY <1>5, <1>6 DEF QueueTyped

-----------------------------------------------------------------------------
(* The theorems. *)

\* Every step keeps the inductive invariant.
LEMMA NextIInv == QueueInv /\ [QueueNext]_queueVars => QueueInv'
<1> SUFFICES ASSUME QueueInv, [QueueNext]_queueVars PROVE QueueInv'
  OBVIOUS
<1>1. CASE UNCHANGED queueVars
  BY <1>1
  DEF queueVars, QueueInv, QueueTyped, Tokens, TaskOwned, OneTask, PcAgrees, PopHasTask,
      Counts, TasksAt, NoStrandedTask, IdleCountExact, IsIdle, Calling
<1>2. ASSUME NEW t \in Threads, NEW i \in Items, AddItemToQueue(t, i)
      PROVE  QueueInv'
  BY <1>2, AddItemStep
<1>3. ASSUME NEW t \in Threads, StartRunning(t) PROVE QueueInv'
  BY <1>3, StartRunningStep
<1>4. ASSUME NEW t \in Threads, StopRunning(t) PROVE QueueInv'
  BY <1>4, StopRunningStep
<1>5. ASSUME NEW t \in Threads, NEW i \in Items, TakeTask(t, i) PROVE QueueInv'
  BY <1>5, TakeTaskStep
<1>6. ASSUME NEW t \in Threads, NEW i \in Items, FinishTask(t, i) PROVE QueueInv'
  BY <1>6, FinishTaskStep
<1>7. ASSUME NEW t \in Threads, ContinueCall(t) PROVE QueueInv'
  BY <1>7, CallIdleFalseStep, AddTasksStep, SubmitStep, PopItemStep,
     CallIdleTrueStep DEF ContinueCall
<1> QED
  BY <1>1, <1>2, <1>3, <1>4, <1>5, <1>6, <1>7 DEF QueueNext

\* The variables of a queue keep their types.
THEOREM QueueTypeCorrect == QueueSpec => []QueueTyped
<1>1. QueueInv => QueueTyped
  BY DEF QueueInv
<1> QED
  BY InitQueueInv, NextIInv, <1>1, PTL DEF QueueSpec

(* No thread that calls RunNextTask finds the queue empty: the CHECK at the start
   of that method never fails. *)
THEOREM TasksFindItems == QueueSpec => []RunNextTaskFindsItem
<1>1. QueueInv => RunNextTaskFindsItem
  <2> SUFFICES ASSUME QueueInv, NEW t \in Threads, doing[t] = "pop"
               PROVE  queue_ # {}
    BY DEF RunNextTaskFindsItem
  <2>1. PICK i \in Items : task[i] = "taken"
    BY DEF QueueInv, Tokens, PopHasTask
  <2> QED
    BY <2>1, TaskFindsItem DEF QueueInv, QueuedPlaces
<1> QED
  BY InitQueueInv, NextIInv, <1>1, PTL DEF QueueSpec

(* Whenever nothing is pending, the CHECKs of CleanupAfterRun hold. *)
THEOREM CleanupChecksHold == QueueSpec => []CleanupFindsOnlyWaitingTasks
<1>1. QueueInv => CleanupFindsOnlyWaitingTasks
  BY NonePending DEF QueueInv, CleanupFindsOnlyWaitingTasks
<1> QED
  BY InitQueueInv, NextIInv, <1>1, PTL DEF QueueSpec

(* AddItemToQueue and SetRunning never strand a task between them. *)
THEOREM TasksNotStranded == QueueSpec => []NoStrandedTask
<1>1. QueueInv => NoStrandedTask
  BY DEF QueueInv
<1> QED
  BY InitQueueInv, NextIInv, <1>1, PTL DEF QueueSpec

(* Tasks and items match, however many threads, items and stops there are. *)
THEOREM TasksAndItemsMatch == QueueSpec => []TasksMatchItems
<1>1. RunNextTaskFindsItem /\ CleanupFindsOnlyWaitingTasks /\ NoStrandedTask
        => TasksMatchItems
  BY DEF TasksMatchItems
<1> QED
  BY TasksFindItems, CleanupChecksHold, TasksNotStranded, <1>1, PTL

(* The scheduler's count of active queues is exact but for callbacks under way. *)
THEOREM IdleCountIsExact == QueueSpec => []IdleCountExact
<1>1. QueueInv => IdleCountExact
  BY DEF QueueInv
<1> QED
  BY InitQueueInv, NextIInv, <1>1, PTL DEF QueueSpec

-----------------------------------------------------------------------------
(* CalculatorNode: the inductive invariant. *)

\* A thread runs at most one invocation, and is not outside meanwhile.
Runners ==
  /\ \A i \in At({"running"}) : runner[i] \in Threads /\ pc[runner[i]] # "outside"
  /\ \A i, j \in At({"running"}) : runner[i] = runner[j] => i = j
  /\ \A t \in Threads :
       pc[t] \in {"run", "end"} => \E i \in At({"running"}) : runner[i] = t

\* At most one invocation is prepared, by the thread that is about to add it.
Prepared ==
  /\ \A i, j \in At({"prepared"}) : i = j
  /\ \A i \in At({"prepared"}) : \E t \in Threads : pc[t] = "addNode"

(* The allowance is never too large; and it is what is left unless an invocation has
   ended since, which has made the state kSchedulingPending. *)
Allowances ==
  \A t \in Threads : pc[t] \in {"invoke", "addNode"} =>
    /\ max_allowance[t] + current_in_flight_ <= max_in_flight_
    /\ scheduling_state_ = "kScheduling" /\ ~has_error
         => max_allowance[t] + current_in_flight_ = max_in_flight_
    /\ pc[t] = "addNode" => max_allowance[t] > 0

(* NoLostWakeup, and the same for a scheduling thread that is about to leave. *)
Attended == \E t \in Threads : pc[t] \in {"check", "end"}
Leaving ==
  \/ scheduling_state_ = "kIdle"
  \/ scheduling_state_ = "kScheduling" /\ \E t \in Threads : pc[t] = "recheck"
Wakeup ==
  status_ = "Opened" /\ ~has_error /\ Ready /\ current_in_flight_ < max_in_flight_
    /\ Leaving => Attended

\* The input sets that are consumed, and how far each has got.
Sets ==
  /\ consumed <= arrived
  /\ \A i \in InputSets : place[i] # "none" <=> i <= consumed
  /\ \A i \in completed : place[i] \in {"running", "gone"}
  /\ \A i \in completed : place[i] = "running" => pc[runner[i]] = "end"
  /\ \A i \in InputSets : place[i] = "gone" => i \in completed \/ has_error
  /\ \A i \in InputSets :
       place[i] = "running" /\ pc[runner[i]] = "end" => i \in completed \/ has_error
  /\ \A i \in 1 .. consumed : i \in completed \/ i \in active_contexts_

\* How far the invocation that closes the node has got.
AllCompleted == \A i \in 1 .. arrived : i \in completed
Closing ==
  /\ prepared_context_for_close_ <=> place[Close] # "none"
  /\ place[Close] # "none" => input_done /\ consumed = arrived
  /\ place[Close] = "prepared" => AllCompleted \/ has_error
  /\ place[Close] \in {"queued", "running"} \/ status_ = "Closed" => AllCompleted
  /\ status_ = "Closed" => place[Close] \in {"running", "gone"}
  /\ status_ = "Closed" /\ place[Close] = "running" => pc[runner[Close]] = "end"
  /\ place[Close] = "running" /\ pc[runner[Close]] = "end" => status_ = "Closed"

IInv ==
  /\ TypeOK /\ OneSchedulingThread /\ Runners /\ Prepared
  /\ InFlightExact /\ Allowances /\ Wakeup /\ Sets /\ Closing

-----------------------------------------------------------------------------
(* Lemmas about counting the invocations in flight. *)

\* g is f but for i, which it maps to q.
Moves(g, f, i, q) == g = [f EXCEPT ![i] = q]
Flying(f) == {i \in Invocations : f[i] \in InFlight}

\* The invocations are finitely many, and so are those in flight.
LEMMA FlyingFinite ==
  ASSUME NEW f
  PROVE  IsFiniteSet(Flying(f)) /\ Cardinality(Flying(f)) \in Nat
<1>1. IsFiniteSet(1 .. MaxSets)
  BY FS_Interval, MaxSetsAssumption
<1>2. Invocations = (1 .. MaxSets) \cup {Close}
  BY DEF Invocations, InputSets
<1>. HIDE DEF Invocations, InputSets, Close
<1>3. IsFiniteSet(Invocations)
  BY <1>1, <1>2, FS_AddElement
<1>4. Flying(f) \in SUBSET Invocations
  BY DEF Flying
<1>5. IsFiniteSet(Flying(f))
  BY <1>3, <1>4, FS_Subset
<1> QED
  BY <1>5, FS_CardinalityType

\* Queuing an invocation adds it to those in flight.
LEMMA Takeoff ==
  ASSUME NEW f \in [Invocations -> Places], NEW i \in Invocations, f[i] \notin InFlight,
         NEW g, Moves(g, f, i, "queued")
  PROVE  Cardinality(Flying(g)) = Cardinality(Flying(f)) + 1
<1>1. Flying(g) = Flying(f) \cup {i} /\ i \notin Flying(f)
  BY DEF Moves, Flying, InFlight
<1> QED
  BY <1>1, FlyingFinite, FS_AddElement

\* Ending an invocation takes it from those in flight, of which there was one.
LEMMA Landing ==
  ASSUME NEW f \in [Invocations -> Places], NEW i \in Invocations, f[i] \in InFlight,
         NEW g, Moves(g, f, i, "gone")
  PROVE  /\ Cardinality(Flying(g)) = Cardinality(Flying(f)) - 1
         /\ Cardinality(Flying(f)) > 0
<1>1. Flying(g) = Flying(f) \ {i} /\ i \in Flying(f)
  BY DEF Moves, Flying, InFlight
<1>2. Cardinality(Flying(g)) = Cardinality(Flying(f)) - 1
  BY <1>1, FlyingFinite, FS_RemoveElement
<1> QED
  BY <1>2, FlyingFinite

\* Any other move leaves the number in flight as it is.
LEMMA SameHeight ==
  ASSUME NEW f \in [Invocations -> Places], NEW i \in Invocations, NEW q, NEW g,
         Moves(g, f, i, q), f[i] \in InFlight <=> q \in InFlight
  PROVE  Flying(g) = Flying(f)
BY DEF Moves, Flying, InFlight

(* Every step keeps the type invariant; no counter drops below 0, for an invocation
   that ends is counted (the CHECK_GE in EndScheduling) and an allowance is not used up. *)
LEMMA TypesKept ==
  ASSUME IInv, [Next]_vars
  PROVE  TypeOK'
<1> USE DEF IInv, TypeOK, inputVars, contextVars, InputSets, Invocations, Places, PCs,
     LoopPCs
<1>1. ASSUME NEW t \in Threads, NodeOpened(t) PROVE TypeOK'
  BY <1>1, MaxInFlightAssumption, MaxSetsAssumption DEF NodeOpened, Goto
<1>2. ASSUME NEW t \in Threads, InputSetArrives(t) PROVE TypeOK'
  BY <1>2, MaxInFlightAssumption, MaxSetsAssumption DEF InputSetArrives, Goto
<1>3. ASSUME NEW t \in Threads, InputCloses(t) PROVE TypeOK'
  BY <1>3, MaxInFlightAssumption, MaxSetsAssumption DEF InputCloses, Goto
<1>4. ASSUME NEW t \in Threads, CheckIfBecameReady(t) PROVE TypeOK'
  BY <1>4, MaxInFlightAssumption, MaxSetsAssumption DEF CheckIfBecameReady, Goto, Return
<1>5. ASSUME NEW t \in Threads, BeginSchedulingLoop(t) PROVE TypeOK'
  BY <1>5, MaxInFlightAssumption, MaxSetsAssumption DEF BeginSchedulingLoop, Goto,
       Allowance, Return, InFlightExact
<1>6. ASSUME NEW t \in Threads, PrepareInvocation(t) PROVE TypeOK'
  BY <1>6, MaxInFlightAssumption, MaxSetsAssumption DEF PrepareInvocation, Goto, Prepare
<1>7. ASSUME NEW t \in Threads, PrepareClose(t) PROVE TypeOK'
  BY <1>7, MaxInFlightAssumption, MaxSetsAssumption DEF PrepareClose, Goto, Prepare,
       MayClose
<1>8. ASSUME NEW t \in Threads, EndInvocations(t) PROVE TypeOK'
  BY <1>8, MaxInFlightAssumption, MaxSetsAssumption DEF EndInvocations, Goto
<1>9. ASSUME NEW t \in Threads, NEW i \in Invocations, AddNode(t, i) PROVE TypeOK'
  BY <1>9, MaxInFlightAssumption, MaxSetsAssumption DEF AddNode, Goto, Allowances
<1>10. ASSUME NEW t \in Threads, Recheck(t) PROVE TypeOK'
  BY <1>10, MaxInFlightAssumption, MaxSetsAssumption DEF Recheck, Goto, Allowance,
       Return, InFlightExact
<1>11. ASSUME NEW t \in Threads, NEW i \in Invocations, RunNode(t, i) PROVE TypeOK'
  BY <1>11, MaxInFlightAssumption, MaxSetsAssumption DEF RunNode, Goto
<1>12. ASSUME NEW t \in Threads, NEW i \in Invocations, Process(t, i) PROVE TypeOK'
  BY <1>12, MaxInFlightAssumption, MaxSetsAssumption DEF Process, Goto, Runs, Unrecycled
<1>13. ASSUME NEW t \in Threads, NEW i \in Invocations, ProcessFails(t, i) PROVE TypeOK'
  BY <1>13, MaxInFlightAssumption, MaxSetsAssumption DEF ProcessFails, Goto, Runs
<1>14. ASSUME NEW t \in Threads, CloseNode(t) PROVE TypeOK'
  BY <1>14, MaxInFlightAssumption, MaxSetsAssumption DEF CloseNode, Goto, Runs
<1>15. ASSUME NEW t \in Threads, NEW i \in Invocations, EndScheduling(t, i)
       PROVE  TypeOK'
  <2>1. CASE status_ = "Closed"
    BY <1>15, <2>1 DEF EndScheduling, Goto
  <2>2. CASE status_ # "Closed"
    <3>1. Moves(place', place, i, "gone") /\ place[i] \in InFlight
      BY <1>15 DEF EndScheduling, Runs, Moves, InFlight
    <3>2. Cardinality(Flying(place)) > 0
      BY <3>1, Landing DEF IInv, TypeOK
    <3>3. current_in_flight_ > 0
      BY <2>2, <3>2 DEF IInv, InFlightExact, At, Flying
    <3> QED
      BY <1>15, <2>2, <3>3 DEF EndScheduling, Goto
  <2> QED
    BY <2>1, <2>2
<1>16. ASSUME ErrorElsewhere PROVE TypeOK'
  BY <1>16, MaxInFlightAssumption, MaxSetsAssumption DEF ErrorElsewhere
<1>17. CASE UNCHANGED vars
  BY <1>17 DEF vars
<1> QED
  BY <1>1, <1>2, <1>3, <1>4, <1>5, <1>6, <1>7, <1>8, <1>9, <1>10, <1>11, <1>12, <1>13,
       <1>14, <1>15, <1>16, <1>17 DEF Next, Continue

(* Every step keeps one thread in the scheduling loop. *)
LEMMA SchedulerKept ==
  ASSUME IInv, [Next]_vars
  PROVE  OneSchedulingThread'
<1> USE DEF IInv, TypeOK, OneSchedulingThread, InLoop, LoopPCs
<1>1. ASSUME NEW t \in Threads, NodeOpened(t) PROVE OneSchedulingThread'
  BY <1>1 DEF NodeOpened, Goto
<1>2. ASSUME NEW t \in Threads, InputSetArrives(t) PROVE OneSchedulingThread'
  BY <1>2 DEF InputSetArrives, Goto
<1>3. ASSUME NEW t \in Threads, InputCloses(t) PROVE OneSchedulingThread'
  BY <1>3 DEF InputCloses, Goto
<1>4. ASSUME NEW t \in Threads, CheckIfBecameReady(t) PROVE OneSchedulingThread'
  BY <1>4 DEF CheckIfBecameReady, Goto, Return
<1>5. ASSUME NEW t \in Threads, BeginSchedulingLoop(t) PROVE OneSchedulingThread'
  BY <1>5 DEF BeginSchedulingLoop, Goto, Allowance, Return
<1>6. ASSUME NEW t \in Threads, PrepareInvocation(t) PROVE OneSchedulingThread'
  BY <1>6 DEF PrepareInvocation, Goto, Prepare
<1>7. ASSUME NEW t \in Threads, PrepareClose(t) PROVE OneSchedulingThread'
  BY <1>7 DEF PrepareClose, Goto, Prepare, MayClose
<1>8. ASSUME NEW t \in Threads, EndInvocations(t) PROVE OneSchedulingThread'
  BY <1>8 DEF EndInvocations, Goto
<1>9. ASSUME NEW t \in Threads, NEW i \in Invocations, AddNode(t, i)
      PROVE  OneSchedulingThread'
  BY <1>9 DEF AddNode, Goto
<1>10. ASSUME NEW t \in Threads, Recheck(t) PROVE OneSchedulingThread'
  BY <1>10 DEF Recheck, Goto, Allowance, Return
<1>11. ASSUME NEW t \in Threads, NEW i \in Invocations, RunNode(t, i)
       PROVE  OneSchedulingThread'
  BY <1>11 DEF RunNode, Goto
<1>12. ASSUME NEW t \in Threads, NEW i \in Invocations, Process(t, i)
       PROVE  OneSchedulingThread'
  BY <1>12 DEF Process, Goto, Runs, Unrecycled
<1>13. ASSUME NEW t \in Threads, NEW i \in Invocations, ProcessFails(t, i)
       PROVE  OneSchedulingThread'
  BY <1>13 DEF ProcessFails, Goto, Runs
<1>14. ASSUME NEW t \in Threads, CloseNode(t) PROVE OneSchedulingThread'
  BY <1>14 DEF CloseNode, Goto, Runs
<1>15. ASSUME NEW t \in Threads, NEW i \in Invocations, EndScheduling(t, i)
       PROVE  OneSchedulingThread'
  BY <1>15 DEF EndScheduling, Goto, Runs
<1>16. ASSUME ErrorElsewhere PROVE OneSchedulingThread'
  BY <1>16 DEF ErrorElsewhere
<1>17. CASE UNCHANGED vars
  BY <1>17 DEF vars
<1> QED
  BY <1>1, <1>2, <1>3, <1>4, <1>5, <1>6, <1>7, <1>8, <1>9, <1>10, <1>11, <1>12, <1>13,
       <1>14, <1>15, <1>16, <1>17 DEF Next, Continue

(* Every step keeps invocations and the threads that run them matched. *)
LEMMA RunnersKept ==
  ASSUME IInv, [Next]_vars
  PROVE  Runners'
<1> USE DEF IInv, TypeOK, Runners, At, inputVars, contextVars
<1>1. ASSUME NEW t \in Threads, NodeOpened(t) PROVE Runners'
  BY <1>1 DEF NodeOpened, Goto
<1>2. ASSUME NEW t \in Threads, InputSetArrives(t) PROVE Runners'
  BY <1>2 DEF InputSetArrives, Goto
<1>3. ASSUME NEW t \in Threads, InputCloses(t) PROVE Runners'
  BY <1>3 DEF InputCloses, Goto
<1>4. ASSUME NEW t \in Threads, CheckIfBecameReady(t) PROVE Runners'
  BY <1>4 DEF CheckIfBecameReady, Goto, Return
<1>5. ASSUME NEW t \in Threads, BeginSchedulingLoop(t) PROVE Runners'
  BY <1>5 DEF BeginSchedulingLoop, Goto, Allowance, Return
<1>6. ASSUME NEW t \in Threads, PrepareInvocation(t) PROVE Runners'
  BY <1>6 DEF PrepareInvocation, Goto, Prepare, Sets, InputSets, Invocations, Close
<1>7. ASSUME NEW t \in Threads, PrepareClose(t) PROVE Runners'
  BY <1>7 DEF PrepareClose, Goto, Prepare, MayClose, Closing
<1>8. ASSUME NEW t \in Threads, EndInvocations(t) PROVE Runners'
  BY <1>8 DEF EndInvocations, Goto
<1>9. ASSUME NEW t \in Threads, NEW i \in Invocations, AddNode(t, i) PROVE Runners'
  BY <1>9 DEF AddNode, Goto
<1>10. ASSUME NEW t \in Threads, Recheck(t) PROVE Runners'
  BY <1>10 DEF Recheck, Goto, Allowance, Return
<1>11. ASSUME NEW t \in Threads, NEW i \in Invocations, RunNode(t, i) PROVE Runners'
  BY <1>11 DEF RunNode, Goto
<1>12. ASSUME NEW t \in Threads, NEW i \in Invocations, Process(t, i) PROVE Runners'
  BY <1>12 DEF Process, Goto, Runs, Unrecycled
<1>13. ASSUME NEW t \in Threads, NEW i \in Invocations, ProcessFails(t, i)
       PROVE  Runners'
  BY <1>13 DEF ProcessFails, Goto, Runs
<1>14. ASSUME NEW t \in Threads, CloseNode(t) PROVE Runners'
  BY <1>14 DEF CloseNode, Goto, Runs
<1>15. ASSUME NEW t \in Threads, NEW i \in Invocations, EndScheduling(t, i)
       PROVE  Runners'
  BY <1>15 DEF EndScheduling, Goto, Runs
<1>16. ASSUME ErrorElsewhere PROVE Runners'
  BY <1>16 DEF ErrorElsewhere
<1>17. CASE UNCHANGED vars
  BY <1>17 DEF vars
<1> QED
  BY <1>1, <1>2, <1>3, <1>4, <1>5, <1>6, <1>7, <1>8, <1>9, <1>10, <1>11, <1>12, <1>13,
       <1>14, <1>15, <1>16, <1>17 DEF Next, Continue

(* Every step keeps at most one invocation prepared. *)
LEMMA PreparedKept ==
  ASSUME IInv, [Next]_vars
  PROVE  Prepared'
<1> USE DEF IInv, TypeOK, OneSchedulingThread, InLoop, LoopPCs, Prepared, At, inputVars,
     contextVars
<1>1. ASSUME NEW t \in Threads, NodeOpened(t) PROVE Prepared'
  BY <1>1 DEF NodeOpened, Goto
<1>2. ASSUME NEW t \in Threads, InputSetArrives(t) PROVE Prepared'
  BY <1>2 DEF InputSetArrives, Goto
<1>3. ASSUME NEW t \in Threads, InputCloses(t) PROVE Prepared'
  BY <1>3 DEF InputCloses, Goto
<1>4. ASSUME NEW t \in Threads, CheckIfBecameReady(t) PROVE Prepared'
  BY <1>4 DEF CheckIfBecameReady, Goto, Return
<1>5. ASSUME NEW t \in Threads, BeginSchedulingLoop(t) PROVE Prepared'
  BY <1>5 DEF BeginSchedulingLoop, Goto, Allowance, Return
<1>6. ASSUME NEW t \in Threads, PrepareInvocation(t) PROVE Prepared'
  BY <1>6 DEF PrepareInvocation, Goto, Prepare
<1>7. ASSUME NEW t \in Threads, PrepareClose(t) PROVE Prepared'
  BY <1>7 DEF PrepareClose, Goto, Prepare, MayClose
<1>8. ASSUME NEW t \in Threads, EndInvocations(t) PROVE Prepared'
  BY <1>8 DEF EndInvocations, Goto
<1>9. ASSUME NEW t \in Threads, NEW i \in Invocations, AddNode(t, i) PROVE Prepared'
  BY <1>9 DEF AddNode, Goto
<1>10. ASSUME NEW t \in Threads, Recheck(t) PROVE Prepared'
  BY <1>10 DEF Recheck, Goto, Allowance, Return
<1>11. ASSUME NEW t \in Threads, NEW i \in Invocations, RunNode(t, i) PROVE Prepared'
  BY <1>11 DEF RunNode, Goto
<1>12. ASSUME NEW t \in Threads, NEW i \in Invocations, Process(t, i) PROVE Prepared'
  BY <1>12 DEF Process, Goto, Runs, Unrecycled
<1>13. ASSUME NEW t \in Threads, NEW i \in Invocations, ProcessFails(t, i)
       PROVE  Prepared'
  BY <1>13 DEF ProcessFails, Goto, Runs
<1>14. ASSUME NEW t \in Threads, CloseNode(t) PROVE Prepared'
  BY <1>14 DEF CloseNode, Goto, Runs
<1>15. ASSUME NEW t \in Threads, NEW i \in Invocations, EndScheduling(t, i)
       PROVE  Prepared'
  BY <1>15 DEF EndScheduling, Goto, Runs
<1>16. ASSUME ErrorElsewhere PROVE Prepared'
  BY <1>16 DEF ErrorElsewhere
<1>17. CASE UNCHANGED vars
  BY <1>17 DEF vars
<1> QED
  BY <1>1, <1>2, <1>3, <1>4, <1>5, <1>6, <1>7, <1>8, <1>9, <1>10, <1>11, <1>12, <1>13,
       <1>14, <1>15, <1>16, <1>17 DEF Next, Continue

(* Every step keeps the allowance right: only the scheduling thread schedules, and a
   thread that ends an invocation meanwhile leaves kSchedulingPending behind. *)
LEMMA AllowancesKept ==
  ASSUME IInv, [Next]_vars
  PROVE  Allowances'
<1> USE DEF IInv, TypeOK, OneSchedulingThread, InLoop, LoopPCs, Allowances,
     InFlightExact, inputVars, contextVars
<1>1. ASSUME NEW t \in Threads, NodeOpened(t) PROVE Allowances'
  BY <1>1, MaxInFlightAssumption DEF NodeOpened, Goto
<1>2. ASSUME NEW t \in Threads, InputSetArrives(t) PROVE Allowances'
  BY <1>2, MaxInFlightAssumption DEF InputSetArrives, Goto
<1>3. ASSUME NEW t \in Threads, InputCloses(t) PROVE Allowances'
  BY <1>3, MaxInFlightAssumption DEF InputCloses, Goto
<1>4. ASSUME NEW t \in Threads, CheckIfBecameReady(t) PROVE Allowances'
  BY <1>4, MaxInFlightAssumption DEF CheckIfBecameReady, Goto, Return
<1>5. ASSUME NEW t \in Threads, BeginSchedulingLoop(t) PROVE Allowances'
  BY <1>5, MaxInFlightAssumption DEF BeginSchedulingLoop, Goto, Allowance, Return
<1>6. ASSUME NEW t \in Threads, PrepareInvocation(t) PROVE Allowances'
  BY <1>6, MaxInFlightAssumption DEF PrepareInvocation, Goto, Prepare
<1>7. ASSUME NEW t \in Threads, PrepareClose(t) PROVE Allowances'
  BY <1>7, MaxInFlightAssumption DEF PrepareClose, Goto, Prepare, MayClose
<1>8. ASSUME NEW t \in Threads, EndInvocations(t) PROVE Allowances'
  BY <1>8, MaxInFlightAssumption DEF EndInvocations, Goto
<1>9. ASSUME NEW t \in Threads, NEW i \in Invocations, AddNode(t, i) PROVE Allowances'
  BY <1>9, MaxInFlightAssumption DEF AddNode, Goto
<1>10. ASSUME NEW t \in Threads, Recheck(t) PROVE Allowances'
  BY <1>10, MaxInFlightAssumption DEF Recheck, Goto, Allowance, Return
<1>11. ASSUME NEW t \in Threads, NEW i \in Invocations, RunNode(t, i) PROVE Allowances'
  BY <1>11, MaxInFlightAssumption DEF RunNode, Goto
<1>12. ASSUME NEW t \in Threads, NEW i \in Invocations, Process(t, i) PROVE Allowances'
  BY <1>12, MaxInFlightAssumption DEF Process, Goto, Runs, Unrecycled
<1>13. ASSUME NEW t \in Threads, NEW i \in Invocations, ProcessFails(t, i)
       PROVE  Allowances'
  BY <1>13, MaxInFlightAssumption DEF ProcessFails, Goto, Runs
<1>14. ASSUME NEW t \in Threads, CloseNode(t) PROVE Allowances'
  BY <1>14, MaxInFlightAssumption DEF CloseNode, Goto, Runs
<1>15. ASSUME NEW t \in Threads, NEW i \in Invocations, EndScheduling(t, i)
       PROVE  Allowances'
  BY <1>15, MaxInFlightAssumption DEF EndScheduling, Goto, Runs
<1>16. ASSUME ErrorElsewhere PROVE Allowances'
  BY <1>16, MaxInFlightAssumption DEF ErrorElsewhere
<1>17. CASE UNCHANGED vars
  BY <1>17 DEF vars
<1> QED
  BY <1>1, <1>2, <1>3, <1>4, <1>5, <1>6, <1>7, <1>8, <1>9, <1>10, <1>11, <1>12, <1>13,
       <1>14, <1>15, <1>16, <1>17 DEF Next, Continue

(* No step loses a wakeup, nor lets the scheduling thread get ready to leave while
   something could be scheduled that nobody else attends to. *)
LEMMA WakeupKept ==
  ASSUME IInv, [Next]_vars
  PROVE  Wakeup'
<1> USE DEF IInv, TypeOK, OneSchedulingThread, InLoop, LoopPCs, Allowances, Wakeup,
     Leaving, Attended, Ready, MayClose, HasActiveContexts, inputVars, contextVars
<1>1. ASSUME NEW t \in Threads, NodeOpened(t) PROVE Wakeup'
  BY <1>1, MaxInFlightAssumption DEF NodeOpened, Goto
<1>2. ASSUME NEW t \in Threads, InputSetArrives(t) PROVE Wakeup'
  BY <1>2, MaxInFlightAssumption DEF InputSetArrives, Goto
<1>3. ASSUME NEW t \in Threads, InputCloses(t) PROVE Wakeup'
  BY <1>3, MaxInFlightAssumption DEF InputCloses, Goto
<1>4. ASSUME NEW t \in Threads, CheckIfBecameReady(t) PROVE Wakeup'
  BY <1>4, MaxInFlightAssumption DEF CheckIfBecameReady, Goto, Return
<1>5. ASSUME NEW t \in Threads, BeginSchedulingLoop(t) PROVE Wakeup'
  BY <1>5, MaxInFlightAssumption DEF BeginSchedulingLoop, Goto, Allowance, Return
<1>6. ASSUME NEW t \in Threads, PrepareInvocation(t) PROVE Wakeup'
  BY <1>6, MaxInFlightAssumption DEF PrepareInvocation, Goto, Prepare
<1>7. ASSUME NEW t \in Threads, PrepareClose(t) PROVE Wakeup'
  BY <1>7, MaxInFlightAssumption DEF PrepareClose, Goto, Prepare, MayClose
<1>8. ASSUME NEW t \in Threads, EndInvocations(t) PROVE Wakeup'
  BY <1>8, MaxInFlightAssumption DEF EndInvocations, Goto
<1>9. ASSUME NEW t \in Threads, NEW i \in Invocations, AddNode(t, i) PROVE Wakeup'
  BY <1>9, MaxInFlightAssumption DEF AddNode, Goto, Closing
<1>10. ASSUME NEW t \in Threads, Recheck(t) PROVE Wakeup'
  BY <1>10, MaxInFlightAssumption DEF Recheck, Goto, Allowance, Return
<1>11. ASSUME NEW t \in Threads, NEW i \in Invocations, RunNode(t, i) PROVE Wakeup'
  BY <1>11, MaxInFlightAssumption DEF RunNode, Goto
<1>12. ASSUME NEW t \in Threads, NEW i \in Invocations, Process(t, i) PROVE Wakeup'
  BY <1>12, MaxInFlightAssumption DEF Process, Goto, Runs, Unrecycled
<1>13. ASSUME NEW t \in Threads, NEW i \in Invocations, ProcessFails(t, i) PROVE Wakeup'
  BY <1>13, MaxInFlightAssumption DEF ProcessFails, Goto, Runs
<1>14. ASSUME NEW t \in Threads, CloseNode(t) PROVE Wakeup'
  BY <1>14, MaxInFlightAssumption DEF CloseNode, Goto, Runs
<1>15. ASSUME NEW t \in Threads, NEW i \in Invocations, EndScheduling(t, i)
       PROVE  Wakeup'
  BY <1>15, MaxInFlightAssumption DEF EndScheduling, Goto, Runs
<1>16. ASSUME ErrorElsewhere PROVE Wakeup'
  BY <1>16, MaxInFlightAssumption DEF ErrorElsewhere
<1>17. CASE UNCHANGED vars
  BY <1>17 DEF vars
<1> QED
  BY <1>1, <1>2, <1>3, <1>4, <1>5, <1>6, <1>7, <1>8, <1>9, <1>10, <1>11, <1>12, <1>13,
       <1>14, <1>15, <1>16, <1>17 DEF Next, Continue

(* Every step keeps the input sets in order. *)
LEMMA SetsKept ==
  ASSUME IInv, [Next]_vars
  PROVE  Sets'
<1> USE DEF IInv, TypeOK, Runners, At, Sets, InputSets, Invocations, Close, inputVars,
     contextVars
<1>1. ASSUME NEW t \in Threads, NodeOpened(t) PROVE Sets'
  BY <1>1 DEF NodeOpened, Goto
<1>2. ASSUME NEW t \in Threads, InputSetArrives(t) PROVE Sets'
  BY <1>2 DEF InputSetArrives, Goto
<1>3. ASSUME NEW t \in Threads, InputCloses(t) PROVE Sets'
  BY <1>3 DEF InputCloses, Goto
<1>4. ASSUME NEW t \in Threads, CheckIfBecameReady(t) PROVE Sets'
  BY <1>4 DEF CheckIfBecameReady, Goto, Return
<1>5. ASSUME NEW t \in Threads, BeginSchedulingLoop(t) PROVE Sets'
  BY <1>5 DEF BeginSchedulingLoop, Goto, Allowance, Return
<1>6. ASSUME NEW t \in Threads, PrepareInvocation(t) PROVE Sets'
  BY <1>6 DEF PrepareInvocation, Goto, Prepare
<1>7. ASSUME NEW t \in Threads, PrepareClose(t) PROVE Sets'
  BY <1>7 DEF PrepareClose, Goto, Prepare, MayClose
<1>8. ASSUME NEW t \in Threads, EndInvocations(t) PROVE Sets'
  BY <1>8 DEF EndInvocations, Goto
<1>9. ASSUME NEW t \in Threads, NEW i \in Invocations, AddNode(t, i) PROVE Sets'
  BY <1>9 DEF AddNode, Goto
<1>10. ASSUME NEW t \in Threads, Recheck(t) PROVE Sets'
  BY <1>10 DEF Recheck, Goto, Allowance, Return
<1>11. ASSUME NEW t \in Threads, NEW i \in Invocations, RunNode(t, i) PROVE Sets'
  BY <1>11 DEF RunNode, Goto
<1>12. ASSUME NEW t \in Threads, NEW i \in Invocations, Process(t, i) PROVE Sets'
  BY <1>12 DEF Process, Goto, Runs, Unrecycled
<1>13. ASSUME NEW t \in Threads, NEW i \in Invocations, ProcessFails(t, i) PROVE Sets'
  BY <1>13 DEF ProcessFails, Goto, Runs
<1>14. ASSUME NEW t \in Threads, CloseNode(t) PROVE Sets'
  BY <1>14 DEF CloseNode, Goto, Runs
<1>15. ASSUME NEW t \in Threads, NEW i \in Invocations, EndScheduling(t, i) PROVE Sets'
  BY <1>15 DEF EndScheduling, Goto, Runs
<1>16. ASSUME ErrorElsewhere PROVE Sets'
  BY <1>16 DEF ErrorElsewhere
<1>17. CASE UNCHANGED vars
  BY <1>17 DEF vars
<1> QED
  BY <1>1, <1>2, <1>3, <1>4, <1>5, <1>6, <1>7, <1>8, <1>9, <1>10, <1>11, <1>12, <1>13,
       <1>14, <1>15, <1>16, <1>17 DEF Next, Continue

(* When the scheduling thread prepares to close the node, every input set that
   arrived has been processed: no invocation is prepared, as the thread would be
   adding it, and none is in flight, or its context would be active. *)
LEMMA CloseComesLast ==
  ASSUME IInv, NEW t \in Threads, PrepareClose(t)
  PROVE  AllCompleted \/ has_error
<1>1. CASE status_ = "Closed"
  BY <1>1 DEF IInv, Closing
<1>2. CASE max_in_flight_ > 1
  <2>1. active_contexts_ = {} /\ consumed = arrived
    BY <1>2 DEF PrepareClose, MayClose, HasActiveContexts
  <2> QED
    BY <2>1 DEF IInv, Sets, AllCompleted
<1>3. CASE max_in_flight_ = 1 /\ status_ # "Closed"
  <2>1. current_in_flight_ = 0
    BY <1>3 DEF PrepareClose, IInv, TypeOK, Allowances
  <2>2. Flying(place) = {}
    BY <1>3, <2>1, FlyingFinite, FS_EmptySet DEF IInv, InFlightExact, At, Flying
  <2>3. At({"prepared"}) = {}
    BY DEF PrepareClose, IInv, TypeOK, Prepared, OneSchedulingThread, InLoop, LoopPCs
  <2>4. \A i \in 1 .. arrived : i \in Invocations /\ place[i] = "gone"
    <3> SUFFICES ASSUME NEW i \in 1 .. arrived
                 PROVE  i \in Invocations /\ place[i] = "gone"
      OBVIOUS
    <3>1. i \in InputSets /\ i \in Invocations /\ i <= consumed
      BY MaxSetsAssumption DEF IInv, TypeOK, InputSets, Invocations, PrepareClose,
           MayClose
    <3>2. place[i] # "none" /\ place[i] \notin {"prepared", "queued", "running"}
      BY <2>2, <2>3, <3>1 DEF IInv, Sets, Flying, InFlight, At
    <3> QED
      BY <3>1, <3>2 DEF IInv, TypeOK, Places
  <2> QED
    BY <2>4, MaxSetsAssumption DEF IInv, TypeOK, Sets, AllCompleted, InputSets
<1> QED
  BY <1>1, <1>2, <1>3, MaxInFlightAssumption

(* Every step keeps the closing of the node last. *)
LEMMA ClosingKept ==
  ASSUME IInv, [Next]_vars
  PROVE  Closing'
<1> USE DEF IInv, TypeOK, Runners, At, Sets, Closing, AllCompleted, InputSets,
     Invocations, Close, inputVars, contextVars
<1>1. ASSUME NEW t \in Threads, NodeOpened(t) PROVE Closing'
  BY <1>1 DEF NodeOpened, Goto
<1>2. ASSUME NEW t \in Threads, InputSetArrives(t) PROVE Closing'
  BY <1>2 DEF InputSetArrives, Goto
<1>3. ASSUME NEW t \in Threads, InputCloses(t) PROVE Closing'
  BY <1>3 DEF InputCloses, Goto
<1>4. ASSUME NEW t \in Threads, CheckIfBecameReady(t) PROVE Closing'
  BY <1>4 DEF CheckIfBecameReady, Goto, Return
<1>5. ASSUME NEW t \in Threads, BeginSchedulingLoop(t) PROVE Closing'
  BY <1>5 DEF BeginSchedulingLoop, Goto, Allowance, Return
<1>6. ASSUME NEW t \in Threads, PrepareInvocation(t) PROVE Closing'
  BY <1>6 DEF PrepareInvocation, Goto, Prepare
<1>7. ASSUME NEW t \in Threads, PrepareClose(t) PROVE Closing'
  <2>1. AllCompleted \/ has_error
    BY <1>7, CloseComesLast DEF IInv
  <2> QED
    BY <1>7, <2>1 DEF PrepareClose, Goto, Prepare, MayClose
<1>8. ASSUME NEW t \in Threads, EndInvocations(t) PROVE Closing'
  BY <1>8 DEF EndInvocations, Goto
<1>9. ASSUME NEW t \in Threads, NEW i \in Invocations, AddNode(t, i) PROVE Closing'
  BY <1>9 DEF AddNode, Goto
<1>10. ASSUME NEW t \in Threads, Recheck(t) PROVE Closing'
  BY <1>10 DEF Recheck, Goto, Allowance, Return
<1>11. ASSUME NEW t \in Threads, NEW i \in Invocations, RunNode(t, i) PROVE Closing'
  BY <1>11 DEF RunNode, Goto
<1>12. ASSUME NEW t \in Threads, NEW i \in Invocations, Process(t, i) PROVE Closing'
  BY <1>12 DEF Process, Goto, Runs, Unrecycled
<1>13. ASSUME NEW t \in Threads, NEW i \in Invocations, ProcessFails(t, i)
       PROVE  Closing'
  BY <1>13 DEF ProcessFails, Goto, Runs
<1>14. ASSUME NEW t \in Threads, CloseNode(t) PROVE Closing'
  BY <1>14 DEF CloseNode, Goto, Runs
<1>15. ASSUME NEW t \in Threads, NEW i \in Invocations, EndScheduling(t, i)
       PROVE  Closing'
  BY <1>15 DEF EndScheduling, Goto, Runs
<1>16. ASSUME ErrorElsewhere PROVE Closing'
  BY <1>16 DEF ErrorElsewhere
<1>17. CASE UNCHANGED vars
  BY <1>17 DEF vars
<1> QED
  BY <1>1, <1>2, <1>3, <1>4, <1>5, <1>6, <1>7, <1>8, <1>9, <1>10, <1>11, <1>12, <1>13,
       <1>14, <1>15, <1>16, <1>17 DEF Next, Continue

(* Every step keeps current_in_flight_ the number of invocations in flight. *)
LEMMA InFlightKept ==
  ASSUME IInv, [Next]_vars
  PROVE  InFlightExact'
<1> USE DEF IInv, TypeOK, InFlightExact, At
<1>1. ASSUME NEW t \in Threads, NodeOpened(t) PROVE InFlightExact'
  BY <1>1 DEF NodeOpened, Goto
<1>2. ASSUME NEW t \in Threads, InputSetArrives(t) PROVE InFlightExact'
  BY <1>2 DEF InputSetArrives, Goto
<1>3. ASSUME NEW t \in Threads, InputCloses(t) PROVE InFlightExact'
  BY <1>3 DEF InputCloses, Goto
<1>4. ASSUME NEW t \in Threads, CheckIfBecameReady(t) PROVE InFlightExact'
  BY <1>4 DEF CheckIfBecameReady, Goto, Return
<1>5. ASSUME NEW t \in Threads, BeginSchedulingLoop(t) PROVE InFlightExact'
  BY <1>5 DEF BeginSchedulingLoop, Goto, Allowance, Return
<1>6. ASSUME NEW t \in Threads, PrepareInvocation(t) PROVE InFlightExact'
  <2>1. consumed + 1 \in InputSets /\ place[consumed + 1] = "none"
    BY <1>6, MaxSetsAssumption DEF PrepareInvocation, IInv, TypeOK, Sets, InputSets
  <2>2. Moves(place', place, consumed + 1, "prepared") /\ consumed + 1 \in Invocations
    BY <1>6, <2>1 DEF PrepareInvocation, Prepare, Moves, Invocations
  <2>3. Flying(place') = Flying(place)
    BY <2>1, <2>2, SameHeight DEF IInv, TypeOK, InFlight
  <2> QED
    BY <1>6, <2>3 DEF PrepareInvocation, IInv, InFlightExact, At, Flying
<1>7. ASSUME NEW t \in Threads, PrepareClose(t) PROVE InFlightExact'
  <2>1. /\ Moves(place', place, Close, "prepared")
        /\ (place[Close] \in InFlight <=> "prepared" \in InFlight)
    BY <1>7 DEF PrepareClose, Moves, InFlight, Prepare, MayClose, IInv, Closing
  <2>2. Close \in Invocations
    BY <1>7 DEF IInv, TypeOK, InputSets, Invocations, Close, PrepareClose
  <2>3. Flying(place') = Flying(place)
    BY <2>1, <2>2, SameHeight DEF IInv, TypeOK
  <2> QED
    BY <1>7, <2>3 DEF PrepareClose, IInv, InFlightExact, At, Flying
<1>8. ASSUME NEW t \in Threads, EndInvocations(t) PROVE InFlightExact'
  BY <1>8 DEF EndInvocations, Goto
<1>9. ASSUME NEW t \in Threads, NEW i \in Invocations, AddNode(t, i)
      PROVE  InFlightExact'
  <2>1. CASE has_error
    <3>1. Moves(place', place, i, "gone") /\ (place[i] \in InFlight <=> "gone" \in InFlight)
      BY <1>9, <2>1 DEF AddNode, Moves, InFlight
    <3>2. Flying(place') = Flying(place)
      BY <3>1, SameHeight DEF IInv, TypeOK
    <3> QED
      BY <1>9, <2>1, <3>2 DEF AddNode, IInv, InFlightExact, At, Flying
  <2>2. CASE ~has_error
    <3>1. Moves(place', place, i, "queued") /\ place[i] \notin InFlight
      BY <1>9, <2>2 DEF AddNode, Moves, InFlight
    <3>2. Cardinality(Flying(place')) = Cardinality(Flying(place)) + 1
      BY <3>1, Takeoff DEF IInv, TypeOK
    <3>3. /\ current_in_flight_' = current_in_flight_ + 1
          /\ current_in_flight_ < max_in_flight_ /\ status_' = status_
      BY <1>9, <2>2 DEF AddNode
    <3> QED
      BY <3>2, <3>3, MaxInFlightAssumption DEF IInv, TypeOK, InFlightExact, At, Flying
  <2> QED
    BY <2>1, <2>2
<1>10. ASSUME NEW t \in Threads, Recheck(t) PROVE InFlightExact'
  BY <1>10 DEF Recheck, Goto, Allowance, Return
<1>11. ASSUME NEW t \in Threads, NEW i \in Invocations, RunNode(t, i)
       PROVE  InFlightExact'
  <2>1. /\ Moves(place', place, i, "running")
        /\ (place[i] \in InFlight <=> "running" \in InFlight)
    BY <1>11 DEF RunNode, Moves, InFlight
  <2>2. i \in Invocations
    BY <1>11 DEF IInv, TypeOK, InputSets, Invocations, Close, RunNode
  <2>3. Flying(place') = Flying(place)
    BY <2>1, <2>2, SameHeight DEF IInv, TypeOK
  <2> QED
    BY <1>11, <2>3 DEF RunNode, IInv, InFlightExact, At, Flying
<1>12. ASSUME NEW t \in Threads, NEW i \in Invocations, Process(t, i)
       PROVE  InFlightExact'
  BY <1>12 DEF Process, Goto, Runs, Unrecycled
<1>13. ASSUME NEW t \in Threads, NEW i \in Invocations, ProcessFails(t, i)
       PROVE  InFlightExact'
  BY <1>13 DEF ProcessFails, Goto, Runs
<1>14. ASSUME NEW t \in Threads, CloseNode(t) PROVE InFlightExact'
  BY <1>14 DEF CloseNode, Goto, Runs
<1>15. ASSUME NEW t \in Threads, NEW i \in Invocations, EndScheduling(t, i)
       PROVE  InFlightExact'
  <2>1. CASE status_ = "Closed"
    BY <1>15, <2>1 DEF EndScheduling, IInv, InFlightExact
  <2>2. CASE status_ # "Closed"
    <3>1. Moves(place', place, i, "gone") /\ place[i] \in InFlight
      BY <1>15 DEF EndScheduling, Runs, Moves, InFlight
    <3>2. Cardinality(Flying(place')) = Cardinality(Flying(place)) - 1
      BY <3>1, Landing DEF IInv, TypeOK
    <3>3. current_in_flight_' = current_in_flight_ - 1 /\ status_' = status_
      BY <1>15, <2>2 DEF EndScheduling
    <3> QED
      BY <3>2, <3>3, MaxInFlightAssumption DEF IInv, TypeOK, InFlightExact, At, Flying
  <2> QED
    BY <2>1, <2>2
<1>16. ASSUME ErrorElsewhere PROVE InFlightExact'
  BY <1>16 DEF ErrorElsewhere
<1>17. CASE UNCHANGED vars
  BY <1>17 DEF vars
<1> QED
  BY <1>1, <1>2, <1>3, <1>4, <1>5, <1>6, <1>7, <1>8, <1>9, <1>10, <1>11, <1>12, <1>13,
       <1>14, <1>15, <1>16, <1>17 DEF Next, Continue

-----------------------------------------------------------------------------
(* The theorems. *)

\* The invariant holds at first, ...
LEMMA InitIInv == Init => IInv
<1> SUFFICES ASSUME Init PROVE IInv
  OBVIOUS
<1>1. Flying(place) = {}
  BY DEF Init, Flying, InFlight
<1>2. InFlightExact
  BY <1>1, FS_EmptySet, MaxInFlightAssumption DEF Init, InFlightExact, At, Flying
<1>3. TypeOK
  <2>1. place \in [Invocations -> Places] /\ runner \in [Invocations -> Threads \cup {NoThread}]
    BY DEF Init, Places
  <2>2. pc \in [Threads -> PCs] /\ max_allowance \in [Threads -> Nat]
    BY DEF Init, PCs, LoopPCs
  <2>3. arrived \in 0 .. MaxSets /\ consumed \in 0 .. MaxSets /\ current_in_flight_ \in Nat
    BY MaxSetsAssumption DEF Init
  <2> QED
    BY <2>1, <2>2, <2>3 DEF Init, TypeOK
<1>4. OneSchedulingThread /\ Runners /\ Prepared /\ Allowances
  BY DEF Init, OneSchedulingThread, InLoop, LoopPCs, Runners, Prepared, At, Allowances
<1>5. Wakeup /\ Sets /\ Closing
  BY MaxSetsAssumption DEF Init, Wakeup, Sets, Closing, InputSets, Invocations, Close
<1> QED
  BY <1>2, <1>3, <1>4, <1>5 DEF IInv

\* ... every step keeps it, ...
LEMMA StepIInv == IInv /\ [Next]_vars => IInv'
<1> SUFFICES ASSUME IInv, [Next]_vars PROVE IInv'
  OBVIOUS
<1>1. TypeOK' /\ OneSchedulingThread' /\ Runners' /\ Prepared'
  BY TypesKept, SchedulerKept, RunnersKept, PreparedKept
<1>2. InFlightExact' /\ Allowances' /\ Wakeup' /\ Sets' /\ Closing'
  BY InFlightKept, AllowancesKept, WakeupKept, SetsKept, ClosingKept
<1> QED
  BY <1>1, <1>2 DEF IInv

\* ... and so it always holds.
LEMMA Invariance == Spec => []IInv
BY InitIInv, StepIInv, PTL DEF Spec

\* Every variable keeps its type in every behaviour.
THEOREM TypeCorrect == Spec => []TypeOK
<1>1. IInv => TypeOK
  BY DEF IInv
<1> QED
  BY Invariance, <1>1, PTL

(* CheckIfBecameReady and EndScheduling never let two threads into SchedulingLoop, and
   scheduling_state_ is kIdle exactly when none is there. *)
THEOREM SchedulingThreadIsAlone == Spec => []OneSchedulingThread
<1>1. IInv => OneSchedulingThread
  BY DEF IInv
<1> QED
  BY Invariance, <1>1, PTL

\* current_in_flight_ is exact and never above max_in_flight_.
THEOREM InFlightIsExact == Spec => []InFlightExact
<1>1. IInv => InFlightExact
  BY DEF IInv
<1> QED
  BY Invariance, <1>1, PTL

\* AddNode never fails for an invocation that ScheduleInvocations prepared.
THEOREM PreparedIsScheduled == Spec => []PreparedIsCommitted
<1>1. IInv => PreparedIsCommitted
  BY MaxInFlightAssumption DEF IInv, TypeOK, Allowances, PreparedIsCommitted
<1> QED
  BY Invariance, <1>1, PTL

(* However deliveries and the ends of invocations interleave with the scheduling loop,
   a node that could schedule something has a thread that will find out. *)
THEOREM NoWakeupIsLost == Spec => []NoLostWakeup
<1>1. IInv => NoLostWakeup
  BY DEF IInv, Wakeup, Leaving, Attended, NoLostWakeup
<1> QED
  BY Invariance, <1>1, PTL

(* CloseNode comes after all the input was processed and nothing comes after it, for
   any number of parallel invocations. *)
THEOREM CloseIsLast == Spec => []ClosesLast
<1>1. IInv => ClosesLast
  <2> SUFFICES ASSUME IInv PROVE ClosesLast
    OBVIOUS
  <2>1. place[Close] \in {"queued", "running"} \/ status_ = "Closed"
          => \A i \in 1 .. arrived : i \in completed
    BY DEF IInv, Closing, AllCompleted
  <2>2. ASSUME status_ = "Closed"
        PROVE  /\ At({"prepared", "queued"}) = {}
               /\ \A t \in Threads : pc[t] = "run" => \A i \in InputSets : ~Runs(t, i)
    <3>1. place[Close] \in {"running", "gone"}
      BY <2>2 DEF IInv, Closing
    <3>2. \A i \in InputSets : place[i] # "none" => i \in completed
      BY <2>1, <2>2, <3>1 DEF IInv, TypeOK, Sets, Closing, InputSets
    <3>3. \A i \in InputSets : place[i] \in {"none", "running", "gone"}
      BY <3>2 DEF IInv, Sets
    <3>4. \A i \in InputSets : place[i] = "running" => pc[runner[i]] = "end"
      BY <3>2 DEF IInv, Sets
    <3> QED
      BY <3>1, <3>3, <3>4 DEF At, Runs, Invocations
  <2> QED
    BY <2>1, <2>2 DEF ClosesLast
<1> QED
  BY Invariance, <1>1, PTL

(* For any threads, parallelism and input, scheduling is exact. *)
THEOREM SchedulingIsExact == Spec => []SchedulingExact
<1>1. OneSchedulingThread /\ InFlightExact /\ PreparedIsCommitted /\ ClosesLast
        => SchedulingExact
  BY DEF SchedulingExact
<1> QED
  BY SchedulingThreadIsAlone, InFlightIsExact, PreparedIsScheduled, CloseIsLast, <1>1, PTL
=============================================================================
