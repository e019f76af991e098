-------------------------- MODULE Throttling_proofs --------------------------
(***************************************************************************)
(* The safety invariants of Throttling hold for every graph, every limit   *)
(* of the queues and any number of packets.                                *)
(*                                                                         *)
(* The argument: a thread that changes whether a queue is full owes the    *)
(* callback for it, and owes no second one (OneCall, IdleCalls), so what   *)
(* was last reported is right but for callbacks under way.  The sets of    *)
(* full streams and the count change in the callback only.  A source that  *)
(* leaves SchedulingLoop unscheduled was throttled when it looked, or is   *)
(* about to be scheduled by the thread that unthrottled it (Looking).      *)
(***************************************************************************)
EXTENDS Throttling, FiniteSetTheorems, TLAPS

-----------------------------------------------------------------------------
(* The inductive invariant. *)

\* A thread schedules the sources of one callback before it makes another.
OneCall == \A t \in Threads : callback[t] # None => nodes_to_schedule[t] = {}

\* The thread in HandleIdle has no calls but those of UnthrottleSources.
IdleCalls ==
  /\ sends[Idle].to = {} /\ notify[Idle] = None /\ pops[Idle] = {}
  /\ \A n \in Nodes : scheduling[n] # Idle
  /\ pc[Idle] = "set" => CallsDone(Idle)

\* Who takes packets for an input set is alone with the queues of the node.
Popping ==
  \A t \in Threads : \A s \in pops[t] :
    /\ scheduling[Consumer[s]] = t /\ run[Consumer[s]] = "prepared"
    /\ queue_size[s] > 0

\* A source that is to be run again, or that has a reason not to be.
Attended(x) ==
  IsThrottled(x) \/ \E t \in Threads : x \in nodes_to_schedule[t]
Looking ==
  \A x \in Sources :
    loop[x] = "last" /\ run[x] = "none" /\ ~has_error_ => x \in pending \/ Attended(x)

IInv ==
  /\ TypeOK /\ BookkeepingExact /\ NothingMissed
  /\ OneCall /\ IdleCalls /\ Popping /\ Looking

-----------------------------------------------------------------------------
(* Which steps change what. *)

LEMMA Names ==
  /\ GraphInputs \subseteq Threads /\ Sources \subseteq Threads /\ Nodes \subseteq Threads
  /\ GraphInputs \subseteq Owners /\ Sources \subseteq Owners
  /\ Idle \in Threads /\ None \notin Threads /\ None \notin Streams /\ None \notin Nodes
  /\ Idle \notin GraphInputs /\ Idle \notin Sources /\ Idle \notin Nodes
  /\ \A x \in Sources : x \notin Nodes /\ x \notin GraphInputs /\ x \in Runners
  /\ \A n \in Nodes : n \in Runners /\ n \notin GraphInputs
  BY NamesAssumption DEF Threads, Owners, Runners

\* The steps that touch a queue or make or answer a callback.
StreamStep ==
  \E t \in Threads, s \in Streams :
    \/ PropagateUpdatesToMirrors(t, s)
    \/ PopFrom(t, s)
    \/ UpdateThrottledNodes(t, s)
    \/ t = Idle /\ SetMaxQueueSize(s)
SourceStep == \E t \in Threads, x \in Sources : ScheduleUnthrottledReadyNodes(t, x)
CallbackVars == <<streamVars, full_input_streams_, throttled_graph_input_stream_count_,
                  callback, nodes_to_schedule>>

\* All the other steps.
OtherIdle == HandleIdle \/ CollectFullStreams \/ DidUnthrottle \/ \E s \in Streams : ReadQueueSize(s)
OtherCall(t) ==
  \/ CheckIfBecameReady(t)
  \/ \E n \in Nodes : \/ ScheduleInvocation(t, n) \/ LeaveSchedulingLoop(t, n)
                      \/ PrepareInputSet(t, n) \/ PrepareForClose(t, n)
OtherApplication(g) ==
  \/ CheckThrottled(g) \/ WaitUntilGraphInputStreamUnthrottled(g) \/ AddPacket(g)
  \/ FinishAdd(g) \/ FinishClose(g) \/ AddPacketToInputStream(g) \/ CloseInputStream(g)
OtherWorker(x) == RunNextTask(x) \/ EndScheduling(x)

LEMMA Steps ==
  ASSUME [Next]_vars
  PROVE  \/ UNCHANGED vars
         \/ StreamStep \/ SourceStep \/ OtherIdle
         \/ \E t \in Threads : OtherCall(t)
         \/ \E g \in GraphInputs : OtherApplication(g)
         \/ \E x \in Runners : OtherWorker(x)
         \/ \E x \in Sources : LoopStep(x)
<1> DEFINE Goal ==
      \/ StreamStep \/ SourceStep \/ OtherIdle
      \/ \E t \in Threads : OtherCall(t)
      \/ \E g \in GraphInputs : OtherApplication(g)
      \/ \E x \in Runners : OtherWorker(x)
      \/ \E x \in Sources : LoopStep(x)
<1>1. ASSUME NEW t \in Threads, CallStep(t) PROVE Goal
  BY <1>1 DEF CallStep, StreamStep, SourceStep, OtherCall
<1>2. CASE IdleStep
  <2>1. Idle \in Threads
    BY DEF Threads
  <2> QED
    BY <1>1, <1>2, <2>1 DEF IdleStep, OtherIdle, StreamStep
<1>3. ASSUME NEW g \in GraphInputs, ApplicationStep(g) PROVE Goal
  <2>1. g \in Threads
    BY DEF Threads
  <2> QED
    BY <1>1, <1>3, <2>1 DEF ApplicationStep, OtherApplication
<1>4. ASSUME NEW x \in Runners, WorkerStep(x) PROVE Goal
  <2>1. x \in Threads
    BY DEF Threads, Runners
  <2> QED
    BY <1>1, <1>4, <2>1 DEF WorkerStep, OtherWorker
<1>5. CASE OtherStep
  BY <1>3, <1>4, <1>5 DEF OtherStep
<1>6. ASSUME NEW g \in GraphInputs, AddPacketToInputStream(g) \/ CloseInputStream(g) PROVE Goal
  BY <1>6 DEF OtherApplication
<1>7. ASSUME NEW t \in Threads, NEW n \in Nodes, PrepareInputSet(t, n) \/ PrepareForClose(t, n)
      PROVE  Goal
  BY <1>7 DEF OtherCall
<1> QED
  BY <1>2, <1>5, <1>6, <1>7 DEF Next

\* Queues, reports and callbacks are the business of the streams.
LEMMA OnlyStreamsReport ==
  ASSUME [Next]_vars
  PROVE  StreamStep \/ SourceStep \/ UNCHANGED CallbackVars
<1> USE DEF CallbackVars, throttleVars, callVars
<1>1. CASE UNCHANGED vars
  BY <1>1 DEF vars
<1>2. CASE OtherIdle
  BY <1>2 DEF OtherIdle, HandleIdle, CollectFullStreams, DidUnthrottle, ReadQueueSize
<1>3. ASSUME NEW t \in Threads, OtherCall(t) PROVE UNCHANGED CallbackVars
  BY <1>3 DEF OtherCall, CheckIfBecameReady, ScheduleInvocation, LeaveSchedulingLoop,
              PrepareInputSet, PrepareForClose
<1>4. ASSUME NEW g \in GraphInputs, OtherApplication(g) PROVE UNCHANGED CallbackVars
  BY <1>4 DEF OtherApplication, CheckThrottled, WaitUntilGraphInputStreamUnthrottled, AddPacket,
              FinishAdd, FinishClose, AddPacketToInputStream, CloseInputStream
<1>5. ASSUME NEW x \in Runners, OtherWorker(x) PROVE UNCHANGED CallbackVars
  BY <1>5 DEF OtherWorker, RunNextTask, EndScheduling
<1>6. ASSUME NEW x \in Sources, LoopStep(x) PROVE UNCHANGED CallbackVars
  BY <1>6 DEF LoopStep, IsNodeThrottled, ScheduleSource, SchedulingLoopTest
<1> QED
  BY <1>1, <1>2, <1>3, <1>4, <1>5, <1>6, Steps

-----------------------------------------------------------------------------
(* The reports. *)

\* A thread that makes a callback had none to make.
LEMMA FreeToCall ==
  ASSUME IdleCalls, NEW t \in Threads, NEW s \in Streams,
         \/ PropagateUpdatesToMirrors(t, s) \/ PopFrom(t, s)
         \/ t = Idle /\ SetMaxQueueSize(s)
  PROVE  callback[t] = None /\ nodes_to_schedule[t] = {}
  BY DEF PropagateUpdatesToMirrors, PopFrom, SetMaxQueueSize, CallsDone, IdleCalls

\* A queue that grows, shrinks or gets a new limit is full or not as before, or a
\* callback is owed for it.
LEMMA ChangesAreCalled ==
  ASSUME TypeOK, NEW t \in Threads, NEW s \in Streams,
         \/ PropagateUpdatesToMirrors(t, s) \/ PopFrom(t, s)
         \/ t = Idle /\ SetMaxQueueSize(s)
  PROVE  /\ \A u \in Streams \ {s} : IsFull(u)' = IsFull(u)
         /\ callback' = callback \/ callback' = [callback EXCEPT ![t] = s]
         /\ IsFull(s)' # IsFull(s) => callback' = [callback EXCEPT ![t] = s]
         /\ UNCHANGED <<last_reported_stream_full_, nodes_to_schedule>>
<1>0. queue_size \in [Streams -> Nat] /\ max_queue_size_ \in [Streams -> {-1} \cup (Nat \ {0})]
  BY DEF TypeOK
<1>1. CASE PropagateUpdatesToMirrors(t, s)
  <2>1. /\ queue_size' = queue_size \/ queue_size' = [queue_size EXCEPT ![s] = @ + 1]
        /\ max_queue_size_' = max_queue_size_
        /\ callback' = IF BecameFull(s) THEN [callback EXCEPT ![t] = s] ELSE callback
        /\ UNCHANGED <<last_reported_stream_full_, nodes_to_schedule>>
    BY <1>1 DEF PropagateUpdatesToMirrors, CallBackIf
  <2>2. \A u \in Streams \ {s} : IsFull(u)' = IsFull(u)
    BY <1>0, <2>1 DEF IsFull
  <2>3. IsFull(s) => IsFull(s)'
    BY <1>0, <2>1 DEF IsFull
  <2>4. IsFull(s)' # IsFull(s) => BecameFull(s)
    BY <2>3 DEF BecameFull, IsFull
  <2> QED
    BY <2>1, <2>2, <2>4
<1>2. CASE PopFrom(t, s)
  <2>1. /\ queue_size' = [queue_size EXCEPT ![s] = @ - 1]
        /\ max_queue_size_' = max_queue_size_
        /\ callback' = IF BecameNotFull(s) THEN [callback EXCEPT ![t] = s] ELSE callback
        /\ UNCHANGED <<last_reported_stream_full_, nodes_to_schedule>>
    BY <1>2 DEF PopFrom, CallBackIf
  <2>2. \A u \in Streams \ {s} : IsFull(u)' = IsFull(u)
    BY <1>0, <2>1 DEF IsFull
  <2>3. IsFull(s)' => IsFull(s)
    BY <1>0, <2>1 DEF IsFull
  <2>4. IsFull(s)' # IsFull(s) => BecameNotFull(s)
    BY <2>3 DEF BecameNotFull, IsFull
  <2> QED
    BY <2>1, <2>2, <2>4
<1>3. CASE t = Idle /\ SetMaxQueueSize(s)
  <2>1. /\ queue_size' = queue_size
        /\ max_queue_size_' = [max_queue_size_ EXCEPT ![s] = new_size[s]]
        /\ callback' = IF BecameFull(s) \/ BecameNotFull(s)
                       THEN [callback EXCEPT ![t] = s] ELSE callback
        /\ UNCHANGED <<last_reported_stream_full_, nodes_to_schedule>>
    BY <1>3 DEF SetMaxQueueSize, CallBackIf
  <2>2. \A u \in Streams \ {s} : IsFull(u)' = IsFull(u)
    BY <1>0, <2>1 DEF IsFull
  <2>3. IsFull(s)' # IsFull(s) => BecameFull(s) \/ BecameNotFull(s)
    BY DEF BecameFull, BecameNotFull, IsFull
  <2> QED
    BY <2>1, <2>2, <2>3
<1> QED
  BY <1>1, <1>2, <1>3

LEMMA ReportedKept ==
  ASSUME TypeOK, ReportedExact, IdleCalls, [Next]_vars
  PROVE  ReportedExact'
<1>0. callback \in [Threads -> Streams \cup {None}]
      /\ last_reported_stream_full_ \in [Streams -> BOOLEAN]
  BY DEF TypeOK
<1>1. ASSUME NEW t \in Threads, NEW s \in Streams,
             \/ PropagateUpdatesToMirrors(t, s) \/ PopFrom(t, s)
             \/ t = Idle /\ SetMaxQueueSize(s)
      PROVE  ReportedExact'
  <2>1. callback[t] = None
    BY <1>1, FreeToCall
  <2>2. /\ \A u \in Streams \ {s} : IsFull(u)' = IsFull(u)
        /\ callback' = callback \/ callback' = [callback EXCEPT ![t] = s]
        /\ IsFull(s)' # IsFull(s) => callback' = [callback EXCEPT ![t] = s]
        /\ last_reported_stream_full_' = last_reported_stream_full_
    BY <1>1, ChangesAreCalled
  <2>3. \A u \in Threads, v \in Streams : callback[u] = v => callback'[u] = v
    BY <1>0, <2>1, <2>2, Names
  <2>4. IsFull(s)' # IsFull(s) => callback'[t] = s
    BY <1>0, <2>2
  <2>5. ASSUME NEW v \in Streams, last_reported_stream_full_'[v] # IsFull(v)'
        PROVE  \E u \in Threads : callback'[u] = v
    <3>1. CASE v = s /\ IsFull(s)' # IsFull(s)
      BY <2>4, <3>1
    <3>2. CASE IsFull(v)' = IsFull(v)
      BY <2>2, <2>3, <2>5, <3>2 DEF ReportedExact
    <3> QED
      BY <2>2, <3>1, <3>2
  <2> QED
    BY <2>5 DEF ReportedExact
<1>2. ASSUME NEW t \in Threads, NEW s \in Streams, UpdateThrottledNodes(t, s)
      PROVE  ReportedExact'
  <2>1. /\ callback' = [callback EXCEPT ![t] = None] /\ callback[t] = s
        /\ last_reported_stream_full_' = [last_reported_stream_full_ EXCEPT ![s] = IsFull(s)]
        /\ UNCHANGED <<queue_size, max_queue_size_>>
    BY <1>2 DEF UpdateThrottledNodes
  <2>2. \A v \in Streams : IsFull(v)' = IsFull(v)
    BY <2>1 DEF IsFull
  <2>3. last_reported_stream_full_'[s] = IsFull(s)
    BY <1>0, <2>1
  <2>4. ASSUME NEW v \in Streams, v # s, last_reported_stream_full_'[v] # IsFull(v)'
        PROVE  \E u \in Threads : callback'[u] = v
    <3>1. last_reported_stream_full_[v] # IsFull(v)
      BY <1>0, <2>1, <2>2, <2>4
    <3>2. PICK u \in Threads : callback[u] = v
      BY <3>1 DEF ReportedExact
    <3> QED
      BY <1>0, <2>1, <2>4, <3>2
  <2> QED
    BY <2>2, <2>3, <2>4 DEF ReportedExact
<1>3. CASE SourceStep
  <2>1. UNCHANGED <<streamVars, callback>>
    BY <1>3 DEF SourceStep, ScheduleUnthrottledReadyNodes
  <2> QED
    BY <2>1 DEF ReportedExact, IsFull, streamVars
<1>4. CASE UNCHANGED CallbackVars
  BY <1>4 DEF CallbackVars, ReportedExact, IsFull, streamVars
<1> QED
  BY <1>1, <1>2, <1>3, <1>4, OnlyStreamsReport DEF StreamStep

LEMMA OneCallKept ==
  ASSUME TypeOK, OneCall, IdleCalls, [Next]_vars
  PROVE  OneCall'
<1>0. /\ callback \in [Threads -> Streams \cup {None}]
      /\ nodes_to_schedule \in [Threads -> SUBSET Sources]
  BY DEF TypeOK
<1>1. ASSUME NEW t \in Threads, NEW s \in Streams,
             \/ PropagateUpdatesToMirrors(t, s) \/ PopFrom(t, s)
             \/ t = Idle /\ SetMaxQueueSize(s)
      PROVE  OneCall'
  BY <1>0, <1>1, FreeToCall, ChangesAreCalled DEF OneCall
<1>2. ASSUME NEW t \in Threads, NEW s \in Streams, UpdateThrottledNodes(t, s)
      PROVE  OneCall'
  <2>1. /\ callback' = [callback EXCEPT ![t] = None]
        /\ \E S \in SUBSET Sources : nodes_to_schedule' = [nodes_to_schedule EXCEPT ![t] = S]
    BY <1>2 DEF UpdateThrottledNodes
  <2> QED
    BY <1>0, <2>1 DEF OneCall
<1>3. ASSUME NEW t \in Threads, NEW x \in Sources, ScheduleUnthrottledReadyNodes(t, x)
      PROVE  OneCall'
  BY <1>0, <1>3 DEF OneCall, ScheduleUnthrottledReadyNodes
<1>4. CASE UNCHANGED CallbackVars
  BY <1>4 DEF CallbackVars, OneCall
<1> QED
  BY <1>1, <1>2, <1>3, <1>4, OnlyStreamsReport DEF StreamStep, SourceStep

-----------------------------------------------------------------------------
(* The sets of full streams, and the count of throttled graph inputs. *)

ThrottledInputs == {g \in GraphInputs : IsThrottled(g)}

LEMMA FiniteInputs ==
  ASSUME NEW S, S \subseteq GraphInputs
  PROVE  IsFiniteSet(S) /\ Cardinality(S) \in Nat
  BY NamesAssumption, FS_Subset, FS_CardinalityType

LEMMA AddedCount ==
  ASSUME NEW S, NEW T, S \cup T \subseteq GraphInputs, S \cap T = {}
  PROVE  Cardinality(S \cup T) = Cardinality(S) + Cardinality(T)
<1>1. IsFiniteSet(S) /\ IsFiniteSet(T) /\ Cardinality(S) \in Nat /\ Cardinality(T) \in Nat
  BY FiniteInputs
<1>2. Cardinality(S \cup T) = Cardinality(S) + Cardinality(T) - Cardinality(S \cap T)
  BY <1>1, FS_Union
<1> QED
  BY <1>1, <1>2, FS_EmptySet

LEMMA UpdateKeepsExact ==
  ASSUME TypeOK, ThrottledExact, NEW t \in Threads, NEW s \in Streams, UpdateThrottledNodes(t, s)
  PROVE  ThrottledExact'
<1> DEFINE up == UpstreamNodes(s)
           changed == {x \in up : last_reported_stream_full_[s] # IsFull(s)}
           T == {x \in changed : Throttles(x)} \cap GraphInputs
           U == {x \in changed : Unthrottles(x)} \cap GraphInputs
           G == ThrottledInputs
           Records == \A x \in Owners : full_input_streams_'[x] =
                        {v \in Streams : last_reported_stream_full_'[v] /\ x \in UpstreamNodes(v)}
<1>0. /\ last_reported_stream_full_ \in [Streams -> BOOLEAN]
      /\ full_input_streams_ \in [Owners -> SUBSET Streams]
      /\ IsFull(s) \in BOOLEAN
      /\ GraphInputs \subseteq Owners
  BY Names DEF TypeOK, IsFull
<1>1. /\ full_input_streams_' =
           [x \in Owners |->
              IF x \notin changed THEN full_input_streams_[x]
              ELSE IF IsFull(s) THEN full_input_streams_[x] \cup {s}
              ELSE full_input_streams_[x] \ {s}]
      /\ last_reported_stream_full_' = [last_reported_stream_full_ EXCEPT ![s] = IsFull(s)]
      /\ throttled_graph_input_stream_count_' =
           throttled_graph_input_stream_count_ + Cardinality(T) - Cardinality(U)
  BY DEF UpdateThrottledNodes
<1>2. /\ \A x \in Owners : full_input_streams_[x] =
           {v \in Streams : last_reported_stream_full_[v] /\ x \in UpstreamNodes(v)}
      /\ throttled_graph_input_stream_count_ = Cardinality(G)
  BY DEF ThrottledExact, ThrottledInputs
<1> HIDE DEF T, U
<1>3. CASE last_reported_stream_full_[s] = IsFull(s)
  <2>1. full_input_streams_' = full_input_streams_ /\ last_reported_stream_full_' = last_reported_stream_full_
    BY <1>0, <1>1, <1>3
  <2>2. T = {} /\ U = {}
    BY <1>3 DEF T, U
  <2>3. throttled_graph_input_stream_count_' = throttled_graph_input_stream_count_
    BY <1>1, <1>2, <2>2, FS_EmptySet, FiniteInputs DEF ThrottledInputs
  <2> QED
    BY <2>1, <2>3 DEF ThrottledExact, IsThrottled
<1>4. CASE last_reported_stream_full_[s] # IsFull(s)
  <2> changed = up
    BY <1>4
  <2> HIDE DEF up, changed
  <2>1. Records
    <3> SUFFICES ASSUME NEW x \in Owners
                 PROVE  full_input_streams_'[x] =
                          {v \in Streams : last_reported_stream_full_'[v] /\ x \in UpstreamNodes(v)}
      OBVIOUS
    <3>1. CASE x \notin up
      BY <1>0, <1>1, <1>2, <3>1 DEF up
    <3>2. CASE x \in up /\ IsFull(s)
      BY <1>0, <1>1, <1>2, <3>2 DEF up
    <3>3. CASE x \in up /\ ~IsFull(s)
      BY <1>0, <1>1, <1>2, <3>3 DEF up
    <3> QED
      BY <3>1, <3>2, <3>3
  <2>2. G \subseteq GraphInputs /\ G' \subseteq GraphInputs /\ T \subseteq GraphInputs /\ U \subseteq GraphInputs
    BY DEF ThrottledInputs, T, U
  <2>0. /\ Cardinality(T) \in Nat /\ Cardinality(U) \in Nat /\ Cardinality({}) = 0
        /\ Cardinality(G) \in Nat /\ Cardinality(G') \in Nat
    BY <2>2, FiniteInputs, FS_EmptySet
  <2>3. ASSUME IsFull(s) PROVE throttled_graph_input_stream_count_' = Cardinality(G')
    <3>1. U = {}
      BY <1>0, <1>1, <2>3 DEF U, Unthrottles, IsThrottled
    <3>2. G' = G \cup T /\ G \cap T = {}
      BY <1>0, <1>1, <2>3 DEF T, Throttles, ThrottledInputs, IsThrottled
    <3>3. Cardinality(G') = Cardinality(G) + Cardinality(T)
      BY <2>2, <3>2, AddedCount
    <3> HIDE DEF G
    <3> QED
      BY <1>1, <1>2, <2>0, <3>1, <3>3
  <2>4. ASSUME ~IsFull(s) PROVE throttled_graph_input_stream_count_' = Cardinality(G')
    <3>0. \A x \in up \cap GraphInputs : s \in full_input_streams_[x]
      BY <1>0, <1>2, <1>4, <2>4 DEF up
    <3>1. T = {}
      BY <3>0 DEF T, Throttles, IsThrottled
    <3>2. G = G' \cup U /\ G' \cap U = {}
      <4>1. \A g \in GraphInputs : full_input_streams_'[g] \subseteq full_input_streams_[g]
        BY <1>0, <1>1, <2>4
      <4>2. G' \subseteq G
        BY <4>1 DEF ThrottledInputs, IsThrottled
      <4>3. U = G \ G'
        BY <1>0, <1>1, <2>4, <3>0 DEF U, Unthrottles, ThrottledInputs, IsThrottled
      <4> QED
        BY <4>2, <4>3
    <3>3. Cardinality(G) = Cardinality(G') + Cardinality(U)
      BY <2>2, <3>2, AddedCount
    <3> HIDE DEF G
    <3> QED
      BY <1>1, <1>2, <2>0, <3>1, <3>3
  <2>5. throttled_graph_input_stream_count_' = Cardinality(G')
    BY <2>3, <2>4
  <2> QED
    BY <2>1, <2>5 DEF ThrottledExact, ThrottledInputs
<1> QED
  BY <1>3, <1>4

LEMMA ThrottledKept ==
  ASSUME TypeOK, ThrottledExact, [Next]_vars
  PROVE  ThrottledExact'
<1> DEFINE Same == UNCHANGED <<last_reported_stream_full_, full_input_streams_,
                               throttled_graph_input_stream_count_>>
<1>1. Same => ThrottledExact'
  BY DEF ThrottledExact, IsThrottled
<1>2. SourceStep => Same
  BY DEF SourceStep, ScheduleUnthrottledReadyNodes, streamVars, throttleVars
<1>3. ASSUME NEW t \in Threads, NEW s \in Streams,
             \/ PropagateUpdatesToMirrors(t, s) \/ PopFrom(t, s)
             \/ t = Idle /\ SetMaxQueueSize(s)
      PROVE  Same
  BY <1>3 DEF PropagateUpdatesToMirrors, PopFrom, SetMaxQueueSize, throttleVars
<1>4. UNCHANGED CallbackVars => Same
  BY DEF CallbackVars, streamVars
<1> QED
  BY <1>1, <1>2, <1>3, <1>4, UpdateKeepsExact, OnlyStreamsReport DEF StreamStep

-----------------------------------------------------------------------------
(* The waiting threads. *)

\* Nobody else starts to wait, and nobody else touches what a waiting thread looks at.
WaitsAsBefore ==
  /\ UNCHANGED <<signalled, full_input_streams_>>
  /\ \A g \in GraphInputs : pc'[g] = "wait" => pc[g] = "wait"

LEMMA OthersDoNotWait ==
  ASSUME TypeOK, [Next]_vars
  PROVE  \/ WaitsAsBefore
         \/ \E t \in Threads, s \in Streams : UpdateThrottledNodes(t, s)
         \/ \E g \in GraphInputs :
              CheckThrottled(g) \/ WaitUntilGraphInputStreamUnthrottled(g)
<1>0. pc \in [GraphInputs \cup {Idle} -> CallPCs \cup IdlePCs]
  BY DEF TypeOK
<1> USE <1>0, Names DEF WaitsAsBefore, throttleVars, callVars
<1>1. CASE UNCHANGED vars
  BY <1>1 DEF vars
<1>2. CASE OtherIdle
  BY <1>2 DEF OtherIdle, HandleIdle, LoopOrLeave, LeaveHandleIdle, CollectFullStreams,
              DidUnthrottle, ReadQueueSize
<1>3. ASSUME NEW t \in Threads, NEW s \in Streams,
             \/ PropagateUpdatesToMirrors(t, s) \/ PopFrom(t, s)
             \/ t = Idle /\ SetMaxQueueSize(s)
      PROVE  WaitsAsBefore
  BY <1>3 DEF PropagateUpdatesToMirrors, PopFrom, SetMaxQueueSize
<1>4. CASE SourceStep
  BY <1>4 DEF SourceStep, ScheduleUnthrottledReadyNodes
<1>5. ASSUME NEW t \in Threads, OtherCall(t) PROVE WaitsAsBefore
  <2>1. ASSUME NEW n \in Nodes, LeaveSchedulingLoop(t, n) PROVE WaitsAsBefore
    BY <2>1 DEF LeaveSchedulingLoop, TaskEnds, EnterHandleIdle
  <2>2. CASE CheckIfBecameReady(t)
    BY <2>2 DEF CheckIfBecameReady
  <2>3. ASSUME NEW n \in Nodes,
               ScheduleInvocation(t, n) \/ PrepareInputSet(t, n) \/ PrepareForClose(t, n)
        PROVE  WaitsAsBefore
    BY <2>3 DEF ScheduleInvocation, PrepareInputSet, PrepareForClose
  <2> QED
    BY <1>5, <2>1, <2>2, <2>3 DEF OtherCall
<1>6. ASSUME NEW g \in GraphInputs,
             \/ AddPacket(g) \/ FinishAdd(g) \/ FinishClose(g)
             \/ AddPacketToInputStream(g) \/ CloseInputStream(g)
      PROVE  WaitsAsBefore
  <2>1. CASE AddPacket(g) \/ AddPacketToInputStream(g) \/ CloseInputStream(g)
    BY <2>1 DEF AddPacket, AddPacketToInputStream, CloseInputStream, Goto
  <2>2. CASE FinishAdd(g)
    BY <2>2 DEF FinishAdd, CallHandleIdle, Goto
  <2>3. CASE FinishClose(g)
    BY <2>3 DEF FinishClose
  <2> QED
    BY <1>6, <2>1, <2>2, <2>3
<1>7. ASSUME NEW x \in Runners, OtherWorker(x) PROVE WaitsAsBefore
  BY <1>7 DEF OtherWorker, RunNextTask, EndScheduling, TaskEnds, EnterHandleIdle
<1>8. ASSUME NEW x \in Sources, LoopStep(x) PROVE WaitsAsBefore
  BY <1>8 DEF LoopStep, IsNodeThrottled, ScheduleSource, SchedulingLoopTest, TaskEnds,
              EnterHandleIdle
<1> QED
  BY <1>1, <1>2, <1>3, <1>4, <1>5, <1>6, <1>7, <1>8, Steps DEF StreamStep, OtherApplication

\* Whom the callback unthrottles.
LEMMA Unthrottled ==
  ASSUME TypeOK, NEW t \in Threads, NEW s \in Streams, UpdateThrottledNodes(t, s),
         NEW x \in Owners, IsThrottled(x), ~IsThrottled(x)'
  PROVE  /\ x \in GraphInputs => signalled' = {g \in GraphInputs : pc[g] = "wait"}
         /\ x \in Sources /\ ~Closed(x) => x \in nodes_to_schedule'[t]
<1> DEFINE changed == {y \in UpstreamNodes(s) : last_reported_stream_full_[s] # IsFull(s)}
           unthrottled == {y \in changed : Unthrottles(y)}
<1>0. nodes_to_schedule \in [Threads -> SUBSET Sources]
  BY DEF TypeOK
<1>1. x \in changed
  BY DEF UpdateThrottledNodes, IsThrottled
<1>2. x \in unthrottled
  BY <1>1 DEF Unthrottles
<1>3. /\ signalled' = IF unthrottled \cap GraphInputs = {} THEN signalled
                      ELSE {g \in GraphInputs : pc[g] = "wait"}
      /\ nodes_to_schedule' =
           [nodes_to_schedule EXCEPT ![t] = {y \in unthrottled \cap Sources : ~Closed(y)}]
  BY DEF UpdateThrottledNodes
<1> HIDE DEF unthrottled
<1> QED
  BY <1>0, <1>2, <1>3

LEMMA NoMissedSignalKept ==
  ASSUME TypeOK, NoMissedSignal, [Next]_vars
  PROVE  NoMissedSignal'
<1>0. pc \in [GraphInputs \cup {Idle} -> CallPCs \cup IdlePCs]
  BY DEF TypeOK
<1>1. CASE WaitsAsBefore
  BY <1>1 DEF WaitsAsBefore, NoMissedSignal, IsThrottled
<1>2. ASSUME NEW t \in Threads, NEW s \in Streams, UpdateThrottledNodes(t, s)
      PROVE  NoMissedSignal'
  <2>1. /\ pc' = pc
        /\ signalled' = signalled \/ signalled' = {h \in GraphInputs : pc[h] = "wait"}
    BY <1>2 DEF UpdateThrottledNodes, graphVars
  <2>2. ASSUME NEW g \in GraphInputs, pc[g] = "wait", g \notin signalled' PROVE IsThrottled(g)'
    BY <1>2, <2>1, <2>2, Unthrottled, Names DEF NoMissedSignal
  <2> QED
    BY <2>1, <2>2 DEF NoMissedSignal
<1>3. ASSUME NEW g \in GraphInputs, CheckThrottled(g) PROVE NoMissedSignal'
  <2>1. /\ UNCHANGED <<signalled, full_input_streams_>>
        /\ \E label : pc' = [pc EXCEPT ![g] = label] /\ (label = "wait" => IsThrottled(g))
    BY <1>3 DEF CheckThrottled, Goto, throttleVars
  <2> QED
    BY <1>0, <2>1 DEF NoMissedSignal, IsThrottled
<1>4. ASSUME NEW g \in GraphInputs, WaitUntilGraphInputStreamUnthrottled(g)
      PROVE  NoMissedSignal'
  <2>1. /\ signalled' = signalled \ {g} /\ full_input_streams_' = full_input_streams_
        /\ pc' = [pc EXCEPT ![g] = "check"]
    BY <1>4 DEF WaitUntilGraphInputStreamUnthrottled, SignalsLeft, Goto
  <2> QED
    BY <1>0, <2>1 DEF NoMissedSignal, IsThrottled
<1> QED
  BY <1>1, <1>2, <1>3, <1>4, OthersDoNotWait

-----------------------------------------------------------------------------
(* The sources. *)

\* What NoStrandedSource and Looking say of one source.
Cared(x) ==
  run[x] = "none" /\ ~has_error_ =>
    /\ loop[x] = "none" => Attended(x)
    /\ loop[x] = "last" => x \in pending \/ Attended(x)

LEMMA CaredIs == NoStrandedSource /\ Looking <=> \A x \in Sources : Cared(x)
  BY DEF NoStrandedSource, Looking, Cared, Attended

SourceVars == <<run, loop, pending, has_error_, full_input_streams_, nodes_to_schedule>>

LEMMA SourcesKept ==
  ASSUME TypeOK, OneCall, NoStrandedSource, Looking, [Next]_vars
  PROVE  NoStrandedSource' /\ Looking'
<1>0. /\ run \in [Runners -> {"none", "prepared", "queued", "closing", "running", "closed"}]
      /\ loop \in [Sources -> {"none", "check", "add", "last"}] /\ pending \subseteq Sources
      /\ nodes_to_schedule \in [Threads -> SUBSET Sources]
      /\ full_input_streams_ \in [Owners -> SUBSET Streams]
  BY DEF TypeOK
<1>1. \A x \in Sources : Cared(x)
  BY CaredIs
<1> SUFFICES ASSUME NEW x \in Sources PROVE Cared(x)'
  BY DEF NoStrandedSource, Looking, Cared, Attended
<1> USE <1>0, Names
<1>2. Cared(x)
  BY <1>1
<1>3. CASE UNCHANGED SourceVars
  BY <1>2, <1>3 DEF SourceVars, Cared, Attended, IsThrottled
<1>4. ASSUME UNCHANGED <<full_input_streams_, nodes_to_schedule>> PROVE Attended(x) => Attended(x)'
  BY <1>4 DEF Attended, IsThrottled
<1>5. CASE StreamStep
  <2>1. ASSUME NEW t \in Threads, NEW s \in Streams, UpdateThrottledNodes(t, s)
        PROVE  Cared(x)'
    <3>1. UNCHANGED <<run, loop, pending, has_error_>>
      BY <2>1 DEF UpdateThrottledNodes, nodeVars, graphVars
    <3>2. nodes_to_schedule[t] = {}
      BY <2>1 DEF UpdateThrottledNodes, OneCall
    <3>3. \E S \in SUBSET Sources : nodes_to_schedule' = [nodes_to_schedule EXCEPT ![t] = S]
      BY <2>1 DEF UpdateThrottledNodes
    <3>4. \A u \in Threads : x \in nodes_to_schedule[u] => x \in nodes_to_schedule'[u]
      BY <3>2, <3>3
    <3>5. run[x] = "none" => ~Closed(x)
      BY DEF Closed
    <3>6. run[x] = "none" /\ IsThrottled(x) => Attended(x)'
      <4>1. CASE IsThrottled(x)'
        BY <4>1 DEF Attended
      <4>2. CASE ~IsThrottled(x)'
        BY <2>1, <3>5, <4>2, Unthrottled DEF Attended
      <4> QED
        BY <4>1, <4>2
    <3>7. run[x] = "none" /\ Attended(x) => Attended(x)'
      BY <3>4, <3>6 DEF Attended
    <3> QED
      BY <1>2, <3>1, <3>7 DEF Cared
  <2>2. ASSUME NEW t \in Threads, NEW s \in Streams,
               \/ PropagateUpdatesToMirrors(t, s) \/ PopFrom(t, s)
               \/ t = Idle /\ SetMaxQueueSize(s)
        PROVE  UNCHANGED SourceVars
    BY <2>2 DEF PropagateUpdatesToMirrors, PopFrom, SetMaxQueueSize, SourceVars, throttleVars,
                graphVars, nodeVars
  <2> QED
    BY <1>3, <1>5, <2>1, <2>2 DEF StreamStep
<1>6. ASSUME NEW t \in Threads, NEW y \in Sources, ScheduleUnthrottledReadyNodes(t, y)
      PROVE  Cared(x)'
  <2>1. /\ UNCHANGED <<loop, pending, has_error_, full_input_streams_>>
        /\ nodes_to_schedule' = [nodes_to_schedule EXCEPT ![t] = @ \ {y}]
        /\ run' = IF ~has_error_ /\ run[y] = "none" THEN [run EXCEPT ![y] = "queued"] ELSE run
    BY <1>6 DEF ScheduleUnthrottledReadyNodes, AddNode, graphVars, throttleVars
  <2>2. CASE x = y
    BY <2>1, <2>2 DEF Cared
  <2>3. CASE x # y
    <3>1. Attended(x) => Attended(x)'
      BY <2>1, <2>3 DEF Attended, IsThrottled
    <3> QED
      BY <1>2, <2>1, <2>3, <3>1 DEF Cared
  <2> QED
    BY <2>2, <2>3
<1>7. CASE OtherIdle
  BY <1>3, <1>7 DEF OtherIdle, HandleIdle, CollectFullStreams, DidUnthrottle, ReadQueueSize,
                    SourceVars, throttleVars, graphVars, nodeVars, callVars
<1>8. ASSUME NEW t \in Threads, OtherCall(t) PROVE Cared(x)'
  <2>1. /\ UNCHANGED <<loop, pending, has_error_, full_input_streams_, nodes_to_schedule>>
        /\ run' = run \/ \E n \in Nodes : \E v : run' = [run EXCEPT ![n] = v]
    BY <1>8 DEF OtherCall, CheckIfBecameReady, ScheduleInvocation, LeaveSchedulingLoop,
                PrepareInputSet, PrepareForClose, throttleVars, graphVars, callVars
  <2>2. run'[x] = run[x]
    BY <2>1
  <2> QED
    BY <1>2, <1>4, <2>1, <2>2 DEF Cared
<1>9. ASSUME NEW g \in GraphInputs, OtherApplication(g) PROVE Cared(x)'
  <2>1. /\ UNCHANGED <<run, loop, pending, full_input_streams_, nodes_to_schedule>>
        /\ has_error_' = has_error_ \/ has_error_' = TRUE
    BY <1>9 DEF OtherApplication, CheckThrottled, WaitUntilGraphInputStreamUnthrottled, AddPacket,
                FinishAdd, FinishClose, AddPacketToInputStream, CloseInputStream,
                throttleVars, graphVars, nodeVars, callVars
  <2> QED
    BY <1>2, <1>4, <2>1 DEF Cared
<1>10. ASSUME NEW y \in Runners, RunNextTask(y) PROVE Cared(x)'
  <2>1. /\ UNCHANGED <<loop, pending, full_input_streams_, nodes_to_schedule>>
        /\ has_error_' = has_error_ \/ has_error_' = TRUE
        /\ run' = [run EXCEPT ![y] = "running"]
    BY <1>10 DEF RunNextTask, throttleVars
  <2> QED
    BY <1>2, <1>4, <2>1 DEF Cared
<1>11. ASSUME NEW y \in Runners, EndScheduling(y) PROVE Cared(x)'
  <2> DEFINE closes == sends[y].kind = "done"
  <2>1. /\ UNCHANGED <<has_error_, full_input_streams_, nodes_to_schedule>>
        /\ run' = [run EXCEPT ![y] = IF closes THEN "closed" ELSE "none"]
    BY <1>11 DEF EndScheduling, throttleVars, graphVars
  <2>2. CASE x # y
    <3>1. /\ run'[x] = run[x]
          /\ loop'[x] = loop[x] /\ (x \in pending => x \in pending')
      BY <1>11, <2>1, <2>2 DEF EndScheduling
    <3> QED
      BY <1>2, <1>4, <2>1, <3>1 DEF Cared
  <2>3. CASE x = y /\ closes
    BY <2>1, <2>3 DEF Cared
  <2>4. CASE x = y /\ ~closes /\ loop[x] # "none"
    <3>1. loop' = loop /\ pending' = pending \cup {x}
      BY <1>11, <2>4 DEF EndScheduling
    <3> QED
      BY <2>4, <3>1 DEF Cared
  <2>5. CASE x = y /\ ~closes /\ loop[x] = "none"
    <3>1. loop' = [loop EXCEPT ![x] = "check"]
      BY <1>11, <2>5 DEF EndScheduling
    <3> QED
      BY <3>1 DEF Cared
  <2> QED
    BY <2>2, <2>3, <2>4, <2>5
<1>12. ASSUME NEW y \in Sources, LoopStep(y) PROVE Cared(x)'
  <2>1. UNCHANGED <<has_error_, full_input_streams_, nodes_to_schedule>>
    BY <1>12 DEF LoopStep, IsNodeThrottled, ScheduleSource, SchedulingLoopTest, throttleVars,
                 graphVars, callVars
  <2>2. CASE IsNodeThrottled(y)
    <3>1. /\ UNCHANGED <<run, pending>>
          /\ loop' = [loop EXCEPT ![y] = IF IsThrottled(y) THEN "last" ELSE "add"]
      BY <2>2 DEF IsNodeThrottled
    <3>2. CASE x = y /\ IsThrottled(x)
      BY <1>4, <2>1, <3>1, <3>2 DEF Cared, Attended
    <3>3. CASE x = y /\ ~IsThrottled(x)
      BY <3>1, <3>3 DEF Cared
    <3>4. CASE x # y
      BY <1>2, <1>4, <2>1, <3>1, <3>4 DEF Cared
    <3> QED
      BY <3>2, <3>3, <3>4
  <2>3. CASE ScheduleSource(y)
    <3>1. /\ pending' = pending /\ loop' = [loop EXCEPT ![y] = "last"]
          /\ run' = IF ~has_error_ /\ run[y] = "none" THEN [run EXCEPT ![y] = "queued"] ELSE run
      BY <2>3 DEF ScheduleSource, AddNode
    <3>2. CASE x = y
      BY <2>1, <3>1, <3>2 DEF Cared
    <3>3. CASE x # y
      BY <1>2, <1>4, <2>1, <3>1, <3>3 DEF Cared
    <3> QED
      BY <3>2, <3>3
  <2>4. CASE SchedulingLoopTest(y)
    <3>1. /\ run' = run /\ pending' = pending \ {y} /\ loop[y] = "last"
          /\ loop' = [loop EXCEPT ![y] = IF Again(y) THEN "check" ELSE "none"]
      BY <2>4 DEF SchedulingLoopTest
    <3>2. CASE x = y
      BY <1>2, <1>4, <2>1, <3>1, <3>2 DEF Cared, Again
    <3>3. CASE x # y
      BY <1>2, <1>4, <2>1, <3>1, <3>3 DEF Cared
    <3> QED
      BY <3>2, <3>3
  <2> QED
    BY <1>12, <2>2, <2>3, <2>4 DEF LoopStep
<1>13. UNCHANGED vars => UNCHANGED SourceVars
  BY DEF vars, SourceVars, throttleVars, graphVars, nodeVars, callVars
<1> QED
  BY <1>3, <1>5, <1>6, <1>7, <1>8, <1>9, <1>10, <1>11, <1>12, <1>13, Steps
  DEF SourceStep, OtherWorker

-----------------------------------------------------------------------------
(* The calls of the threads. *)

LEMMA IdleCallsKept ==
  ASSUME TypeOK, IdleCalls, [Next]_vars
  PROVE  IdleCalls'
<1> DEFINE
      \* What the calls of HandleIdle are, while others make theirs.
      Quiet == /\ sends'[Idle] = sends[Idle] /\ notify'[Idle] = notify[Idle]
               /\ pops'[Idle] = pops[Idle]
               /\ \A n \in Nodes : scheduling'[n] = Idle => scheduling[n] = Idle
      Still == /\ pc'[Idle] = "set" => pc[Idle] = "set"
               /\ pc[Idle] = "set" => /\ callback'[Idle] = callback[Idle]
                                      /\ nodes_to_schedule'[Idle] = nodes_to_schedule[Idle]
<1>0. /\ pc \in [GraphInputs \cup {Idle} -> CallPCs \cup IdlePCs]
      /\ scheduling \in [Nodes -> Threads \cup {None}]
      /\ sends \in [Threads -> [kind : {"packet", "bound", "done"}, to : SUBSET Streams]]
      /\ notify \in [Threads -> Nodes \cup {None}]
      /\ pops \in [Threads -> SUBSET Streams]
      /\ callback \in [Threads -> Streams \cup {None}]
      /\ nodes_to_schedule \in [Threads -> SUBSET Sources]
  BY DEF TypeOK
<1> USE <1>0, Names
<1>1. Quiet /\ Still => IdleCalls'
  BY DEF IdleCalls, CallsDone
<1>2. CASE UNCHANGED vars
  BY <1>1, <1>2 DEF vars, callVars, nodeVars
<1>3. CASE OtherIdle
  <2>1. CASE HandleIdle \/ CollectFullStreams \/ DidUnthrottle
    <3>1. UNCHANGED <<callVars, nodeVars>> /\ pc'[Idle] # "set"
      BY <2>1 DEF HandleIdle, LoopOrLeave, LeaveHandleIdle, CollectFullStreams, DidUnthrottle
    <3> QED
      BY <1>1, <3>1 DEF callVars, nodeVars
  <2>2. ASSUME NEW s \in Streams, ReadQueueSize(s) PROVE IdleCalls'
    <3>1. UNCHANGED <<callVars, nodeVars>> /\ CallsDone(Idle)
      BY <2>2 DEF ReadQueueSize
    <3> QED
      BY <3>1 DEF IdleCalls, CallsDone, callVars, nodeVars
  <2> QED
    BY <1>3, <2>1, <2>2 DEF OtherIdle
<1>4. CASE StreamStep
  <2>1. ASSUME NEW t \in Threads, NEW s \in Streams, PropagateUpdatesToMirrors(t, s)
        PROVE  IdleCalls'
    <3>1. t # Idle
      BY <2>1 DEF PropagateUpdatesToMirrors, IdleCalls
    <3>2. Quiet /\ Still
      BY <2>1, <3>1 DEF PropagateUpdatesToMirrors, CallBackIf, nodeVars
    <3> QED
      BY <1>1, <3>2
  <2>2. ASSUME NEW t \in Threads, NEW s \in Streams, PopFrom(t, s) PROVE IdleCalls'
    <3>1. t # Idle
      BY <2>2 DEF PopFrom, IdleCalls
    <3>2. Quiet /\ Still
      BY <2>2, <3>1 DEF PopFrom, CallBackIf, nodeVars
    <3> QED
      BY <1>1, <3>2
  <2>3. ASSUME NEW t \in Threads, NEW s \in Streams, UpdateThrottledNodes(t, s)
        PROVE  IdleCalls'
    <3>1. /\ Quiet /\ pc' = pc /\ callback[t] = s
          /\ callback' = [callback EXCEPT ![t] = None]
          /\ \E S : nodes_to_schedule' = [nodes_to_schedule EXCEPT ![t] = S]
      BY <2>3 DEF UpdateThrottledNodes, nodeVars
    <3>2. pc[Idle] = "set" => t # Idle
      BY <3>1 DEF IdleCalls, CallsDone
    <3> QED
      BY <1>1, <3>1, <3>2
  <2>4. ASSUME NEW s \in Streams, SetMaxQueueSize(s) PROVE IdleCalls'
    <3>1. pc'[Idle] # "set" /\ UNCHANGED <<sends, notify, pops, nodeVars>>
      BY <2>4 DEF SetMaxQueueSize
    <3> QED
      BY <3>1 DEF IdleCalls, nodeVars
  <2> QED
    BY <1>4, <2>1, <2>2, <2>3, <2>4 DEF StreamStep
<1>5. ASSUME NEW t \in Threads, NEW x \in Sources, ScheduleUnthrottledReadyNodes(t, x)
      PROVE  IdleCalls'
  <2>1. /\ UNCHANGED <<pc, scheduling, sends, notify, pops, callback>>
        /\ x \in nodes_to_schedule[t]
        /\ nodes_to_schedule' = [nodes_to_schedule EXCEPT ![t] = @ \ {x}]
    BY <1>5 DEF ScheduleUnthrottledReadyNodes
  <2> QED
    BY <2>1 DEF IdleCalls, CallsDone
<1>6. ASSUME NEW t \in Threads, OtherCall(t) PROVE IdleCalls'
  <2>0. UNCHANGED <<sends, callback, nodes_to_schedule>>
    BY <1>6 DEF OtherCall, CheckIfBecameReady, ScheduleInvocation, LeaveSchedulingLoop,
                PrepareInputSet, PrepareForClose, callVars
  <2>1. CASE CheckIfBecameReady(t)
    <3>1. t # Idle
      BY <2>1 DEF CheckIfBecameReady, IdleCalls
    <3> QED
      BY <1>1, <2>0, <2>1, <3>1 DEF CheckIfBecameReady
  <2>2. ASSUME NEW n \in Nodes, PrepareInputSet(t, n) PROVE IdleCalls'
    <3>1. t # Idle
      BY <2>2 DEF PrepareInputSet, IdleCalls
    <3>2. /\ UNCHANGED <<pc, notify, scheduling>>
          /\ \E S : pops' = [pops EXCEPT ![t] = S]
      BY <2>2 DEF PrepareInputSet
    <3> QED
      BY <1>1, <2>0, <3>1, <3>2
  <2>3. ASSUME NEW n \in Nodes, LeaveSchedulingLoop(t, n) PROVE IdleCalls'
    <3>1. UNCHANGED <<notify, pops>> /\ scheduling' = [scheduling EXCEPT ![n] = None]
      BY <2>3 DEF LeaveSchedulingLoop, callVars
    <3>2. pc'[Idle] = "set" => pc[Idle] = "set"
      BY <2>3 DEF LeaveSchedulingLoop, TaskEnds, EnterHandleIdle
    <3> QED
      BY <1>1, <2>0, <3>1, <3>2
  <2>4. ASSUME NEW n \in Nodes, ScheduleInvocation(t, n) \/ PrepareForClose(t, n)
        PROVE  IdleCalls'
    BY <1>1, <2>0, <2>4 DEF ScheduleInvocation, PrepareForClose, callVars
  <2> QED
    BY <1>6, <2>1, <2>2, <2>3, <2>4 DEF OtherCall
<1>7. ASSUME NEW g \in GraphInputs, OtherApplication(g) PROVE IdleCalls'
  <2>1. /\ UNCHANGED <<notify, pops, scheduling, callback, nodes_to_schedule>>
        /\ sends' = sends \/ \E v : sends' = [sends EXCEPT ![g] = v]
    BY <1>7 DEF OtherApplication, CheckThrottled, WaitUntilGraphInputStreamUnthrottled, AddPacket,
                FinishAdd, FinishClose, AddPacketToInputStream, CloseInputStream, callVars, nodeVars
  <2>2. CASE FinishAdd(g) \/ FinishClose(g)
    BY <1>1, <2>1, <2>2 DEF FinishAdd, FinishClose, CallHandleIdle, Goto
  <2>3. CASE ~(FinishAdd(g) \/ FinishClose(g))
    <3>1. \E label : pc' = [pc EXCEPT ![g] = label]
      BY <1>7, <2>3 DEF OtherApplication, CheckThrottled, WaitUntilGraphInputStreamUnthrottled,
                        AddPacket, AddPacketToInputStream, CloseInputStream, Goto
    <3> QED
      BY <1>1, <2>1, <3>1
  <2> QED
    BY <2>2, <2>3
<1>8. ASSUME NEW x \in Runners, OtherWorker(x) PROVE IdleCalls'
  <2>0. x # Idle /\ x \in Threads
    BY DEF Runners, Threads
  <2>1. /\ UNCHANGED <<notify, pops, callback, nodes_to_schedule>>
        /\ sends' = sends \/ \E v : sends' = [sends EXCEPT ![x] = v]
    BY <1>8 DEF OtherWorker, RunNextTask, EndScheduling
  <2>2. scheduling' = scheduling \/ (x \in Nodes /\ scheduling' = [scheduling EXCEPT ![x] = x])
    BY <1>8 DEF OtherWorker, RunNextTask, EndScheduling
  <2>3. pc'[Idle] = "set" => pc[Idle] = "set"
    BY <1>8 DEF OtherWorker, RunNextTask, EndScheduling, TaskEnds, EnterHandleIdle
  <2> QED
    BY <1>1, <2>0, <2>1, <2>2, <2>3
<1>9. ASSUME NEW x \in Sources, LoopStep(x) PROVE IdleCalls'
  <2>1. UNCHANGED <<callVars, scheduling>>
    BY <1>9 DEF LoopStep, IsNodeThrottled, ScheduleSource, SchedulingLoopTest
  <2>2. pc'[Idle] = "set" => pc[Idle] = "set"
    BY <1>9 DEF LoopStep, IsNodeThrottled, ScheduleSource, SchedulingLoopTest, TaskEnds,
                EnterHandleIdle
  <2> QED
    BY <1>1, <2>1, <2>2 DEF callVars
<1> QED
  BY <1>2, <1>3, <1>4, <1>5, <1>6, <1>7, <1>8, <1>9, Steps DEF SourceStep

LEMMA PoppingKept ==
  ASSUME TypeOK, Popping, [Next]_vars
  PROVE  Popping'
<1>0. /\ queue_size \in [Streams -> Nat]
      /\ run \in [Runners -> {"none", "prepared", "queued", "closing", "running", "closed"}]
      /\ scheduling \in [Nodes -> Threads \cup {None}]
      /\ pops \in [Threads -> SUBSET Streams]
      /\ Consumer \in [Streams -> Nodes]
  BY ConsumerAssumption DEF TypeOK
<1> USE <1>0, Names
<1>2. CASE UNCHANGED <<queue_size, pops, run, scheduling>>
  BY <1>2 DEF Popping
<1>3. ASSUME NEW t \in Threads, NEW s \in Streams, PropagateUpdatesToMirrors(t, s)
      PROVE  Popping'
  <2>1. /\ queue_size' = queue_size \/ queue_size' = [queue_size EXCEPT ![s] = @ + 1]
        /\ UNCHANGED <<pops, run, scheduling>>
    BY <1>3 DEF PropagateUpdatesToMirrors, nodeVars
  <2>2. queue_size' \in [Streams -> Nat] /\ \A u \in Streams : queue_size'[u] >= queue_size[u]
    BY <2>1
  <2> QED
    BY <2>1, <2>2 DEF Popping
<1>4. ASSUME NEW t \in Threads, NEW s \in Streams, PopFrom(t, s)
      PROVE  Popping'
  <2>1. /\ queue_size' = [queue_size EXCEPT ![s] = @ - 1] /\ s \in pops[t]
        /\ pops' = [pops EXCEPT ![t] = @ \ {s}]
        /\ UNCHANGED <<run, scheduling>>
    BY <1>4 DEF PopFrom, nodeVars
  <2>2. ASSUME NEW u \in Threads, NEW v \in pops'[u] PROVE v \in pops[u] /\ v # s
    <3>1. v \in pops[u]
      BY <2>1, <2>2
    <3>2. v = s => u = t
      BY <2>1, <3>1 DEF Popping
    <3> QED
      BY <2>1, <2>2, <3>1, <3>2
  <2> QED
    BY <2>1, <2>2 DEF Popping
<1>5. ASSUME NEW t \in Threads, NEW s \in Streams,
             UpdateThrottledNodes(t, s) \/ (t = Idle /\ SetMaxQueueSize(s))
      PROVE  Popping'
  BY <1>2, <1>5 DEF UpdateThrottledNodes, SetMaxQueueSize, nodeVars
<1>6. ASSUME NEW x \in Sources,
             (\E t \in Threads : ScheduleUnthrottledReadyNodes(t, x)) \/ LoopStep(x)
      PROVE  Popping'
  <2>1. /\ UNCHANGED <<queue_size, pops, scheduling>>
        /\ run' = run \/ \E v : run' = [run EXCEPT ![x] = v]
    BY <1>6 DEF ScheduleUnthrottledReadyNodes, LoopStep, IsNodeThrottled, ScheduleSource,
                SchedulingLoopTest, AddNode, streamVars, callVars
  <2>2. \A n \in Nodes : run'[n] = run[n]
    BY <2>1
  <2> QED
    BY <2>1, <2>2 DEF Popping
<1>7. CASE OtherIdle
  BY <1>2, <1>7 DEF OtherIdle, HandleIdle, CollectFullStreams, DidUnthrottle, ReadQueueSize,
                    streamVars, nodeVars, callVars
<1>8. ASSUME NEW t \in Threads, CheckIfBecameReady(t) PROVE Popping'
  <2>1. /\ UNCHANGED <<queue_size, pops, run>>
        /\ scheduling' = scheduling
             \/ \E n \in Nodes : scheduling[n] = None /\ scheduling' = [scheduling EXCEPT ![n] = t]
    BY <1>8 DEF CheckIfBecameReady, streamVars, TypeOK
  <2>2. \A n \in Nodes : scheduling[n] # None => scheduling'[n] = scheduling[n]
    BY <2>1
  <2> QED
    BY <2>1, <2>2 DEF Popping
<1>9. ASSUME NEW t \in Threads, NEW n \in Nodes, PrepareInputSet(t, n) PROVE Popping'
  <2>1. PICK S \in SUBSET {s \in Inputs(n) : queue_size[s] > 0} : pops' = [pops EXCEPT ![t] = S]
    BY <1>9 DEF PrepareInputSet
  <2>2. /\ UNCHANGED <<queue_size, scheduling>> /\ scheduling[n] = t
        /\ run' = [run EXCEPT ![n] = "prepared"] /\ pops[t] = {}
    BY <1>9 DEF PrepareInputSet, CallsDone, streamVars
  <2>3. ASSUME NEW u \in Threads, NEW s \in pops'[u]
        PROVE  /\ scheduling[Consumer[s]] = u /\ run'[Consumer[s]] = "prepared"
               /\ queue_size[s] > 0
    <3>1. CASE u = t
      BY <2>1, <2>2, <2>3, <3>1 DEF Inputs
    <3>2. CASE u # t
      BY <2>1, <2>2, <2>3, <3>2 DEF Popping
    <3> QED
      BY <3>1, <3>2
  <2> QED
    BY <2>2, <2>3 DEF Popping
<1>10. ASSUME NEW t \in Threads, NEW n \in Nodes,
              \/ ScheduleInvocation(t, n) \/ LeaveSchedulingLoop(t, n) \/ PrepareForClose(t, n)
       PROVE  Popping'
  <2>1. /\ UNCHANGED <<queue_size, pops>> /\ CallsDone(t) /\ scheduling[n] = t
        /\ run' = run \/ \E v : run' = [run EXCEPT ![n] = v]
        /\ scheduling' = scheduling \/ scheduling' = [scheduling EXCEPT ![n] = None]
    BY <1>10 DEF ScheduleInvocation, LeaveSchedulingLoop, PrepareForClose, streamVars, callVars
  <2>2. ASSUME NEW u \in Threads, NEW s \in pops[u] PROVE Consumer[s] # n
    BY <2>1, <2>2 DEF Popping, CallsDone
  <2> QED
    BY <2>1, <2>2 DEF Popping
<1>11. ASSUME NEW g \in GraphInputs, OtherApplication(g) PROVE Popping'
  BY <1>2, <1>11 DEF OtherApplication, CheckThrottled, WaitUntilGraphInputStreamUnthrottled,
                     AddPacket, FinishAdd, FinishClose, AddPacketToInputStream, CloseInputStream,
                     streamVars, nodeVars, callVars
<1>12. ASSUME NEW x \in Runners, OtherWorker(x) PROVE Popping'
  <2>1. /\ UNCHANGED <<queue_size, pops>> /\ run[x] # "prepared"
        /\ \E v : run' = [run EXCEPT ![x] = v]
        /\ \/ scheduling' = scheduling
           \/ x \in Nodes /\ scheduling[x] = None /\ scheduling' = [scheduling EXCEPT ![x] = x]
    BY <1>12 DEF OtherWorker, RunNextTask, EndScheduling, streamVars
  <2>2. \A n \in Nodes : scheduling[n] # None => scheduling'[n] = scheduling[n]
    BY <2>1
  <2>3. \A n \in Nodes : run[n] = "prepared" => run'[n] = "prepared"
    BY <2>1
  <2> QED
    BY <2>1, <2>2, <2>3 DEF Popping
<1>13. UNCHANGED vars => UNCHANGED <<queue_size, pops, run, scheduling>>
  BY DEF vars, streamVars, nodeVars, callVars
<1> QED
  BY <1>2, <1>3, <1>4, <1>5, <1>6, <1>7, <1>8, <1>9, <1>10, <1>11, <1>12, <1>13, Steps
  DEF StreamStep, SourceStep, OtherCall

-----------------------------------------------------------------------------
(* The types, in three parts. *)

StreamTypes ==
  /\ queue_size \in [Streams -> Nat]
  /\ max_queue_size_ \in [Streams -> {-1} \cup (Nat \ {0})]
  /\ last_reported_stream_full_ \in [Streams -> BOOLEAN]
  /\ full_input_streams_ \in [Owners -> SUBSET Streams]
  /\ callback \in [Threads -> Streams \cup {None}]
  /\ nodes_to_schedule \in [Threads -> SUBSET Sources]
  /\ pops \in [Threads -> SUBSET Streams]
NodeTypes ==
  /\ run \in [Runners -> {"none", "prepared", "queued", "closing", "running", "closed"}]
  /\ loop \in [Sources -> {"none", "check", "add", "last"}] /\ pending \subseteq Sources
  /\ scheduling \in [Nodes -> Threads \cup {None}]
  /\ sends \in [Threads -> [kind : {"packet", "bound", "done"}, to : SUBSET Streams]]
  /\ \A t \in Threads : sends[t].to \subseteq Outputs(t)
  /\ notify \in [Threads -> Nodes \cup {None}]
  /\ budget \in [Owners -> Nat]
  /\ has_error_ \in BOOLEAN
CallTypes ==
  /\ signalled \subseteq {g \in GraphInputs : pc[g] = "wait"}
  /\ graph_input_stream_add_mode_ \in {"WAIT_TILL_NOT_FULL", "ADD_IF_NOT_FULL"}
  /\ terminated \in BOOLEAN
  /\ pc \in [GraphInputs \cup {Idle} -> CallPCs \cup IdlePCs]
  /\ pc[Idle] \in IdlePCs /\ \A g \in GraphInputs : pc[g] \in CallPCs
  /\ handling_idle_ \in 0 .. 2 /\ full_streams \subseteq Streams
  /\ new_size \in [Streams -> Nat]
CountTyped == throttled_graph_input_stream_count_ \in 0 .. Cardinality(GraphInputs)

LEMMA TypeParts == TypeOK <=> StreamTypes /\ NodeTypes /\ CallTypes /\ CountTyped
  BY DEF TypeOK, StreamTypes, NodeTypes, CallTypes, CountTyped

LEMMA StreamTypesKept ==
  ASSUME TypeOK, Popping, [Next]_vars
  PROVE  StreamTypes'
<1>0. StreamTypes /\ new_size \in [Streams -> Nat]
  BY DEF TypeOK, StreamTypes
<1> USE <1>0, Names DEF StreamTypes
<1>1. ASSUME NEW t \in Threads, NEW s \in Streams, PropagateUpdatesToMirrors(t, s)
      PROVE  StreamTypes'
  BY <1>1 DEF PropagateUpdatesToMirrors, CallBackIf, throttleVars
<1>2. ASSUME NEW t \in Threads, NEW s \in Streams, PopFrom(t, s)
      PROVE  StreamTypes'
  <2>1. queue_size[s] > 0
    BY <1>2 DEF PopFrom, Popping
  <2>2. queue_size' \in [Streams -> Nat] /\ pops' \in [Threads -> SUBSET Streams]
    BY <1>2, <2>1 DEF PopFrom
  <2> QED
    BY <1>2, <2>2 DEF PopFrom, CallBackIf, throttleVars
<1>3. ASSUME NEW t \in Threads, NEW s \in Streams, UpdateThrottledNodes(t, s)
      PROVE  StreamTypes'
  <2>1. full_input_streams_' \in [Owners -> SUBSET Streams]
    BY <1>3 DEF UpdateThrottledNodes
  <2>2. IsFull(s) \in BOOLEAN
    BY DEF IsFull
  <2>3. last_reported_stream_full_' \in [Streams -> BOOLEAN]
    BY <1>3, <2>2 DEF UpdateThrottledNodes
  <2>4. nodes_to_schedule' \in [Threads -> SUBSET Sources]
    BY <1>3 DEF UpdateThrottledNodes
  <2> QED
    BY <1>3, <2>1, <2>3, <2>4 DEF UpdateThrottledNodes
<1>4. ASSUME NEW s \in Streams, SetMaxQueueSize(s) PROVE StreamTypes'
  <2>1. max_queue_size_' \in [Streams -> {-1} \cup (Nat \ {0})]
    BY <1>4 DEF SetMaxQueueSize
  <2> QED
    BY <1>4, <2>1 DEF SetMaxQueueSize, CallBackIf, throttleVars
<1>5. CASE SourceStep
  BY <1>5 DEF SourceStep, ScheduleUnthrottledReadyNodes, streamVars, throttleVars
<1>6. ASSUME UNCHANGED CallbackVars, pops' \in [Threads -> SUBSET Streams] PROVE StreamTypes'
  BY <1>6 DEF CallbackVars, streamVars
<1>7. pops' \in [Threads -> SUBSET Streams]
  <2>1. CASE StreamStep \/ SourceStep
    BY <1>1, <1>2, <1>3, <1>4, <1>5, <2>1 DEF StreamStep
  <2>2. ASSUME NEW t \in Threads, NEW n \in Nodes, PrepareInputSet(t, n)
        PROVE  pops' \in [Threads -> SUBSET Streams]
    BY <2>2 DEF PrepareInputSet, Inputs
  <2>3. ASSUME NEW t \in Threads, OtherCall(t), ~\E n \in Nodes : PrepareInputSet(t, n)
        PROVE  pops' = pops
    BY <2>3 DEF OtherCall, CheckIfBecameReady, ScheduleInvocation, LeaveSchedulingLoop,
                PrepareForClose, callVars
  <2>4. OtherIdle => pops' = pops
    BY DEF OtherIdle, HandleIdle, CollectFullStreams, DidUnthrottle, ReadQueueSize, callVars
  <2>5. ASSUME NEW g \in GraphInputs, OtherApplication(g) PROVE pops' = pops
    BY <2>5 DEF OtherApplication, CheckThrottled, WaitUntilGraphInputStreamUnthrottled,
                AddPacket, FinishAdd, FinishClose, AddPacketToInputStream, CloseInputStream, callVars
  <2>6. ASSUME NEW x \in Runners, OtherWorker(x) PROVE pops' = pops
    BY <2>6 DEF OtherWorker, RunNextTask, EndScheduling
  <2>7. ASSUME NEW x \in Sources, LoopStep(x) PROVE pops' = pops
    BY <2>7 DEF LoopStep, IsNodeThrottled, ScheduleSource, SchedulingLoopTest, callVars
  <2>8. UNCHANGED vars => pops' = pops
    BY DEF vars, callVars
  <2> QED
    BY <2>1, <2>2, <2>3, <2>4, <2>5, <2>6, <2>7, <2>8, Steps
<1> QED
  BY <1>1, <1>2, <1>3, <1>4, <1>5, <1>6, <1>7, OnlyStreamsReport DEF StreamStep

\* A thread gives itself something else to send to its own streams.
LEMMA SendsTyped ==
  ASSUME TypeOK, NEW t \in Threads,
         NEW v \in [kind : {"packet", "bound", "done"}, to : SUBSET Streams],
         v.to \subseteq Outputs(t), sends' = [sends EXCEPT ![t] = v]
  PROVE  /\ sends' \in [Threads -> [kind : {"packet", "bound", "done"}, to : SUBSET Streams]]
         /\ \A u \in Threads : sends'[u].to \subseteq Outputs(u)
  BY DEF TypeOK

LEMMA NodeTypesKept ==
  ASSUME TypeOK, [Next]_vars
  PROVE  NodeTypes'
<1>0. NodeTypes /\ pops \in [Threads -> SUBSET Streams]
  BY DEF TypeOK, NodeTypes
<1>00. Consumer \in [Streams -> Nodes] /\ \A x : Outputs(x) \subseteq Streams
  BY ConsumerAssumption DEF Outputs
<1> USE <1>0, <1>00, Names DEF NodeTypes
<1>1. ASSUME NEW t \in Threads, NEW s \in Streams, PropagateUpdatesToMirrors(t, s)
      PROVE  NodeTypes'
  <2>1. /\ sends' = [sends EXCEPT ![t].to = @ \ {s}]
        /\ notify' = notify \/ notify' = [notify EXCEPT ![t] = Consumer[s]]
        /\ UNCHANGED <<run, loop, pending, scheduling, budget, has_error_>>
    BY <1>1 DEF PropagateUpdatesToMirrors, nodeVars, graphVars
  <2>2. /\ sends' \in [Threads -> [kind : {"packet", "bound", "done"}, to : SUBSET Streams]]
        /\ \A u \in Threads : sends'[u].to \subseteq sends[u].to
    BY <2>1
  <2> QED
    BY <2>1, <2>2
<1>2. ASSUME NEW t \in Threads, NEW s \in Streams,
             PopFrom(t, s) \/ UpdateThrottledNodes(t, s) \/ (t = Idle /\ SetMaxQueueSize(s))
      PROVE  NodeTypes'
  BY <1>2 DEF PopFrom, UpdateThrottledNodes, SetMaxQueueSize, nodeVars, graphVars
<1>3. ASSUME NEW t \in Threads, NEW x \in Sources, ScheduleUnthrottledReadyNodes(t, x)
      PROVE  NodeTypes'
  BY <1>3 DEF ScheduleUnthrottledReadyNodes, AddNode, graphVars
<1>4. CASE OtherIdle
  BY <1>4 DEF OtherIdle, HandleIdle, CollectFullStreams, DidUnthrottle, ReadQueueSize, nodeVars,
              graphVars, callVars
<1>5. ASSUME NEW t \in Threads, OtherCall(t) PROVE NodeTypes'
  <2>1. CASE CheckIfBecameReady(t)
    BY <2>1 DEF CheckIfBecameReady, graphVars
  <2>2. ASSUME NEW n \in Nodes,
               \/ ScheduleInvocation(t, n) \/ LeaveSchedulingLoop(t, n)
               \/ PrepareInputSet(t, n) \/ PrepareForClose(t, n)
        PROVE  NodeTypes'
    BY <2>2 DEF ScheduleInvocation, LeaveSchedulingLoop, PrepareInputSet, PrepareForClose,
                graphVars, callVars
  <2> QED
    BY <1>5, <2>1, <2>2 DEF OtherCall
<1>6. ASSUME NEW x \in Threads, NEW kind \in {"packet", "bound", "done"}
      PROVE  /\ SendAll(x, kind) \in [kind : {"packet", "bound", "done"}, to : SUBSET Streams]
             /\ SendAll(x, kind).to = Outputs(x)
             /\ NoSends \in [kind : {"packet", "bound", "done"}, to : SUBSET Streams]
             /\ NoSends.to = {}
  BY DEF SendAll, NoSends
<1>7. ASSUME NEW g \in GraphInputs, OtherApplication(g) PROVE NodeTypes'
  <2>1. /\ UNCHANGED <<nodeVars, notify>>
        /\ has_error_' = has_error_ \/ has_error_' = TRUE
        /\ budget' = budget \/ (budget[g] > 0 /\ budget' = [budget EXCEPT ![g] = @ - 1])
    BY <1>7 DEF OtherApplication, CheckThrottled, WaitUntilGraphInputStreamUnthrottled,
                AddPacket, FinishAdd, FinishClose, AddPacketToInputStream, CloseInputStream,
                graphVars, callVars
  <2>2. \/ sends' = sends \/ sends' = [sends EXCEPT ![g] = NoSends]
        \/ \E kind \in {"packet", "bound", "done"} : sends' = [sends EXCEPT ![g] = SendAll(g, kind)]
    BY <1>7 DEF OtherApplication, CheckThrottled, WaitUntilGraphInputStreamUnthrottled,
                AddPacket, FinishAdd, FinishClose, AddPacketToInputStream, CloseInputStream,
                callVars
  <2>3. /\ sends' \in [Threads -> [kind : {"packet", "bound", "done"}, to : SUBSET Streams]]
        /\ \A t \in Threads : sends'[t].to \subseteq Outputs(t)
    <3>1. CASE sends' = sends
      BY <3>1
    <3>2. CASE sends' = [sends EXCEPT ![g] = NoSends]
      <4>1. /\ NoSends \in [kind : {"packet", "bound", "done"}, to : SUBSET Streams]
            /\ NoSends.to \subseteq Outputs(g)
        BY DEF NoSends
      <4> QED
        BY <3>2, <4>1, SendsTyped
    <3>3. ASSUME NEW kind \in {"packet", "bound", "done"}, sends' = [sends EXCEPT ![g] = SendAll(g, kind)]
          PROVE  /\ sends' \in [Threads -> [kind : {"packet", "bound", "done"}, to : SUBSET Streams]]
                 /\ \A t \in Threads : sends'[t].to \subseteq Outputs(t)
      BY <1>6, <3>3, SendsTyped
    <3> QED
      BY <2>2, <3>1, <3>2, <3>3
  <2>4. budget' \in [Owners -> Nat]
    BY <2>1
  <2> QED
    BY <2>1, <2>3, <2>4 DEF nodeVars
<1>8. ASSUME NEW x \in Runners, OtherWorker(x) PROVE NodeTypes'
  <2>0. x \in Threads /\ (x \in Sources \/ x \in Nodes)
    BY DEF Runners, Threads
  <2>a. notify' = notify /\ loop' \in [Sources -> {"none", "check", "add", "last"}]
    BY <1>8 DEF OtherWorker, RunNextTask, EndScheduling, graphVars
  <2>b. pending' \subseteq Sources
    BY <1>8 DEF OtherWorker, RunNextTask, EndScheduling, graphVars
  <2>c. has_error_' \in {has_error_, TRUE}
    BY <1>8 DEF OtherWorker, RunNextTask, EndScheduling, graphVars
  <2>1. /\ notify' = notify /\ loop' \in [Sources -> {"none", "check", "add", "last"}]
        /\ pending' \subseteq Sources
        /\ has_error_' \in BOOLEAN
    BY <2>a, <2>b, <2>c, has_error_ \in BOOLEAN
  <2>2. scheduling' \in [Nodes -> Threads \cup {None}]
    BY <1>8, <2>0 DEF OtherWorker, RunNextTask, EndScheduling
  <2>3. run' \in [Runners -> {"none", "prepared", "queued", "closing", "running", "closed"}]
    BY <1>8 DEF OtherWorker, RunNextTask, EndScheduling
  <2>4. budget' = budget \/ (x \in Sources /\ budget[x] > 0 /\ budget' = [budget EXCEPT ![x] = @ - 1])
    BY <1>8 DEF OtherWorker, RunNextTask, EndScheduling, graphVars
  <2>5. budget' \in [Owners -> Nat]
    BY <2>4
  <2>6. \/ sends' = sends \/ sends' = [sends EXCEPT ![x] = NoSends]
        \/ \E kind \in {"packet", "bound", "done"} : sends' = [sends EXCEPT ![x] = SendAll(x, kind)]
    BY <1>8 DEF OtherWorker, RunNextTask, EndScheduling
  <2>7. /\ sends' \in [Threads -> [kind : {"packet", "bound", "done"}, to : SUBSET Streams]]
        /\ \A t \in Threads : sends'[t].to \subseteq Outputs(t)
    <3>1. CASE sends' = sends
      BY <3>1
    <3>2. CASE sends' = [sends EXCEPT ![x] = NoSends]
      <4>1. /\ NoSends \in [kind : {"packet", "bound", "done"}, to : SUBSET Streams]
            /\ NoSends.to \subseteq Outputs(x)
        BY DEF NoSends
      <4> QED
        BY <2>0, <3>2, <4>1, SendsTyped
    <3>3. ASSUME NEW kind \in {"packet", "bound", "done"}, sends' = [sends EXCEPT ![x] = SendAll(x, kind)]
          PROVE  /\ sends' \in [Threads -> [kind : {"packet", "bound", "done"}, to : SUBSET Streams]]
                 /\ \A t \in Threads : sends'[t].to \subseteq Outputs(t)
      BY <2>0, <1>6, <3>3, SendsTyped
    <3> QED
      BY <2>6, <3>1, <3>2, <3>3
  <2> QED
    BY <2>1, <2>2, <2>3, <2>5, <2>7
<1>9. ASSUME NEW x \in Sources, LoopStep(x) PROVE NodeTypes'
  BY ZenonT(30), <1>9 DEF LoopStep, IsNodeThrottled, ScheduleSource, SchedulingLoopTest, AddNode, graphVars,
              callVars
<1>10. CASE UNCHANGED vars
  BY <1>10 DEF vars, nodeVars, graphVars, callVars
<1> QED
  BY <1>1, <1>2, <1>3, <1>4, <1>5, <1>7, <1>8, <1>9, <1>10, Steps DEF StreamStep, SourceStep

\* What CallTypes says, apart from pc.
LocalTypes ==
  /\ signalled \subseteq {g \in GraphInputs : pc[g] = "wait"}
  /\ graph_input_stream_add_mode_ \in {"WAIT_TILL_NOT_FULL", "ADD_IF_NOT_FULL"}
  /\ terminated \in BOOLEAN
  /\ handling_idle_ \in 0 .. 2 /\ full_streams \subseteq Streams
  /\ new_size \in [Streams -> Nat]
PcTypes ==
  /\ pc \in [GraphInputs \cup {Idle} -> CallPCs \cup IdlePCs]
  /\ pc[Idle] \in IdlePCs /\ \A g \in GraphInputs : pc[g] \in CallPCs

LEMMA TaskEndsTyped ==
  ASSUME PcTypes, handling_idle_ \in 0 .. 2, TaskEnds
  PROVE  /\ PcTypes' /\ handling_idle_' \in 0 .. 2
         /\ \A g \in GraphInputs : pc'[g] = pc[g]
  BY Names DEF TaskEnds, EnterHandleIdle, PcTypes, CallPCs, IdlePCs

LEMMA CallTypesKept ==
  ASSUME TypeOK, [Next]_vars
  PROVE  CallTypes'
<1>0. /\ LocalTypes /\ PcTypes
      /\ queue_size \in [Streams -> Nat] /\ full_input_streams_ \in [Owners -> SUBSET Streams]
  BY DEF TypeOK, LocalTypes, PcTypes
<1> SUFFICES LocalTypes' /\ PcTypes'
  BY DEF CallTypes, LocalTypes, PcTypes
<1> DEFINE Goal == LocalTypes' /\ PcTypes'
<1> USE <1>0, Names DEF LocalTypes
<1>1. ASSUME UNCHANGED <<signalled, graph_input_stream_add_mode_, terminated, idleVars, pc>>
      PROVE  Goal
  BY <1>1 DEF PcTypes, idleVars
<1>2. CASE UNCHANGED vars
  BY <1>1, <1>2 DEF vars, throttleVars, graphVars
<1>3. CASE StreamStep
  <2>1. ASSUME NEW t \in Threads, NEW s \in Streams,
               PropagateUpdatesToMirrors(t, s) \/ PopFrom(t, s)
        PROVE  Goal
    BY <1>1, <2>1 DEF PropagateUpdatesToMirrors, PopFrom, throttleVars, graphVars
  <2>2. ASSUME NEW t \in Threads, NEW s \in Streams, UpdateThrottledNodes(t, s)
        PROVE  Goal
    <3>1. /\ UNCHANGED <<graphVars, pc, idleVars>>
          /\ signalled' = signalled \/ signalled' = {g \in GraphInputs : pc[g] = "wait"}
      BY <2>2 DEF UpdateThrottledNodes
    <3> QED
      BY <3>1 DEF PcTypes, graphVars, idleVars
  <2>3. ASSUME NEW s \in Streams, SetMaxQueueSize(s) PROVE Goal
    <3>1. /\ UNCHANGED <<throttleVars, graphVars, handling_idle_>>
          /\ full_streams' = full_streams \ {s} /\ new_size' = [new_size EXCEPT ![s] = 0]
          /\ pc' = [pc EXCEPT ![Idle] = "read"]
      BY <2>3 DEF SetMaxQueueSize
    <3>2. PcTypes'
      BY <3>1 DEF PcTypes, IdlePCs
    <3> QED
      BY <3>1, <3>2 DEF PcTypes, throttleVars, graphVars
  <2> QED
    BY <1>3, <2>1, <2>2, <2>3 DEF StreamStep
<1>4. CASE SourceStep
  BY <1>1, <1>4 DEF SourceStep, ScheduleUnthrottledReadyNodes, throttleVars, graphVars
<1>5. CASE OtherIdle
  <2>0. /\ UNCHANGED <<signalled, graph_input_stream_add_mode_>>
        /\ terminated' = terminated \/ terminated' = TRUE
    BY <1>5 DEF OtherIdle, HandleIdle, CollectFullStreams, DidUnthrottle, ReadQueueSize,
                throttleVars, graphVars
  <2>1. CASE HandleIdle
    <3>1. /\ UNCHANGED <<full_streams, new_size>>
          /\ \/ pc' = [pc EXCEPT ![Idle] = "collect"] /\ handling_idle_' = handling_idle_
             \/ LeaveHandleIdle \/ LoopOrLeave
      BY <2>1 DEF HandleIdle
    <3>2. /\ PcTypes' /\ handling_idle_' \in 0 .. 2
          /\ \A g \in GraphInputs : pc[g] = "wait" => pc'[g] = "wait"
      BY <3>1 DEF LoopOrLeave, LeaveHandleIdle, PcTypes, CallPCs, IdlePCs
    <3> QED
      BY <2>0, <3>1, <3>2
  <2>2. CASE CollectFullStreams
    <3>1. /\ new_size' = new_size /\ full_streams' \subseteq Streams
          /\ \/ pc' = [pc EXCEPT ![Idle] = "read"] /\ handling_idle_' = handling_idle_
             \/ LoopOrLeave
      BY <2>2 DEF CollectFullStreams
    <3>2. /\ PcTypes' /\ handling_idle_' \in 0 .. 2
          /\ \A g \in GraphInputs : pc[g] = "wait" => pc'[g] = "wait"
      BY <3>1 DEF LoopOrLeave, LeaveHandleIdle, PcTypes, CallPCs, IdlePCs
    <3> QED
      BY <2>0, <3>1, <3>2
  <2>3. CASE DidUnthrottle
    <3>1. pc' = [pc EXCEPT ![Idle] = "look"] /\ UNCHANGED idleVars
      BY <2>3 DEF DidUnthrottle
    <3>2. PcTypes' /\ \A g \in GraphInputs : pc[g] = "wait" => pc'[g] = "wait"
      BY <3>1 DEF PcTypes, CallPCs, IdlePCs
    <3> QED
      BY <2>0, <3>1, <3>2 DEF idleVars
  <2>4. ASSUME NEW s \in Streams, ReadQueueSize(s) PROVE Goal
    <3>1. /\ pc' = [pc EXCEPT ![Idle] = "set"] /\ UNCHANGED <<handling_idle_, full_streams>>
          /\ new_size' = [new_size EXCEPT ![s] = queue_size[s] + 1]
      BY <2>4 DEF ReadQueueSize
    <3>2. PcTypes' /\ \A g \in GraphInputs : pc[g] = "wait" => pc'[g] = "wait"
      BY <3>1 DEF PcTypes, CallPCs, IdlePCs
    <3>3. new_size' \in [Streams -> Nat]
      BY <3>1
    <3> QED
      BY <2>0, <3>1, <3>2, <3>3
  <2> QED
    BY <1>5, <2>1, <2>2, <2>3, <2>4 DEF OtherIdle
<1>6. ASSUME NEW t \in Threads, OtherCall(t) PROVE Goal
  <2>1. ASSUME NEW n \in Nodes, LeaveSchedulingLoop(t, n) PROVE Goal
    <3>1. /\ UNCHANGED <<throttleVars, graphVars, full_streams, new_size>>
          /\ TaskEnds \/ UNCHANGED <<handling_idle_, pc>>
      BY <2>1 DEF LeaveSchedulingLoop
    <3>2. CASE TaskEnds
      BY <3>1, <3>2, TaskEndsTyped DEF throttleVars, graphVars
    <3>3. CASE UNCHANGED <<handling_idle_, pc>>
      BY <1>1, <3>1, <3>3 DEF throttleVars, graphVars, idleVars
    <3> QED
      BY <3>1, <3>2, <3>3
  <2>2. CASE CheckIfBecameReady(t)
    BY <1>1, <2>2 DEF CheckIfBecameReady, throttleVars, graphVars
  <2>3. ASSUME NEW n \in Nodes,
               ScheduleInvocation(t, n) \/ PrepareInputSet(t, n) \/ PrepareForClose(t, n)
        PROVE  Goal
    BY <1>1, <2>3 DEF ScheduleInvocation, PrepareInputSet, PrepareForClose, throttleVars, graphVars
  <2> QED
    BY <1>6, <2>1, <2>2, <2>3 DEF OtherCall
<1>7. ASSUME NEW g \in GraphInputs, OtherApplication(g) PROVE Goal
  <2>0. /\ UNCHANGED <<graph_input_stream_add_mode_, terminated, full_streams, new_size>>
        /\ signalled' = signalled \/ signalled' = signalled \ {g}
    BY <1>7 DEF OtherApplication, CheckThrottled, WaitUntilGraphInputStreamUnthrottled, AddPacket,
                FinishAdd, FinishClose, AddPacketToInputStream, CloseInputStream, SignalsLeft,
                throttleVars, graphVars, idleVars
  <2>1. CASE CheckThrottled(g) \/ AddPacket(g) \/ AddPacketToInputStream(g) \/ CloseInputStream(g)
    <3>1. /\ handling_idle_' = handling_idle_ /\ signalled' = signalled /\ pc[g] # "wait"
          /\ \E label \in CallPCs : pc' = [pc EXCEPT ![g] = label]
      BY <2>1 DEF CheckThrottled, AddPacket, AddPacketToInputStream, CloseInputStream, Goto,
                  idleVars, throttleVars, CallPCs
    <3>2. PcTypes' /\ \A h \in GraphInputs : pc[h] = "wait" => pc'[h] = "wait"
      BY <3>1 DEF PcTypes
    <3> QED
      BY <2>0, <3>1, <3>2
  <2>2. CASE WaitUntilGraphInputStreamUnthrottled(g)
    <3>1. /\ handling_idle_' = handling_idle_ /\ signalled' = signalled \ {g}
          /\ pc' = [pc EXCEPT ![g] = "check"]
      BY <2>2 DEF WaitUntilGraphInputStreamUnthrottled, SignalsLeft, Goto, idleVars
    <3>2. PcTypes' /\ \A h \in GraphInputs \ {g} : pc[h] = "wait" => pc'[h] = "wait"
      BY <3>1 DEF PcTypes, CallPCs
    <3> QED
      BY <2>0, <3>1, <3>2
  <2>3. CASE FinishAdd(g)
    <3>1. /\ signalled' = signalled /\ pc[g] = "propagate"
          /\ \/ pc' = [pc EXCEPT ![g] = "none"] /\ handling_idle_' \in {handling_idle_, 2}
             \/ pc' = [pc EXCEPT ![Idle] = "look", ![g] = "in_idle"] /\ handling_idle_' = 1
      BY <2>3 DEF FinishAdd, CallHandleIdle, Goto, throttleVars
    <3>2. PcTypes' /\ \A h \in GraphInputs : pc[h] = "wait" => pc'[h] = "wait"
      BY <3>1 DEF PcTypes, CallPCs, IdlePCs
    <3> QED
      BY <2>0, <3>1, <3>2
  <2>4. CASE FinishClose(g)
    <3>1. /\ signalled' = signalled /\ pc[g] = "propagate"
          /\ \/ pc' = [pc EXCEPT ![g] = "closed"] /\ handling_idle_' \in {handling_idle_, 2}
             \/ pc' = [[pc EXCEPT ![g] = "closed"] EXCEPT ![Idle] = "look"] /\ handling_idle_' = 1
      BY <2>4 DEF FinishClose, throttleVars
    <3>2. PcTypes' /\ \A h \in GraphInputs : pc[h] = "wait" => pc'[h] = "wait"
      BY <3>1 DEF PcTypes, CallPCs, IdlePCs
    <3> QED
      BY <2>0, <3>1, <3>2
  <2> QED
    BY <1>7, <2>1, <2>2, <2>3, <2>4 DEF OtherApplication
<1>8. ASSUME NEW x \in Runners, OtherWorker(x) PROVE Goal
  <2>1. CASE RunNextTask(x)
    BY <1>1, <2>1 DEF RunNextTask, throttleVars, graphVars
  <2>2. CASE EndScheduling(x)
    <3>1. UNCHANGED <<throttleVars, graphVars, full_streams, new_size>> /\ TaskEnds
      BY <2>2 DEF EndScheduling
    <3> QED
      BY <3>1, TaskEndsTyped DEF throttleVars, graphVars
  <2> QED
    BY <1>8, <2>1, <2>2 DEF OtherWorker
<1>9. ASSUME NEW x \in Sources, LoopStep(x) PROVE Goal
  <2>1. CASE IsNodeThrottled(x) \/ ScheduleSource(x)
    BY <1>1, <2>1 DEF IsNodeThrottled, ScheduleSource, throttleVars, graphVars
  <2>2. CASE SchedulingLoopTest(x)
    <3>1. UNCHANGED <<throttleVars, graphVars, full_streams, new_size>> /\ TaskEnds
      BY <2>2 DEF SchedulingLoopTest
    <3> QED
      BY <3>1, TaskEndsTyped DEF throttleVars, graphVars
  <2> QED
    BY <1>9, <2>1, <2>2 DEF LoopStep
<1> QED
  BY <1>2, <1>3, <1>4, <1>5, <1>6, <1>7, <1>8, <1>9, Steps

\* The count is the cardinality of a set of graph inputs.
LEMMA CountIsTyped == ThrottledExact => CountTyped
<1> SUFFICES ASSUME ThrottledExact PROVE CountTyped
  OBVIOUS
<1>1. throttled_graph_input_stream_count_ = Cardinality(ThrottledInputs)
  BY DEF ThrottledExact, ThrottledInputs
<1>2. ThrottledInputs \subseteq GraphInputs /\ IsFiniteSet(GraphInputs)
  BY NamesAssumption DEF ThrottledInputs
<1>3. Cardinality(ThrottledInputs) \in Nat /\ Cardinality(ThrottledInputs) <= Cardinality(GraphInputs)
  BY <1>2, FiniteInputs, FS_Subset
<1>4. Cardinality(GraphInputs) \in Nat
  BY FiniteInputs
<1> QED
  BY <1>1, <1>3, <1>4 DEF CountTyped

-----------------------------------------------------------------------------
(* The invariant. *)

LEMMA InitEstablishes == Init => IInv
<1> SUFFICES ASSUME Init PROVE IInv
  OBVIOUS
<1> USE DEF Init
<1>1. PICK r \in Runs : /\ budget = r.packets /\ max_queue_size_ = r.limits
                        /\ graph_input_stream_add_mode_ = r.add_mode
  OBVIOUS
<1>2. /\ budget \in [Owners -> Nat]
      /\ max_queue_size_ \in [Streams -> {-1} \cup (Nat \ {0})]
      /\ graph_input_stream_add_mode_ \in {"WAIT_TILL_NOT_FULL", "ADD_IF_NOT_FULL"}
  BY <1>1, RunsAssumption DEF Owners
<1>3. StreamTypes
  BY <1>2, Names DEF StreamTypes
<1>4. NodeTypes
  <2>1. run \in [Runners -> {"none", "prepared", "queued", "closing", "running", "closed"}]
    OBVIOUS
  <2>2. /\ sends \in [Threads -> [kind : {"packet", "bound", "done"}, to : SUBSET Streams]]
        /\ \A t \in Threads : sends[t].to \subseteq Outputs(t)
    BY DEF NoSends
  <2> QED
    BY <1>2, <2>1, <2>2, Names DEF NodeTypes
<1>5. CallTypes
  <2>1. pc[Idle] = "none" /\ \A g \in GraphInputs : pc[g] \in {"none", "closed"}
    BY Names
  <2>2. pc \in [GraphInputs \cup {Idle} -> CallPCs \cup IdlePCs]
    BY DEF CallPCs, IdlePCs
  <2>3. pc[Idle] \in IdlePCs /\ \A g \in GraphInputs : pc[g] \in CallPCs
    BY <2>1 DEF CallPCs, IdlePCs
  <2>4. /\ signalled = {} /\ terminated = FALSE
        /\ handling_idle_ = 0 /\ full_streams = {} /\ new_size \in [Streams -> Nat]
    OBVIOUS
  <2> HIDE DEF Init
  <2>5. graph_input_stream_add_mode_ \in {"WAIT_TILL_NOT_FULL", "ADD_IF_NOT_FULL"}
    BY <1>2
  <2>6. signalled \subseteq {g \in GraphInputs : pc[g] = "wait"} /\ full_streams \subseteq Streams
    BY <2>4
  <2>7. handling_idle_ \in 0 .. 2
    BY <2>4
  <2>8. terminated \in BOOLEAN
    BY <2>4
  <2> QED
    BY <2>2, <2>3, <2>4, <2>5, <2>6, <2>7, <2>8 DEF CallTypes
<1>6. ReportedExact
  <2>1. ASSUME NEW s \in Streams PROVE IsFull(s) = last_reported_stream_full_[s]
    <3>1. queue_size[s] = 0 /\ last_reported_stream_full_[s] = FALSE
      OBVIOUS
    <3>2. max_queue_size_[s] \in {-1} \cup (Nat \ {0})
      BY <1>2
    <3> HIDE DEF Init
    <3>3. ~IsFull(s) /\ IsFull(s) \in BOOLEAN
      BY <3>1, <3>2 DEF IsFull
    <3> QED
      BY <3>1, <3>3
  <2> QED
    BY <2>1 DEF ReportedExact
<1>7. ThrottledExact
  <2>1. {g \in GraphInputs : IsThrottled(g)} = {}
    BY Names DEF IsThrottled
  <2> QED
    BY <2>1, FS_EmptySet DEF ThrottledExact
<1>8. NoMissedSignal /\ NoStrandedSource /\ Looking
  <2>1. \A g \in GraphInputs : pc[g] # "wait"
    BY Names
  <2>2. \A x \in Sources : run[x] # "none"
    BY Names
  <2> QED
    BY <2>1, <2>2 DEF NoMissedSignal, NoStrandedSource, Looking
<1>9. OneCall /\ IdleCalls /\ Popping
  BY Names DEF OneCall, IdleCalls, Popping, NoSends, CallsDone
<1> QED
  BY <1>3, <1>4, <1>5, <1>6, <1>7, <1>8, <1>9, CountIsTyped, TypeParts
  DEF IInv, BookkeepingExact, NothingMissed

LEMMA InvarianceStep == IInv /\ [Next]_vars => IInv'
<1> SUFFICES ASSUME IInv, [Next]_vars PROVE IInv'
  OBVIOUS
<1> USE DEF IInv, BookkeepingExact, NothingMissed
<1>1. ReportedExact' /\ ThrottledExact' /\ NoMissedSignal' /\ NoStrandedSource' /\ Looking'
  BY ReportedKept, ThrottledKept, NoMissedSignalKept, SourcesKept
<1>2. OneCall' /\ IdleCalls' /\ Popping'
  BY OneCallKept, IdleCallsKept, PoppingKept
<1>3. StreamTypes' /\ NodeTypes' /\ CallTypes'
  BY StreamTypesKept, NodeTypesKept, CallTypesKept
<1>4. ThrottledExact' => CountTyped'
  BY CountIsTyped, PTL
<1>5. TypeOK'
  BY <1>1, <1>3, <1>4 DEF TypeOK, StreamTypes, NodeTypes, CallTypes, CountTyped
<1> QED
  BY <1>1, <1>2, <1>5

LEMMA Invariance == Spec => []IInv
  BY InitEstablishes, InvarianceStep, PTL DEF Spec

-----------------------------------------------------------------------------
(* The theorems. *)

\* The variables have their types, and the count of throttled graph inputs is at most
\* their number.
THEOREM TypeCorrect == Spec => []TypeOK
<1>1. IInv => TypeOK
  BY DEF IInv
<1> QED
  BY <1>1, Invariance, PTL

\* However many threads fill, empty and enlarge queues at once, and in whatever order
\* their callbacks come, what was reported of a stream is right but for callbacks still
\* to come, and the sets of full streams and the scheduler's count agree with it
\* (UpdateThrottledNodes).
THEOREM BookkeepingIsExact == Spec => []BookkeepingExact
<1>1. IInv => BookkeepingExact
  BY DEF IInv
<1> QED
  BY <1>1, Invariance, PTL

\* No thread waits in AddPacketToInputStream for an unthrottling that has been, and no
\* source is forgotten by all (UpdateThrottledNodes, ScheduleUnthrottledReadyNodes,
\* SchedulingLoop).
THEOREM NothingIsMissed == Spec => []NothingMissed
<1>1. IInv => NothingMissed
  BY DEF IInv
<1> QED
  BY <1>1, Invariance, PTL
=============================================================================
