# A TLA+ development of the MediaPipe framework in Augmented-Fashion-Android-AR

The repository is an Android application that puts face effects on the picture of a
camera, together with the MediaPipe tree it is built on.  The application itself is two
activities and a few graph files; everything that can go wrong in an interesting way is in
the MediaPipe *framework* (`src/mediapipe/framework`): a C++ runtime that runs a graph of
calculators on thread pools, keeps packets in timestamp order and decides when a graph is
idle and when it is done.  That runtime is what these modules are about.

Contents: [inventory](#1-inventory), [modules and code](#2-the-modules-and-the-code),
[runs](#3-runs), [fairness](#4-fairness), [proofs](#5-proofs),
[divergences found](#6-where-code-and-comments-disagree), [limits](#7-what-is-not-modelled),
[plan](#8-plan).

Where the framework meets the phone there are two more: the OpenGL contexts that its calculators
share (`src/mediapipe/gpu`), and the Java classes that bring camera frames into a graph and take
the textures back (`src/mediapipe/java`).

To repeat the checks, in this directory: `tlc -config <cfg> <module>` for each run listed in
`PROJECT.json`, and `tlapm` for each of `QueueAndNode_proofs.tla`, `InputStreams_proofs.tla`, `Throttling_proofs.tla`, `Gpu_proofs.tla`,
`InOrderOutput_proofs.tla`, `GraphOutputs_proofs.tla`, `Scheduler_invariant.tla` and `Scheduler_proofs.tla`.

## 1. Inventory

| Component | State | Operations | What makes it correct | Here |
|---|---|---|---|---|
| `SchedulerQueue` (one per executor) | `queue_`, `num_pending_tasks_`, `num_tasks_to_add_`, `running_count_` | `AddNode`, `AddNodeForOpen`, `SetRunning`, `SubmitWaitingTasksToExecutor`, `RunNextTask`, `CleanupAfterRun` | every task finds an item; no item without a task; the idle callback adds up | `SchedulerQueue`, proved; also inside `Scheduler` |
| `Scheduler` (one per graph) | `state_`, `handling_idle_`, `non_idle_queue_count_`, `active_sources_`, `sources_queue_`, `unopened_sources_`, `SchedulerShared` | `Start`, `HandleIdle`, `Pause`, `Resume`, `Cancel`, `Quit`, `AddNodeToSourcesQueue`, the notifications about graph inputs, the `WaitUntil...` calls | source layers run in order; nothing is left undone at rest; done means done | `Scheduler`, safety proved (`WaitsEndWhenIdle` under hypotheses) |
| `CalculatorNode` | `status_`, `scheduling_state_`, `current_in_flight_` | `CheckIfBecameReady`, `SchedulingLoop`, `EndScheduling`, `OpenNode`, `ProcessNode`, `CloseNode`, header and side-packet readiness | one scheduling thread, no lost wakeup, at most `max_in_flight_` invocations, closing last | `CalculatorNode`, proved; life cycle inside `Scheduler` |
| `InputStreamHandler` | prepared contexts, `prepared_context_for_close_`, the sync sets | `ScheduleInvocations`, `FinalizeInputSet`, `AddPackets`, `SetNextTimestampBound` | an input set is taken once, whole and in order; close is scheduled once | scheduling in `CalculatorNode`; streams and input sets in `InputStreams` |
| `InputStreamManager` | `queue_`, `next_timestamp_bound_`, `closed_`, `last_reported_stream_full_` | `AddPackets`, `SetNextTimestampBound`, `PopPacketAtTimestamp`, `PopQueueHead`, `ErasePacketsEarlierThan`, `Close`, `SetMaxQueueSize` | bounds only grow; a full/not-full callback follows each change; no packet is lost | module `InputStreamManager`, used by `InputStreams` and `GraphOutputs`; queue limits in `Throttling` |
| `OutputStreamHandler`, `InOrderOutputStreamHandler`, `OutputStreamManager`, `OutputStreamShard` | `propagation_state_`, `completed_input_timestamps_`, `task_timestamp_bound_`, shards | `PostProcess`, `PropagationLoop`, `UpdateTaskTimestampBound`, `Close` | outputs of parallel invocations leave in input order, none is stranded, bounds never pass an output | `InOrderOutput`, proved, and proved to implement `OrderedOutput` |
| `CalculatorGraph` | `full_input_streams_`, `graph_input_streams_`, errors, `has_error_` | `AddPacketToInputStream`, `CloseInputStream`, `CloseAllPacketSources`, `UpdateThrottledNodes`, `UnthrottleSources`, `RecordError`, `CleanupAfterRun` | a source is throttled iff a queue downstream is full; nothing stays throttled for ever | as the scheduler sees it in `Scheduler`; back-pressure in `Throttling` |
| `Timestamp` | - | saturating `+`/`-`, `NextAllowedInStream`, special values | no wrap-around, order is total | `Timestamps` |
| Specialised input stream handlers (`stream_handler/`) | `ready_timestamps_`, `last_processed_ts_`, offsets, `pending_` | `GetNodeReadiness`, `FillInputSet` | what is found ready is still there when it is taken; nothing is left behind; done streams close the node | `InputStreams`, all eight; safety proved but for the fixed-size handler |
| `GraphOutputStream`, observers and pollers | queue of each mirror, `notifying_`, `last_processed_ts_`, `output_timestamp_` | `Notify`, `Next`, `NotifyError`, `WaitForObservedOutput` | each packet is observed and polled once; calls return | `GraphOutputs`, safety proved (`EveryPacketObserved` under a hypothesis) |
| `ThreadPoolExecutor`, `DelegatingExecutor` | task queue | `Schedule` | every task is run once | external: a bag of tasks |
| Switch container, flow limiter, gates, loopbacks | per calculator | `Open`/`Process`/`Close` | frames in flight stay bounded; one channel is active | not modelled |
| GPU runtime (`gpu/`) | `gl_finish_count_`, its target, `context_waiting_on_`, jobs; texture pools, sync points | `CreateSyncToken`, `WaitForGlFinishCountPast`, `GetReadView`, `DidRead` | a wait ends after the glFinish it waits for, and every wait ends; a texture is not reused before its consumers are done | `GlContexts`, proved; the consumers of a texture in `TextureFrames` |
| Java framework and camera (`java/`) | `ExternalTextureConverter` frame pool, `AppTextureFrame`, `FrameProcessor` | `renderNext`, `onNewFrame`, `waitUntilReleased`, `release`, `close` | bounded frames, none leaked or overwritten, increasing timestamps | `TextureFrames`, proved |
| Activities (`projects/android/.../apps`) | selected effect, the camera | `onResume`, `onPause`, taps | - | as calls of the application in `TextureFrames` |
| Validation and set-up, models, image and geometry utilities, Objective-C | - | pure functions, platform glue | - | not modelled |

**How they interact.**  An application thread adds a packet to a graph input stream; the
`InputStreamHandler` of each node that reads it notices that an input set is ready and calls
`CalculatorNode::CheckIfBecameReady`; the thread that wins runs `SchedulingLoop`, which gives
prepared invocations to `SchedulerQueue::AddNode`; the queue pushes an item and hands a task to
its executor; a worker takes the task, pops *some* item, runs the node, whose outputs make other
nodes ready in the same way, and ends with `EndScheduling`.  When the last pending task of a
queue ends, the queue tells the `Scheduler`, and when all queues are idle that thread runs
`HandleIdle`: it starts the next layer of source nodes, enlarges full queues, or ends the run.
So one worker is, in one call stack, the executor of a node, the scheduler of the nodes
downstream, and perhaps the thread that ends the graph.

**What is hard.**  Almost every class does its bookkeeping under a mutex and acts on what it read
*after* releasing it: the idle callbacks, the hand-over of tasks, the allowance of
`SchedulingLoop`, the `has_error` tests, `HandleIdle` itself.  Several locks are involved
(`SchedulerQueue::mutex_`, `Scheduler::state_mutex_`, `CalculatorNode::status_mutex_`, and those of
the streams), `state_mutex_` is released in the middle of a loop, and the counting of starts and
stops is spread over five methods.  There are no messages to lose and nothing is persisted, so
there is no crash recovery.  `PROJECT.json` lists each hazard at its line.

## 2. The modules and the code

### `SchedulerQueue`  (`scheduler_queue.cc`, `scheduler_queue.h`)

One queue at the granularity of its critical sections.  A method that holds `mutex_` twice
(`RunNextTask`) or that acts after releasing it (`AddItemToQueue`) is split there: `AddItemToQueue`
(critical section), `CallIdleFalse`, `AddTasks`; `StartRunning` then
`SubmitWaitingTasksToExecutor` then `AddTasks`; `TakeTask`, `PopItem`, *the node runs*,
`FinishTask`, `CallIdleTrue`.  The counters have the names of the code; `task`, `owner` and `pc`
say where each task and thread is and have no counterpart as variables: a task in the code is an
anonymous closure, and here it bears the name of the item whose addition made it, so that the
counters can be compared with what they count.  While a thread runs a node it may add items.
`idle_count` is this queue's contribution to `Scheduler::non_idle_queue_count_`.  Which item is
popped is left open (any item), so the results do not depend on the priorities.

### `Scheduler`  (`scheduler.cc`, with what it needs of `scheduler_queue.cc`, `calculator_node.cc`, `calculator_graph.cc`)

A whole graph: several queues and executors, workers, application threads.  Each thread is a
stack of frames, because the code really nests: a worker inside `RunNextTask` is inside `AddNode` for
a node downstream, and the same worker then calls the idle callback and runs `HandleIdle`.  A frame
says what the call does next; popping it is returning.  The frames are:

| frame | code |
|---|---|
| `add`, `push`, `callFalse`, `addTask` | `AddNode` / `AddItemToQueue`, in four steps |
| `submit` | `SubmitWaitingTasksOnQueues` |
| `open`, `opened`, `toSourcesQueue` | `OpenCalculatorNode`, `NodeOpened`, `AddNodeToSourcesQueue` |
| `run`, `close`, `end`, `finish`, `callTrue` | `RunCalculatorNode` to the end of `RunNextTask` |
| `handleIdle`, `unthrottle`, `stopQueues`, `activate`, `startQueues`, `lock`, `endOfTurn` | `HandleIdle`, `UnthrottleSources` and `TryToScheduleNextSourceLayer` |
| `addedPacket`, `closedAll`, `stopSources` | the end of the calls of the application |

`stateMutex` is kept only across the turns of `HandleIdle`; every other critical section of
`state_mutex_` is one action.  The order of items in a queue is that of `Item::operator<`; for two
sources of one layer, in a queue or in `active_sources_`, it depends on `source_process_order_`, which follows timestamps, and is left open.  Packets are counted
(`ready`), not carried.  Whether a queue is full is not computed: a source that emits *may* become
throttled (and others with it), and a node that consumes *may* let sources go; `HandleIdle` finds
the throttled ones and enlarges their queues, which lets go of all of them.  In this module a
node has `max_in_flight` 1, and its scheduling state is the one bit `inFlight`: the module
`CalculatorNode` is about what happens inside it.  Only sources close: a node with inputs would
close after its inputs are done, which in this abstraction is one more run.  `OpenNode`, `ProcessNode` and the `CloseNode` of a source may
return an error (`OpenFails`, `ProcessFails`, `CloseFails`), for nodes in `MayFail`.  `AddedPacketToGraphInputStream` reads `state_` before it locks `state_mutex_`: one
that is in the middle of it when the run ends returns, or calls `HandleIdle` of a scheduler that has terminated.

### `CalculatorNode`  (`calculator_node.cc`, `input_stream_handler.cc`)

The state machine `kIdle / kScheduling / kSchedulingPending` by which the threads that deliver
input and the threads that end invocations elect one of them to run `SchedulingLoop`, with up to
`max_in_flight_` parallel invocations and an error that may strike at any time.  An action is one
critical section of `status_mutex_` or what happens between two.  Input sets are numbered in the order of
their timestamps; `arrived`, `consumed` and `input_done` stand for the input streams.  Of the output
side only the recycling of contexts is kept (a context is recycled once all earlier ones have
completed), because `ScheduleInvocations` refuses to prepare the closing while contexts are active.

### `InOrderOutput`  (`in_order_output_stream_handler.cc`, `output_stream_handler.cc`, `output_stream_manager.cc`, `output_stream_shard.cc`, `calculator_context_manager.cc`)

The output side of the same node, with one output stream and the input stream of one node downstream
(its mirror).  The threads are the invocations (named after their input timestamps), whoever is the
scheduling thread, and the one that runs `CloseNode`.  One of them is the propagation thread:

| `pc` | code |
|---|---|
| `update`, `post` | about to lock `timestamp_mutex_` in `UpdateTaskTimestampBound`, `PostProcess` |
| `checkClosed`, `setBound`, `send`, `closeStream` | `PropagateOutputPackets`: `IsClosed`, the two halves of `PropagateUpdatesToMirrors`, `OutputStreamManager::Close` |
| `recycle`, `erase` | `RecycleCalculatorContext`; the end of `PropagatePackets`, with the lock |
| `checkBound`, `setOnlyBound`, `sendBound`, `endBound` | `PropagationBound`: the tests of `TryPropagateTimestampBound`, `PropagateUpdatesToMirrors`, the end with the lock |

What `PropagatePackets` and `PropagationBound` decide under the lock is decided in one action,
with the transition of `propagation_state_`; everything that is done without the lock is an action for each
mutex it takes.  `PrepareOutputs` and `Process` are one action, because the only shared state between
them is read when the shard is reset.  A shard is kept from there until its context is recycled.  Packets are
timestamps; an invocation outputs at most one, at its own timestamp plus the offset, and may
close the stream; a packet for a stream that was closed before is an error, which fails the graph.  Which of the scheduling thread's turns finds something is left to `CalculatorNode`: here it may
look at any time.  `CloseNode` outputs nothing in `Close()`.  The mirror keeps its bound and the last packet, and
notes when it would have returned an error; a node downstream that has closed its inputs, and then ignores
everything, is left out.

### `OrderedOutput`

What that machinery promises: each input is taken, then has an output packet or none, then is sent; sending happens
in the order of the inputs and once each, and the bound of the stream grows but leaves room for every
output that may still come.  `InOrderOutput` implements it: `Fate(i)` is read off the contexts, the shard and
the program counter of whoever sends (a context counts as sent from the moment the mirror has its update).

### `Throttling`  (`calculator_graph.cc`, `input_stream_manager.cc`, with what it needs of `scheduler.cc`, `calculator_node.cc`)

Back-pressure.  A full input queue throttles every source and graph input stream upstream of it
(`AncestorSources`, computed as `validated_graph_config.cc` does); the thread that filled, emptied or resized the queue calls
`UpdateThrottledNodes` after it has released the stream's mutex; a source that is throttled is not scheduled,
an application thread that adds a packet waits or is turned away, and an idle graph with something throttled enlarges
its full queues.  Three mutexes meet: that of each stream, `full_input_streams_mutex_` and the scheduler's.

| state | code |
|---|---|
| `queue_size`, `max_queue_size_`, `last_reported_stream_full_` | of each `InputStreamManager`; the last is guarded by the graph's mutex |
| `full_input_streams_`, `throttled_graph_input_stream_count_` | of the graph and of the scheduler |
| `signalled` | the waiting threads for which `unthrottle_seq_num_` has moved on; the number itself only grows |
| `pc` | the application thread of each graph input (one for each, as the code demands), and the thread in `HandleIdle` |
| `run`, `loop`, `pending`, `scheduling` | the invocation and the scheduling loop of each source and node |
| `sends`, `notify`, `pops`, `callback`, `nodes_to_schedule` | what each thread has still to do in the calls it is in |

A thread is named by what it is doing: the worker that runs a node bears the name of the node, and whoever is inside
`HandleIdle` is `Idle`.  An application thread that calls `HandleIdle` from `AddedPacketToGraphInputStream`
waits (`in_idle`) for `Idle` to come back.  Streams are numbered, and a thread that has several to deal with takes them
in that order, as the code does.  A queue is its length.  Whether a node is ready is left open, because that depends on
timestamps; so a node that holds packets of one input and waits for another is included, which is what fills queues in a
correct graph.

### `Timestamps`, `InputStreamManager`  (`timestamp.h`, `timestamp.cc`, `input_stream_manager.cc`)

Operators, no variables.  A timestamp is a number between `Unset` and `Done` with `MaxTimestamp` in the
place of the largest 64-bit value; the special values, the saturating addition and the neighbours in a stream
are those of the code.  A stream is a record of its queue (timestamps), its bound, and whether it is closed and cares for
timestamps; each method is an operator that gives the new record, with what it reports (`ok`, dropped packets) beside it.

### `InputStreams`  (`input_stream_handler.cc`, `stream_handler/*.cc`)

The input streams of one node with one of the eight handlers.  The handler is chosen in `Init` from `Handlers`, a
set of records of what a graph configures (kind, sync sets, which packets may come, in batches of how many,
which data stream a control packet selects, the queue sizes of the fixed-size handler).

| action | code |
|---|---|
| `AddPacketsTo`, `SetNextTimestampBoundOf`, `Notify` | a thread upstream adds to one stream, and then calls `CheckIfBecameReady` |
| `Look` | one call of `MinTimestampOrBound` on one stream, under that stream's mutex; packets may come between two looks |
| `DefaultReadiness` ... `FixedSizeReadiness` | what each `GetNodeReadiness` concludes from what was seen |
| `MuxLooksAtControl`, `MuxLooksAtData`, `SelectTimestamp`, `Measure` | the steps of handlers that look at a stream because of another |
| `Pop`, `Invoke` | `FillInputSet`, stream by stream (`First` says in which order), and the invocation |
| `StartErasing`, `EraseSurplusStep`, `EndErasing` | `EraseSurplusPackets` of the fixed-size handler, by whoever holds `erase_mutex_` |

A failed CHECK sets `crashed`.  The mutexes of the handlers themselves (`sync_set_mutex_`, `input_streams_mutex_`, ...) need no
variable: only the one scheduling thread takes them (`OneSchedulingThread` of `CalculatorNode`), which is the reason why
the mux handler's does not protect it.  `selected`, `erased` and the like are history for the properties.

### `GraphOutputs`  (`graph_output_stream.cc`, with what it needs of `output_stream_manager.cc`, `scheduler.cc`, `calculator_graph.cc`)

One output stream with two mirrors, an observer and a poller, each an `InputStreamManager`.  Two threads write: a
worker, and the one that closes the node, which may begin while the worker has still a bound to send (section 6).
`pc` of a writing thread is where it is in `PropagateUpdatesToMirrors`, `Notify` and `EmittedObservedOutput`; `after` is
what it does when it comes back from a notification.  The application polls in one thread, and waits in
another, which also cleans up and starts the next run.  `notifying_`, `last_processed_ts_` and `output_timestamp_` keep their
values from one run to the next, as in the code.  `emitted`, `observed`, `reported` and `polled` are history.

### `GlContexts`  (`gl_context.cc`, `gl_context.h`)

Contexts with a dedicated thread each, and sync points without fences (`GlFinishSyncPoint`): a token is the number of
`glFinish` calls that the context had made.  `WaitForGlFinishCountPast` is split at its locks: `Ask` (the target is raised and two
condition variables are signalled), `Mark`, `Post`, `Check` (one turn of the loop), `Sleep`, `Serve`, `Unmark`.  Between the test of
`other`'s counters in `Check` and the wait in `Sleep` the waiting thread holds the mutex of the context it waits *for*, not that of its own
context: this is where a signal could be missed.  `issued` and `done` count GL commands given and executed, for the property.

### `TextureFrames`  (`ExternalTextureConverter.java`, `AppTextureFrame.java`, `FrameProcessor.java`, `gl_texture_buffer.cc`)

The way of a camera frame.  The GL thread handles the messages of its looper one after the other; `renderNext` is split at
each lock: take a frame (`NextOutputFrame`), wait for the GPU (`WaitUntilReleased`), draw and stamp it
(`UpdateOutputFrame`), hand it to a consumer (`Give`).  A packet holds the texture until somebody in the graph drops the last reference
(`Release`), which stores a sync token for the reads of it, and then gives it back to the pool
(`GiveBack`) as a second critical section.  A token is the set of GL contexts it stands for; `gpuReads` says which reads the GPU
has not executed, and to wait on the GPU is to be ordered after them.  The application resizes the pool, changes surface, size
and consumers, and closes the converter at any time.  A size is one value, though width and height are two fields.

### `MC...` modules

`MCSchedulerQueue`, `MCScheduler`, `MCCalculatorNode`, `MCInOrderOutput`, `MCThrottling`, `MCInputStreams`,
`MCGraphOutputs`, `MCGlContexts` and `MCTextureFrames` extend the modules for TLC and define the small
graphs and the budgets of calls; they change no definition.  Definitions introduced by a comment
"Mutant of ..." are wrong on purpose: each shows, put in place of the definition it names,
that a property notices the mistake.  They are used by no specification.

## 3. Runs

The bounds are those of the configurations.  A property that is a conjunction has named parts; the
comment above it says what each is about.  Deadlock is checked only in `queue`, because a scheduler queue never
stops; graphs terminate, nodes are closed, converters are closed and calculators need not draw, so
elsewhere `CHECK_DEADLOCK` is `FALSE`, and liveness properties say what may not get stuck.

| Run | Instance | What it shows |
|---|---|---|
| `queue` | 3 threads, 2 items, up to 2 stops outstanding, `FairSpec` | `TasksMatchItems`: the CHECKs of `RunNextTask` and `CleanupAfterRun` hold and no task is stranded; the idle count is exact up to callbacks under way; each pending task finishes |
| `layers` | two sources in two layers on one queue, a node fed by both, a node fed by the application on another queue; the source of the lower layer awaits a side packet that may come late and may be throttled; 2 workers, 1 application thread; `FairSpec`; 334,581 states | layers in order, no lost wakeup at rest; in this graph `WaitUntilIdle` and `WaitUntilDone` return only when nothing runs (`WaitsEndWhenIdle`; not in every graph, see section 6); the graph ends once its inputs are closed; whoever enters `HandleIdle` leaves it unless blocked on an unopened lower layer |
| `pause` | a source that closes at once, two nodes, two queues; one application thread adds a packet, closes all packet sources and cancels, another pauses and resumes; the source and one node may fail when they are opened, run or closed, the other node may stop; no throttling; 2,756,329 states | `ChecksHold`: starts and stops of queues balance, one thread handles idle, tasks find items, closed nodes are not scheduled; `RestsOnlyWhenDone`: no wakeup is lost (`RestsOnlyForInput`), and a cancelled graph does not come to rest before it has terminated (`CancelTerminates`); a run that has ended stays so, and late calls of `HandleIdle` neither start nor stop a queue (`StaysTerminated`) |
| `blocked` | as `layers`, with one packet and the inputs left open | *violation*, see section 6 |
| `node` | 2 threads, 2 parallel invocations, 3 input sets, an error at any time, `FairSpec` | `SchedulingExact`: one scheduling thread, `current_in_flight_` exact, a prepared invocation can be scheduled, closing last; no lost wakeup; and eventually closed |
| `in_order` | 3 inputs, 2 in flight, offset 1 or no offset, an error in any invocation, `FairSpec` | `PropagationSound`: one propagation thread, the CHECKs of the handler, at rest no output and no bound is left behind, refused downstream only after closing was prepared; outputs in order (the refinement); a completed output leaves |
| `throttling` | two graph inputs and a source that feed one node, which feeds another; five scenarios (`MCRuns`) of packets and limits: two waiting threads, a source and a graph input throttled by one stream, a source or a graph input throttled by two, and the mode that refuses; a node may fail, a packet may be refused, `FairSpec` | `BookkeepingExact`: what was last reported of a stream is right up to callbacks under way, the sets of full streams and the count agree; `NothingMissed`: no signal is missed by a waiting thread, no source is forgotten; every call of the application returns |
| `input_streams` | every handler (fixed-size without `process_timestamps` and without packets at `PreStream`, timestamp-align with packets that stay in the range when they are shifted), with two streams, or three in two sync sets or under a mux; packets at the ends of the range and next to each other, alone or in batches, and any bound; with and without `process_timestamps`; `FairSpec`; 1,024,778 states | `InputSetsSound`, which the nodes left out do not have (section 6): nothing is refused or crashes, packets are selected once, torn from no input set, erased in all streams of a fixed-size node or in none, and not left behind; the bound of the node never goes back; a node whose streams are done is closed |
| `mux` | three streams of a mux | *violation*, see section 6 |
| `graph_outputs` | a packet or a bound from the worker and a packet from `Close()`, a callback may fail, two runs, `FairSpec`; 592,783 states | each packet is observed and polled once and in order, no bound is reported before its packets, `Next` ends only when there is nothing left, `Next` and `WaitForObservedOutput` return |
| `gl_contexts` | three contexts and a thread without one, 2 tokens, 3 waits, `FairSpec`; 85,285 states | a wait ends only when the GPU has done what the token stands for; contexts that wait for each other, with others behind them, all go on |
| `textures` | 3 textures, 1 GL context of the graph, 2 surfaces, pool sizes 0 to 2, maximum 1 and 3, 3 frames, 1 call of the application; 7.2 million states | no frame is lost, doubled or over the limits, none is drawn over while somebody reads it, timestamps increase |

**Why the bounds are enough.**  The races are between a method's critical section and what it does
afterwards.  For `queue`, two threads in two different calls and a third that runs a task are the
smallest instance in which a task made by one thread is submitted by another and run by a third;
two items let the queue be non-empty while a task finishes.  Two stops are what the code reaches
(`Pause` and the adding of a layer overlap).  For `layers`, two layers and two queues let each of
"the next layer", "blocked", "unthrottle" and "quit" be chosen while a worker is still in
another queue.  In `node`, three sets with two in flight force a set to wait for an invocation to end, which
is the case that `kSchedulingPending` is for.  In `in_order`, with three inputs a second and a third invocation can
complete while the first is being sent, a context can be reused, and a bound can be learnt, overtaken by an input and learnt
again.  In `throttling`, two streams downstream of one source make it throttled twice over, two waiting threads share one
sequence number, and limits of 1 make every packet a change from not full to full or back.  In `input_streams`, two streams are the least that can be
looked at before and after a packet, two timestamps the least that can be taken in the wrong order, and the range of four
timestamps puts every special value next to an ordinary one.  In `graph_outputs`, two writers are what a stream can have, and the second run
finds what the first has left in the observer and the poller.  In `gl_contexts`, two contexts wait for each other while a third or a
thread without a context waits for one of them; with a third token (`MCGlContexts_cycle.cfg`, 638,696 states, some minutes, the same
properties hold) three contexts also wait in a cycle.  In `textures`, three frames are more than the pool keeps, so that one is in it, one
out and one posted to be deleted; a second surface makes a frame of the wrong size.  The theorems below remove the bounds for
`SchedulerQueue`, for `CalculatorNode`, for the safety of `Throttling`, `GlContexts`, `TextureFrames`, `GraphOutputs` and `InOrderOutput`,
its refinement included, and for that of `Scheduler` and of `InputStreams`, where they remain for the input sets of the fixed-size handler.  The theorems on four properties have
hypotheses: those on `EveryPacketObserved`, `WaitsEndWhenIdle` and `InputSetsSound`, which are false without them (sections 5 and 6), and that on `InputBoundKept`.  The hypotheses of the second exclude the graph of
`layers`, which has sources: for graphs with sources the property is only checked, in that one.

**Bounds by name.**  `MaxStops` (calls of `SetRunning(false)` not yet undone), `MaxSets` (input sets
that arrive), `MaxTs` (input timestamps), `Packets` (how often each source emits), `Budget` (how often each application thread makes
each call), `Runs` (packets, limits and mode of `Throttling`), `Failing` (what may go wrong there),
`MaxTimestamp` (the range of timestamps), `Handlers` (the nodes of `InputStreams`), `Packets`, `Bounds`, `ClosingPackets` and `MaxRuns` (what is
written in `GraphOutputs`, and how often), `MaxDraws` and `MaxWaits` (tokens and waits of `GlContexts`), `Frames`, `MaxFrames` and `MaxCalls` (texture
objects, camera frames and calls of `TextureFrames`).

What `Close()` sends in `graph_outputs` is later than the bounds the worker sends; with a packet *at* such a bound a packet is
lost (`MCGraphOutputs_lost.cfg` in section 6).

## 4. Fairness

* Weak fairness of `Continue(t)` (queue, node), of `Shared(t)` and `AppReturn(a)` (scheduler): a thread
  does not stop in the middle of a call of the framework.  The operating system schedules threads, and
  a mutex that is free again and again is got in the end; the model's critical sections are single actions,
  so weak fairness never stands for getting a contended lock, except for `state_mutex_` while
  `HandleIdle` has it, which releases it on every turn or ends (shown by `HandleIdleEnds`).
* Strong fairness of `FinishTask(t, i)` (queue): `Process` returns, although it may add items meanwhile.
* Strong fairness of `TakeTask` for each task (queue): a thread pool takes its tasks in order,
  so none is passed over for ever when threads become free again and again.
* `WF(Task(w))`, `WF(RunNode)`, `WF(NodeOpened)`, `WF(Start)`: workers take tasks, opened nodes are
  reported, the application does start the graph.
* `WF(Run(i))`, `WF(Schedule)`, `WF(Close)` (in-order output): a worker runs what it was given to the end, and somebody
  is the scheduling thread of the node while there is something to schedule (`NoLostWakeup` of `CalculatorNode`).
* `WF(IdleStep)`, `WF(OtherStep)` (throttling): the thread in `HandleIdle` goes on, and so does *some* other call or task that can.
  This is less than fairness to each thread, and enough: packets and calls are finite in number, so threads that go on come to
  an end, and a thread that is passed over is then the only one left.  No node need ever be ready.
* `WF(GoesOn)` (input streams): as long as there is something to schedule, to notify or to erase, some thread does the next step.
  Packets are finite in number; nobody has to send any.
* `WF(GoesOn)` (graph outputs): the threads that write, a call of `Next` or of `WaitForObservedOutput` that has been made, the closing of the
  node and the end of the run are not all held up at once.  The run ends because `ClosedInputsTerminate` and `EventuallyClosed` say so of the
  scheduler and of the nodes.  Nobody has to call anything.
* `WF(WaitStep(t))`, `WF(RunFinishTask(c))` (GL contexts): a thread in a wait goes on, also when it needs a mutex, which is held across
  steps only from a test to the wait that follows it; a dedicated thread runs its jobs.
* Nothing is assumed of packets arriving, inputs being closed, or of any other call by the application.

## 5. Proofs

`QueueAndNode_proofs` proves, for every set of threads and items, every
parallelism and every amount of input, all the safety invariants that the runs `queue` and `node` check; each part of
a conjunction has a theorem of its own, and `TasksAndItemsMatch` and `SchedulingIsExact` put them together.
`Throttling_proofs` proves `TypeOK`, `BookkeepingExact` and `NothingMissed` for every graph, all limits and any number of packets, and
`Gpu_proofs` proves `TypeOK` and `WaitsSound` of `GlContexts` for any contexts, threads, tokens and waits, and `TexturesTyped`, `FramesAccounted`,
`NeverOverwritten` and `TimestampsIncrease` of `TextureFrames` for any number of frames, camera pictures and consumers.
`InOrderOutput_proofs` proves `TypeOK` and `PropagationSound` for any number of inputs, any offset and any `max_in_flight_`, and
that under the same assumptions `InOrderOutput` implements `OrderedOutput` (`OutputsInOrder`).
`GraphOutputs_proofs` proves `TypeOK`, `EveryPacketPolled` and that packets are observed in order and once (`ObservedInOrder`) for any packets, bounds and
number of runs, and all of `EveryPacketObserved` where no packet that `Close()` sends is at a bound that the worker sends.
`InputStreams_proofs` proves `TypeOK` for every handler, and `InputSetsSound` for seven of the eight, for any streams, sync sets and packets; of a
timestamp-align handler it asks that its packets stay in the range when they are shifted (`Proved`, `Spread`).  With the same proviso it proves
`InputBoundKept` for every handler, the fixed-size one included (`InputBound`); the sync-set handler is let off by the property itself.
`Scheduler_proofs` proves `TypeOK`, `LayersInOrder`, `ChecksHold`, `RestsOnlyForInput` and `RestsOnlyWhenDone` for every graph, any queues,
executors' threads and application threads, with errors, pauses and cancelling, from the inductive invariant that `Scheduler_invariant` states
and proves, and for the last two from a second one, `RestInv`.  From a third one, `WaitInv`, it proves `WaitUntilIdleMeansIdle` for every graph without
sources that the application does not pause (`IdleMeansIdle`), and `WaitsEndWhenIdle` if besides no node fails, nobody cancels and one thread at most
adds packets and closes the inputs (`WaitsAreSound`).
The assumptions are those the modules name: finite sets of threads and items, `NoThread` not a thread, `max_in_flight_`
positive; in `InOrderOutput`, that `MaxTs` and `Offset` are natural numbers and that the scheduling and the
closing thread are not invocations; in `Throttling`, that graph inputs, sources and nodes have different names, and that the graph inputs are finite in number;
in `InputStreams`, what a configuration is (`StreamsAssumption`, `HandlersAssumption`: the sync sets are disjoint, a control packet selects a data stream);
in `GraphOutputs`, that packets and bounds have ordinary timestamps, from `MinTime` to `MaxTime` (`GraphOutputsAssumption`);
in `TextureFrames` and `Scheduler`, `TextureAssumption`, `GraphAssumption`, `FiniteAssumption`, `ThreadsAssumption` and `BudgetAssumption`: finite sets, what a
graph is, and that each thread makes a number of calls.

**The queue.**  The properties are not inductive: `num_tasks_to_add_` says nothing of the items unless
one knows that the counters count tasks.  The invariant `IInv` therefore says (`Tokens`) which thread owns each
task and that a thread's program counter agrees with the tasks it holds, and (`Counts`) that the
counters are cardinalities of sets of tasks:

    num_tasks_to_add_  = #waiting
    num_pending_tasks_ = #(held, executor, taken, popped)
    #queue_            = #(waiting, held, executor, taken)

Each step moves one task (`WhereMove`) or all waiting ones (`WhereGrab`), and the lemmas say what that
does to cardinalities.  Then: a thread about to pop has a taken task, hence the queue is not empty
(`TasksFindItems`); with no task pending, the items are those of waiting tasks (`CleanupChecksHold`).  The idle
count (`IdleCountIsExact`) follows because the queue is idle before an item is pushed exactly when the
pusher will report it (`IdleAccounting`).

**The scheduler.**  A thread of the model is a call stack, so the first invariant, `Inv`, says which stacks there are: `Fits` says of a frame what
may be under it (`StacksOK`).  A thread that holds `state_mutex_` to stop the queues got there through `HandleIdle`; a worker's
task is at the bottom of its stack; a thread that is pushing an item will not come upon the same node further down.  From this it follows that
`handling_idle_` is zero exactly when nobody is in `HandleIdle`, that no two threads are (`HandlerAlone`), and that each `SetRunning(false)` has
its `SetRunning(true)` to come (`RunningExact`).  A node is to be opened in one place, and in flight in one place, counting queues and
stacks alike (`OpenedOnce`, `FliesOnce`), and is not closed meanwhile.  A source is in `unopened_sources_`, `sources_queue_` or
`active_sources_` and moves in that order (`SourcesPlaced`); the queues stand still from the choice of a layer to its activation, so that the
sources of earlier layers are still closed then (`LayerToActivate`, `LowerLayersClosed`): `LayersInOrder`.  A task is with the
executor or held by a thread for each item in a queue (`TasksCounted`), with which a task finds its item: `ChecksHold`.

`RestsOnlyForInput` and `CancelTerminates`, which make `RestsOnlyWhenDone`, are about states in which no thread does anything.  Nothing follows from `Inv` about these, since a thread
that forgot its duty has a well formed stack too.  `RestInv` therefore says of *every* state who is still to do what is left: who submits the tasks
that wait in a queue that runs (`Submitted`), which queue or thread has a node that counts as scheduled (`FlightsFound`), who will ask for a node that has
something to do (`WantsMet`), who takes an opened source further (`OpenedMoveOn`), by how many calls under way
`non_idle_queue_count_` is behind (`CountExact`), and (`Awake`) that once no queue will report idleness and nobody is going to take another
turn of `HandleIdle`, there is nothing that a turn would find to do.  The first are kept because each frame hands what it owed to the
frames that replace it (`AllKept`).  `Awake` is the heart.  Whatever gives `HandleIdle` something to do (an error, the last input closed, a source queued)
is done either in a task, so that the queue of that task has still to report, or by a thread that calls `HandleIdle` next; and a thread that
finds somebody else in `HandleIdle` raises `handling_idle_` above one, which makes the other take another turn.  A thread that has unlocked `state_mutex_` to unthrottle will take
another turn if it finds a throttled source, and nobody becomes throttled once no task runs.  A turn that unthrottles an active source has it
scheduled, or finds that another thread is scheduling it; that thread has a task in hand, so its queue is not idle.  At rest no frame is
left, the queues are empty, and what remains of `RestInv` is `RestsOnlyForInput`.  `CancelTerminates` follows because cancelling records an error
(`CancelledWithError`), which `Awake` excludes at rest.

**Waits.**  `WaitUntilIdle` trusts a count that is short by the queues that are still to report that they are not idle any more.  That the count is not zero too
early rests on where the reports are made.  A report is a call in the middle of `AddNode`.  Outside of the calls that feed the graph and of the adding of a layer,
`AddNode` is called in a task, whose queue is not idle either.  A queue that is to be reported stays non-idle until then: the thread that reports has
the queue's new tasks in hand and submits them afterwards (`ReportersHold`), so that nobody can finish them before.  Hence one thread at most reports a queue
(`OneReporter`), and the count is the number of non-idle queues that nobody is to report, plus the queues about to report that they are idle.  If it is zero, all non-idle
queues are being reported, each by a thread in a task of another one of them.  But a queue is pushed to, when it is idle, from a queue that was not, so
they cannot all be waiting for each other (`NoCircle`: in a set of queues that report each other, the last to be pushed to would have been in the middle of a task when it was
idle).  So there are none (`AllTold`).  `ReportersHold` fails when a queue is pushed to while it is stopped, because then another thread submits the task: this is
what `NeverStopped` excludes (no source layers are added, nobody pauses), and what `MCScheduler_idle.cfg` and `MCScheduler_mixed.cfg` show.
For the end of the run, an error must not end it while an item is on its way (`NoErrors`), nor one thread of the application while another is still
feeding the graph (`FedBy`): then `HandleIdle` quits only when the inputs are closed and nobody feeds (`FedByOne`), `AllTold` applies (`QuitsAtRest`), and
after it nothing moves but calls that find nothing to do (`EndedIdle`).  The face-effect graph of the application has no source
nodes, and nothing pauses it.

**Graph outputs.**  What was emitted is, in this order, what a reader has got, what the thread that notifies has in hand, what is in the queue of its mirror
and what a writer has still to add (`PolledSoFar`, `ObservedSoFar`).  That these parts are in order of their timestamps rests on the bounds: a queue comes before the
bound of its mirror and what is to be added after it (`InOrder`), though the thread that closes the node may begin while the worker sends a bound (`Writers`, `BoundsSent`).
So what is reported, observed and polled is a prefix of what was emitted (`ObservedInOrder`, `EveryPacketPolled`).  That nothing stays in the observer's queue needs
more.  The thread in `Notify` looks again before it leaves, and compares a timestamp only; a writer whose packet comes meanwhile leaves at once.  So each packet
must change the timestamp that is compared (`NothingMissed`).  A packet of the worker does, because it lies behind the bound that was seen; one that `Close()` sends does
if it is not at a bound that the worker is still sending, which is the hypothesis `ClosingPackets \cap Bounds = {}` of `PacketsObserved` and which
`MCGraphOutputs_lost.cfg` shows to be needed.  `Attended`, `BoundArrives` and `BoundReported` then say that somebody attends to a queue that is not empty, and that the last
bound is reported in the first run.

**Input streams.**  A handler looks at its streams one at a time, and packets come in between.  Three facts carry all of them.  A queue is in order and before
its bound (`Ordered`, a part of `TInv`).  The bound is not ahead of the node upstream (`Upstreams`).  So a stream only grows while it is looked at (`Grows`), and what was
seen of it remains a lower limit of what is there (`SeenSound`).  A timestamp is *settled* on a stream if its first packet is there or later, or its bound is past it,
and stays settled until the stream is popped.  `FillInputSet` then pops every stream at a settled timestamp that is later than the one selected before; this is what
`InputSetsSound` comes to.  Why it is so differs from handler to handler.  For the default, early-close, immediate and sync-set handlers `Sets` says it of each sync
set: a set that is ready keeps its timestamp until it is filled (`SetWaits`, for the immediate handler), one that processes timestamps is selected no later than the
last one it processed (`SetLast`), and a set that was given up is done (`SetEnds`).  The barrier has only to find an allowed timestamp (`Allowed`).  For the mux, the
control stream is selected last of all (`MuxOrder`), and what is erased from the streams that it does not select comes before its frontier (`MuxRest`).  For
timestamp-align, the streams are in step after they are shifted by their offsets (`AlignAfter`), and there is a timestamp of the base stream at which all of them
were (`AlignSpread`), so that nothing is shifted out of the range.  The last needs `Spread`: with packets at `MaxTime` TLC finds a timestamp selected twice, because `+`
saturates, and with one at `PreStream` or `PostStream` that `CHECK(IsRangeValue())` fails.

**The bound of a node.**  `InputBoundKept` speaks of steps, and follows from an invariant (`BoundInv`) that stands beside that of the input sets, whose help it needs for
some handlers only.  A frontier does not go back (`Moves`): a pop or an erasing takes it on, because the packets are in order, which for the barrier, whose
streams accept any timestamp, the nodes upstream see to (`InLine`).  The bound reported is not past the frontier of any stream on which a packet may
still come (`Ahead`; for timestamp-align, of the streams shifted, `AlignAhead`), nor past what was seen of a stream in the present look (`LookedAt`, `AlignLooked`), and
no sync set waits at an earlier timestamp (`Waiting`).  So the next bound, the least of what was seen, is not earlier, and neither is a packet that makes the node
ready.  A node that processes timestamps may also be ready at the timestamp *before* a bound, which could be one too early; `Passed` excludes it: if
the bound was reported at a packet, all streams of the set are settled there, and no stream that was seen empty has that bound.

**The node.**  `IInv` adds to the properties: which thread runs which invocation (`Runners`), that
only the scheduling thread holds a prepared one (`Prepared`), that `max_allowance` plus what is in flight never
exceeds `max_in_flight_` (`Allowances`: others can only *end* invocations meanwhile, since scheduling is
the business of one thread), what a thread about to leave the loop owes to the others (`Wakeup`), what the input sets
have in common with the contexts (`Sets`), and that the closing has no company (`Closing`).  Each
conjunct has a lemma that every step keeps it.

**Throttling.**  The invariant is about calls, not about graphs: what is upstream of a stream is never looked into.  A thread that makes a
queue full or not full owes the callback for it, and had none to make before (`OneCall`, `IdleCalls`,
`FreeToCall`), so a report that is wrong has a callback under way (`ReportedKept`).  The sets of full streams and the count
change in the callback only, by as many graph inputs as become throttled or stop to be (`UpdateKeepsExact`).  Whoever unthrottles signals
every thread that waits and is about to schedule every source (`Unthrottled`); a source that leaves `SchedulingLoop` without being added was
throttled when it looked, or has been asked to go round again (`Looking`).  `Popping`, that a node's queues are emptied by one thread at a
time, keeps queue sizes from becoming negative.

**GL contexts.**  `WaitsSound` speaks of steps, and follows from an invariant of states.  No token, request or
finish task names a count that its context had not reached when it was made (`Reached`, `Requested`), counts only grow
(`CountsGrow`), and one thing alone changes them (`OnlyFinishCounts`).  So the first `glFinish` after a token was made takes the
count past the token's, and it comes after the commands that the token stands for.  A thread that leaves a wait has seen such a count, which stays
passed, or makes it itself (`Waiting`, `ReturnsPassed`).

**Texture frames.**  A texture is in one place: with a consumer, on its way back, lost, in the hands of the GL thread, in the pool, or posted to be
deleted (`Once`, `Placed`).  `framesInUse` is the number of those that are out, within the sizes that were set (`Counted`), which is
`FramesAccounted`.  `NeverOverwritten` needs to know what the GPU has still to read.  While a packet holds the texture, its readers are known to the consumers' sync
points; from the release on the token stands for them (`ReadsKnown`); and a texture that comes back in the pool has its token still.  So when
the GL thread has waited for the token there is nothing left to be read.

**Ordered output.**  None of the parts of `PropagationSound` is inductive.  Whoever enters `PropagationLoop` finds the state `kIdle`, and the state
says which half of the loop the one thread inside is in (`Alone`); so nobody else recycles a context while `timestamp_mutex_` is
released, and what is complete stays active, but for the context that was just recycled (`Completed`).  Everything active is older than
everything not yet taken (`Order`), a bound that is being sent was no later than either when it was read and stays so while nothing older can
arrive (`Bounds`), and a thread that was told to look again finds a greater one.  With what an invocation may leave in its shard (`Outputs`) and
what is sent of it (`Sends`) this gives `Room`: until the stream is closed the stream downstream is not ahead of any output that is still to
come.  `RefusedOnlyAfterClose` follows, and is part of the invariant, because `CloseNode` is what breaks `Room`.

**Refinement.**  The abstract `fate` of an input is read off contexts, program counters and shards.  A lemma says when a step leaves a fate as
it is (`QuietKeepsFate`).  Then taking the oldest input maps to `Take`, `Process` to `Produce`, the sending for the oldest context (or
passing it over when the stream is closed) to `Send`, for which `Room` is what is needed, and what sends a bound alone to `Advance`; every other step is a
stutter.  `RInv` adds to the invariant that inputs are taken in order and that the last packet downstream is older than the bound there.

**Only model-checked**:

* `StaysTerminated` of `Scheduler`, in the run `pause`.
* `WaitsEndWhenIdle` of `Scheduler` for graphs with sources, in the run `layers`.  It is not true of all of them (section 6): in this graph the node that
  the application feeds has none downstream.
* `EveryPacketObserved` of `GraphOutputs` needs no more than its hypothesis, which the run `graph_outputs` meets.
* `InputSetsSound` of `InputStreams` for the fixed-size handler, whose erasing by other threads is an argument of its own.
* All liveness (`PendingTaskFinishes`, `ClosedInputsTerminate`, `HandleIdleEnds`, `EventuallyClosed`, `OutputsLeave`, `AddReturns`,
`DoneStreamsClose`, `CallsReturn`, `WaitsEnd`), which needs fairness and `ENABLED` and is beyond the prover.

## 6. Where code and comments disagree

Two runs of `PROJECT.json` end in a violation on purpose.

* **`blocked`.**  When a lower-layer source is not open and a graph input stream is, `TryToScheduleNextSourceLayer`
  returns false and `HandleIdle` continues its loop without releasing `state_mutex_`.  If the source
  awaits something that only the application's packet can produce, nothing changes any more.  When the
  lower layer is not blocked, `HandleIdle` does end (`layers`).
* **`mux`.**  `input_streams_mutex_` is to "ensure we have a consistent view of the two streams"
  (`mux_input_stream_handler.cc:155-156`).  The threads that add packets do not take it.  If an old packet reaches the empty data stream
  after `ErasePacketsEarlierThan` (line 85) and before `MinTimestampOrBound` (line 86), `CHECK_EQ` (line 103) fails.  The other
  handlers take what they see of each stream as it is, and their CHECKs hold (`input_streams`), but for two: that of `MCInputStreams_fixed.cfg` below, and
  `CHECK(IsRangeValue())`, which fails in a timestamp-align node that shifts a packet at `PreStream` or `PostStream` or one that the shift takes out of the range.

Seven more can be reproduced with configurations that are kept beside them.

* **`MCScheduler_idle.cfg`** (`WaitUntilIdleMeansIdle`).  `scheduler_queue.h:89-91` promises that a "become idle" is always preceded by the
  corresponding "become active".  An item added while the queue is stopped is submitted by whoever
  starts the queue, so another worker can finish it and report idle first.  The sum is still exact once the
  callbacks under way are counted (`IdleCountIsExact`), but zero no longer implies that the queue is idle: after `Pause` and
  `Resume`, a worker may be about to run a node when `WaitUntilIdle` returns (`scheduler.h:75-76`).  A graph without
  sources that is not paused has the property (`IdleMeansIdle`).
* **`MCScheduler_mixed.cfg`** (`WaitUntilIdleMeansIdle`, and `DoneMeansDone` in its place).  It takes neither a pause nor an error: the adding of a source
  layer stops and starts the queues as well.  In a graph with sources and a graph input, the node that the application feeds pushes an item to another queue while a
  layer is added; the thread that starts the queues submits it, and a worker runs it and reports the queue idle before the first thread has reported that it was not.
  The count is zero while other tasks are left; with the inputs closed the run even ends then.
* **`MCScheduler_error.cfg`** (`DoneMeansDone`).  `AddNode` tests `has_error` before it pushes its item, without a lock.  If the error
  is recorded in between and `HandleIdle` quits, the item (and perhaps a task) outlives the run, against
  `scheduler.cc:55-56` and the CHECK in `CleanupAfterRun`.  So it can when one thread
  closes the inputs while another one is adding a packet (`closeAllInputs` and `addPacket` in the budgets of two threads, in a graph without sources), which
  `calculator_graph.h:281-282` forbids only for closing the same stream.  Without errors, sources and pauses, and with one such thread, the property
  holds (`WaitsAreSound`).
* **`MCInOrderOutput_close.cfg`** (`NoSendingAfterClose`).  `input_stream_handler.cc:202-204` says that no context is prepared for `Close()` while a parallel
  invocation is in progress.  The test is `HasActiveContexts()`, which is false as soon as the propagation thread has recycled the
  last context; that thread then goes on to propagate a timestamp bound (only with an offset).  If `CloseNode` sends `Done`
  between the thread's look at the output stream (`output_stream_handler.cc:131-132`) and its `SetNextTimestampBound`, the bound
  downstream would decrease and an error is returned (`input_stream_manager.h:104`), which ends the run.  `RefusedOnlyAfterClose`, a part of
  `PropagationSound`, shows that this is the only way to be refused.
* **`MCThrottling_grow.cfg`** (`LimitsOnlyGrow`).  `UnthrottleSources` is to grow full queues, because queue sizes do not change while everything is
  throttled (`calculator_graph.cc:1208-1212`).  They do when a graph input that is *not* throttled gets a packet: a full queue is
  noted, a packet is popped from it, and its size plus one becomes the limit, which may be lower than the one it had
  and stays so for the rest of the run.  Nothing gets stuck by it: `AddReturns` holds.
* **`MCGraphOutputs_lost.cfg`** (`EveryPacketObserved`).  The last check of `OutputStreamObserver::Notify` compares timestamps
  (`graph_output_stream.cc:104`) and not whether the stream was empty.  If a thread notifies of the bound 2, and a packet with timestamp 2
  arrives before the check, its thread leaves because `notifying_` is set, and the other finds the timestamp it knows and
  leaves too: the packet is never observed, against `calculator_graph.h:152`.  Bounds and packets of one stream are sent by one
  thread at a time except in the overlap of `MCInOrderOutput_close.cfg`, so both are needed.
* **`MCInputStreams_fixed.cfg`** (`FilledAtAllowed`).  `FillInputSet` of the fixed-size handler computes the input timestamp anew (line 211), and takes for a stream without packets "the latest timestamp
  allowed before a bound" (`fixed_size_input_stream_handler.cc:90`), which for a bound out of the range is the bound itself (line 92).  When a node that
  processes timestamp bounds is ready at a settled timestamp without a packet, and the nodes upstream close its streams before `FillInputSet`, the timestamp is
  `Done`, and `CHECK(input_timestamp.IsAllowedInStream())` (`input_stream_handler.cc:407`) fails.  Without timestamp bounds one of the streams has a
  packet, and the CHECK holds (`input_streams`).

Smaller ones, seen while modelling; the models do what the code does.

* After a callback of an observer has failed, `notifying_` stays set, and no later packet is observed, in this run or in the next; neither it,
  `last_processed_ts_` nor the poller's `output_timestamp_` is reset between runs, so that bounds are reported only in the first one.
* `WaitForObservedOutput` is to "wait until a packet is emitted" (`calculator_graph.h:236`); it also returns OK for a bound and for the
  closing of a stream.
* In a node with the fixed-size handler a packet at `PreStream` may be erased as surplus, and then an input set is taken at the least timestamp of the range
  though another stream may still send a packet there, which is refused: there is nothing before that timestamp for `PreviousAllowedInStream` (line 92) to return.
* A sync-set node with `process_timestamps` may pass over the packet of a set that is ready but not the earliest; there, and in a
  timestamp-align node whose base stream is done before the offsets are known, done streams do not lead to closing
  (`ForgetsStreams` leaves both out of `DoneStreamsClose`).
* `WaitForGlFinishCountPast` signals the condition variable of the context that is waited *on* without that context's mutex, so that a
  signal can fall between the test and the wait.  It is harmless: the finish task that was posted before wakes the thread (`WaitsEnd`).
* A null consumer of the texture converter gets no frame, but one is taken from the pool and never given back.  `releaseGl` tests and
  removes available frames without the lock under which they are returned, and `remove` may throw.  A frame that is surplus after the looper
  has quit is not deleted, because `post` fails.

## 7. What is not modelled

* **In the modelled parts.**  Tasks run on the application's own thread; nodes with neither input nor output streams, which close as soon as they are open;
  the validation of contracts; timers and the profiler; side packets other than as things a node awaits before it opens.
  In `Scheduler`, the other reason for which `HandleIdle` unthrottles, `throttled_graph_input_stream_count_ > 0` (`scheduler.cc:157`): `Throttling` has it.
  Pausing a graph with a throttled source is left out of the run `pause`, not of the module nor of the theorems.
  In `Throttling`: graph output streams, whose queues are never enlarged; `report_deadlock`; the wait of a graph that is being
  cancelled; source layers (every source is open and active); the limit of the whole graph is set, so that sources are
  tested (`IsNodeThrottled`).  A graph input is closed only after its last packet.
  A second run of the same graph is modelled only for graph outputs (elsewhere each run starts from `Reset`); there the closing of the mirrors and the
  resetting of `has_error_`, several steps of `CleanupAfterRun` that only the thread in it takes, are one action (`CleanUpMirrors`).
  The base stream of a timestamp-align handler, which the graph may choose, is always stream 1: the names of its streams mean nothing to this handler, and
  any other choice is the same up to renaming.
  In `InputStreams`: batches and late preparation of input sets, headers, and parallel invocations; in `GraphOutputs`: limits of the poller's
  queue with their callbacks, `Reset`, and more than one thread that polls; in `GlContexts`: fences, `Run`, contexts without a dedicated thread and
  their destruction; in `TextureFrames`: a `FrameProcessor` whose graph is gone, exceptions that nobody listens for, and `legacyInUse`.
* **Executors** are external: a bag of tasks per queue, taken in any order by any worker.
* **Everything marked "not modelled"** in section 1: configuration and validation are sequential
  translations before a run starts; the calculators for images, models, OpenGL and Objective-C
  are numerical code and platform glue without shared state of their own.

## 8. Plan

In the order of importance.  Done: `Scheduler`, `SchedulerQueue`, `CalculatorNode` and `Throttling` with their proof modules,
`OrderedOutput` (what `InOrderOutput` implements), `InputStreams` with `InputStreamManager` and `Timestamps`,
`InOrderOutput` with the proofs of its invariants and of the refinement, `GraphOutputs`, `GlContexts` with its proof module,
`TextureFrames`, `GraphOutputs` and the safety of `Scheduler` with their proof modules, and that of `InputStreams`, but for the input sets of one of its eight handlers.

1. The proof of `InputSetsSound` for the fixed-size handler of `InputStreams`.
2. The limits of a poller's queue, with the throttling they cause.
3. The flow limiter with the FINISHED back edge of the face-effect graph, the switch container and the pool of GPU buffers.

A new module gets one passing run that checks its type invariant, its safety properties and one
liveness property together.
