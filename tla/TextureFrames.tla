---------------------------- MODULE TextureFrames ----------------------------
(***************************************************************************)
(* The way of a camera frame into a graph: the GL thread of an             *)
(* ExternalTextureConverter copies it into a texture of its pool, a        *)
(* FrameProcessor wraps the texture in a packet, GL contexts of the graph  *)
(* read it, and whoever drops the last reference to the packet releases    *)
(* the texture, with a sync token for the reads that the GPU has still to  *)
(* do.  The application resizes the pool, changes the camera and the       *)
(* consumers and closes the converter meanwhile.                           *)
(***************************************************************************)
EXTENDS Integers, Sequences, FiniteSets, SequencesExt

CONSTANTS
    Frames,        \* bound: the texture objects that can exist at a time
    Readers,      \* the GL contexts of the graph
    Surfaces,      \* surface textures, each with a size of its own
    FirstSurface,
    PoolSizes, MaxSizes,  \* what the application sets; a max size of 0 is none
    FirstPoolSize, FirstMaxSize,
    MaxTimestamp,  \* bound: the timestamps of the camera
    MaxFrames,     \* bound: how many frames the camera announces
    MaxCalls       \* bound: how many calls the application makes

ASSUME TextureAssumption ==
    /\ FirstSurface \in Surfaces
    /\ PoolSizes \cup MaxSizes \cup {FirstPoolSize, FirstMaxSize} \subseteq Nat
    /\ MaxTimestamp \in Nat /\ MaxFrames \in Nat /\ MaxCalls \in Nat

VARIABLES
    \* RenderThread
    posts,            \* the messages of its handler
    stage, todo, frame,  \* where it is, the consumers still to serve, its outputFrame
    surfaceTexture, destination, consumers, quitting,
    framesAvailable, framesInUse, bufferPoolSize, bufferPoolMaxSize,
    nextFrameTimestampOffset, previousTimestamp,  \* previousTimestamp is -1 if not valid
    \* AppTextureFrame
    exists, size, inUse, releaseSyncToken,
    \* FrameProcessor, the graph and the GPU
    held,             \* textures wrapped in a packet that is alive
    consumerSync,     \* contexts with a sync point in consumer_multi_sync_
    gpuReads,         \* contexts with reads that the GPU has not executed
    releasing,        \* released, and not yet given back to the pool
    lost,             \* filled for a null consumer
    \* bounds
    arrived, calls

frameVars == <<exists, size, inUse, releaseSyncToken>>
poolVars == <<framesAvailable, framesInUse>>
graphVars == <<held, consumerSync, gpuReads, releasing, lost>>
glVars == <<stage, todo, frame>>
timeVars == <<nextFrameTimestampOffset, previousTimestamp>>
appVars == <<consumers, quitting, bufferPoolSize, bufferPoolMaxSize, arrived, calls>>
cameraVars == <<surfaceTexture, destination>>
textureVars == <<posts, glVars, cameraVars, appVars, poolVars, timeVars, frameVars, graphVars>>

Larger(a, b) == IF a < b THEN b ELSE a

\* A null reference is the empty set, another one a set of one element.
NoToken == {}
TokenFor(contexts) == {contexts}

Processor == "processor"
Null == "null"

RenderOf(s) == [kind |-> "renderNext", of |-> s]
SurfaceOf(s) == [kind |-> "setSurfaceTexture", of |-> s]
TeardownOf(f) == [kind |-> "teardownFrame", of |-> f]

TextureInit ==
    /\ posts = <<>> /\ stage = "loop" /\ todo = <<>> /\ frame = {}
    /\ surfaceTexture = FirstSurface /\ destination = FirstSurface
    /\ consumers \in {<<Processor>>, <<Processor, Processor>>} /\ quitting = FALSE
    /\ framesAvailable = <<>> /\ framesInUse = 0
    /\ bufferPoolSize = FirstPoolSize /\ bufferPoolMaxSize = FirstMaxSize
    /\ nextFrameTimestampOffset = 0 /\ previousTimestamp = -1
    /\ exists = {} /\ size = [f \in Frames |-> FirstSurface]
    /\ inUse = [f \in Frames |-> FALSE]
    /\ releaseSyncToken = [f \in Frames |-> NoToken]
    /\ held = {} /\ consumerSync = [f \in Frames |-> {}]
    /\ gpuReads = [f \in Frames |-> {}]
    /\ releasing = {} /\ lost = {}
    /\ arrived = 0 /\ calls = 0

-----------------------------------------------------------------------------
(* The pool.                                                               *)

\* handler.post fails once the looper is quitting.
Posted(messages) == IF quitting THEN posts ELSE posts \o messages

\* Mutant: the frames in use do not count against the pool size.
PoolFrameKept(f) ==
    LET returned == Append(framesAvailable, f)
        surplus == Larger(Len(returned) - bufferPoolSize, 0)
    IN
    /\ framesInUse' = framesInUse - 1
    /\ framesAvailable' = SubSeq(returned, surplus + 1, Len(returned))
    /\ posts' = Posted([i \in 1..surplus |-> TeardownOf(returned[i])])

\* poolFrameReleased, a critical section of the RenderThread object: the frame is
\* available, and the oldest frames are torn down while there are too many.
PoolFrameReleased(f) ==
    LET returned == Append(framesAvailable, f)
        keep == Larger(bufferPoolSize - (framesInUse - 1), 0)
        surplus == Larger(Len(returned) - keep, 0)
    IN
    /\ framesInUse' = framesInUse - 1
    /\ framesAvailable' = SubSeq(returned, surplus + 1, Len(returned))
    /\ posts' = Posted([i \in 1..surplus |-> TeardownOf(returned[i])])

\* A new texture object, of the destination size.  A name may be used again when
\* the GPU has finished with the object that had it.
CreateFrame(others) ==
    \E f \in Frames \ others :
        /\ gpuReads[f] = {}
        /\ frame' = {f}
        /\ exists' = others \cup {f}
        /\ size' = [size EXCEPT ![f] = destination]
        /\ inUse' = [inUse EXCEPT ![f] = FALSE]
        /\ releaseSyncToken' = [releaseSyncToken EXCEPT ![f] = NoToken]

-----------------------------------------------------------------------------
(* The GL thread.                                                          *)

HandleMessage ==
    /\ stage = "loop"
    /\ posts # <<>>
    /\ LET m == Head(posts) IN
       /\ posts' = Tail(posts)
       /\ \/ /\ m.kind = "renderNext" /\ m.of = surfaceTexture /\ consumers # <<>>
             /\ stage' = "next" /\ todo' = consumers
             /\ UNCHANGED <<exists, cameraVars>>
          \/ /\ m.kind = "renderNext" /\ (m.of # surfaceTexture \/ consumers = <<>>)
             /\ UNCHANGED <<stage, todo, exists, cameraVars>>
          \/ /\ m.kind = "setSurfaceTexture"
             /\ surfaceTexture' = m.of /\ destination' = m.of
             /\ UNCHANGED <<stage, todo, exists>>
          \/ /\ m.kind = "teardownFrame"
             /\ exists' = exists \ {m.of}
             /\ UNCHANGED <<stage, todo, cameraVars>>
    /\ UNCHANGED <<frame, appVars, poolVars, timeVars, size, inUse, releaseSyncToken,
                   graphVars>>

LimitReached ==
    bufferPoolMaxSize > 0 /\ framesInUse >= Larger(bufferPoolMaxSize, bufferPoolSize)

\* nextOutputFrame up to the wait: the critical section, and a new frame if there
\* is none; renderNext ends when the pool is at its limit.
NextOutputFrame ==
    /\ stage = "next"
    /\ \/ /\ framesAvailable # <<>>
          /\ frame' = {Head(framesAvailable)}
          /\ framesAvailable' = Tail(framesAvailable)
          /\ framesInUse' = framesInUse + 1
          /\ stage' = "wait"
          /\ UNCHANGED <<todo, frameVars>>
       \/ /\ framesAvailable = <<>> /\ LimitReached
          /\ stage' = "loop" /\ todo' = <<>>
          /\ UNCHANGED <<frame, poolVars, frameVars>>
       \/ /\ framesAvailable = <<>> /\ ~LimitReached
          /\ framesInUse' = framesInUse + 1
          /\ CreateFrame(exists)
          /\ stage' = "update"
          /\ UNCHANGED <<todo, framesAvailable>>
    /\ UNCHANGED <<posts, cameraVars, appVars, timeVars, graphVars>>

\* waitUntilReleasedWithGpuSync: the frame is released, and what the GL thread
\* asks of the GPU from now on comes after what the token stands for.
CanGoOn(f) == /\ inUse[f] => releaseSyncToken[f] # NoToken
              /\ \A contexts \in releaseSyncToken[f] : contexts \cap gpuReads[f] = {}

\* The rest of nextOutputFrame; a frame of another size is replaced.
WaitUntilReleased ==
    /\ stage = "wait"
    /\ \E f \in frame :
          /\ CanGoOn(f)
          /\ \/ /\ size[f] = destination
                /\ inUse' = IF releaseSyncToken[f] = NoToken THEN inUse
                            ELSE [inUse EXCEPT ![f] = FALSE]
                /\ releaseSyncToken' = [releaseSyncToken EXCEPT ![f] = NoToken]
                /\ UNCHANGED <<frame, exists, size>>
             \/ /\ size[f] # destination
                /\ CreateFrame(exists \ {f})
    /\ stage' = "update"
    /\ UNCHANGED <<posts, todo, cameraVars, appVars, poolVars, timeVars, graphVars>>

\* Mutant: a frame of the same time is not late.
IsEarlier(timestamp) == previousTimestamp # -1 /\ timestamp < previousTimestamp

IsLate(timestamp) == previousTimestamp # -1 /\ timestamp <= previousTimestamp

\* updateOutputFrame: the pixels are overwritten and the timestamp is adjusted.
UpdateOutputFrame ==
    /\ stage = "update"
    /\ \E textureTimestamp \in 0..MaxTimestamp :
          LET offset == IF IsLate(textureTimestamp + nextFrameTimestampOffset)
                        THEN previousTimestamp + 1 - textureTimestamp
                        ELSE nextFrameTimestampOffset
          IN /\ nextFrameTimestampOffset' = offset
             /\ previousTimestamp' = textureTimestamp + offset
    /\ stage' = "give"
    /\ UNCHANGED <<posts, todo, frame, cameraVars, appVars, poolVars, frameVars, graphVars>>

\* The next consumer, or the end of renderNext.
ToNextConsumer ==
    /\ frame' = {}
    /\ todo' = Tail(todo)
    /\ stage' = IF Len(todo) = 1 THEN "loop" ELSE "next"

\* onNewFrame of a FrameProcessor that can make a packet and add it to the graph.
Accept(f) ==
    /\ Head(todo) = Processor
    /\ inUse' = [inUse EXCEPT ![f] = TRUE]
    /\ releaseSyncToken' = [releaseSyncToken EXCEPT ![f] = NoToken]
    /\ held' = held \cup {f}
    /\ consumerSync' = [consumerSync EXCEPT ![f] = {}]
    /\ ToNextConsumer
    /\ UNCHANGED <<releasing, lost>>

\* Mutant: the frame is released with the packet that could not be added, and
\* once more on its own.
RefuseTwice(f) ==
    /\ Head(todo) = Processor
    /\ inUse' = [inUse EXCEPT ![f] = TRUE]
    /\ releaseSyncToken' = [releaseSyncToken EXCEPT ![f] = TokenFor({})]
    /\ releasing' = releasing \cup {f}
    /\ stage' = "return"
    /\ UNCHANGED <<todo, frame, held, consumerSync, lost>>

\* If it cannot make the packet it releases the frame, and if it cannot add the
\* packet it drops it, which releases the frame with a token for no reads.
Refuse(f) ==
    /\ Head(todo) = Processor
    /\ \/ /\ inUse' = [inUse EXCEPT ![f] = FALSE]
          /\ releaseSyncToken' = [releaseSyncToken EXCEPT ![f] = NoToken]
       \/ /\ inUse' = [inUse EXCEPT ![f] = TRUE]
          /\ releaseSyncToken' = [releaseSyncToken EXCEPT ![f] = TokenFor({})]
    /\ stage' = "return"
    /\ UNCHANGED <<todo, frame, held, consumerSync, releasing, lost>>

\* A null consumer gets nothing, and nobody has the frame.
GiveToNobody(f) ==
    /\ Head(todo) = Null
    /\ lost' = lost \cup {f}
    /\ ToNextConsumer
    /\ UNCHANGED <<inUse, releaseSyncToken, held, consumerSync, releasing>>

\* setInUse and onNewFrame.
Give ==
    /\ stage = "give"
    /\ \E f \in frame : Accept(f) \/ Refuse(f) \/ GiveToNobody(f)
    /\ UNCHANGED <<posts, cameraVars, appVars, poolVars, timeVars, exists, size, gpuReads>>

\* The second half of a release that happens on this thread.
ReturnFrame ==
    /\ stage = "return"
    /\ \E f \in frame : PoolFrameReleased(f)
    /\ ToNextConsumer
    /\ UNCHANGED <<cameraVars, appVars, timeVars, frameVars, graphVars>>

\* The looper has quit; releaseGl tears down the available frames, without the
\* lock of the pool between the test and the removal.
ReleaseGl ==
    /\ \/ stage = "loop" /\ quitting /\ posts = <<>>
       \/ stage = "releaseGl"
    /\ stage' = IF framesAvailable = <<>> THEN "ended" ELSE "remove"
    /\ UNCHANGED <<posts, todo, frame, cameraVars, appVars, poolVars, timeVars, frameVars,
                   graphVars>>

\* ArrayDeque.remove throws when the queue is empty.
RemoveFrame ==
    /\ stage = "remove"
    /\ \/ /\ framesAvailable # <<>>
          /\ exists' = exists \ {Head(framesAvailable)}
          /\ framesAvailable' = Tail(framesAvailable)
          /\ stage' = "releaseGl"
       \/ /\ framesAvailable = <<>>
          /\ stage' = "threw"
          /\ UNCHANGED <<exists, framesAvailable>>
    /\ UNCHANGED <<posts, todo, frame, cameraVars, appVars, framesInUse, timeVars, size, inUse,
                   releaseSyncToken, graphVars>>

GlThread == \/ HandleMessage \/ NextOutputFrame \/ WaitUntilReleased \/ UpdateOutputFrame
            \/ Give \/ ReturnFrame \/ ReleaseGl \/ RemoveFrame

-----------------------------------------------------------------------------
(* The graph and the GPU.                                                  *)

\* A calculator reads the texture with its context: GetReadView, GL commands, and
\* DidRead with a sync point when the view is detached.
Read(f, c) ==
    /\ f \in held /\ c \notin consumerSync[f]
    /\ gpuReads' = [gpuReads EXCEPT ![f] = @ \cup {c}]
    /\ consumerSync' = [consumerSync EXCEPT ![f] = @ \cup {c}]
    /\ UNCHANGED <<posts, glVars, cameraVars, appVars, poolVars, timeVars, frameVars, held,
                   releasing, lost>>

GpuExecutes(f, c) ==
    /\ c \in gpuReads[f]
    /\ gpuReads' = [gpuReads EXCEPT ![f] = @ \ {c}]
    /\ UNCHANGED <<posts, glVars, cameraVars, appVars, poolVars, timeVars, frameVars, held,
                   consumerSync, releasing, lost>>

\* Mutant: the token is made without the sync points of the consumers.
ReleaseWithoutSync(f) ==
    /\ f \in held
    /\ held' = held \ {f}
    /\ releasing' = releasing \cup {f}
    /\ releaseSyncToken' = [releaseSyncToken EXCEPT ![f] = TokenFor({})]
    /\ UNCHANGED <<posts, glVars, cameraVars, appVars, poolVars, timeVars, exists, size, inUse,
                   consumerSync, gpuReads, lost>>

\* The last reference is dropped: ~GlTextureBuffer calls release(syncToken), whose
\* first half is that of AppTextureFrame.
Release(f) ==
    /\ f \in held
    /\ held' = held \ {f}
    /\ releasing' = releasing \cup {f}
    /\ releaseSyncToken' = [releaseSyncToken EXCEPT ![f] = TokenFor(consumerSync[f])]
    /\ UNCHANGED <<posts, glVars, cameraVars, appVars, poolVars, timeVars, exists, size, inUse,
                   consumerSync, gpuReads, lost>>

GiveBack(f) ==
    /\ f \in releasing
    /\ releasing' = releasing \ {f}
    /\ PoolFrameReleased(f)
    /\ UNCHANGED <<glVars, cameraVars, appVars, timeVars, frameVars, held, consumerSync,
                   gpuReads, lost>>

Graph == \E f \in Frames : \/ Release(f) \/ GiveBack(f)
                           \/ \E c \in Readers : Read(f, c) \/ GpuExecutes(f, c)

-----------------------------------------------------------------------------
(* The camera and the application.                                         *)

\* onFrameAvailable, of the current surface texture or of the one before it.
OnFrameAvailable(s) ==
    /\ arrived < MaxFrames /\ arrived' = arrived + 1
    /\ posts' = Posted(<<RenderOf(s)>>)
    /\ UNCHANGED <<glVars, cameraVars, consumers, quitting, bufferPoolSize, bufferPoolMaxSize,
                   calls, poolVars, timeVars, frameVars, graphVars>>

\* renderNext holds the lock of the consumers.
Rendering == stage \in {"next", "wait", "update", "give", "return"}

ApplicationCall ==
    /\ calls < MaxCalls /\ calls' = calls + 1
    /\ \/ /\ \E n \in PoolSizes : bufferPoolSize' = n
          /\ UNCHANGED <<bufferPoolMaxSize, consumers, destination, posts>>
       \/ /\ \E n \in MaxSizes : bufferPoolMaxSize' = n
          /\ UNCHANGED <<bufferPoolSize, consumers, destination, posts>>
       \/ /\ \E s \in Surfaces : destination' = s
          /\ UNCHANGED <<bufferPoolSize, bufferPoolMaxSize, consumers, posts>>
       \/ /\ \E s \in Surfaces : posts' = Posted(<<SurfaceOf(s)>>)
          /\ UNCHANGED <<bufferPoolSize, bufferPoolMaxSize, consumers, destination>>
       \/ /\ ~Rendering
          /\ \E consumer \in {Processor, Null} :
               consumers' \in {<<consumer>>, Append(consumers, consumer),
                               RemoveFirst(consumers, consumer)}
          /\ UNCHANGED <<bufferPoolSize, bufferPoolMaxSize, destination, posts>>
    /\ UNCHANGED <<glVars, surfaceTexture, quitting, arrived, poolVars, timeVars, frameVars,
                   graphVars>>

\* close: quitSafely, and the calling thread waits for the GL thread.
Close ==
    /\ ~quitting /\ quitting' = TRUE
    /\ UNCHANGED <<posts, glVars, cameraVars, consumers, bufferPoolSize, bufferPoolMaxSize,
                   arrived, calls, poolVars, timeVars, frameVars, graphVars>>

TextureNext == GlThread \/ Graph \/ ApplicationCall \/ Close
        \/ \E s \in Surfaces : OnFrameAvailable(s)

TextureSpec == TextureInit /\ [][TextureNext]_textureVars

-----------------------------------------------------------------------------
Available == ToSet(framesAvailable)

\* Posted to be torn down.
Doomed == {f \in Frames : \E i \in 1..Len(posts) : posts[i] = TeardownOf(f)}

TexturesTyped ==
    /\ stage \in {"loop", "next", "wait", "update", "give", "return", "releaseGl",
               "remove", "ended", "threw"}
    /\ todo \in Seq({Processor, Null}) /\ consumers \in Seq({Processor, Null})
    /\ frame \subseteq exists /\ Cardinality(frame) <= 1
    /\ frame = {} <=> stage \in {"loop", "next", "releaseGl", "remove", "ended", "threw"}
    /\ surfaceTexture \in Surfaces /\ destination \in Surfaces
    /\ framesInUse \in Nat /\ previousTimestamp \in Nat \cup {-1}
    /\ exists \subseteq Frames /\ held \subseteq exists /\ releasing \subseteq exists
    /\ size \in [Frames -> Surfaces] /\ inUse \in [Frames -> BOOLEAN]
    /\ \A f \in Frames : releaseSyncToken[f] \in {NoToken} \cup
                            {TokenFor(s) : s \in SUBSET Readers}

\* A texture is in the pool, on its way through the GL thread, with a consumer,
\* posted to be deleted, or given up when the looper quits, and nowhere twice;
\* framesInUse counts those that are out, lost ones included; the pool never holds
\* more than the largest size it was given, nor lets more than the limit out; and
\* the wait for the CPU to release a frame of the pool "completes immediately".
FramesAccounted ==
    LET out == held \cup releasing \cup lost \cup frame IN
    /\ framesInUse = Cardinality(out)
    /\ Cardinality(Available) = Len(framesAvailable)
    /\ Available \cup out \cup Doomed \subseteq exists
    /\ Available \cap (out \cup Doomed) = {} /\ Doomed \cap out = {}
    /\ framesAvailable # <<>> =>
         \E n \in PoolSizes \cup {FirstPoolSize} : Len(framesAvailable) + framesInUse <= n
    /\ 0 \notin MaxSizes \cup {FirstMaxSize} =>
         \E n \in PoolSizes \cup MaxSizes \cup {FirstPoolSize, FirstMaxSize} : framesInUse <= n
    /\ \A f \in Available \cup (IF stage = "wait" THEN frame ELSE {}) :
         inUse[f] => releaseSyncToken[f] # NoToken

\* The GL thread renders into a texture only when no packet holds it and the GPU
\* has executed all reads of it, whichever contexts read it and whoever released it.
NeverOverwritten ==
    [][stage = "update" /\ stage' # "update" =>
         \A f \in frame : f \notin held \cup releasing /\ gpuReads[f] = {}]_textureVars

\* Consumers see timestamps that increase, though the camera is changed or restarts
\* its clock and a frame is copied for each of several consumers.
TimestampsIncrease ==
    [][stage = "update" /\ stage' # "update" => previousTimestamp' > previousTimestamp]_textureVars
=============================================================================
