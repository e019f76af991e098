------------------------ MODULE Scheduler_invariant -------------------------
(***************************************************************************)
(* The inductive invariant of Scheduler, for any graph, queues, threads.   *)
(*                                                                         *)
(* The argument: a call stack says what a thread has still to do, and two  *)
(* frames that must not wait for one another are never in one stack, as    *)
(* Fits says of a frame and of those under it (StacksOK).  Whoever is in   *)
(* HandleIdle found handling_idle_ at zero, so there is one                *)
(* (HandlerAlone), and only it stops queues that run (RunningExact).  A    *)
(* node is to be opened in one place and in flight in one place: in a      *)
(* queue or in the stack of one thread (NodesSound).  A source moves from  *)
(* unopened_sources_ to sources_queue_ to active_sources_, and a layer is  *)
(* taken up only when the one before it has been closed (SourcesSound).  A *)
(* task of a queue is with the executor, in the queue or held by a thread  *)
(* (TasksCounted).                                                         *)
(*                                                                         *)
(* This module says for every action what becomes of the stack of its      *)
(* thread (gone and come of Turns), and that nodes, sources and tasks are  *)
(* then as they have to be; Scheduler_proofs puts it together.             *)
(***************************************************************************)
EXTENDS Scheduler, FiniteSetTheorems, WellFoundedInduction, SequenceTheorems, TLAPS

-----------------------------------------------------------------------------
(* Frames and call stacks. *)

NodeLabels == {"open", "opened", "toSourcesQueue", "run", "close", "end", "finish"}
PlainLabels == {"handleIdle", "unthrottle", "endOfTurn", "lock", "stopQueues", "startQueues",
                "callTrue", "addedPacket", "closedAll", "stopSources"}
TaskLabels == {"callFalse", "addTask"}
AddLabels == {"add", "push"} \cup TaskLabels
\* The calls of the application, those of them in which nodes are added, and all
\* calls in which they are.
AppLabels == {"addedPacket", "closedAll", "stopSources"}
FeedLabels == {"addedPacket", "closedAll"}
AddingLabels == NodeLabels \cup FeedLabels \cup {"lock"}
Turn == {"handleIdle", "unthrottle", "endOfTurn"}
LayerLabels == {"stopQueues", "activate", "startQueues"}
HandlerLabels == Turn \cup {"lock"} \cup LayerLabels
\* What is under a frame is never in the middle of one of these calls.
TopLabels == {"add", "push", "callFalse", "callTrue"}

Frames ==
  [at : PlainLabels] \cup [at : NodeLabels, node : Nodes]
  \cup [at : {"add"}, todo : SUBSET Item]
  \cup [at : {"push"}, todo : SUBSET Item, item : Item]
  \cup [at : TaskLabels, todo : SUBSET Item, q : Queues, tasks : Nat]
  \cup [at : {"activate"}, i : Nat \ {0}]
  \cup [at : {"submit"}, qs : SUBSET Queues]

OpenItem(n) == [node |-> n, kind |-> "open"]

\* The frame f is to open n, or opens it.
Opens(f, n) ==
  \/ f.at \in AddLabels /\ OpenItem(n) \in f.todo
  \/ f.at = "push" /\ f.item = OpenItem(n)
  \/ f.at \in {"open", "opened", "toSourcesQueue"} /\ f.node = n
\* It has n in flight: it pushes n to be run, or runs it.
Runs(f, n) ==
  \/ f.at = "push" /\ f.item.node = n /\ f.item.kind # "open"
  \/ f.at \in {"run", "close", "end"} /\ f.node = n

\* It has still to ask for n to be run, if n is ready then.
Asks(f, n) == f.at \in AddLabels /\ \E i \in f.todo : i.node = n /\ i.kind # "open"

\* The frames of a stack.
On(s) == {s[i] : i \in DOMAIN s}

\* A frame f of thread t may be on top of the frames R.
Fits(t, f, R) ==
  /\ f.at \in NodeLabels \cup {"callTrue"} => R = {} /\ t \in Workers
  /\ f.at \in {"close", "toSourcesQueue"} => f.node \in Sources
  /\ f.at = "push" => f.item \notin f.todo
  /\ f.at \in Turn => \A g \in R : g.at \notin HandlerLabels
  /\ f.at = "lock" =>
       /\ \E g \in R : g.at \in Turn
       /\ \A g \in R : g.at \notin LayerLabels \cup {"lock"}
  /\ f.at \in LayerLabels =>
       /\ \E g \in R : g.at = "lock"
       /\ \E g \in R : g.at = "handleIdle"
       /\ \A g \in R : g.at \notin LayerLabels
  /\ \A s \in Sources : Asks(f, s) \/ (f.at = "push" /\ Runs(f, s)) =>
       \E g \in R : g.at \in NodeLabels \cup {"lock"}
  /\ f.at \in AddLabels => \E g \in R : g.at \in AddingLabels
  /\ f.at \in FeedLabels => \A g \in R : g.at = "stopSources"
  /\ f.at \in AppLabels => t \in AppThreads
  /\ f.at = "submit" => t \in AppThreads \/ \E g \in R : g.at = "lock"
  /\ \A g \in R : g.at \notin TopLabels
  /\ \A n \in Nodes : Opens(f, n) => \A g \in R : ~Opens(g, n)
  /\ \A n \in Nodes : Runs(f, n) => \A g \in R : ~Runs(g, n)

Under(s, i) == {s[j] : j \in i + 1 .. Len(s)}
WellStacked(t, s) ==
  s \in Seq(Frames) /\ \A i \in DOMAIN s : Fits(t, s[i], Under(s, i))

LEMMA Cons ==
  ASSUME NEW f \in Frames, NEW r \in Seq(Frames)
  PROVE  /\ <<f>> \o r \in Seq(Frames) /\ <<f>> \o r # <<>>
         /\ Len(<<f>> \o r) = Len(r) + 1
         /\ (<<f>> \o r)[1] = f
         /\ \A i \in 1 .. Len(r) : (<<f>> \o r)[i + 1] = r[i]
         /\ On(<<f>> \o r) = {f} \cup On(r)
<1> DEFINE s == <<f>> \o r
<1>1. <<f>> \in Seq(Frames) /\ Len(<<f>>) = 1 /\ <<f>>[1] = f
  OBVIOUS
<1>2. Len(r) \in Nat /\ DOMAIN r = 1 .. Len(r)
  BY LenProperties
<1>3. /\ s \in Seq(Frames) /\ Len(s) = 1 + Len(r)
      /\ \A i \in 1 .. 1 + Len(r) : s[i] = IF i <= 1 THEN <<f>>[i] ELSE r[i - 1]
  BY <1>1, ConcatProperties
<1>4. DOMAIN s = 1 .. Len(r) + 1
  BY <1>2, <1>3, LenProperties
<1>5. s[1] = f /\ \A i \in 1 .. Len(r) : s[i + 1] = r[i]
  BY <1>1, <1>2, <1>3
<1>6. On(s) = {f} \cup On(r)
  <2>1. ASSUME NEW i \in DOMAIN s PROVE s[i] \in {f} \cup On(r)
    <3>1. CASE i = 1
      BY <3>1, <1>5
    <3>2. CASE i # 1
      <4>1. i - 1 \in 1 .. Len(r) /\ (i - 1) + 1 = i
        BY <3>2, <1>2, <1>4
      <4> QED
        BY <4>1, <1>2, <1>5 DEF On
    <3> QED
      BY <3>1, <3>2
  <2>2. f \in On(s)
    <3>1. 1 \in DOMAIN s
      BY <1>2, <1>4
    <3> QED
      BY <3>1, <1>5 DEF On
  <2>3. ASSUME NEW i \in DOMAIN r PROVE r[i] \in On(s)
    <3>1. i + 1 \in DOMAIN s /\ s[i + 1] = r[i]
      BY <1>2, <1>4, <1>5
    <3> QED
      BY <3>1 DEF On
  <2> HIDE DEF s
  <2> QED
    BY <2>1, <2>2, <2>3 DEF On
<1> QED
  BY <1>2, <1>3, <1>5, <1>6

LEMMA Split ==
  ASSUME NEW s \in Seq(Frames), s # <<>>
  PROVE  /\ Head(s) \in Frames /\ Tail(s) \in Seq(Frames)
         /\ Len(s) = Len(Tail(s)) + 1 /\ s[1] = Head(s)
         /\ \A i \in 1 .. Len(Tail(s)) : s[i + 1] = Tail(s)[i]
         /\ s = <<Head(s)>> \o Tail(s)
<1>1. /\ Head(s) \in Frames /\ Tail(s) \in Seq(Frames) /\ Len(Tail(s)) = Len(s) - 1
      /\ \A i \in 1 .. Len(Tail(s)) : Tail(s)[i] = s[i + 1]
  BY HeadTailProperties
<1>2. Len(s) \in Nat /\ Len(Tail(s)) \in Nat
  BY <1>1, LenProperties
<1>3. Head(s) = s[1]
  OBVIOUS
<1>4. s = <<Head(s)>> \o Tail(s)
  <2> DEFINE c == <<Head(s)>> \o Tail(s)
  <2>1. /\ c \in Seq(Frames) /\ Len(c) = Len(s) /\ c[1] = Head(s)
        /\ \A i \in 1 .. Len(Tail(s)) : c[i + 1] = s[i + 1]
    BY <1>1, <1>2, Cons
  <2>2. ASSUME NEW i \in 1 .. Len(s) PROVE s[i] = c[i]
    <3>1. CASE i = 1
      BY <3>1, <2>1, <1>3
    <3>2. CASE i # 1
      <4>1. i - 1 \in 1 .. Len(Tail(s)) /\ (i - 1) + 1 = i
        BY <3>2, <1>1, <1>2
      <4> QED
        BY <4>1, <2>1
    <3> QED
      BY <3>1, <3>2
  <2> HIDE DEF c
  <2>3. s = c
    BY <2>1, <2>2, SeqEqual
  <2> QED
    BY <2>3 DEF c
<1> QED
  BY <1>1, <1>2, <1>3, <1>4

LEMMA Empty ==
  ASSUME NEW t
  PROVE  WellStacked(t, <<>>) /\ On(<<>>) = {} /\ Len(<<>>) = 0
  BY EmptySeq DEF WellStacked, On

LEMMA UnderCons ==
  ASSUME NEW f \in Frames, NEW r \in Seq(Frames)
  PROVE  /\ DOMAIN (<<f>> \o r) = 1 .. Len(r) + 1 /\ DOMAIN r = 1 .. Len(r) /\ Len(r) \in Nat
         /\ Under(<<f>> \o r, 1) = On(r)
         /\ \A i \in 1 .. Len(r) : Under(<<f>> \o r, i + 1) = Under(r, i)
<1> DEFINE s == <<f>> \o r
<1>1. Len(r) \in Nat /\ DOMAIN r = 1 .. Len(r)
  BY LenProperties
<1>2. /\ s \in Seq(Frames) /\ Len(s) = Len(r) + 1 /\ s[1] = f
      /\ \A i \in 1 .. Len(r) : s[i + 1] = r[i]
  BY Cons
<1>3. DOMAIN s = 1 .. Len(r) + 1
  BY <1>1, <1>2, LenProperties
<1> HIDE DEF s
<1>4. ASSUME NEW i \in 0 .. Len(r)
      PROVE  Under(s, i + 1) = {r[j] : j \in i + 1 .. Len(r)}
  <2>1. ASSUME NEW j \in i + 1 .. Len(r) PROVE r[j] \in Under(s, i + 1)
    <3>1. j + 1 \in (i + 1) + 1 .. Len(s) /\ s[j + 1] = r[j]
      BY <1>1, <1>2
    <3> QED
      BY <3>1 DEF Under
  <2>2. ASSUME NEW j \in (i + 1) + 1 .. Len(s)
        PROVE  s[j] \in {r[k] : k \in i + 1 .. Len(r)}
    <3>1. j - 1 \in i + 1 .. Len(r) /\ j - 1 \in 1 .. Len(r) /\ (j - 1) + 1 = j
      BY <1>1, <1>2
    <3>2. s[j] = r[j - 1]
      BY <3>1, <1>2
    <3> QED
      BY <3>1, <3>2
  <2> QED
    BY <2>1, <2>2 DEF Under
<1>5. Under(s, 1) = On(r)
  <2>1. Under(s, 0 + 1) = {r[j] : j \in 0 + 1 .. Len(r)}
    BY <1>1, <1>4
  <2> QED
    BY <2>1, <1>1 DEF On
<1>6. ASSUME NEW i \in 1 .. Len(r) PROVE Under(s, i + 1) = Under(r, i)
  <2>1. i \in 0 .. Len(r)
    BY <1>1
  <2> QED
    BY <2>1, <1>4 DEF Under
<1> QED
  BY <1>1, <1>3, <1>5, <1>6 DEF s

LEMMA Pushes ==
  ASSUME NEW t, NEW r, WellStacked(t, r), NEW f \in Frames, Fits(t, f, On(r))
  PROVE  WellStacked(t, <<f>> \o r) /\ On(<<f>> \o r) = {f} \cup On(r)
<1> DEFINE s == <<f>> \o r
<1>1. r \in Seq(Frames) /\ \A i \in DOMAIN r : Fits(t, r[i], Under(r, i))
  BY DEF WellStacked
<1>2. /\ s \in Seq(Frames) /\ s[1] = f /\ \A i \in 1 .. Len(r) : s[i + 1] = r[i]
      /\ On(s) = {f} \cup On(r)
  BY <1>1, Cons
<1>3. /\ DOMAIN s = 1 .. Len(r) + 1 /\ DOMAIN r = 1 .. Len(r) /\ Len(r) \in Nat
      /\ Under(s, 1) = On(r) /\ \A i \in 1 .. Len(r) : Under(s, i + 1) = Under(r, i)
  BY <1>1, UnderCons
<1> HIDE DEF s
<1>4. ASSUME NEW i \in DOMAIN s PROVE Fits(t, s[i], Under(s, i))
  <2>1. CASE i = 1
    BY <2>1, <1>2, <1>3
  <2>2. CASE i # 1
    <3>1. i - 1 \in 1 .. Len(r) /\ (i - 1) + 1 = i
      BY <2>2, <1>3
    <3>2. s[i] = r[i - 1] /\ Under(s, i) = Under(r, i - 1)
      BY <3>1, <1>2, <1>3
    <3> QED
      BY <3>1, <3>2, <1>1, <1>3
  <2> QED
    BY <2>1, <2>2
<1>5. WellStacked(t, s)
  BY <1>2, <1>4 DEF WellStacked
<1> QED
  BY <1>2, <1>5 DEF s

LEMMA Pops ==
  ASSUME NEW t, NEW s, WellStacked(t, s), s # <<>>
  PROVE  /\ Head(s) \in Frames /\ WellStacked(t, Tail(s))
         /\ Fits(t, Head(s), On(Tail(s)))
         /\ On(s) = {Head(s)} \cup On(Tail(s))
<1>1. s \in Seq(Frames) /\ \A i \in DOMAIN s : Fits(t, s[i], Under(s, i))
  BY DEF WellStacked
<1> DEFINE r == Tail(s)
<1>2. /\ Head(s) \in Frames /\ r \in Seq(Frames) /\ s[1] = Head(s)
      /\ \A i \in 1 .. Len(r) : s[i + 1] = r[i]
      /\ s = <<Head(s)>> \o r
  BY <1>1, Split
<1>3. On(s) = {Head(s)} \cup On(r)
  BY <1>2, Cons
<1>4. /\ DOMAIN s = 1 .. Len(r) + 1 /\ DOMAIN r = 1 .. Len(r) /\ Len(r) \in Nat
      /\ Under(s, 1) = On(r) /\ \A i \in 1 .. Len(r) : Under(s, i + 1) = Under(r, i)
  BY <1>2, UnderCons
<1> HIDE DEF r
<1>5. Fits(t, Head(s), On(r))
  <2>1. 1 \in DOMAIN s
    BY <1>4
  <2> QED
    BY <2>1, <1>1, <1>2, <1>4
<1>6. ASSUME NEW i \in DOMAIN r PROVE Fits(t, r[i], Under(r, i))
  <2>1. i \in 1 .. Len(r) /\ i + 1 \in DOMAIN s
    BY <1>4
  <2>2. s[i + 1] = r[i] /\ Under(s, i + 1) = Under(r, i)
    BY <2>1, <1>2, <1>4
  <2> QED
    BY <2>1, <2>2, <1>1
<1>7. WellStacked(t, r)
  BY <1>2, <1>6 DEF WellStacked
<1> QED
  BY <1>2, <1>3, <1>5, <1>7 DEF r

LEMMA PushesTwo ==
  ASSUME NEW t, NEW r, WellStacked(t, r), NEW f \in Frames, NEW g \in Frames,
         Fits(t, g, On(r)), Fits(t, f, {g} \cup On(r))
  PROVE  WellStacked(t, <<f, g>> \o r) /\ On(<<f, g>> \o r) = {f, g} \cup On(r)
<1>1. WellStacked(t, <<g>> \o r) /\ On(<<g>> \o r) = {g} \cup On(r)
  BY Pushes
<1>2. /\ WellStacked(t, <<f>> \o (<<g>> \o r))
      /\ On(<<f>> \o (<<g>> \o r)) = {f} \cup On(<<g>> \o r)
  <2>1. Fits(t, f, On(<<g>> \o r))
    BY <1>1
  <2> QED
    BY <2>1, <1>1, Pushes
<1>3. <<f, g>> \o r = <<f>> \o (<<g>> \o r)
  <2>1. r \in Seq(Frames) /\ <<f>> \in Seq(Frames) /\ <<g>> \in Seq(Frames)
    BY DEF WellStacked
  <2>2. <<f, g>> = <<f>> \o <<g>>
    <3> DEFINE c == <<f>> \o <<g>>
    <3>1. c \in Seq(Frames) /\ Len(c) = 2 /\ c[1] = f /\ c[2] = g
      <4>1. <<g>> \in Seq(Frames) /\ Len(<<g>>) = 1 /\ <<g>>[1] = g
        OBVIOUS
      <4>2. 1 \in 1 .. Len(<<g>>) /\ 1 + 1 = 2
        BY <4>1
      <4> QED
        BY <4>1, <4>2, Cons
    <3> HIDE DEF c
    <3>2. <<f, g>> \in Seq(Frames) /\ Len(<<f, g>>) = 2 /\ <<f, g>>[1] = f /\ <<f, g>>[2] = g
      OBVIOUS
    <3>3. \A i \in 1 .. Len(<<f, g>>) : <<f, g>>[i] = c[i]
      BY <3>1, <3>2
    <3>4. <<f, g>> = c
      BY <3>1, <3>2, <3>3, SeqEqual
    <3> QED
      BY <3>4 DEF c
  <2> QED
    BY <2>1, <2>2, ConcatAssociative
<1> QED
  BY <1>1, <1>2, <1>3

LEMMA PushesAlone ==
  ASSUME NEW t, NEW f \in Frames, Fits(t, f, {})
  PROVE  WellStacked(t, <<f>>) /\ On(<<f>>) = {f}
<1>1. WellStacked(t, <<>>) /\ On(<<>>) = {}
  BY Empty
<1>2. WellStacked(t, <<f>> \o <<>>) /\ On(<<f>> \o <<>>) = {f}
  <2>1. Fits(t, f, On(<<>>))
    BY <1>1
  <2>2. WellStacked(t, <<f>> \o <<>>) /\ On(<<f>> \o <<>>) = {f} \cup On(<<>>)
    BY <2>1, <1>1, Pushes
  <2> QED
    BY <2>2, <1>1
<1>3. <<f>> \o <<>> = <<f>>
  <2>1. <<f>> \in Seq(Frames)
    OBVIOUS
  <2> QED
    BY <2>1, ConcatEmptySeq
<1> QED
  BY <1>2, <1>3

\* What ThenAdd and ThenSubmit put on a stack.
AddSet(items) == IF items = {} THEN {} ELSE {AddFrame(items)}
SubmitSet(qs) == IF qs = {} THEN {} ELSE {SubmitFrame(qs)}

LEMMA FramesMade ==
  /\ \A l \in PlainLabels : Frame(l) \in Frames /\ Frame(l).at = l
  /\ \A l \in NodeLabels, n \in Nodes :
       NodeFrame(l, n) \in Frames /\ NodeFrame(l, n).at = l /\ NodeFrame(l, n).node = n
  /\ \A items \in SUBSET Item :
       AddFrame(items) \in Frames /\ AddFrame(items).at = "add" /\ AddFrame(items).todo = items
  /\ \A items \in SUBSET Item, i \in Item :
       /\ PushFrame(items, i) \in Frames /\ PushFrame(items, i).at = "push"
       /\ PushFrame(items, i).todo = items /\ PushFrame(items, i).item = i
  /\ \A items \in SUBSET Item, q \in Queues, n \in Nat :
       /\ CallFalseFrame(items, q, n) \in Frames
       /\ CallFalseFrame(items, q, n).at = "callFalse" /\ CallFalseFrame(items, q, n).todo = items
       /\ CallFalseFrame(items, q, n).q = q /\ CallFalseFrame(items, q, n).tasks = n
  /\ \A items \in SUBSET Item, q \in Queues, n \in Nat :
       /\ AddTaskFrame(items, q, n) \in Frames
       /\ AddTaskFrame(items, q, n).at = "addTask" /\ AddTaskFrame(items, q, n).todo = items
       /\ AddTaskFrame(items, q, n).q = q /\ AddTaskFrame(items, q, n).tasks = n
  /\ \A i \in Nat \ {0} :
       ActivateFrame(i) \in Frames /\ ActivateFrame(i).at = "activate" /\ ActivateFrame(i).i = i
  /\ \A qs \in SUBSET Queues :
       SubmitFrame(qs) \in Frames /\ SubmitFrame(qs).at = "submit" /\ SubmitFrame(qs).qs = qs
<1> USE DEF Frames, PlainLabels, NodeLabels, TaskLabels
<1>1. \A l \in PlainLabels : Frame(l) \in Frames /\ Frame(l).at = l
  BY DEF Frame
<1>2. \A l \in NodeLabels, n \in Nodes :
       NodeFrame(l, n) \in Frames /\ NodeFrame(l, n).at = l /\ NodeFrame(l, n).node = n
  BY DEF NodeFrame
<1>3. \A items \in SUBSET Item :
       AddFrame(items) \in Frames /\ AddFrame(items).at = "add" /\ AddFrame(items).todo = items
  BY DEF AddFrame
<1>4. \A items \in SUBSET Item, i \in Item :
       /\ PushFrame(items, i) \in Frames /\ PushFrame(items, i).at = "push"
       /\ PushFrame(items, i).todo = items /\ PushFrame(items, i).item = i
  BY DEF PushFrame
<1>5. \A items \in SUBSET Item, q \in Queues, n \in Nat :
       /\ CallFalseFrame(items, q, n) \in Frames
       /\ CallFalseFrame(items, q, n).at = "callFalse" /\ CallFalseFrame(items, q, n).todo = items
       /\ CallFalseFrame(items, q, n).q = q /\ CallFalseFrame(items, q, n).tasks = n
  BY DEF CallFalseFrame
<1>6. \A items \in SUBSET Item, q \in Queues, n \in Nat :
       /\ AddTaskFrame(items, q, n) \in Frames
       /\ AddTaskFrame(items, q, n).at = "addTask" /\ AddTaskFrame(items, q, n).todo = items
       /\ AddTaskFrame(items, q, n).q = q /\ AddTaskFrame(items, q, n).tasks = n
  BY DEF AddTaskFrame
<1>7. \A i \in Nat \ {0} :
       ActivateFrame(i) \in Frames /\ ActivateFrame(i).at = "activate" /\ ActivateFrame(i).i = i
  BY DEF ActivateFrame
<1>8. \A qs \in SUBSET Queues :
       SubmitFrame(qs) \in Frames /\ SubmitFrame(qs).at = "submit" /\ SubmitFrame(qs).qs = qs
  BY DEF SubmitFrame
<1> QED
  BY <1>1, <1>2, <1>3, <1>4, <1>5, <1>6, <1>7, <1>8

LEMMA FrameFields ==
  ASSUME NEW f \in Frames
  PROVE  /\ f.at \in PlainLabels \cup NodeLabels \cup AddLabels \cup {"activate", "submit"}
         /\ f.at \in NodeLabels => f.node \in Nodes
         /\ f.at \in AddLabels => f.todo \in SUBSET Item
         /\ f.at = "push" => f.item \in Item
         /\ f.at \in TaskLabels => f.q \in Queues /\ f.tasks \in Nat
         /\ f.at = "activate" => f.i \in Nat \ {0}
         /\ f.at = "submit" => f.qs \in SUBSET Queues
  BY DEF Frames, PlainLabels, NodeLabels, AddLabels, TaskLabels

LEMMA ThenAdds ==
  ASSUME NEW t, NEW r, WellStacked(t, r), NEW items \in SUBSET Item,
         Fits(t, AddFrame(items), On(r))
  PROVE  /\ WellStacked(t, ThenAdd(items, r))
         /\ On(ThenAdd(items, r)) = AddSet(items) \cup On(r)
<1>1. AddFrame(items) \in Frames
  BY FramesMade
<1>2. /\ WellStacked(t, <<AddFrame(items)>> \o r)
      /\ On(<<AddFrame(items)>> \o r) = {AddFrame(items)} \cup On(r)
  BY <1>1, Pushes
<1> QED
  BY <1>2 DEF ThenAdd, AddSet

LEMMA ThenSubmits ==
  ASSUME NEW t, NEW r, WellStacked(t, r), NEW qs \in SUBSET Queues,
         Fits(t, SubmitFrame(qs), On(r))
  PROVE  /\ WellStacked(t, ThenSubmit(qs, r))
         /\ On(ThenSubmit(qs, r)) = SubmitSet(qs) \cup On(r)
<1>1. SubmitFrame(qs) \in Frames
  BY FramesMade
<1>2. /\ WellStacked(t, <<SubmitFrame(qs)>> \o r)
      /\ On(<<SubmitFrame(qs)>> \o r) = {SubmitFrame(qs)} \cup On(r)
  BY <1>1, Pushes
<1> QED
  BY <1>2 DEF ThenSubmit, SubmitSet

-----------------------------------------------------------------------------
(* The inductive invariant. *)

StacksOK ==
  stack \in [Threads -> Seq(Frames)] /\ \A t \in Threads : WellStacked(t, stack[t])

\* A frame of thread t.
Has(t, labels) == \E f \in On(stack[t]) : f.at \in labels

Handles(t) == Has(t, HandlerLabels)
StopsQueues(t) == Has(t, {"activate", "startQueues"})

\* handling_idle_ is not zero while some thread is in HandleIdle, and that is one.
HandlerAlone ==
  /\ handling_idle_ = 0 => \A t \in Threads : ~Handles(t)
  /\ handling_idle_ > 0 => \E t \in Threads : Handles(t)
  /\ \A t, u \in Threads : Handles(t) /\ Handles(u) => t = u
  /\ state_ = "NOT_STARTED" =>
       /\ handling_idle_ = 0 /\ \A t \in Threads : stack[t] = <<>>
       /\ \A q \in Queues : executor[q] = 0

\* The queues run while the state says so, but for the adding of a layer.
Going == IF state_ \in {"RUNNING", "CANCELLING"} THEN 1 ELSE 0
Held == IF \E t \in Threads : StopsQueues(t) THEN 1 ELSE 0
RunningExact == \A q \in Queues : sq[q].running = Going - Held

ItemsPlaced == \A q \in Queues : \A i \in sq[q].items : QueueOf[i.node] = q

\* A node is to be opened in one place, once, before it is anything else.
OpensOn(t, n) == \E f \in On(stack[t]) : Opens(f, n)
OpenQueued(n) == OpenItem(n) \in sq[QueueOf[n]].items
OpenedOnce ==
  \A n \in Nodes :
    /\ \A t, u \in Threads : OpensOn(t, n) /\ OpensOn(u, n) => t = u
    /\ \A t \in Threads : ~(OpensOn(t, n) /\ OpenQueued(n))
OpeningsPrepared ==
  \A n \in Nodes :
    /\ \A t \in Threads : \A f \in On(stack[t]) :
         Opens(f, n) =>
           /\ OpenDeps[n] \subseteq announced
           /\ f.at # "toSourcesQueue" => status[n] = "Prepared"
           /\ f.at = "toSourcesQueue" => status[n] = "Opened" /\ n \in unopened_sources_
    /\ OpenQueued(n) => OpenDeps[n] \subseteq announced /\ status[n] = "Prepared"
    /\ status[n] # "Prepared" => OpenDeps[n] \subseteq announced

\* A node is in flight in one place, and is not closed before it is there.
RunItem(n) == [node |-> n, kind |-> "run"]
RunsOn(t, n) == \E f \in On(stack[t]) : Runs(f, n)
RunQueued(n) == RunItem(n) \in sq[QueueOf[n]].items
FliesOnce ==
  \A n \in Nodes :
    /\ \A t, u \in Threads : RunsOn(t, n) /\ RunsOn(u, n) => t = u
    /\ \A t \in Threads : ~(RunsOn(t, n) /\ RunQueued(n))
    /\ \A t \in Threads : RunsOn(t, n) => inFlight[n] = 1
    /\ RunQueued(n) => inFlight[n] = 1
    /\ status[n] = "Closed" => inFlight[n] = 1
Reached(s) == status[s] \in {"Active", "Closed"}
FliesWhenOpen ==
  \A n \in Nodes :
    /\ \A t \in Threads : \A f \in On(stack[t]) :
         /\ Runs(f, n) /\ f.at # "end" => status[n] # "Closed"
         /\ Runs(f, n) /\ n \in Sources => Reached(n)
         /\ n \in Sources /\ f.at \in AddLabels /\ (\E i \in f.todo : i.node = n /\ i.kind # "open")
              => Reached(n)
    /\ RunQueued(n) => status[n] # "Closed" /\ (n \in Sources => Reached(n))

\* Every source is in the place its life cycle says.
InActive(s) == \E j \in DOMAIN active_sources_ : active_sources_[j] = s
SourcesPlaced ==
  /\ \A s \in Sources :
       /\ s \in unopened_sources_ \/ s \in sources_queue_ \/ InActive(s) \/ status[s] = "Closed"
       /\ s \in unopened_sources_ =>
            status[s] \in {"Prepared", "Opened"} /\ s \notin sources_queue_ /\ ~InActive(s)
       /\ s \in sources_queue_ => status[s] = "Opened" /\ ~InActive(s)
       /\ InActive(s) => status[s] # "Prepared"
  /\ \A j, k \in DOMAIN active_sources_ : active_sources_[j] = active_sources_[k] => j = k
  /\ \A n \in Nodes \ Sources : status[n] \in {"Prepared", "Opened"}

\* The sources that HandleIdle has still to activate are open and were never active.
LayerToActivate ==
  \A t \in Threads : \A f \in On(stack[t]) :
    /\ f.at = "stopQueues" =>
         /\ active_sources_ # <<>>
         /\ \A j \in DOMAIN active_sources_ : status[active_sources_[j]] = "Opened"
    /\ f.at = "activate" =>
         /\ f.i \in DOMAIN active_sources_
         /\ \A j \in DOMAIN active_sources_ : j >= f.i => status[active_sources_[j]] = "Opened"
LowerLayersClosed ==
  \A j \in DOMAIN active_sources_ : \A r \in Sources :
    Layer[r] < Layer[active_sources_[j]] => status[r] = "Closed"

Core ==
  /\ TypeOK /\ StacksOK /\ HandlerAlone /\ RunningExact
  /\ ItemsPlaced /\ OpenedOnce /\ OpeningsPrepared /\ FliesOnce /\ FliesWhenOpen
  /\ SourcesPlaced /\ LayerToActivate /\ LowerLayersClosed /\ LayersInOrder

-----------------------------------------------------------------------------
(* What each step does to the stack of its thread. *)

Turns(t, gone, come) ==
  \E R \in SUBSET Frames :
    /\ \A u \in Threads \ {t} : stack'[u] = stack[u]
    /\ On(stack[t]) = gone \cup R /\ On(stack'[t]) = come \cup R
    /\ \A f \in gone : Fits(t, f, R)

LEMMA OnTop ==
  ASSUME StacksOK, NEW t \in Threads, stack[t] # <<>>
  PROVE  /\ Top(t) \in Frames /\ WellStacked(t, Return(t))
         /\ Fits(t, Top(t), On(Return(t)))
         /\ On(stack[t]) = {Top(t)} \cup On(Return(t))
         /\ On(Return(t)) \in SUBSET Frames
<1>1. WellStacked(t, stack[t])
  BY DEF StacksOK
<1>2. /\ Top(t) \in Frames /\ WellStacked(t, Return(t))
      /\ Fits(t, Top(t), On(Return(t)))
      /\ On(stack[t]) = {Top(t)} \cup On(Return(t))
  BY <1>1, Pops DEF Top, Return
<1>3. On(Return(t)) \in SUBSET Frames
  BY <1>2, ElementOfSeq, LenProperties DEF On, WellStacked
<1> QED
  BY <1>2, <1>3

LEMMA Replaced ==
  ASSUME StacksOK, NEW t \in Threads, NEW new, WellStacked(t, new),
         stack' = [stack EXCEPT ![t] = new]
  PROVE  /\ StacksOK' /\ stack'[t] = new
         /\ \A u \in Threads \ {t} : stack'[u] = stack[u]
<1>1. new \in Seq(Frames)
  BY DEF WellStacked
<1>2. /\ stack' \in [Threads -> Seq(Frames)] /\ stack'[t] = new
      /\ \A u \in Threads \ {t} : stack'[u] = stack[u]
  BY <1>1 DEF StacksOK
<1>3. \A u \in Threads : WellStacked(u, stack'[u])
  BY <1>2 DEF StacksOK
<1> QED
  BY <1>2, <1>3 DEF StacksOK

LEMMA Replaces ==
  ASSUME StacksOK, NEW t \in Threads, stack[t] # <<>>,
         NEW new, WellStacked(t, new), NEW come, On(new) = come \cup On(Return(t)),
         stack' = [stack EXCEPT ![t] = new]
  PROVE  StacksOK' /\ Turns(t, {Top(t)}, come)
<1>1. /\ StacksOK' /\ stack'[t] = new
      /\ \A u \in Threads \ {t} : stack'[u] = stack[u]
  BY Replaced
<1>2. /\ Fits(t, Top(t), On(Return(t))) /\ On(Return(t)) \in SUBSET Frames
      /\ On(stack[t]) = {Top(t)} \cup On(Return(t))
  BY OnTop
<1> QED
  BY <1>1, <1>2 DEF Turns

LEMMA Begins ==
  ASSUME StacksOK, NEW t \in Threads, stack[t] = <<>>,
         NEW new, WellStacked(t, new), stack' = [stack EXCEPT ![t] = new]
  PROVE  StacksOK' /\ Turns(t, {}, On(new))
<1>1. /\ StacksOK' /\ stack'[t] = new
      /\ \A u \in Threads \ {t} : stack'[u] = stack[u]
  BY Replaced
<1>2. On(stack[t]) = {} \cup {} /\ On(stack'[t]) = On(new) \cup {}
  BY <1>1, Empty
<1> QED
  BY <1>1, <1>2 DEF Turns

LEMMA FitsAdd ==
  ASSUME NEW t, NEW f, NEW R, f.at \in AddLabels, \A g \in R : g.at \notin TopLabels,
         f.at = "push" => f.item \notin f.todo, \E g \in R : g.at \in AddingLabels,
         \A s \in Sources : Asks(f, s) \/ (f.at = "push" /\ Runs(f, s)) =>
           \E g \in R : g.at \in NodeLabels \cup {"lock"},
         \A n \in Nodes : Opens(f, n) => \A g \in R : ~Opens(g, n),
         \A n \in Nodes : Runs(f, n) => \A g \in R : ~Runs(g, n)
  PROVE  Fits(t, f, R)
  BY DEF Fits, AddLabels, TaskLabels, AppLabels, FeedLabels, NodeLabels, Turn, LayerLabels

LEMMA FitsCall ==
  ASSUME NEW t, NEW f, NEW R, \A g \in R : g.at \notin TopLabels,
         \/ f.at = "submit" /\ (t \in AppThreads \/ \E g \in R : g.at = "lock")
         \/ f.at \in AppLabels /\ t \in AppThreads /\ \A g \in R : g.at = "stopSources"
  PROVE  Fits(t, f, R)
  BY DEF Fits, AddLabels, TaskLabels, AppLabels, FeedLabels, NodeLabels, Turn, LayerLabels, Opens, Runs, Asks

LEMMA FitsBase ==
  ASSUME NEW t \in Workers, NEW f, f.at \in NodeLabels \cup {"callTrue"},
         f.at \in {"close", "toSourcesQueue"} => f.node \in Sources
  PROVE  Fits(t, f, {})
  BY DEF Fits, NodeLabels, AppLabels, FeedLabels, AddLabels, TaskLabels, Turn, LayerLabels, Asks

LEMMA FitsTurn ==
  ASSUME NEW t, NEW f, NEW R, \A g \in R : g.at \notin TopLabels,
         f.at \in Turn, \A g \in R : g.at \notin HandlerLabels
  PROVE  Fits(t, f, R)
  BY DEF Fits, AddLabels, TaskLabels, AppLabels, FeedLabels, NodeLabels, Turn, LayerLabels, Opens, Runs, Asks

LEMMA FitsLock ==
  ASSUME NEW t, NEW f, NEW R, \A g \in R : g.at \notin TopLabels,
         f.at = "lock", \E g \in R : g.at \in Turn,
         \A g \in R : g.at \notin LayerLabels \cup {"lock"}
  PROVE  Fits(t, f, R)
  BY DEF Fits, AddLabels, TaskLabels, AppLabels, FeedLabels, NodeLabels, Turn, LayerLabels, Opens, Runs, Asks

LEMMA FitsLayer ==
  ASSUME NEW t, NEW f, NEW R, \A g \in R : g.at \notin TopLabels,
         f.at \in LayerLabels, \E g \in R : g.at = "lock", \E g \in R : g.at = "handleIdle",
         \A g \in R : g.at \notin LayerLabels
  PROVE  Fits(t, f, R)
  BY DEF Fits, AddLabels, TaskLabels, AppLabels, FeedLabels, NodeLabels, Turn, LayerLabels, Opens, Runs, Asks

LEMMA TopMost ==
  ASSUME StacksOK, NEW t \in Threads, NEW l, At(t, l)
  PROVE  /\ stack[t] # <<>> /\ Top(t).at = l /\ Top(t) \in On(stack[t])
         /\ Top(t) \in Frames /\ WellStacked(t, Return(t))
         /\ \A g \in On(Return(t)) : g.at \notin TopLabels
         /\ Fits(t, Top(t), On(Return(t)))
  BY OnTop DEF At, Fits

\* Only the frame of TryAddNode is popped when a node is wanted.
LEMMA TryAddNodeTurns ==
  ASSUME Core, NEW t \in Threads, TryAddNode(t)
  PROVE  /\ StacksOK' /\ Top(t) \in Frames /\ Top(t).at = "add"
         /\ \E i \in Top(t).todo :
              LET rest == Top(t).todo \ {i}
                  n == i.node
                  wanted == \/ i.kind = "open"
                            \/ /\ IsReady(n) /\ inFlight[n] = 0
                               /\ i.kind = "run" => n \notin throttled
              IN  /\ IF wanted /\ ~has_error THEN Turns(t, {Top(t)}, {PushFrame(rest, i)})
                                             ELSE Turns(t, {Top(t)}, AddSet(rest))
                  /\ inFlight' = [inFlight EXCEPT ![n] =
                                    IF wanted /\ i.kind # "open" /\ ~has_error THEN 1 ELSE @]
                  /\ ready' = [ready EXCEPT ![n] =
                                 IF wanted /\ i.kind # "open" /\ n \notin Sources THEN @ - 1 ELSE @]
<1>1. At(t, "add") /\ StacksOK /\ FliesOnce
  BY DEF TryAddNode, Core
<1>2. /\ stack[t] # <<>> /\ Top(t).at = "add" /\ Top(t) \in On(stack[t]) /\ Top(t) \in Frames
      /\ WellStacked(t, Return(t)) /\ Fits(t, Top(t), On(Return(t)))
      /\ \A g \in On(Return(t)) : g.at \notin TopLabels
  BY <1>1, TopMost
<1>3. Top(t).todo \in SUBSET Item
  BY <1>2, FrameFields DEF AddLabels
<1>4. PICK i \in Top(t).todo :
       LET rest == Top(t).todo \ {i}
           n == i.node
           wanted == \/ i.kind = "open"
                     \/ /\ IsReady(n) /\ inFlight[n] = 0
                        /\ i.kind = "run" => n \notin throttled
       IN  /\ stack' = [stack EXCEPT ![t] = IF wanted /\ ~has_error
                                              THEN <<PushFrame(rest, i)>> \o Return(t)
                                              ELSE ThenAdd(rest, Return(t))]
           /\ inFlight' = [inFlight EXCEPT ![n] =
                             IF wanted /\ i.kind # "open" /\ ~has_error THEN 1 ELSE @]
           /\ ready' = [ready EXCEPT ![n] =
                          IF wanted /\ i.kind # "open" /\ n \notin Sources THEN @ - 1 ELSE @]
  BY DEF TryAddNode
<1> DEFINE rest == Top(t).todo \ {i}
           n == i.node
           wanted == \/ i.kind = "open"
                     \/ /\ IsReady(n) /\ inFlight[n] = 0
                        /\ i.kind = "run" => n \notin throttled
<1>5. rest \in SUBSET Item /\ i \in Item /\ i \notin rest /\ n \in Nodes
  BY <1>3 DEF Item
<1>6. ASSUME NEW m \in Nodes, OpenItem(m) \in Top(t).todo
      PROVE  \A g \in On(Return(t)) : ~Opens(g, m)
  BY <1>2, <1>6 DEF Fits, Opens, AddLabels
<1>9. ASSUME NEW s \in Sources, Asks(Top(t), s)
      PROVE  \E g \in On(Return(t)) : g.at \in NodeLabels \cup {"lock"}
  BY <1>2, <1>9 DEF Fits
<1>10. \E g \in On(Return(t)) : g.at \in AddingLabels
  BY <1>2 DEF Fits, AddLabels
<1>7. CASE wanted /\ ~has_error
  <2> DEFINE f == PushFrame(rest, i)
  <2>1. f \in Frames /\ f.at = "push" /\ f.todo = rest /\ f.item = i
    BY <1>5, FramesMade
  <2>2. ASSUME NEW m \in Nodes, Opens(f, m) PROVE \A g \in On(Return(t)) : ~Opens(g, m)
    <3>1. OpenItem(m) \in Top(t).todo
      BY <2>1, <2>2 DEF Opens
    <3> QED
      BY <3>1, <1>6
  <2>3. ASSUME NEW m \in Nodes, Runs(f, m) PROVE \A g \in On(Return(t)) : ~Runs(g, m)
    <3>1. m = n /\ i.kind # "open"
      BY <2>1, <2>3 DEF Runs
    <3>2. inFlight[m] = 0
      BY <3>1, <1>7
    <3>3. ~RunsOn(t, m)
      BY <3>2, <1>1 DEF FliesOnce
    <3> QED
      BY <3>3, <1>1, <1>2, OnTop DEF RunsOn
  <2>4. Fits(t, f, On(Return(t)))
    <3>1. f.at = "push" => f.item \notin f.todo
      BY <2>1, <1>5
    <3>2. ASSUME NEW s \in Sources, Asks(f, s) \/ (f.at = "push" /\ Runs(f, s))
          PROVE  \E g \in On(Return(t)) : g.at \in NodeLabels \cup {"lock"}
      <4>1. Asks(Top(t), s)
        BY <2>1, <3>2, <1>2 DEF Asks, Runs, AddLabels
      <4> QED
        BY <4>1, <1>9
    <3> HIDE DEF f
    <3> QED
      BY <2>1, <2>2, <2>3, <1>2, <1>10, <3>1, <3>2, FitsAdd DEF AddLabels
  <2>5. WellStacked(t, <<f>> \o Return(t)) /\ On(<<f>> \o Return(t)) = {f} \cup On(Return(t))
    BY <2>1, <2>4, <1>2, Pushes
  <2>6. stack' = [stack EXCEPT ![t] = <<f>> \o Return(t)]
    BY <1>4, <1>7
  <2> HIDE DEF f
  <2>7. StacksOK' /\ Turns(t, {Top(t)}, {f})
    BY <2>5, <2>6, <1>1, <1>2, Replaces
  <2> QED
    BY <2>7, <1>2, <1>4, <1>7 DEF f
<1>8. CASE ~(wanted /\ ~has_error)
  <2> DEFINE f == AddFrame(rest)
  <2>1. f \in Frames /\ f.at = "add" /\ f.todo = rest
    BY <1>5, FramesMade
  <2>2. ASSUME NEW m \in Nodes, Opens(f, m) PROVE \A g \in On(Return(t)) : ~Opens(g, m)
    <3>1. OpenItem(m) \in Top(t).todo
      BY <2>1, <2>2 DEF Opens
    <3> QED
      BY <3>1, <1>6
  <2>3. Fits(t, f, On(Return(t)))
    <3>1. \A m : ~Runs(f, m)
      BY <2>1 DEF Runs
    <3>2. ASSUME NEW s \in Sources, Asks(f, s)
          PROVE  \E g \in On(Return(t)) : g.at \in NodeLabels \cup {"lock"}
      <4>1. Asks(Top(t), s)
        BY <2>1, <3>2, <1>2 DEF Asks, AddLabels
      <4> QED
        BY <4>1, <1>9
    <3>3. \A s \in Sources : Asks(f, s) \/ (f.at = "push" /\ Runs(f, s)) =>
            \E g \in On(Return(t)) : g.at \in NodeLabels \cup {"lock"}
      BY <3>1, <3>2
    <3>4. \A m \in Nodes : Runs(f, m) => \A g \in On(Return(t)) : ~Runs(g, m)
      BY <3>1
    <3> HIDE DEF f
    <3> QED
      BY <2>1, <2>2, <1>2, <1>10, <3>3, <3>4, FitsAdd DEF AddLabels
  <2>4. /\ WellStacked(t, ThenAdd(rest, Return(t)))
        /\ On(ThenAdd(rest, Return(t))) = AddSet(rest) \cup On(Return(t))
    BY <2>3, <1>2, <1>5, ThenAdds
  <2>5. stack' = [stack EXCEPT ![t] = ThenAdd(rest, Return(t))]
    BY <1>4, <1>8
  <2>6. StacksOK' /\ Turns(t, {Top(t)}, AddSet(rest))
    BY <2>4, <2>5, <1>1, <1>2, Replaces
  <2> QED
    BY <2>6, <1>2, <1>4, <1>8
<1> QED
  BY <1>7, <1>8

LEMMA FitsNext ==
  ASSUME NEW t, NEW f, NEW g, NEW R, Fits(t, f, R), f.at \in AddLabels,
         g.at \in AddLabels \ {"push"}, g.todo \subseteq f.todo
  PROVE  Fits(t, g, R)
<1>1. \A n \in Nodes : Opens(g, n) => Opens(f, n)
  BY DEF Opens, AddLabels, TaskLabels
<1>2. \A n \in Nodes : Opens(g, n) => \A h \in R : ~Opens(h, n)
  BY <1>1 DEF Fits
<1>3. \A n \in Nodes : ~Runs(g, n)
  BY DEF Runs, AddLabels, TaskLabels
<1>4. \A h \in R : h.at \notin TopLabels
  BY DEF Fits
<1>5. \A s \in Sources : Asks(g, s) => Asks(f, s)
  BY DEF Asks
<1>6. \A s \in Sources : Asks(g, s) => \E h \in R : h.at \in NodeLabels \cup {"lock"}
  BY <1>5 DEF Fits
<1>7. \E h \in R : h.at \in AddingLabels
  BY DEF Fits
<1> QED
  BY <1>2, <1>3, <1>4, <1>6, <1>7, FitsAdd DEF AddLabels, TaskLabels

LEMMA QueueTyped ==
  ASSUME TypeOK, NEW q \in Queues
  PROVE  /\ sq[q] \in QueueState
         /\ sq[q].pending \in Nat /\ sq[q].toAdd \in Nat /\ sq[q].running \in Int
         /\ sq[q].items \subseteq Item
         /\ \A i \in sq[q].items : i.node \in Nodes /\ i.kind \in {"open", "run"}
  BY DEF TypeOK, QueueState, Item

LEMMA Grabs ==
  ASSUME NEW r \in QueueState
  PROVE  /\ GrabTasks(r) \in QueueState
         /\ GrabTasks(r).items = r.items /\ GrabTasks(r).pending = r.pending + r.toAdd
         /\ GrabTasks(r).toAdd = 0 /\ GrabTasks(r).running = r.running
<1>1. r.pending + r.toAdd \in Nat
  BY DEF QueueState
<1> QED
  BY <1>1 DEF GrabTasks, QueueState

LEMMA TakesItem ==
  ASSUME NEW r \in QueueState, NEW S \in SUBSET [node : Nodes, kind : {"open", "run"}]
  PROVE  LET x == [r EXCEPT !.items = @ \cup S, !.toAdd = @ + 1]
         IN  /\ x \in QueueState /\ x.items = r.items \cup S /\ x.pending = r.pending
             /\ x.toAdd = r.toAdd + 1 /\ x.running = r.running
<1>1. r.toAdd + 1 \in Nat /\ r.items \cup S \in SUBSET [node : Nodes, kind : {"open", "run"}]
  BY DEF QueueState
<1> QED
  BY <1>1 DEF QueueState

LEMMA PushItemTurns ==
  ASSUME Core, NEW t \in Threads, PushItem(t)
  PROVE  /\ StacksOK' /\ Top(t) \in Frames /\ Top(t).at = "push"
         /\ Top(t).item \in Item /\ QueueOf[Top(t).item.node] \in Queues
         /\ LET q == QueueOf[Top(t).item.node]
                i == Top(t).item
                kind == IF i.kind = "open" THEN "open" ELSE "run"
            IN  /\ sq' \in [Queues -> QueueState]
                /\ \A x \in Queues \ {q} : sq'[x] = sq[x]
                /\ sq'[q].items = sq[q].items \cup {[node |-> i.node, kind |-> kind]}
                /\ sq'[q].running = sq[q].running
                /\ sq[q].running > 0 =>
                     sq'[q].pending = sq[q].pending + (sq[q].toAdd + 1) /\ sq'[q].toAdd = 0
                /\ ~(sq[q].running > 0) =>
                     sq'[q].pending = sq[q].pending /\ sq'[q].toAdd = sq[q].toAdd + 1
                /\ \E f \in Frames :
                     /\ f.at = IF QueueIdle(q) THEN "callFalse" ELSE "addTask"
                     /\ f.todo = Top(t).todo /\ f.q = q
                     /\ f.tasks = IF sq[q].running > 0 THEN sq[q].toAdd + 1 ELSE 0
                     /\ Turns(t, {Top(t)}, {f})
                     /\ stack' = [stack EXCEPT ![t] = <<f>> \o Return(t)]
<1>1. At(t, "push") /\ StacksOK /\ TypeOK
  BY DEF PushItem, Core
<1>2. /\ stack[t] # <<>> /\ Top(t).at = "push" /\ Top(t) \in Frames
      /\ WellStacked(t, Return(t)) /\ Fits(t, Top(t), On(Return(t)))
  BY <1>1, TopMost
<1>3. Top(t).todo \in SUBSET Item /\ Top(t).item \in Item
  BY <1>2, FrameFields DEF AddLabels
<1> DEFINE i == Top(t).item
           q == QueueOf[i.node]
           kind == IF i.kind = "open" THEN "open" ELSE "run"
           added == [sq[q] EXCEPT !.items = @ \cup Items(kind, {i.node}), !.toAdd = @ + 1]
           tasks == IF added.running > 0 THEN added.toAdd ELSE 0
           f == IF QueueIdle(q) THEN CallFalseFrame(Top(t).todo, q, tasks)
                                ELSE AddTaskFrame(Top(t).todo, q, tasks)
<1>4. q \in Queues /\ i.node \in Nodes
  BY <1>3, GraphAssumption DEF Item
<1>5. /\ sq[q] \in QueueState /\ sq[q].toAdd \in Nat /\ sq[q].pending \in Nat
      /\ sq[q].running \in Int
  BY <1>1, <1>4, QueueTyped
<1>6. /\ Items(kind, {i.node}) = {[node |-> i.node, kind |-> kind]}
      /\ Items(kind, {i.node}) \in SUBSET [node : Nodes, kind : {"open", "run"}]
  BY <1>4 DEF Items
<1>7. /\ added \in QueueState /\ added.running = sq[q].running
      /\ added.pending = sq[q].pending /\ added.toAdd = sq[q].toAdd + 1
      /\ added.items = sq[q].items \cup {[node |-> i.node, kind |-> kind]}
  <2> HIDE DEF q, i, kind
  <2> QED
    BY ZenonT(30), <1>5, <1>6, TakesItem
<1>8. sq' = [sq EXCEPT ![q] = IF added.running > 0 THEN GrabTasks(added) ELSE added]
  BY DEF PushItem
<1>9. /\ GrabTasks(added) \in QueueState
      /\ GrabTasks(added).items = added.items /\ GrabTasks(added).running = added.running
      /\ GrabTasks(added).pending = added.pending + added.toAdd /\ GrabTasks(added).toAdd = 0
  <2> HIDE DEF added
  <2> QED
    BY <1>7, Grabs
<1>10. /\ sq' \in [Queues -> QueueState]
       /\ \A x \in Queues \ {q} : sq'[x] = sq[x]
       /\ sq'[q].items = sq[q].items \cup {[node |-> i.node, kind |-> kind]}
       /\ sq'[q].running = sq[q].running
       /\ sq[q].running > 0 =>
            sq'[q].pending = sq[q].pending + (sq[q].toAdd + 1) /\ sq'[q].toAdd = 0
       /\ ~(sq[q].running > 0) =>
            sq'[q].pending = sq[q].pending /\ sq'[q].toAdd = sq[q].toAdd + 1
  <2> HIDE DEF added, q, i, kind
  <2>1. sq \in [Queues -> QueueState]
    BY <1>1 DEF TypeOK
  <2>2. CASE sq[q].running > 0
    <3>1. sq' = [sq EXCEPT ![q] = GrabTasks(added)]
      BY <2>2, <1>7, <1>8
    <3> QED
      BY <3>1, <2>1, <2>2, <1>4, <1>7, <1>9
  <2>3. CASE ~(sq[q].running > 0)
    <3>1. sq' = [sq EXCEPT ![q] = added]
      BY <2>3, <1>7, <1>8
    <3> QED
      BY <3>1, <2>1, <2>3, <1>4, <1>7
  <2> QED
    BY <2>2, <2>3
<1>11. tasks = (IF sq[q].running > 0 THEN sq[q].toAdd + 1 ELSE 0) /\ tasks \in Nat
  <2>1. added.running = sq[q].running /\ added.toAdd = sq[q].toAdd + 1
    BY <1>7
  <2> QED
    BY <2>1, <1>5
<1>12. stack' = [stack EXCEPT ![t] = <<f>> \o Return(t)]
  BY DEF PushItem
<1> HIDE DEF tasks
<1>13. /\ f \in Frames /\ f.at = (IF QueueIdle(q) THEN "callFalse" ELSE "addTask")
       /\ f.todo = Top(t).todo /\ f.q = q /\ f.tasks = tasks
  <2> HIDE DEF q, i, kind, added
  <2> QED
    BY <1>3, <1>4, <1>11, FramesMade
<1> HIDE DEF f
<1>14. Fits(t, f, On(Return(t)))
  BY <1>2, <1>13, FitsNext DEF AddLabels, TaskLabels
<1>15. WellStacked(t, <<f>> \o Return(t)) /\ On(<<f>> \o Return(t)) = {f} \cup On(Return(t))
  BY <1>2, <1>13, <1>14, Pushes
<1>16. StacksOK' /\ Turns(t, {Top(t)}, {f})
  BY <1>1, <1>2, <1>12, <1>15, Replaces
<1> QED
  BY <1>2, <1>3, <1>4, <1>10, <1>11, <1>12, <1>13, <1>16

LEMMA AddTasksTurns ==
  ASSUME Core, NEW t \in Threads, AddTasks(t)
  PROVE  /\ StacksOK' /\ Top(t) \in Frames /\ Top(t).at = "addTask"
         /\ Top(t).q \in Queues /\ Top(t).tasks \in Nat /\ Top(t).todo \in SUBSET Item
         /\ Turns(t, {Top(t)}, AddSet(Top(t).todo))
<1>1. At(t, "addTask") /\ StacksOK
  BY DEF AddTasks, Core
<1>2. /\ stack[t] # <<>> /\ Top(t).at = "addTask" /\ Top(t) \in Frames
      /\ WellStacked(t, Return(t)) /\ Fits(t, Top(t), On(Return(t)))
  BY <1>1, TopMost
<1>3. Top(t).q \in Queues /\ Top(t).tasks \in Nat /\ Top(t).todo \in SUBSET Item
  BY <1>2, FrameFields DEF AddLabels, TaskLabels
<1> DEFINE f == AddFrame(Top(t).todo)
<1>4. f.at = "add" /\ f.todo = Top(t).todo
  BY <1>3, FramesMade
<1>5. Fits(t, f, On(Return(t)))
  <2> HIDE DEF f
  <2> QED
    BY <1>2, <1>4, FitsNext DEF AddLabels, TaskLabels
<1>6. /\ WellStacked(t, ThenAdd(Top(t).todo, Return(t)))
      /\ On(ThenAdd(Top(t).todo, Return(t))) = AddSet(Top(t).todo) \cup On(Return(t))
  BY <1>2, <1>3, <1>5, ThenAdds
<1>7. stack' = [stack EXCEPT ![t] = ThenAdd(Top(t).todo, Return(t))]
  BY DEF AddTasks
<1>8. StacksOK' /\ Turns(t, {Top(t)}, AddSet(Top(t).todo))
  BY <1>1, <1>2, <1>6, <1>7, Replaces
<1> QED
  BY <1>2, <1>3, <1>8

Submits(q) ==
  /\ executor' = [executor EXCEPT ![q] = @ + sq[q].toAdd]
  /\ sq' \in [Queues -> QueueState]
  /\ \A x \in Queues \ {q} : sq'[x] = sq[x]
  /\ sq'[q].items = sq[q].items /\ sq'[q].running = sq[q].running
  /\ sq'[q].pending = sq[q].pending + sq[q].toAdd /\ sq'[q].toAdd = 0

LEMMA SubmitWaitingTasksTurns ==
  ASSUME Core, NEW t \in Threads, SubmitWaitingTasks(t)
  PROVE  /\ StacksOK' /\ Top(t) \in Frames /\ Top(t).at = "submit"
         /\ Top(t).qs \in SUBSET Queues
         /\ \E q \in Top(t).qs :
              /\ q \in Queues
              /\ IF sq[q].running > 0 THEN Submits(q) ELSE UNCHANGED queueVars
              /\ Turns(t, {Top(t)}, SubmitSet(Top(t).qs \ {q}))
<1>1. At(t, "submit") /\ StacksOK
  BY DEF SubmitWaitingTasks, Core
<1>2. /\ stack[t] # <<>> /\ Top(t).at = "submit" /\ Top(t) \in Frames
      /\ WellStacked(t, Return(t)) /\ \A g \in On(Return(t)) : g.at \notin TopLabels
      /\ Fits(t, Top(t), On(Return(t)))
  BY <1>1, TopMost
<1>3. Top(t).qs \in SUBSET Queues
  BY <1>2, FrameFields
<1>4. PICK q \in Top(t).qs :
        /\ IF sq[q].running > 0
             THEN /\ executor' = [executor EXCEPT ![q] = @ + sq[q].toAdd]
                  /\ sq' = [sq EXCEPT ![q] = GrabTasks(@)]
             ELSE UNCHANGED queueVars
        /\ stack' = [stack EXCEPT ![t] = ThenSubmit(Top(t).qs \ {q}, Return(t))]
  BY DEF SubmitWaitingTasks
<1>9. q \in Queues /\ (IF sq[q].running > 0 THEN Submits(q) ELSE UNCHANGED queueVars)
  <2>1. q \in Queues /\ sq \in [Queues -> QueueState]
    BY <1>3 DEF Core, TypeOK
  <2>2. /\ GrabTasks(sq[q]) \in QueueState
        /\ GrabTasks(sq[q]).items = sq[q].items /\ GrabTasks(sq[q]).running = sq[q].running
        /\ GrabTasks(sq[q]).pending = sq[q].pending + sq[q].toAdd
        /\ GrabTasks(sq[q]).toAdd = 0
    BY <2>1, Grabs
  <2> QED
    BY <1>4, <2>1, <2>2 DEF Submits
<1> DEFINE rest == Top(t).qs \ {q}
<1>5. rest \in SUBSET Queues /\ SubmitFrame(rest).at = "submit"
  BY <1>3, FramesMade
<1>6. Fits(t, SubmitFrame(rest), On(Return(t)))
  <2>1. t \in AppThreads \/ \E g \in On(Return(t)) : g.at = "lock"
    BY <1>2 DEF Fits
  <2> QED
    BY <2>1, <1>2, <1>5, FitsCall
<1>7. /\ WellStacked(t, ThenSubmit(rest, Return(t)))
      /\ On(ThenSubmit(rest, Return(t))) = SubmitSet(rest) \cup On(Return(t))
  BY <1>2, <1>5, <1>6, ThenSubmits
<1>8. StacksOK' /\ Turns(t, {Top(t)}, SubmitSet(rest))
  BY <1>1, <1>2, <1>4, <1>7, Replaces
<1> QED
  BY <1>2, <1>3, <1>8, <1>9

\* A thread calls HandleIdle, and goes on in it unless it is under way already.
Enters(t, gone, come) ==
  \/ /\ handling_idle_ = 0 /\ handling_idle_' = 1 /\ stateMutex' = t
     /\ Turns(t, gone, come \cup {Frame("handleIdle")})
  \/ /\ handling_idle_ # 0 /\ handling_idle_' = handling_idle_ + 1
     /\ stateMutex' = stateMutex /\ Turns(t, gone, come)

LEMMA NewHandler ==
  ASSUME Core, NEW t \in Threads, NEW s, WellStacked(t, s), handling_idle_ = 0,
         \A g \in On(s) : g.at \in HandlerLabels => g \in On(stack[t]),
         \A g \in On(s) : g.at \notin TopLabels
  PROVE  /\ WellStacked(t, <<Frame("handleIdle")>> \o s)
         /\ On(<<Frame("handleIdle")>> \o s) = {Frame("handleIdle")} \cup On(s)
<1>1. Frame("handleIdle") \in Frames /\ Frame("handleIdle").at = "handleIdle"
  BY FramesMade DEF PlainLabels
<1>2. \A g \in On(s) : g.at \notin HandlerLabels
  BY DEF Core, HandlerAlone, Handles, Has
<1>3. Fits(t, Frame("handleIdle"), On(s))
  BY <1>1, <1>2, FitsTurn DEF Turn
<1> QED
  BY <1>1, <1>3, Pushes

\* A thread calls HandleIdle as the last thing of the call on top.
LEMMA EntersFrom ==
  ASSUME Core, NEW t \in Threads, stack[t] # <<>>, NEW s, WellStacked(t, s),
         NEW come, On(s) = come \cup On(Return(t)),
         \A g \in come : g.at \notin TopLabels \cup HandlerLabels,
         EnterHandleIdle(t, s)
  PROVE  StacksOK' /\ Enters(t, {Top(t)}, come)
<1>1. StacksOK
  BY DEF Core
<1>2. /\ On(stack[t]) = {Top(t)} \cup On(Return(t))
      /\ \A g \in On(Return(t)) : g.at \notin TopLabels
  BY <1>1, OnTop DEF Fits
<1>3. CASE handling_idle_ = 0
  <2> DEFINE new == <<Frame("handleIdle")>> \o s
  <2>1. WellStacked(t, new) /\ On(new) = {Frame("handleIdle")} \cup On(s)
    BY <1>2, <1>3, NewHandler
  <2>2. On(new) = (come \cup {Frame("handleIdle")}) \cup On(Return(t))
    BY <2>1
  <2>3. stack' = [stack EXCEPT ![t] = new] /\ handling_idle_' = 1 /\ stateMutex' = t
    BY <1>3 DEF EnterHandleIdle
  <2> HIDE DEF new
  <2>4. StacksOK' /\ Turns(t, {Top(t)}, come \cup {Frame("handleIdle")})
    BY <2>1, <2>2, <2>3, <1>1, Replaces
  <2> QED
    BY <2>3, <2>4, <1>3 DEF Enters
<1>4. CASE handling_idle_ # 0
  <2>1. /\ stack' = [stack EXCEPT ![t] = s] /\ handling_idle_' = handling_idle_ + 1
        /\ stateMutex' = stateMutex
    BY <1>4 DEF EnterHandleIdle
  <2>2. StacksOK' /\ Turns(t, {Top(t)}, come)
    BY <2>1, <1>1, Replaces
  <2> QED
    BY <2>1, <2>2, <1>4 DEF Enters
<1> QED
  BY <1>3, <1>4

LEMMA EntersAlone ==
  ASSUME Core, NEW t \in Threads, stack[t] = <<>>, NEW s, WellStacked(t, s),
         \A g \in On(s) : g.at \notin TopLabels \cup HandlerLabels,
         EnterHandleIdle(t, s)
  PROVE  StacksOK' /\ Enters(t, {}, On(s))
<1>1. StacksOK
  BY DEF Core
<1>2. CASE handling_idle_ = 0
  <2> DEFINE new == <<Frame("handleIdle")>> \o s
  <2>1. WellStacked(t, new) /\ On(new) = On(s) \cup {Frame("handleIdle")}
    BY <1>2, NewHandler
  <2>2. stack' = [stack EXCEPT ![t] = new] /\ handling_idle_' = 1 /\ stateMutex' = t
    BY <1>2 DEF EnterHandleIdle
  <2> HIDE DEF new
  <2>3. StacksOK' /\ Turns(t, {}, On(new))
    BY <2>1, <2>2, <1>1, Begins
  <2> QED
    BY <2>1, <2>2, <2>3, <1>2 DEF Enters
<1>3. CASE handling_idle_ # 0
  <2>1. /\ stack' = [stack EXCEPT ![t] = s] /\ handling_idle_' = handling_idle_ + 1
        /\ stateMutex' = stateMutex
    BY <1>3 DEF EnterHandleIdle
  <2>2. StacksOK' /\ Turns(t, {}, On(s))
    BY <2>1, <1>1, Begins
  <2> QED
    BY <2>1, <2>2, <1>3 DEF Enters
<1> QED
  BY <1>2, <1>3

\* A queue tells the scheduler whether it is idle, which may be the last to be so.
Tells(t, by, gone, come) ==
  /\ non_idle_queue_count_' = non_idle_queue_count_ + by
  /\ IF non_idle_queue_count_' = 0
       THEN Enters(t, gone, come)
       ELSE UNCHANGED <<handling_idle_, stateMutex>> /\ Turns(t, gone, come)

LEMMA CallIdleFalseTurns ==
  ASSUME Core, NEW t \in Threads, CallIdleFalse(t)
  PROVE  /\ StacksOK' /\ Top(t) \in Frames /\ Top(t).at = "callFalse"
         /\ LET f == AddTaskFrame(Top(t).todo, Top(t).q, Top(t).tasks)
            IN  /\ f \in Frames /\ f.at = "addTask" /\ f.todo = Top(t).todo
                /\ f.q = Top(t).q /\ f.tasks = Top(t).tasks
                /\ Tells(t, 1, {Top(t)}, {f})
<1>1. At(t, "callFalse") /\ StacksOK
  BY DEF CallIdleFalse, Core
<1>2. /\ stack[t] # <<>> /\ Top(t).at = "callFalse" /\ Top(t) \in Frames
      /\ WellStacked(t, Return(t)) /\ Fits(t, Top(t), On(Return(t)))
      /\ \A g \in On(Return(t)) : g.at \notin TopLabels
  BY <1>1, TopMost
<1>3. Top(t).q \in Queues /\ Top(t).tasks \in Nat /\ Top(t).todo \in SUBSET Item
  BY <1>2, FrameFields DEF AddLabels, TaskLabels
<1> DEFINE f == AddTaskFrame(Top(t).todo, Top(t).q, Top(t).tasks)
           s == <<f>> \o Return(t)
<1>4. /\ f \in Frames /\ f.at = "addTask" /\ f.todo = Top(t).todo
      /\ f.q = Top(t).q /\ f.tasks = Top(t).tasks
  BY <1>3, FramesMade
<1>5. QueueIdleStateChanged(t, 1, s)
  BY DEF CallIdleFalse
<1> HIDE DEF f
<1>6. Fits(t, f, On(Return(t)))
  BY <1>2, <1>4, FitsNext DEF AddLabels, TaskLabels
<1>7. WellStacked(t, s) /\ On(s) = {f} \cup On(Return(t))
  BY <1>2, <1>4, <1>6, Pushes
<1> HIDE DEF s
<1>8. StacksOK' /\ Tells(t, 1, {Top(t)}, {f})
  <2>1. CASE non_idle_queue_count_' = 0
    <3>1. /\ EnterHandleIdle(t, s) /\ non_idle_queue_count_' = non_idle_queue_count_ + 1
      BY <1>5, <2>1 DEF QueueIdleStateChanged
    <3>2. StacksOK' /\ Enters(t, {Top(t)}, {f})
      <4>1. \A g \in {f} : g.at \notin TopLabels \cup HandlerLabels
        BY <1>4 DEF TopLabels, HandlerLabels, Turn, LayerLabels
      <4> QED
        BY <4>1, <3>1, <1>2, <1>7, EntersFrom
    <3> QED
      BY <3>1, <3>2, <2>1 DEF Tells
  <2>2. CASE non_idle_queue_count_' # 0
    <3>1. /\ stack' = [stack EXCEPT ![t] = s] /\ UNCHANGED <<handling_idle_, stateMutex>>
          /\ non_idle_queue_count_' = non_idle_queue_count_ + 1
      BY <1>5, <2>2 DEF QueueIdleStateChanged
    <3>2. StacksOK' /\ Turns(t, {Top(t)}, {f})
      BY <3>1, <1>1, <1>2, <1>7, Replaces
    <3> QED
      BY <3>1, <3>2, <2>2 DEF Tells
  <2> QED
    BY <2>1, <2>2
<1> QED
  BY <1>2, <1>4, <1>8 DEF f

LEMMA CallIdleTrueTurns ==
  ASSUME Core, NEW t \in Threads, CallIdleTrue(t)
  PROVE  /\ StacksOK' /\ Top(t) \in Frames /\ Top(t).at = "callTrue"
         /\ Tells(t, -1, {Top(t)}, {})
<1>1. At(t, "callTrue") /\ StacksOK
  BY DEF CallIdleTrue, Core
<1>2. /\ stack[t] # <<>> /\ Top(t).at = "callTrue" /\ Top(t) \in Frames
      /\ WellStacked(t, Return(t)) /\ On(Return(t)) = {} \cup On(Return(t))
  BY <1>1, TopMost
<1>3. QueueIdleStateChanged(t, -1, Return(t))
  BY DEF CallIdleTrue
<1>4. CASE non_idle_queue_count_' = 0
  <2>1. /\ EnterHandleIdle(t, Return(t))
        /\ non_idle_queue_count_' = non_idle_queue_count_ + -1
    BY <1>3, <1>4 DEF QueueIdleStateChanged
  <2>2. StacksOK' /\ Enters(t, {Top(t)}, {})
    BY <2>1, <1>2, EntersFrom
  <2> QED
    BY <2>1, <2>2, <1>2, <1>4 DEF Tells
<1>5. CASE non_idle_queue_count_' # 0
  <2>1. /\ stack' = [stack EXCEPT ![t] = Return(t)] /\ UNCHANGED <<handling_idle_, stateMutex>>
        /\ non_idle_queue_count_' = non_idle_queue_count_ + -1
    BY <1>3, <1>5 DEF QueueIdleStateChanged
  <2>2. StacksOK' /\ Turns(t, {Top(t)}, {})
    BY <2>1, <1>1, <1>2, Replaces
  <2> QED
    BY <2>1, <2>2, <1>2, <1>5 DEF Tells
<1> QED
  BY <1>4, <1>5

\* A call returns.
LEMMA Returns ==
  ASSUME StacksOK, NEW t \in Threads, stack[t] # <<>>,
         stack' = [stack EXCEPT ![t] = Return(t)]
  PROVE  StacksOK' /\ Turns(t, {Top(t)}, {})
<1>1. WellStacked(t, Return(t)) /\ On(Return(t)) = {} \cup On(Return(t))
  BY OnTop
<1> QED
  BY <1>1, Replaces

\* The thread in a turn of HandleIdle.
LEMMA TurnOnTop ==
  ASSUME StacksOK, NEW t \in Threads,
         At(t, "handleIdle") \/ At(t, "unthrottle") \/ At(t, "endOfTurn")
  PROVE  /\ stack[t] # <<>> /\ Top(t) \in Frames /\ Top(t).at \in Turn
         /\ WellStacked(t, stack[t]) /\ WellStacked(t, Return(t))
         /\ On(stack[t]) = {Top(t)} \cup On(Return(t))
         /\ Fits(t, Top(t), On(Return(t)))
         /\ \A g \in On(Return(t)) : g.at \notin HandlerLabels /\ g.at \notin TopLabels
<1>1. stack[t] # <<>> /\ Top(t).at \in Turn /\ WellStacked(t, stack[t])
  BY DEF At, Turn, StacksOK
<1>2. /\ Top(t) \in Frames /\ WellStacked(t, Return(t)) /\ Fits(t, Top(t), On(Return(t)))
      /\ On(stack[t]) = {Top(t)} \cup On(Return(t))
  BY <1>1, OnTop
<1> QED
  BY <1>1, <1>2 DEF Fits

LEMMA LeaveHandleIdleTurns ==
  ASSUME Core, NEW t \in Threads, At(t, "handleIdle") \/ At(t, "endOfTurn"),
         LeaveHandleIdle(t)
  PROVE  /\ StacksOK' /\ Turns(t, {Top(t)}, {}) /\ Top(t) \in Frames /\ Top(t).at \in Turn
<1>1. StacksOK
  BY DEF Core
<1>2. stack[t] # <<>> /\ Top(t) \in Frames /\ Top(t).at \in Turn
  BY <1>1, TurnOnTop
<1>3. stack' = [stack EXCEPT ![t] = Return(t)]
  BY DEF LeaveHandleIdle
<1> QED
  BY <1>1, <1>2, <1>3, Returns

LEMMA NextLayerTurns ==
  ASSUME Core, NEW t \in Threads, HandleIdleNextLayer(t)
  PROVE  /\ StacksOK' /\ Top(t) \in Frames /\ Top(t).at = "handleIdle"
         /\ Turns(t, {Top(t)}, {Frame("stopQueues"), Frame("lock"), Top(t)})
<1>1. StacksOK /\ At(t, "handleIdle")
  BY DEF Core, HandleIdleNextLayer, InHandleIdle
<1>2. /\ stack[t] # <<>> /\ Top(t) \in Frames /\ Top(t).at = "handleIdle" /\ Top(t).at \in Turn
      /\ WellStacked(t, stack[t]) /\ On(stack[t]) = {Top(t)} \cup On(Return(t))
      /\ \A g \in On(Return(t)) : g.at \notin HandlerLabels /\ g.at \notin TopLabels
  BY <1>1, TurnOnTop DEF At
<1> DEFINE f == Frame("stopQueues")
           g == Frame("lock")
           new == <<f, g>> \o stack[t]
<1>3. f \in Frames /\ g \in Frames /\ f.at = "stopQueues" /\ g.at = "lock"
  BY FramesMade DEF PlainLabels
<1>4. stack' = [stack EXCEPT ![t] = new]
  BY DEF HandleIdleNextLayer
<1> HIDE DEF f, g
<1>5. \A h \in On(stack[t]) : h.at \notin TopLabels /\ h.at \notin LayerLabels \cup {"lock"}
  BY <1>2 DEF TopLabels, HandlerLabels, LayerLabels, Turn
<1>6. Fits(t, g, On(stack[t]))
  <2>1. \E h \in On(stack[t]) : h.at \in Turn
    BY <1>2
  <2> QED
    BY <2>1, <1>3, <1>5, FitsLock
<1>7. Fits(t, f, {g} \cup On(stack[t]))
  <2>1. \A h \in {g} \cup On(stack[t]) : h.at \notin TopLabels /\ h.at \notin LayerLabels
    BY <1>3, <1>5 DEF TopLabels, LayerLabels
  <2>2. f.at \in LayerLabels /\ \E h \in {g} \cup On(stack[t]) : h.at = "lock"
    BY <1>3 DEF LayerLabels
  <2>3. \E h \in {g} \cup On(stack[t]) : h.at = "handleIdle"
    BY <1>2
  <2> QED
    BY <2>1, <2>2, <2>3, FitsLayer
<1>8. WellStacked(t, new) /\ On(new) = {f, g} \cup On(stack[t])
  <2>1. /\ WellStacked(t, <<f, g>> \o stack[t])
        /\ On(<<f, g>> \o stack[t]) = {f, g} \cup On(stack[t])
    <3>1. /\ WellStacked(t, stack[t]) /\ f \in Frames /\ g \in Frames
          /\ Fits(t, g, On(stack[t])) /\ Fits(t, f, {g} \cup On(stack[t]))
      BY <1>2, <1>3, <1>6, <1>7
    <3> HIDE DEF new
    <3> QED
      BY ONLY <3>1, PushesTwo
  <2> QED
    BY <2>1
<1>9. On(new) = {f, g, Top(t)} \cup On(Return(t))
  BY <1>2, <1>8
<1> HIDE DEF new
<1>10. StacksOK' /\ Turns(t, {Top(t)}, {f, g, Top(t)})
  BY <1>1, <1>2, <1>4, <1>8, <1>9, Replaces
<1> QED
  BY <1>2, <1>10 DEF f, g

\* A frame of TryToScheduleNextSourceLayer follows another.
LEMMA LayerFollows ==
  ASSUME StacksOK, NEW t \in Threads, stack[t] # <<>>, Top(t).at \in LayerLabels,
         NEW f \in Frames, f.at \in LayerLabels
  PROVE  /\ Fits(t, f, On(Return(t)))
         /\ \A g \in On(Return(t)) : g.at \notin TopLabels
<1>1. Fits(t, Top(t), On(Return(t)))
  BY OnTop
<1>2. /\ \E g \in On(Return(t)) : g.at = "lock"
      /\ \E g \in On(Return(t)) : g.at = "handleIdle"
      /\ \A g \in On(Return(t)) : g.at \notin LayerLabels
      /\ \A g \in On(Return(t)) : g.at \notin TopLabels
  BY <1>1 DEF Fits
<1> QED
  BY <1>2, FitsLayer

LEMMA StopQueuesTurns ==
  ASSUME Core, NEW t \in Threads, StopQueuesForLayer(t)
  PROVE  /\ StacksOK' /\ Top(t) \in Frames /\ Top(t).at = "stopQueues"
         /\ ActivateFrame(1) \in Frames /\ Turns(t, {Top(t)}, {ActivateFrame(1)})
<1>1. StacksOK /\ At(t, "stopQueues")
  BY DEF Core, StopQueuesForLayer
<1>2. /\ stack[t] # <<>> /\ Top(t) \in Frames /\ Top(t).at = "stopQueues"
      /\ Top(t).at \in LayerLabels /\ WellStacked(t, Return(t))
  BY <1>1, TopMost DEF LayerLabels
<1> DEFINE f == ActivateFrame(1)
<1>3. f \in Frames /\ f.at \in LayerLabels
  BY FramesMade DEF LayerLabels
<1>4. stack' = [stack EXCEPT ![t] = <<f>> \o Return(t)]
  BY DEF StopQueuesForLayer
<1> HIDE DEF f
<1>5. Fits(t, f, On(Return(t)))
  BY <1>1, <1>2, <1>3, LayerFollows
<1>6. WellStacked(t, <<f>> \o Return(t)) /\ On(<<f>> \o Return(t)) = {f} \cup On(Return(t))
  BY <1>2, <1>3, <1>5, Pushes
<1>7. StacksOK' /\ Turns(t, {Top(t)}, {f})
  BY <1>1, <1>2, <1>4, <1>6, Replaces
<1> QED
  BY <1>2, <1>3, <1>7 DEF f

LEMMA ActivateNodeTurns ==
  ASSUME Core, NEW t \in Threads, ActivateNode(t)
  PROVE  /\ StacksOK' /\ Top(t) \in Frames /\ Top(t).at = "activate"
         /\ LET i == Top(t).i
                n == active_sources_[i]
                next == IF i = Len(active_sources_) THEN Frame("startQueues")
                                                    ELSE ActivateFrame(i + 1)
            IN  /\ i \in DOMAIN active_sources_ /\ n \in Sources /\ n \in Nodes
                /\ i \in Nat \ {0} /\ status[n] = "Opened"
                /\ status' = [status EXCEPT ![n] = "Active"]
                /\ next \in Frames /\ AddFrame(Items("run", {n})) \in Frames
                /\ Turns(t, {Top(t)}, {AddFrame(Items("run", {n})), next})
<1>1. StacksOK /\ At(t, "activate") /\ TypeOK /\ LayerToActivate
  BY DEF Core, ActivateNode
<1>2. /\ stack[t] # <<>> /\ Top(t) \in Frames /\ Top(t).at = "activate"
      /\ Top(t).at \in LayerLabels /\ WellStacked(t, Return(t)) /\ Top(t) \in On(stack[t])
  BY <1>1, TopMost DEF LayerLabels
<1> DEFINE i == Top(t).i
           n == active_sources_[i]
           next == IF i = Len(active_sources_) THEN Frame("startQueues")
                                               ELSE ActivateFrame(i + 1)
           f == AddFrame(Items("run", {n}))
<1>3. i \in Nat \ {0}
  BY <1>2, FrameFields
<1>4. i \in DOMAIN active_sources_ /\ status[n] = "Opened"
  BY <1>1, <1>2, <1>3 DEF LayerToActivate
<1>5. n \in Sources /\ n \in Nodes
  BY <1>1, <1>4, ElementOfSeq, LenProperties, GraphAssumption DEF TypeOK
<1>6. Items("run", {n}) \in SUBSET Item /\ \A m : OpenItem(m) \notin Items("run", {n})
  BY <1>5 DEF Items, Item, OpenItem
<1>7. f \in Frames /\ f.at = "add" /\ f.todo = Items("run", {n})
  BY <1>6, FramesMade
<1>8. next \in Frames /\ next.at \in {"activate", "startQueues"}
  BY <1>3, FramesMade DEF PlainLabels
<1>9. /\ stack' = [stack EXCEPT ![t] = <<f, next>> \o Return(t)]
      /\ status' = [status EXCEPT ![n] = "Active"]
  BY DEF ActivateNode
<1> HIDE DEF f, next, n
<1>10. /\ Fits(t, next, On(Return(t)))
       /\ \A g \in On(Return(t)) : g.at \notin TopLabels
  BY <1>1, <1>2, <1>8, LayerFollows DEF LayerLabels
<1>14. \E g \in {next} \cup On(Return(t)) : g.at \in NodeLabels \cup {"lock"}
  BY <1>8, <1>10 DEF Fits, LayerLabels
<1>11. Fits(t, f, {next} \cup On(Return(t)))
  <2>1. \A m \in Nodes : ~Opens(f, m) /\ ~Runs(f, m)
    BY <1>6, <1>7 DEF Opens, Runs, AddLabels
  <2>2. \A g \in {next} \cup On(Return(t)) : g.at \notin TopLabels
    BY <1>8, <1>10 DEF TopLabels
  <2>3. \E g \in {next} \cup On(Return(t)) : g.at \in AddingLabels
    BY <1>14 DEF AddingLabels
  <2> QED
    BY <2>1, <2>2, <2>3, <1>7, <1>14, FitsAdd DEF AddLabels
<1>12. /\ WellStacked(t, <<f, next>> \o Return(t))
       /\ On(<<f, next>> \o Return(t)) = {f, next} \cup On(Return(t))
  BY <1>2, <1>7, <1>8, <1>10, <1>11, PushesTwo
<1>13. StacksOK' /\ Turns(t, {Top(t)}, {f, next})
  BY <1>1, <1>2, <1>9, <1>12, Replaces
<1> QED
  BY <1>2, <1>3, <1>4, <1>5, <1>7, <1>8, <1>9, <1>13 DEF f, next, n

LEMMA StartQueuesTurns ==
  ASSUME Core, NEW t \in Threads, StartQueuesForLayer(t)
  PROVE  /\ StacksOK' /\ Top(t) \in Frames /\ Top(t).at = "startQueues"
         /\ Turns(t, {Top(t)}, SubmitSet(Queues))
<1>1. StacksOK /\ At(t, "startQueues")
  BY DEF Core, StartQueuesForLayer
<1>2. /\ stack[t] # <<>> /\ Top(t) \in Frames /\ Top(t).at = "startQueues"
      /\ WellStacked(t, Return(t)) /\ \A g \in On(Return(t)) : g.at \notin TopLabels
      /\ Fits(t, Top(t), On(Return(t)))
  BY <1>1, TopMost
<1>3. SubmitFrame(Queues).at = "submit"
  BY FramesMade
<1>4. Fits(t, SubmitFrame(Queues), On(Return(t)))
  <2>1. \E g \in On(Return(t)) : g.at = "lock"
    BY <1>2 DEF Fits, LayerLabels
  <2> QED
    BY <2>1, <1>2, <1>3, FitsCall
<1>5. /\ WellStacked(t, ThenSubmit(Queues, Return(t)))
      /\ On(ThenSubmit(Queues, Return(t))) = SubmitSet(Queues) \cup On(Return(t))
  BY <1>2, <1>4, ThenSubmits
<1>6. stack' = [stack EXCEPT ![t] = ThenSubmit(Queues, Return(t))]
  BY DEF StartQueuesForLayer
<1> QED
  BY <1>1, <1>2, <1>5, <1>6, Replaces

LEMMA LockTurns ==
  ASSUME Core, NEW t \in Threads, LockStateMutex(t)
  PROVE  /\ StacksOK' /\ Top(t) \in Frames /\ Top(t).at = "lock"
         /\ Turns(t, {Top(t)}, {})
<1>1. StacksOK /\ At(t, "lock") /\ stack' = [stack EXCEPT ![t] = Return(t)]
  BY DEF Core, LockStateMutex
<1>2. stack[t] # <<>> /\ Top(t) \in Frames /\ Top(t).at = "lock"
  BY <1>1, TopMost
<1> QED
  BY <1>1, <1>2, Returns

\* The items that are added to run nodes do not open any.
LEMMA ItemsKinds ==
  ASSUME NEW ns \in SUBSET Nodes, NEW kind \in {"open", "run", "unthrottled"}
  PROVE  /\ Items(kind, ns) \in SUBSET Item
         /\ \A i \in Items(kind, ns) : i.node \in ns /\ i.kind = kind
         /\ \A n \in ns : [node |-> n, kind |-> kind] \in Items(kind, ns)
  BY DEF Items, Item

LEMMA LetGoItems ==
  ASSUME NEW ss \in SUBSET Sources
  PROVE  /\ LetGo(ss) \in SUBSET Item /\ \A m : OpenItem(m) \notin LetGo(ss)
         /\ \A i \in LetGo(ss) :
              i.node \in ss /\ i.kind = "unthrottled" /\ status[i.node] = "Active"
<1> DEFINE active == {s \in ss : status[s] = "Active"}
<1>1. active \in SUBSET Nodes /\ \A s \in active : s \in ss /\ status[s] = "Active"
  BY GraphAssumption
<1>2. LetGo(ss) = Items("unthrottled", active)
  BY DEF LetGo
<1> HIDE DEF active
<1>3. /\ LetGo(ss) \in SUBSET Item
      /\ \A i \in LetGo(ss) : i.node \in active /\ i.kind = "unthrottled"
  BY <1>1, <1>2, ItemsKinds
<1>4. \A m : OpenItem(m).kind = "open"
  BY DEF OpenItem
<1> QED
  BY <1>1, <1>3, <1>4

LEMMA UnthrottleTurns ==
  ASSUME Core, NEW t \in Threads, HandleIdleUnthrottle(t)
  PROVE  /\ StacksOK' /\ Top(t) \in Frames /\ Top(t).at = "handleIdle"
         /\ Turns(t, {Top(t)}, {Frame("unthrottle")})
<1>1. StacksOK /\ At(t, "handleIdle")
  BY DEF Core, HandleIdleUnthrottle, InHandleIdle
<1>2. /\ stack[t] # <<>> /\ Top(t) \in Frames /\ Top(t).at = "handleIdle"
      /\ WellStacked(t, Return(t))
      /\ \A g \in On(Return(t)) : g.at \notin HandlerLabels /\ g.at \notin TopLabels
  BY <1>1, TurnOnTop DEF At
<1> DEFINE f == Frame("unthrottle")
<1>3. f \in Frames /\ f.at \in Turn
  BY FramesMade DEF PlainLabels, Turn
<1>4. stack' = [stack EXCEPT ![t] = <<f>> \o Return(t)]
  BY DEF HandleIdleUnthrottle
<1> HIDE DEF f
<1>5. Fits(t, f, On(Return(t)))
  BY <1>2, <1>3, FitsTurn
<1>6. WellStacked(t, <<f>> \o Return(t)) /\ On(<<f>> \o Return(t)) = {f} \cup On(Return(t))
  BY <1>2, <1>3, <1>5, Pushes
<1>7. StacksOK' /\ Turns(t, {Top(t)}, {f})
  BY <1>1, <1>2, <1>4, <1>6, Replaces
<1> QED
  BY <1>2, <1>7 DEF f

LEMMA UnthrottleSourcesTurns ==
  ASSUME Core, NEW t \in Threads, UnthrottleSources(t)
  PROVE  /\ StacksOK' /\ Top(t) \in Frames /\ Top(t).at = "unthrottle"
         /\ LetGo(throttled) \in SUBSET Item
         /\ Turns(t, {Top(t)},
                  AddSet(LetGo(throttled))
                  \cup {Frame("lock"),
                        Frame(IF throttled # {} THEN "handleIdle" ELSE "endOfTurn")})
<1>1. StacksOK /\ At(t, "unthrottle") /\ TypeOK
  BY DEF Core, UnthrottleSources
<1>2. /\ stack[t] # <<>> /\ Top(t) \in Frames /\ Top(t).at = "unthrottle"
      /\ WellStacked(t, Return(t))
      /\ \A g \in On(Return(t)) : g.at \notin HandlerLabels /\ g.at \notin TopLabels
  BY <1>1, TurnOnTop DEF At
<1> DEFINE label == IF throttled # {} THEN "handleIdle" ELSE "endOfTurn"
           f == AddFrame(LetGo(throttled))
           g == Frame("lock")
           h == Frame(label)
           r == <<g, h>> \o Return(t)
<1>3. label \in Turn /\ label \in PlainLabels
  BY DEF Turn, PlainLabels
<1>4. g \in Frames /\ h \in Frames /\ g.at = "lock" /\ h.at = label
  BY <1>3, FramesMade DEF PlainLabels
<1>5. LetGo(throttled) \in SUBSET Item /\ \A m : OpenItem(m) \notin LetGo(throttled)
  BY <1>1, LetGoItems DEF TypeOK
<1>6. f \in Frames /\ f.at = "add" /\ f.todo = LetGo(throttled)
  BY <1>5, FramesMade
<1>7. stack' = [stack EXCEPT ![t] = ThenAdd(LetGo(throttled), r)]
  BY DEF UnthrottleSources
<1> HIDE DEF label, g, h
<1>8. Fits(t, h, On(Return(t)))
  BY <1>2, <1>3, <1>4, FitsTurn
<1>9. Fits(t, g, {h} \cup On(Return(t)))
  <2>1. \A x \in {h} \cup On(Return(t)) :
          x.at \notin TopLabels /\ x.at \notin LayerLabels \cup {"lock"}
    BY <1>2, <1>3, <1>4 DEF TopLabels, LayerLabels, Turn, HandlerLabels
  <2> QED
    BY <2>1, <1>3, <1>4, FitsLock
<1>10. WellStacked(t, r) /\ On(r) = {g, h} \cup On(Return(t))
  BY <1>2, <1>4, <1>8, <1>9, PushesTwo
<1> HIDE DEF r
<1>11. Fits(t, f, On(r))
  <2>1. \A m \in Nodes : ~Opens(f, m) /\ ~Runs(f, m)
    BY <1>5, <1>6 DEF Opens, Runs, AddLabels
  <2>2. \A x \in On(r) : x.at \notin TopLabels
    BY <1>2, <1>3, <1>4, <1>10 DEF TopLabels, Turn
  <2>3. \E x \in On(r) : x.at \in NodeLabels \cup {"lock"}
    BY <1>4, <1>10
  <2>4. \E x \in On(r) : x.at \in AddingLabels
    BY <2>3 DEF AddingLabels
  <2> HIDE DEF f
  <2> QED
    BY <2>1, <2>2, <2>3, <2>4, <1>6, FitsAdd DEF AddLabels
<1>12. /\ WellStacked(t, ThenAdd(LetGo(throttled), r))
       /\ On(ThenAdd(LetGo(throttled), r)) = AddSet(LetGo(throttled)) \cup On(r)
  BY <1>5, <1>10, <1>11, ThenAdds
<1>13. On(ThenAdd(LetGo(throttled), r))
         = (AddSet(LetGo(throttled)) \cup {g, h}) \cup On(Return(t))
  BY <1>10, <1>12
<1>14. StacksOK' /\ Turns(t, {Top(t)}, AddSet(LetGo(throttled)) \cup {g, h})
  BY <1>1, <1>2, <1>7, <1>12, <1>13, Replaces
<1> QED
  BY <1>2, <1>5, <1>14 DEF g, h, label

LEMMA EndOfTurnTurns ==
  ASSUME Core, NEW t \in Threads, HandleIdleEndOfTurn(t)
  PROVE  /\ StacksOK' /\ Top(t) \in Frames /\ Top(t).at \in Turn
         /\ IF CalledAgain THEN handling_idle_' = 1 /\ Turns(t, {Top(t)}, {Frame("handleIdle")})
                           ELSE handling_idle_' = 0 /\ Turns(t, {Top(t)}, {})
<1>1. StacksOK /\ (At(t, "handleIdle") \/ At(t, "endOfTurn"))
  BY DEF Core, HandleIdleEndOfTurn, InHandleIdle
<1>2. /\ stack[t] # <<>> /\ Top(t) \in Frames /\ Top(t).at \in Turn
      /\ WellStacked(t, Return(t))
      /\ \A g \in On(Return(t)) : g.at \notin HandlerLabels /\ g.at \notin TopLabels
  BY <1>1, TurnOnTop
<1>3. CASE CalledAgain
  <2> DEFINE f == Frame("handleIdle")
  <2>1. f \in Frames /\ f.at \in Turn
    BY FramesMade DEF PlainLabels, Turn
  <2>2. stack' = [stack EXCEPT ![t] = <<f>> \o Return(t)] /\ handling_idle_' = 1
    BY <1>3 DEF HandleIdleEndOfTurn
  <2> HIDE DEF f
  <2>3. Fits(t, f, On(Return(t)))
    BY <2>1, <1>2, FitsTurn
  <2>4. WellStacked(t, <<f>> \o Return(t)) /\ On(<<f>> \o Return(t)) = {f} \cup On(Return(t))
    BY <2>1, <2>3, <1>2, Pushes
  <2>5. StacksOK' /\ Turns(t, {Top(t)}, {f})
    BY <2>2, <2>4, <1>1, <1>2, Replaces
  <2> QED
    BY <2>2, <2>5, <1>2, <1>3 DEF f
<1>4. CASE ~CalledAgain
  <2>1. LeaveHandleIdle(t)
    BY <1>4 DEF HandleIdleEndOfTurn
  <2> QED
    BY <2>1, <1>1, <1>4, LeaveHandleIdleTurns DEF LeaveHandleIdle
<1> QED
  BY <1>3, <1>4

\* A worker that opens, runs or closes a node.
LEMMA WorkerTop ==
  ASSUME StacksOK, NEW w \in Workers, NEW l \in NodeLabels, At(w, l)
  PROVE  /\ w \in Threads /\ stack[w] # <<>> /\ Top(w) \in Frames /\ Top(w).at = l
         /\ Top(w).node \in Nodes /\ On(Return(w)) = {} /\ On(stack[w]) = {Top(w)}
         /\ l \in {"close", "toSourcesQueue"} => Top(w).node \in Sources
<1>1. w \in Threads
  BY DEF Threads
<1>2. stack[w] # <<>> /\ Top(w) \in Frames /\ Top(w).at = l /\ Fits(w, Top(w), On(Return(w)))
  BY <1>1, TopMost
<1>3. On(stack[w]) = {Top(w)} \cup On(Return(w))
  BY <1>1, <1>2, OnTop
<1>4. Top(w).node \in Nodes
  BY <1>2, FrameFields
<1>5. On(Return(w)) = {} /\ (l \in {"close", "toSourcesQueue"} => Top(w).node \in Sources)
  BY <1>2 DEF Fits
<1> QED
  BY <1>1, <1>2, <1>3, <1>4, <1>5

LEMMA WorkerGoesOn ==
  ASSUME StacksOK, NEW w \in Workers, NEW l \in NodeLabels, At(w, l),
         NEW g \in Frames, g.at \in NodeLabels \cup {"callTrue"},
         g.at \in {"close", "toSourcesQueue"} => g.node \in Sources,
         stack' = [stack EXCEPT ![w] = <<g>>]
  PROVE  StacksOK' /\ Turns(w, {Top(w)}, {g})
<1>1. w \in Threads /\ stack[w] # <<>> /\ On(Return(w)) = {}
  BY WorkerTop
<1>2. Fits(w, g, {})
  BY FitsBase
<1>3. WellStacked(w, <<g>>) /\ On(<<g>>) = {g} \cup On(Return(w))
  BY <1>1, <1>2, PushesAlone
<1> QED
  BY <1>1, <1>3, Replaces

LEMMA WorkerAdds ==
  ASSUME StacksOK, NEW w \in Workers, NEW l \in NodeLabels, At(w, l),
         NEW g \in Frames, g.at \in NodeLabels,
         g.at \in {"close", "toSourcesQueue"} => g.node \in Sources,
         NEW items \in SUBSET Item,
         \A m \in Nodes : OpenItem(m) \in items => ~Opens(g, m),
         stack' = [stack EXCEPT ![w] = ThenAdd(items, <<g>>)]
  PROVE  StacksOK' /\ Turns(w, {Top(w)}, AddSet(items) \cup {g})
<1>1. w \in Threads /\ stack[w] # <<>> /\ On(Return(w)) = {}
  BY WorkerTop
<1>2. Fits(w, g, {})
  BY FitsBase
<1>3. WellStacked(w, <<g>>) /\ On(<<g>>) = {g}
  BY <1>2, PushesAlone
<1> DEFINE f == AddFrame(items)
<1>4. f \in Frames /\ f.at = "add" /\ f.todo = items
  BY FramesMade
<1>5. Fits(w, f, On(<<g>>))
  <2>1. \A m \in Nodes : ~Runs(f, m) /\ (Opens(f, m) => OpenItem(m) \in items)
    BY <1>4 DEF Runs, Opens
  <2>2. \A h \in {g} : h.at \notin TopLabels
    BY DEF TopLabels, NodeLabels
  <2>4. \E h \in {g} : h.at \in AddingLabels
    BY DEF AddingLabels
  <2> HIDE DEF f
  <2>3. Fits(w, f, {g})
    BY <2>1, <2>2, <2>4, <1>4, FitsAdd DEF AddLabels
  <2> QED
    BY <2>3, <1>3
<1>6. /\ WellStacked(w, ThenAdd(items, <<g>>))
      /\ On(ThenAdd(items, <<g>>)) = AddSet(items) \cup On(<<g>>)
  BY <1>3, <1>5, ThenAdds
<1>7. On(ThenAdd(items, <<g>>)) = (AddSet(items) \cup {g}) \cup On(Return(w))
  BY <1>1, <1>3, <1>6
<1> QED
  BY <1>1, <1>6, <1>7, Replaces

LEMMA TakeTaskTurns ==
  ASSUME Core, NEW w \in Workers, NEW q \in Queues, TakeTask(w, q)
  PROVE  /\ StacksOK' /\ w \in Threads /\ stack[w] = <<>>
         /\ \E i \in sq[q].items :
              /\ i.node \in Nodes /\ i.kind \in {"open", "run"}
              /\ \A x \in Queues \ {q} : sq'[x] = sq[x]
              /\ sq' \in [Queues -> QueueState]
              /\ sq'[q].items = sq[q].items \ {i} /\ sq'[q].pending = sq[q].pending
              /\ sq'[q].toAdd = sq[q].toAdd /\ sq'[q].running = sq[q].running
              /\ NodeFrame(i.kind, i.node) \in Frames
              /\ Turns(w, {}, {NodeFrame(i.kind, i.node)})
              /\ stack' = [stack EXCEPT ![w] = <<NodeFrame(i.kind, i.node)>>]
<1>1. StacksOK /\ TypeOK /\ w \in Threads /\ stack[w] = <<>>
  BY DEF Core, TakeTask, Threads
<1>2. PICK i \in sq[q].items :
        /\ sq' = [sq EXCEPT ![q].items = @ \ {i}]
        /\ stack' = [stack EXCEPT ![w] = <<NodeFrame(i.kind, i.node)>>]
  BY DEF TakeTask, MayRunNext
<1>3. i.node \in Nodes /\ i.kind \in {"open", "run"} /\ sq[q] \in QueueState
  BY <1>1, QueueTyped
<1>4. LET x == [sq[q] EXCEPT !.items = @ \ {i}]
      IN  /\ x \in QueueState /\ x.items = sq[q].items \ {i} /\ x.pending = sq[q].pending
          /\ x.toAdd = sq[q].toAdd /\ x.running = sq[q].running
  BY <1>3 DEF QueueState
<1>5. sq' = [sq EXCEPT ![q] = [sq[q] EXCEPT !.items = @ \ {i}]]
  BY <1>2
<1>6. sq \in [Queues -> QueueState]
  BY <1>1 DEF TypeOK
<1>7. /\ sq' \in [Queues -> QueueState] /\ \A x \in Queues \ {q} : sq'[x] = sq[x]
      /\ sq'[q].items = sq[q].items \ {i} /\ sq'[q].pending = sq[q].pending
      /\ sq'[q].toAdd = sq[q].toAdd /\ sq'[q].running = sq[q].running
  BY <1>4, <1>5, <1>6
<1> DEFINE f == NodeFrame(i.kind, i.node)
<1>8. f \in Frames /\ f.at \in {"open", "run"}
  BY <1>3, FramesMade DEF NodeLabels
<1>9. stack' = [stack EXCEPT ![w] = <<f>>]
  BY <1>2
<1> HIDE DEF f
<1>10. Fits(w, f, {})
  BY <1>8, FitsBase DEF NodeLabels
<1>11. WellStacked(w, <<f>>) /\ On(<<f>>) = {f}
  BY <1>8, <1>10, PushesAlone
<1>12. StacksOK' /\ Turns(w, {}, {f})
  BY <1>1, <1>9, <1>11, Begins
<1> QED
  BY <1>1, <1>2, <1>3, <1>7, <1>8, <1>12 DEF f

LEMMA OpenedByNone ==
  ASSUME OpeningsPrepared, StacksOK, NEW n \in Nodes, NEW m \in OpenedBy(n)
  PROVE  /\ m \in Nodes /\ n \in OpenDeps[m] /\ n \notin announced
         /\ OpenDeps[m] \subseteq announced \cup {n}
         /\ status[m] = "Prepared" /\ ~OpenQueued(m)
         /\ \A t \in Threads : ~OpensOn(t, m)
  BY DEF OpenedBy, OpeningsPrepared, OpensOn

LEMMA OpenNodeTurns ==
  ASSUME Core, NEW w \in Workers, OpenNode(w)
  PROVE  /\ StacksOK' /\ w \in Threads /\ Top(w) \in Frames /\ Top(w).at = "open"
         /\ LET n == Top(w).node
            IN  /\ n \in Nodes /\ NodeFrame("opened", n) \in Frames
                /\ Items("open", OpenedBy(n)) \in SUBSET Item
                /\ \/ /\ announced' = announced \cup {n}
                      /\ Turns(w, {Top(w)}, AddSet(Items("open", OpenedBy(n)))
                                            \cup {NodeFrame("opened", n)})
                   \/ announced' = announced /\ Turns(w, {Top(w)}, {NodeFrame("opened", n)})
<1>1. At(w, "open") /\ StacksOK /\ OpeningsPrepared /\ "open" \in NodeLabels
  BY DEF OpenNode, Core, NodeLabels
<1>2. /\ w \in Threads /\ Top(w) \in Frames /\ Top(w).at = "open" /\ Top(w).node \in Nodes
      /\ On(stack[w]) = {Top(w)}
  BY <1>1, WorkerTop
<1> DEFINE n == Top(w).node
           g == NodeFrame("opened", n)
           items == Items("open", OpenedBy(n))
<1>3. g \in Frames /\ g.at = "opened" /\ g.node = n
  BY <1>2, FramesMade DEF NodeLabels
<1>4. items \in SUBSET Item /\ \A i \in items : i.node \in OpenedBy(n)
  <2>1. OpenedBy(n) \in SUBSET Nodes
    BY DEF OpenedBy
  <2> QED
    BY <2>1, ItemsKinds
<1>5. \/ /\ announced' = announced \cup {n}
         /\ stack' = [stack EXCEPT ![w] = ThenAdd(items, <<g>>)]
      \/ /\ announced' = announced
         /\ stack' = [stack EXCEPT ![w] = <<g>>]
  BY DEF OpenNode
<1> HIDE DEF g, items
<1>6. ASSUME NEW m \in Nodes, OpenItem(m) \in items PROVE ~Opens(g, m)
  <2>1. m \in OpenedBy(n)
    BY <1>4, <1>6 DEF OpenItem
  <2>2. ~OpensOn(w, m)
    BY <2>1, <1>1, <1>2, OpenedByNone
  <2>3. ~Opens(Top(w), m)
    BY <2>2, <1>2 DEF OpensOn
  <2>4. m # n
    BY <2>3, <1>2 DEF Opens
  <2> QED
    BY <2>4, <1>3 DEF Opens, AddLabels, TaskLabels
<1>7. CASE stack' = [stack EXCEPT ![w] = ThenAdd(items, <<g>>)]
  <2>1. StacksOK' /\ Turns(w, {Top(w)}, AddSet(items) \cup {g})
    BY <1>1, <1>3, <1>4, <1>6, <1>7, WorkerAdds DEF NodeLabels
  <2>2. CASE announced' = announced \cup {n}
    BY <2>1, <2>2, <1>2, <1>3, <1>4 DEF g, items
  <2>3. CASE announced' # announced \cup {n}
    <3>1. /\ announced' = announced /\ stack' = [stack EXCEPT ![w] = <<g>>]
      BY <2>3, <1>5
    <3>2. StacksOK' /\ Turns(w, {Top(w)}, {g})
      BY <3>1, <1>1, <1>3, WorkerGoesOn DEF NodeLabels
    <3> QED
      BY <3>1, <3>2, <1>2, <1>3, <1>4 DEF g, items
  <2> QED
    BY <2>2, <2>3
<1>8. CASE stack' = [stack EXCEPT ![w] = <<g>>] /\ announced' = announced
  <2>1. StacksOK' /\ Turns(w, {Top(w)}, {g})
    BY <1>1, <1>3, <1>8, WorkerGoesOn DEF NodeLabels
  <2> QED
    BY <2>1, <1>2, <1>3, <1>4, <1>8 DEF g, items
<1> QED
  BY <1>5, <1>7, <1>8

LEMMA NodeOpenedTurns ==
  ASSUME Core, NEW w \in Workers, NodeOpened(w)
  PROVE  /\ StacksOK' /\ w \in Threads /\ Top(w) \in Frames /\ Top(w).at = "opened"
         /\ LET n == Top(w).node
            IN  /\ n \in Nodes /\ NodeFrame("toSourcesQueue", n) \in Frames
                /\ NodeFrame("finish", n) \in Frames
                /\ Items("run", {n}) \in SUBSET Item
                /\ IF n \in Sources
                     THEN Turns(w, {Top(w)}, {NodeFrame("toSourcesQueue", n)})
                     ELSE Turns(w, {Top(w)}, AddSet(Items("run", {n})) \cup {NodeFrame("finish", n)})
<1>1. At(w, "opened") /\ StacksOK /\ "opened" \in NodeLabels
  BY DEF NodeOpened, Core, NodeLabels
<1>2. w \in Threads /\ Top(w) \in Frames /\ Top(w).at = "opened" /\ Top(w).node \in Nodes
  BY <1>1, WorkerTop
<1> DEFINE n == Top(w).node
           g == NodeFrame("toSourcesQueue", n)
           h == NodeFrame("finish", n)
           items == Items("run", {n})
<1>3. /\ g \in Frames /\ g.at = "toSourcesQueue" /\ g.node = n
      /\ h \in Frames /\ h.at = "finish" /\ h.node = n
  BY <1>2, FramesMade DEF NodeLabels
<1>4. items \in SUBSET Item /\ \A m : OpenItem(m) \notin items
  <2>1. {n} \in SUBSET Nodes
    BY <1>2
  <2>2. items \in SUBSET Item /\ \A i \in items : i.kind = "run"
    BY <2>1, ItemsKinds
  <2> QED
    BY <2>2 DEF OpenItem
<1>5. stack' = [stack EXCEPT ![w] = IF n \in Sources THEN <<g>> ELSE ThenAdd(items, <<h>>)]
  BY DEF NodeOpened
<1> HIDE DEF g, h, items
<1>6. CASE n \in Sources
  <2>1. StacksOK' /\ Turns(w, {Top(w)}, {g})
    BY <1>1, <1>3, <1>5, <1>6, WorkerGoesOn DEF NodeLabels
  <2> QED
    BY <2>1, <1>2, <1>3, <1>4, <1>6 DEF g, h, items
<1>7. CASE n \notin Sources
  <2>1. StacksOK' /\ Turns(w, {Top(w)}, AddSet(items) \cup {h})
    BY <1>1, <1>3, <1>4, <1>5, <1>7, WorkerAdds DEF NodeLabels
  <2> QED
    BY <2>1, <1>2, <1>3, <1>4, <1>7 DEF g, h, items
<1> QED
  BY <1>6, <1>7

\* A worker that goes on to the frame labelled k of the same node.
LEMMA NodeGoesOn ==
  ASSUME StacksOK, NEW w \in Workers, NEW l \in NodeLabels, At(w, l),
         NEW k \in NodeLabels \ {"close", "toSourcesQueue"},
         stack' = [stack EXCEPT ![w] = <<NodeFrame(k, Top(w).node)>>]
  PROVE  /\ StacksOK' /\ w \in Threads /\ Top(w) \in Frames /\ Top(w).at = l
         /\ Top(w).node \in Nodes /\ NodeFrame(k, Top(w).node) \in Frames
         /\ Turns(w, {Top(w)}, {NodeFrame(k, Top(w).node)})
<1>1. w \in Threads /\ Top(w) \in Frames /\ Top(w).at = l /\ Top(w).node \in Nodes
  BY WorkerTop
<1> DEFINE g == NodeFrame(k, Top(w).node)
<1>2. g \in Frames /\ g.at = k
  BY <1>1, FramesMade
<1>3. stack' = [stack EXCEPT ![w] = <<g>>]
  OBVIOUS
<1> HIDE DEF g
<1>4. StacksOK' /\ Turns(w, {Top(w)}, {g})
  BY <1>2, <1>3, WorkerGoesOn
<1> QED
  BY <1>1, <1>2, <1>4 DEF g

LEMMA ToSourcesQueueTurns ==
  ASSUME Core, NEW w \in Workers, AddNodeToSourcesQueue(w)
  PROVE  /\ StacksOK' /\ w \in Threads /\ Top(w) \in Frames /\ Top(w).at = "toSourcesQueue"
         /\ Top(w).node \in Sources /\ Top(w).node \in Nodes
         /\ NodeFrame("finish", Top(w).node) \in Frames
         /\ Turns(w, {Top(w)}, {NodeFrame("finish", Top(w).node)})
<1>1. At(w, "toSourcesQueue") /\ StacksOK
  BY DEF AddNodeToSourcesQueue, Core
<1>2. Top(w).node \in Sources
  BY <1>1, WorkerTop DEF NodeLabels
<1>3. stack' = [stack EXCEPT ![w] = <<NodeFrame("finish", Top(w).node)>>]
  BY DEF AddNodeToSourcesQueue
<1> QED
  BY <1>1, <1>2, <1>3, NodeGoesOn DEF NodeLabels

LEMMA MarkClosedTurns ==
  ASSUME Core, NEW w \in Workers, MarkClosed(w)
  PROVE  /\ StacksOK' /\ w \in Threads /\ Top(w) \in Frames /\ Top(w).at = "close"
         /\ Top(w).node \in Sources /\ Top(w).node \in Nodes
         /\ NodeFrame("end", Top(w).node) \in Frames
         /\ Turns(w, {Top(w)}, {NodeFrame("end", Top(w).node)})
<1>1. At(w, "close") /\ StacksOK
  BY DEF MarkClosed, Core
<1>2. Top(w).node \in Sources
  BY <1>1, WorkerTop DEF NodeLabels
<1>3. stack' = [stack EXCEPT ![w] = <<NodeFrame("end", Top(w).node)>>]
  BY DEF MarkClosed
<1> QED
  BY <1>1, <1>2, <1>3, NodeGoesOn DEF NodeLabels

LEMMA FailsOrStopsTurns ==
  ASSUME Core, NEW w \in Workers, NEW n \in Nodes, ProcessFails(w, n) \/ ProcessStops(w, n)
  PROVE  /\ StacksOK' /\ w \in Threads /\ Top(w) \in Frames /\ Top(w).at = "run"
         /\ Top(w).node = n /\ NodeFrame("end", n) \in Frames
         /\ Turns(w, {Top(w)}, {NodeFrame("end", n)})
<1>1. At(w, "run") /\ StacksOK /\ Top(w).node = n
  BY DEF ProcessFails, ProcessStops, Running, Core
<1>2. stack' = [stack EXCEPT ![w] = <<NodeFrame("end", Top(w).node)>>]
  BY <1>1 DEF ProcessFails, ProcessStops
<1> QED
  BY <1>1, <1>2, NodeGoesOn DEF NodeLabels

LEMMA OpenFailsTurns ==
  ASSUME Core, NEW w \in Workers, NEW n \in Nodes, OpenFails(w, n)
  PROVE  /\ StacksOK' /\ w \in Threads /\ Top(w) \in Frames /\ Top(w).at = "open"
         /\ Top(w).node = n /\ NodeFrame("finish", n) \in Frames
         /\ Turns(w, {Top(w)}, {NodeFrame("finish", n)})
<1>1. At(w, "open") /\ StacksOK /\ Top(w).node = n
  BY DEF OpenFails, Core
<1>2. stack' = [stack EXCEPT ![w] = <<NodeFrame("finish", Top(w).node)>>]
  BY <1>1 DEF OpenFails
<1> QED
  BY <1>1, <1>2, NodeGoesOn DEF NodeLabels

LEMMA CloseFailsTurns ==
  ASSUME Core, NEW w \in Workers, NEW n \in Nodes, CloseFails(w, n)
  PROVE  /\ StacksOK' /\ w \in Threads /\ Top(w) \in Frames /\ Top(w).at = "end"
         /\ Top(w).node = n /\ n \in Sources /\ stack' = stack /\ Turns(w, {}, {})
<1>1. At(w, "end") /\ StacksOK /\ Top(w).node = n /\ n \in Sources /\ stack' = stack
  BY DEF CloseFails, Core
<1>2. w \in Threads /\ Top(w) \in Frames /\ Top(w).at = "end"
  BY <1>1, WorkerTop DEF NodeLabels
<1>3. On(stack[w]) \in SUBSET Frames
  BY <1>1, <1>2, ElementOfSeq, LenProperties DEF StacksOK, On
<1>4. StacksOK' /\ Turns(w, {}, {})
  BY <1>1, <1>3 DEF Turns, StacksOK
<1> QED
  BY <1>1, <1>2, <1>4

LEMMA DeliverTurns ==
  ASSUME Core, NEW w \in Workers, NEW n \in Nodes, Running(w, n),
         NEW more \in SUBSET Item, NEW k \in {"end", "close"}, k = "close" => n \in Sources,
         stack' = [stack EXCEPT ![w] =
                     ThenAdd(Items("run", Downstream[n]) \cup more, <<NodeFrame(k, n)>>)]
  PROVE  /\ StacksOK' /\ w \in Threads /\ Top(w) \in Frames /\ Top(w).at = "run"
         /\ Top(w).node = n /\ NodeFrame(k, n) \in Frames
         /\ Items("run", Downstream[n]) \cup more \in SUBSET Item
         /\ Turns(w, {Top(w)}, AddSet(Items("run", Downstream[n]) \cup more)
                               \cup {NodeFrame(k, n)})
<1>1. At(w, "run") /\ StacksOK /\ Top(w).node = n /\ "run" \in NodeLabels
  BY DEF Running, Core, NodeLabels
<1>2. w \in Threads /\ Top(w) \in Frames /\ Top(w).at = "run"
  BY <1>1, WorkerTop
<1> DEFINE g == NodeFrame(k, n)
           items == Items("run", Downstream[n]) \cup more
<1>3. g \in Frames /\ g.at = k /\ g.node = n /\ k \in NodeLabels
  BY FramesMade DEF NodeLabels
<1>4. items \in SUBSET Item
  <2>1. Downstream[n] \in SUBSET Nodes
    BY GraphAssumption
  <2> QED
    BY <2>1, ItemsKinds
<1>5. stack' = [stack EXCEPT ![w] = ThenAdd(items, <<g>>)]
  OBVIOUS
<1> HIDE DEF g, items
<1>6. \A m \in Nodes : ~Opens(g, m)
  BY <1>3 DEF Opens, AddLabels, TaskLabels
<1>7. StacksOK' /\ Turns(w, {Top(w)}, AddSet(items) \cup {g})
  BY <1>1, <1>3, <1>4, <1>5, <1>6, WorkerAdds
<1> QED
  BY <1>1, <1>2, <1>3, <1>4, <1>7 DEF g, items

LEMMA SourceRunsTurns ==
  ASSUME Core, NEW w \in Workers, NEW n \in Nodes, NEW k \in {"end", "close"},
         \/ k = "end" /\ SourceEmits(w, n)
         \/ k = "close" /\ SourceCloses(w, n)
  PROVE  /\ StacksOK' /\ w \in Threads /\ Top(w) \in Frames /\ Top(w).at = "run"
         /\ Top(w).node = n /\ NodeFrame(k, n) \in Frames /\ n \in Sources
         /\ Items("run", Downstream[n]) \in SUBSET Item
         /\ ready' = [m \in Nodes |-> IF m \in Downstream[n] THEN ready[m] + 1 ELSE ready[m]]
         /\ Turns(w, {Top(w)}, AddSet(Items("run", Downstream[n])) \cup {NodeFrame(k, n)})
<1>1. Running(w, n) /\ n \in Sources /\ Deliver(w, n, {}, k)
  BY DEF SourceEmits, SourceCloses
<1>2. stack' = [stack EXCEPT ![w] =
                  ThenAdd(Items("run", Downstream[n]) \cup {}, <<NodeFrame(k, n)>>)]
  BY <1>1 DEF Deliver
<1>3. /\ StacksOK' /\ w \in Threads /\ Top(w) \in Frames /\ Top(w).at = "run"
      /\ Top(w).node = n /\ NodeFrame(k, n) \in Frames
      /\ Items("run", Downstream[n]) \cup {} \in SUBSET Item
      /\ Turns(w, {Top(w)}, AddSet(Items("run", Downstream[n]) \cup {}) \cup {NodeFrame(k, n)})
  BY <1>1, <1>2, DeliverTurns
<1>4. Items("run", Downstream[n]) \cup {} = Items("run", Downstream[n])
  OBVIOUS
<1> QED
  BY <1>1, <1>3, <1>4 DEF Deliver

\* The items that a node adds when it has processed an input set.
Processed(n, ss, gives) ==
  Items("run", Downstream[n])
  \cup (LetGo(ss) \cup Items("open", UNION {OpenedBy(m) : m \in gives}))

LEMMA NodeProcessesTurns ==
  ASSUME Core, NEW w \in Workers, NEW n \in Nodes, NodeProcesses(w, n)
  PROVE  /\ StacksOK' /\ w \in Threads /\ Top(w) \in Frames /\ Top(w).at = "run"
         /\ Top(w).node = n /\ NodeFrame("end", n) \in Frames /\ n \notin Sources
         /\ ready' = [m \in Nodes |-> IF m \in Downstream[n] THEN ready[m] + 1 ELSE ready[m]]
         /\ \E ss \in SUBSET Sources, gives \in SUBSET ({n} \ announced) :
              /\ throttled' = throttled \ ss /\ announced' = announced \cup gives
              /\ ss \subseteq throttled
              /\ Processed(n, ss, gives) \in SUBSET Item
              /\ \A i \in Processed(n, ss, gives) :
                   \/ i.kind = "run" /\ i.node \in Downstream[n]
                   \/ i.kind = "unthrottled" /\ i.node \in ss /\ status[i.node] = "Active"
                   \/ i.kind = "open" /\ gives = {n} /\ i.node \in OpenedBy(n)
              /\ Items("run", Downstream[n]) \cup LetGo(ss) \subseteq Processed(n, ss, gives)
              /\ Turns(w, {Top(w)}, AddSet(Processed(n, ss, gives)) \cup {NodeFrame("end", n)})
<1>1. Running(w, n) /\ n \notin Sources /\ TypeOK
  BY DEF NodeProcesses, Core
<1>2. PICK ss \in SUBSET {s \in throttled : n \in Downstream[s]},
           gives \in SUBSET ({n} \ announced) :
        /\ throttled' = throttled \ ss
        /\ announced' = announced \cup gives
        /\ Deliver(w, n, LetGo(ss) \cup Items("open", UNION {OpenedBy(m) : m \in gives}), "end")
  BY DEF NodeProcesses
<1> DEFINE opened == UNION {OpenedBy(m) : m \in gives}
           more == LetGo(ss) \cup Items("open", opened)
<1>3. ss \in SUBSET Sources /\ ss \subseteq throttled
  BY <1>1 DEF TypeOK
<1>4. opened \in SUBSET Nodes /\ \A m \in opened : gives = {n} /\ m \in OpenedBy(n)
  <2>1. \A m : OpenedBy(m) \in SUBSET Nodes
    BY DEF OpenedBy
  <2>2. gives = {} \/ gives = {n}
    OBVIOUS
  <2> QED
    BY <2>1, <2>2
<1> HIDE DEF opened
<1>5. /\ Items("open", opened) \in SUBSET Item
      /\ \A i \in Items("open", opened) : i.node \in opened /\ i.kind = "open"
  BY <1>4, ItemsKinds
<1>6. /\ LetGo(ss) \in SUBSET Item
      /\ \A i \in LetGo(ss) :
           i.node \in ss /\ i.kind = "unthrottled" /\ status[i.node] = "Active"
  BY <1>3, LetGoItems
<1>7. /\ Items("run", Downstream[n]) \in SUBSET Item
      /\ \A i \in Items("run", Downstream[n]) : i.node \in Downstream[n] /\ i.kind = "run"
  <2>1. Downstream[n] \in SUBSET Nodes
    BY GraphAssumption
  <2> QED
    BY <2>1, ItemsKinds
<1>8. /\ ready' = [m \in Nodes |-> IF m \in Downstream[n] THEN ready[m] + 1 ELSE ready[m]]
      /\ stack' = [stack EXCEPT ![w] =
                     ThenAdd(Items("run", Downstream[n]) \cup more, <<NodeFrame("end", n)>>)]
  BY <1>2 DEF Deliver, opened
<1>9. Processed(n, ss, gives) = Items("run", Downstream[n]) \cup more
  BY DEF Processed, opened
<1>10. more \in SUBSET Item
  BY <1>5, <1>6
<1> HIDE DEF more
<1>11. /\ StacksOK' /\ w \in Threads /\ Top(w) \in Frames /\ Top(w).at = "run"
       /\ Top(w).node = n /\ NodeFrame("end", n) \in Frames
       /\ Turns(w, {Top(w)}, AddSet(Items("run", Downstream[n]) \cup more)
                             \cup {NodeFrame("end", n)})
  BY <1>1, <1>8, <1>10, DeliverTurns
<1>12. /\ Processed(n, ss, gives) \in SUBSET Item
       /\ \A i \in Processed(n, ss, gives) :
            \/ i.kind = "run" /\ i.node \in Downstream[n]
            \/ i.kind = "unthrottled" /\ i.node \in ss /\ status[i.node] = "Active"
            \/ i.kind = "open" /\ gives = {n} /\ i.node \in OpenedBy(n)
       /\ Items("run", Downstream[n]) \cup LetGo(ss) \subseteq Processed(n, ss, gives)
  BY <1>4, <1>5, <1>6, <1>7, <1>9 DEF more
<1>13. Turns(w, {Top(w)}, AddSet(Processed(n, ss, gives)) \cup {NodeFrame("end", n)})
  BY <1>9, <1>11
<1> QED
  BY <1>1, <1>2, <1>3, <1>8, <1>11, <1>12, <1>13

LEMMA EndSchedulingTurns ==
  ASSUME Core, NEW w \in Workers, EndScheduling(w)
  PROVE  /\ StacksOK' /\ w \in Threads /\ Top(w) \in Frames /\ Top(w).at = "end"
         /\ LET n == Top(w).node
            IN  /\ n \in Nodes /\ NodeFrame("finish", n) \in Frames
                /\ Items("run", {n}) \in SUBSET Item
                /\ IF status[n] # "Closed"
                     THEN /\ inFlight' = [inFlight EXCEPT ![n] = 0]
                          /\ Turns(w, {Top(w)}, AddSet(Items("run", {n})) \cup {NodeFrame("finish", n)})
                     ELSE inFlight' = inFlight /\ Turns(w, {Top(w)}, {NodeFrame("finish", n)})
<1>1. At(w, "end") /\ StacksOK /\ "end" \in NodeLabels
  BY DEF EndScheduling, Core, NodeLabels
<1>2. w \in Threads /\ Top(w) \in Frames /\ Top(w).at = "end" /\ Top(w).node \in Nodes
  BY <1>1, WorkerTop
<1> DEFINE n == Top(w).node
           g == NodeFrame("finish", n)
           items == Items("run", {n})
<1>3. g \in Frames /\ g.at = "finish" /\ g.node = n
  BY <1>2, FramesMade DEF NodeLabels
<1>4. items \in SUBSET Item /\ \A m : OpenItem(m) \notin items
  <2>1. {n} \in SUBSET Nodes
    BY <1>2
  <2>2. items \in SUBSET Item /\ \A i \in items : i.kind = "run"
    BY <2>1, ItemsKinds
  <2> QED
    BY <2>2 DEF OpenItem
<1>5. IF status[n] # "Closed"
        THEN /\ inFlight' = [inFlight EXCEPT ![n] = 0]
             /\ stack' = [stack EXCEPT ![w] = ThenAdd(items, <<g>>)]
        ELSE inFlight' = inFlight /\ stack' = [stack EXCEPT ![w] = <<g>>]
  BY DEF EndScheduling, LeavesFlight
<1> HIDE DEF g, items
<1>6. CASE status[n] # "Closed"
  <2>1. StacksOK' /\ Turns(w, {Top(w)}, AddSet(items) \cup {g})
    BY <1>1, <1>3, <1>4, <1>5, <1>6, WorkerAdds DEF NodeLabels
  <2> QED
    BY <2>1, <1>2, <1>3, <1>4, <1>5, <1>6 DEF g, items
<1>7. CASE status[n] = "Closed"
  <2>1. StacksOK' /\ Turns(w, {Top(w)}, {g})
    BY <1>1, <1>3, <1>5, <1>7, WorkerGoesOn DEF NodeLabels
  <2> QED
    BY <2>1, <1>2, <1>3, <1>4, <1>5, <1>7 DEF g, items
<1> QED
  BY <1>6, <1>7

LEMMA FinishTaskTurns ==
  ASSUME Core, NEW w \in Workers, FinishTask(w)
  PROVE  /\ StacksOK' /\ w \in Threads /\ Top(w) \in Frames /\ Top(w).at = "finish"
         /\ Top(w).node \in Nodes /\ QueueOf[Top(w).node] \in Queues
         /\ LET q == QueueOf[Top(w).node]
            IN  /\ \A x \in Queues \ {q} : sq'[x] = sq[x]
                /\ DOMAIN sq' = Queues /\ sq'[q].items = sq[q].items
                /\ sq'[q].pending = sq[q].pending - 1
                /\ sq[q].pending - 1 \in Nat => sq' \in [Queues -> QueueState]
                /\ sq'[q].toAdd = sq[q].toAdd /\ sq'[q].running = sq[q].running
                /\ IF sq[q].items = {} /\ sq[q].pending = 1
                     THEN Turns(w, {Top(w)}, {Frame("callTrue")})
                     ELSE Turns(w, {Top(w)}, {})
<1>1. At(w, "finish") /\ StacksOK /\ TypeOK /\ "finish" \in NodeLabels
  BY DEF FinishTask, Core, NodeLabels
<1>2. /\ w \in Threads /\ Top(w) \in Frames /\ Top(w).at = "finish" /\ Top(w).node \in Nodes
      /\ stack[w] # <<>> /\ On(Return(w)) = {}
  BY <1>1, WorkerTop
<1> DEFINE q == QueueOf[Top(w).node]
<1>3. q \in Queues
  BY <1>2, GraphAssumption
<1>4. /\ sq' = [sq EXCEPT ![q].pending = @ - 1]
      /\ stack' = [stack EXCEPT ![w] =
                     IF sq[q].items = {} /\ sq[q].pending = 1 THEN <<Frame("callTrue")>> ELSE <<>>]
  BY DEF FinishTask
<1> HIDE DEF q
<1>5. /\ sq[q] \in QueueState /\ sq[q].pending \in Nat /\ sq \in [Queues -> QueueState]
  BY <1>1, <1>3, QueueTyped DEF TypeOK
<1>6. LET x == [sq[q] EXCEPT !.pending = @ - 1]
      IN  /\ x.items = sq[q].items /\ x.pending = sq[q].pending - 1
          /\ x.toAdd = sq[q].toAdd /\ x.running = sq[q].running
          /\ sq[q].pending - 1 \in Nat => x \in QueueState
  BY <1>5 DEF QueueState
<1>7. /\ \A x \in Queues \ {q} : sq'[x] = sq[x]
      /\ DOMAIN sq' = Queues /\ sq'[q].items = sq[q].items
      /\ sq'[q].pending = sq[q].pending - 1
      /\ sq[q].pending - 1 \in Nat => sq' \in [Queues -> QueueState]
      /\ sq'[q].toAdd = sq[q].toAdd /\ sq'[q].running = sq[q].running
  BY <1>3, <1>4, <1>5, <1>6
<1> DEFINE g == Frame("callTrue")
<1>8. g \in Frames /\ g.at = "callTrue"
  BY FramesMade DEF PlainLabels
<1> HIDE DEF g
<1>9. CASE sq[q].items = {} /\ sq[q].pending = 1
  <2>1. stack' = [stack EXCEPT ![w] = <<g>>]
    BY <1>4, <1>9 DEF g
  <2>2. StacksOK' /\ Turns(w, {Top(w)}, {g})
    BY <2>1, <1>1, <1>8, WorkerGoesOn DEF NodeLabels
  <2> QED
    BY <2>2, <1>2, <1>3, <1>7, <1>9 DEF q, g
<1>10. CASE ~(sq[q].items = {} /\ sq[q].pending = 1)
  <2>1. stack' = [stack EXCEPT ![w] = <<>>]
    BY <1>4, <1>10
  <2>2. WellStacked(w, <<>>) /\ On(<<>>) = {} \cup On(Return(w))
    BY <1>2, Empty
  <2>3. StacksOK' /\ Turns(w, {Top(w)}, {})
    BY <2>1, <2>2, <1>1, <1>2, Replaces
  <2> QED
    BY <2>3, <1>2, <1>3, <1>7, <1>10 DEF q
<1> QED
  BY <1>9, <1>10

\* The calls of the application that begin with an empty stack.
LEMMA StartTurns ==
  ASSUME Core, NEW a \in AppThreads, Start(a) \/ Resume(a) \/ Cancel(a)
  PROVE  /\ StacksOK' /\ a \in Threads /\ SubmitFrame(Queues) \in Frames
         /\ Enters(a, {}, {SubmitFrame(Queues)})
<1>1. a \in Threads /\ stack[a] = <<>> /\ EnterHandleIdle(a, <<SubmitFrame(Queues)>>)
  BY DEF Start, Resume, Cancel, AppCall, Threads
<1> DEFINE f == SubmitFrame(Queues)
<1>2. f \in Frames /\ f.at = "submit"
  BY FramesMade
<1> HIDE DEF f
<1>3. Fits(a, f, {})
  BY <1>2, FitsCall
<1>4. WellStacked(a, <<f>>) /\ On(<<f>>) = {f}
  BY <1>2, <1>3, PushesAlone
<1>5. EnterHandleIdle(a, <<f>>)
  BY <1>1 DEF f
<1>6. \A g \in On(<<f>>) : g.at \notin TopLabels \cup HandlerLabels
  BY <1>2, <1>4 DEF TopLabels, HandlerLabels, Turn, LayerLabels
<1>7. StacksOK' /\ Enters(a, {}, On(<<f>>))
  BY <1>1, <1>4, <1>5, <1>6, EntersAlone
<1> QED
  BY <1>1, <1>2, <1>4, <1>7 DEF f

LEMMA AppAdds ==
  ASSUME StacksOK, NEW a \in AppThreads, stack[a] = <<>>,
         NEW items \in SUBSET Item, \A m : OpenItem(m) \notin items,
         \A i \in items : i.node \notin Sources,
         NEW r, WellStacked(a, r), \A g \in On(r) : g.at \notin TopLabels,
         \E g \in On(r) : g.at \in FeedLabels,
         stack' = [stack EXCEPT ![a] = ThenAdd(items, r)]
  PROVE  StacksOK' /\ a \in Threads /\ Turns(a, {}, AddSet(items) \cup On(r))
<1>1. a \in Threads
  BY DEF Threads
<1> DEFINE f == AddFrame(items)
<1>2. f \in Frames /\ f.at = "add" /\ f.todo = items
  BY FramesMade
<1>3. \A m \in Nodes : ~Opens(f, m) /\ ~Runs(f, m)
  BY <1>2 DEF Opens, Runs, AddLabels
<1>4. Fits(a, f, On(r))
  <2>1. \A s \in Sources : ~Asks(f, s) /\ f.at # "push"
    BY <1>2 DEF Asks
  <2>2. \E g \in On(r) : g.at \in AddingLabels
    BY DEF AddingLabels
  <2> HIDE DEF f
  <2> QED
    BY <2>1, <2>2, <1>2, <1>3, FitsAdd DEF AddLabels
<1>5. /\ WellStacked(a, ThenAdd(items, r))
      /\ On(ThenAdd(items, r)) = AddSet(items) \cup On(r)
  BY <1>4, ThenAdds
<1> QED
  BY <1>1, <1>5, Begins

LEMMA RunItems ==
  ASSUME NEW ns \in SUBSET Nodes
  PROVE  /\ Items("run", ns) \in SUBSET Item /\ \A m : OpenItem(m) \notin Items("run", ns)
         /\ \A i \in Items("run", ns) : i.node \in ns /\ i.kind = "run"
<1>1. /\ Items("run", ns) \in SUBSET Item
      /\ \A i \in Items("run", ns) : i.node \in ns /\ i.kind = "run"
  BY ItemsKinds
<1> QED
  BY <1>1 DEF OpenItem

LEMMA AddPacketTurns ==
  ASSUME Core, NEW a \in AppThreads, NEW n \in InputNodes, AddPacket(a, n)
  PROVE  /\ StacksOK' /\ a \in Threads /\ n \in Nodes \ Sources
         /\ Items("run", {n}) \in SUBSET Item /\ Frame("addedPacket") \in Frames
         /\ Turns(a, {}, AddSet(Items("run", {n})) \cup {Frame("addedPacket")})
<1>1. stack[a] = <<>> /\ StacksOK /\ n \in Nodes \ Sources
  BY GraphAssumption DEF AddPacket, AppCall, Core
<1> DEFINE f == Frame("addedPacket")
<1>2. f \in Frames /\ f.at = "addedPacket"
  BY FramesMade DEF PlainLabels
<1>3. stack' = [stack EXCEPT ![a] = ThenAdd(Items("run", {n}), <<f>>)]
  BY DEF AddPacket
<1>4. /\ Items("run", {n}) \in SUBSET Item /\ \A m : OpenItem(m) \notin Items("run", {n})
      /\ \A i \in Items("run", {n}) : i.node \notin Sources
  <2>1. {n} \in SUBSET Nodes /\ n \notin Sources
    BY <1>1
  <2> QED
    BY <2>1, RunItems
<1> HIDE DEF f
<1>5. Fits(a, f, {})
  BY <1>2, FitsCall DEF AppLabels
<1>6. WellStacked(a, <<f>>) /\ On(<<f>>) = {f}
  BY <1>2, <1>5, PushesAlone
<1>7. /\ \A g \in On(<<f>>) : g.at \notin TopLabels
      /\ \E g \in On(<<f>>) : g.at \in FeedLabels
  BY <1>2, <1>6 DEF TopLabels, FeedLabels
<1>8. StacksOK' /\ a \in Threads /\ Turns(a, {}, AddSet(Items("run", {n})) \cup On(<<f>>))
  BY <1>1, <1>3, <1>4, <1>6, <1>7, AppAdds
<1> QED
  BY <1>1, <1>2, <1>4, <1>6, <1>8 DEF f

LEMMA CloseAllInputsTurns ==
  ASSUME Core, NEW a \in AppThreads, NEW kind, CloseAllInputs(a, kind)
  PROVE  /\ StacksOK' /\ a \in Threads
         /\ Items("run", InputNodes) \in SUBSET Item
         /\ \E C \in {{Frame("closedAll")}, {Frame("closedAll"), Frame("stopSources")}} :
              C \in SUBSET Frames /\ Turns(a, {}, AddSet(Items("run", InputNodes)) \cup C)
<1>1. stack[a] = <<>> /\ StacksOK
  BY DEF CloseAllInputs, AppCall, Core
<1> DEFINE f == Frame("closedAll")
           g == Frame("stopSources")
           items == Items("run", InputNodes)
           r == <<f>> \o (IF kind = "closeAllPacketSources" THEN <<g>> ELSE <<>>)
<1>2. f \in Frames /\ f.at = "closedAll" /\ g \in Frames /\ g.at = "stopSources"
  BY FramesMade DEF PlainLabels
<1>3. stack' = [stack EXCEPT ![a] = ThenAdd(items, r)]
  BY DEF CloseAllInputs
<1>4. /\ items \in SUBSET Item /\ \A m : OpenItem(m) \notin items
      /\ \A i \in items : i.node \notin Sources
  <2>1. InputNodes \in SUBSET Nodes /\ \A n \in InputNodes : n \notin Sources
    BY GraphAssumption
  <2> QED
    BY <2>1, RunItems
<1> HIDE DEF f, g, items
<1>5. PICK C \in {{f}, {f, g}} : WellStacked(a, r) /\ On(r) = C
  <2>1. CASE kind = "closeAllPacketSources"
    <3>1. Fits(a, g, {})
      BY <1>2, FitsCall DEF AppLabels
    <3>2. WellStacked(a, <<g>>) /\ On(<<g>>) = {g}
      BY <3>1, <1>2, PushesAlone
    <3>3. Fits(a, f, On(<<g>>))
      <4>1. \A x \in On(<<g>>) : x.at \notin TopLabels /\ x.at = "stopSources"
        BY <3>2, <1>2 DEF TopLabels
      <4> QED
        BY <4>1, <1>2, FitsCall DEF AppLabels
    <3>4. WellStacked(a, <<f>> \o <<g>>) /\ On(<<f>> \o <<g>>) = {f} \cup On(<<g>>)
      BY <3>2, <3>3, <1>2, Pushes
    <3>5. r = <<f>> \o <<g>>
      BY <2>1
    <3> QED
      BY <3>2, <3>4, <3>5
  <2>2. CASE kind # "closeAllPacketSources"
    <3>1. WellStacked(a, <<>>) /\ On(<<>>) = {}
      BY Empty
    <3>2. Fits(a, f, On(<<>>))
      BY <3>1, <1>2, FitsCall DEF AppLabels
    <3>3. WellStacked(a, <<f>> \o <<>>) /\ On(<<f>> \o <<>>) = {f} \cup On(<<>>)
      BY <3>1, <3>2, <1>2, Pushes
    <3>4. r = <<f>> \o <<>>
      BY <2>2
    <3> QED
      BY <3>1, <3>3, <3>4
  <2> QED
    BY <2>1, <2>2
<1> HIDE DEF r
<1>6. (\A x \in On(r) : x.at \notin TopLabels) /\ \E x \in On(r) : x.at \in FeedLabels
  BY <1>2, <1>5 DEF TopLabels, FeedLabels
<1>7. StacksOK' /\ a \in Threads /\ Turns(a, {}, AddSet(items) \cup On(r))
  BY <1>1, <1>3, <1>4, <1>5, <1>6, AppAdds
<1>8. C \in SUBSET Frames /\ Turns(a, {}, AddSet(items) \cup C)
  BY <1>2, <1>5, <1>7
<1> QED
  BY <1>4, <1>5, <1>7, <1>8 DEF f, g, items

LEMMA AppReturnTurns ==
  ASSUME Core, NEW a \in AppThreads, AppReturn(a)
  PROVE  /\ StacksOK' /\ a \in Threads /\ Top(a) \in Frames
         /\ Top(a).at \in {"addedPacket", "closedAll", "stopSources"}
         /\ \/ Enters(a, {Top(a)}, {}) /\ Top(a).at # "stopSources"
            \/ /\ Turns(a, {Top(a)}, {}) /\ UNCHANGED <<handling_idle_, stateMutex>>
               /\ Top(a).at # "closedAll"
<1>1. a \in Threads /\ StacksOK
  BY DEF Core, Threads
<1>2. At(a, "addedPacket") \/ At(a, "closedAll") \/ At(a, "stopSources")
  BY DEF AppReturn, AddedPacketToGraphInputStream, ClosedAllGraphInputStreams,
         CloseAllSourceNodes
<1>3. /\ stack[a] # <<>> /\ Top(a) \in Frames /\ WellStacked(a, Return(a))
      /\ Top(a).at \in {"addedPacket", "closedAll", "stopSources"}
      /\ On(Return(a)) = {} \cup On(Return(a))
  BY <1>1, <1>2, TopMost
<1>4. CASE EnterHandleIdle(a, Return(a)) /\ Top(a).at # "stopSources"
  BY <1>1, <1>3, <1>4, EntersFrom
<1>5. CASE /\ stack' = [stack EXCEPT ![a] = Return(a)]
           /\ UNCHANGED <<handling_idle_, stateMutex>> /\ Top(a).at # "closedAll"
  BY <1>1, <1>3, <1>5, Returns
<1>6. \/ EnterHandleIdle(a, Return(a)) /\ Top(a).at # "stopSources"
      \/ /\ stack' = [stack EXCEPT ![a] = Return(a)]
         /\ UNCHANGED <<handling_idle_, stateMutex>> /\ Top(a).at # "closedAll"
  <2>1. CASE AddedPacketToGraphInputStream(a)
    BY <2>1 DEF AddedPacketToGraphInputStream, At
  <2>2. CASE ClosedAllGraphInputStreams(a)
    BY <2>2 DEF ClosedAllGraphInputStreams, At
  <2>3. CASE CloseAllSourceNodes(a)
    BY <2>3 DEF CloseAllSourceNodes, At, schedulerVars
  <2> QED
    BY <2>1, <2>2, <2>3 DEF AppReturn
<1> QED
  BY <1>4, <1>5, <1>6

-----------------------------------------------------------------------------
(* The tasks that threads have grabbed from a queue and not yet given to its
   executor, each a pair of the place of its frame in the stack, counted from the
   bottom, and a number. *)

HeldBy(f, q) == IF f.at \in TaskLabels /\ f.q = q THEN f.tasks ELSE 0
HeldIn(s, q) ==
  {p \in Nat \X Nat : p[1] < Len(s) /\ 1 <= p[2] /\ p[2] <= HeldBy(s[Len(s) - p[1]], q)}
TasksHeld(st, q) == {x \in Threads \X (Nat \X Nat) : x[2] \in HeldIn(st[x[1]], q)}

LEMMA HeldByType ==
  ASSUME NEW f \in Frames, NEW q
  PROVE  HeldBy(f, q) \in Nat /\ (f.at \notin TaskLabels => HeldBy(f, q) = 0)
  BY FrameFields DEF HeldBy

LEMMA HeldCons ==
  ASSUME NEW f \in Frames, NEW r \in Seq(Frames), NEW q
  PROVE  /\ HeldIn(<<f>> \o r, q) = HeldIn(r, q) \cup ({Len(r)} \X (1 .. HeldBy(f, q)))
         /\ HeldIn(r, q) \cap ({Len(r)} \X (1 .. HeldBy(f, q))) = {}
         /\ Len(r) \in Nat
<1> DEFINE s == <<f>> \o r
<1>1. /\ s \in Seq(Frames) /\ Len(s) = Len(r) + 1 /\ s[1] = f
      /\ \A i \in 1 .. Len(r) : s[i + 1] = r[i]
  BY Cons
<1>2. Len(r) \in Nat /\ HeldBy(f, q) \in Nat
  BY LenProperties, HeldByType
<1> HIDE DEF s
<1>3. ASSUME NEW d \in Nat, d < Len(r) PROVE s[Len(s) - d] = r[Len(r) - d]
  <2>1. Len(r) - d \in 1 .. Len(r) /\ (Len(r) - d) + 1 = Len(s) - d
    BY <1>1, <1>2, <1>3
  <2> QED
    BY <2>1, <1>1
<1>4. s[Len(s) - Len(r)] = f
  <2>1. Len(s) - Len(r) = 1
    BY <1>1, <1>2
  <2> QED
    BY <2>1, <1>1
<1>5. ASSUME NEW p \in Nat \X Nat
      PROVE  p \in HeldIn(s, q) <=> p \in HeldIn(r, q) \cup ({Len(r)} \X (1 .. HeldBy(f, q)))
  <2>1. CASE p[1] < Len(r)
    <3>1. s[Len(s) - p[1]] = r[Len(r) - p[1]] /\ p[1] < Len(s) /\ p[1] # Len(r)
      BY <2>1, <1>1, <1>2, <1>3
    <3> QED
      BY <3>1, <2>1 DEF HeldIn
  <2>2. CASE p[1] = Len(r)
    <3>1. s[Len(s) - p[1]] = f /\ p[1] < Len(s) /\ ~(p[1] < Len(r))
      BY <2>2, <1>1, <1>2, <1>4
    <3>2. p \in HeldIn(s, q) <=> p[2] \in 1 .. HeldBy(f, q)
      BY <3>1, <1>2 DEF HeldIn
    <3>3. p \notin HeldIn(r, q)
      BY <3>1 DEF HeldIn
    <3>4. p \in {Len(r)} \X (1 .. HeldBy(f, q)) <=> p[2] \in 1 .. HeldBy(f, q)
      BY <2>2
    <3> QED
      BY <3>2, <3>3, <3>4
  <2>3. CASE ~(p[1] < Len(r)) /\ p[1] # Len(r)
    <3>1. ~(p[1] < Len(s))
      BY <2>3, <1>1, <1>2
    <3> QED
      BY <3>1, <2>3 DEF HeldIn
  <2> QED
    BY <2>1, <2>2, <2>3
<1>6. HeldIn(s, q) \subseteq Nat \X Nat /\ HeldIn(r, q) \subseteq Nat \X Nat
  BY DEF HeldIn
<1>7. {Len(r)} \X (1 .. HeldBy(f, q)) \subseteq Nat \X Nat
  BY <1>2
<1>8. HeldIn(s, q) = HeldIn(r, q) \cup ({Len(r)} \X (1 .. HeldBy(f, q)))
  BY <1>5, <1>6, <1>7
<1>9. HeldIn(r, q) \cap ({Len(r)} \X (1 .. HeldBy(f, q))) = {}
  <2>1. \A p \in HeldIn(r, q) : p[1] < Len(r)
    BY DEF HeldIn
  <2>2. \A p \in {Len(r)} \X (1 .. HeldBy(f, q)) : p[1] = Len(r)
    OBVIOUS
  <2>3. ~(Len(r) < Len(r))
    BY <1>2
  <2> QED
    BY <2>1, <2>2, <2>3
<1> QED
  BY <1>2, <1>8, <1>9 DEF s

LEMMA HoldsNothing ==
  ASSUME NEW q
  PROVE  HeldIn(<<>>, q) = {}
  BY DEF HeldIn

LEMMA HoldsNoMore ==
  ASSUME NEW f \in Frames, f.at \notin TaskLabels, NEW r \in Seq(Frames), NEW q
  PROVE  <<f>> \o r \in Seq(Frames) /\ HeldIn(<<f>> \o r, q) = HeldIn(r, q)
<1>1. HeldBy(f, q) = 0
  BY HeldByType
<1>2. {Len(r)} \X (1 .. HeldBy(f, q)) = {}
  BY <1>1
<1>3. HeldIn(<<f>> \o r, q) = HeldIn(r, q) \cup ({Len(r)} \X (1 .. HeldBy(f, q)))
  BY HeldCons
<1>4. <<f>> \o r \in Seq(Frames)
  BY Cons
<1> QED
  BY <1>2, <1>3, <1>4

LEMMA TwoCons ==
  ASSUME NEW f \in Frames, NEW g \in Frames, NEW r \in Seq(Frames)
  PROVE  <<f, g>> \o r = <<f>> \o (<<g>> \o r)
<1>1. <<f>> \in Seq(Frames) /\ <<g>> \in Seq(Frames)
  OBVIOUS
<1>2. <<f, g>> = <<f>> \o <<g>>
  <2> DEFINE c == <<f>> \o <<g>>
  <2>1. c \in Seq(Frames) /\ Len(c) = 2 /\ c[1] = f /\ c[2] = g
    <3>1. <<g>> \in Seq(Frames) /\ Len(<<g>>) = 1 /\ <<g>>[1] = g
      OBVIOUS
    <3>2. 1 \in 1 .. Len(<<g>>) /\ 1 + 1 = 2
      BY <3>1
    <3> QED
      BY <3>1, <3>2, Cons
  <2> HIDE DEF c
  <2>2. <<f, g>> \in Seq(Frames) /\ Len(<<f, g>>) = 2 /\ <<f, g>>[1] = f /\ <<f, g>>[2] = g
    OBVIOUS
  <2>3. \A i \in 1 .. Len(<<f, g>>) : <<f, g>>[i] = c[i]
    BY <2>1, <2>2
  <2>4. <<f, g>> = c
    BY <2>1, <2>2, <2>3, SeqEqual
  <2> QED
    BY <2>4 DEF c
<1> QED
  BY <1>1, <1>2, ConcatAssociative

LEMMA SingleHolds ==
  ASSUME NEW f \in Frames, f.at \notin TaskLabels, NEW q
  PROVE  <<f>> \in Seq(Frames) /\ HeldIn(<<f>>, q) = {}
<1>1. <<f>> \o <<>> = <<f>>
  <2>1. <<f>> \in Seq(Frames)
    OBVIOUS
  <2> QED
    BY <2>1, ConcatEmptySeq
<1>2. <<>> \in Seq(Frames)
  BY EmptySeq
<1> QED
  BY <1>1, <1>2, HoldsNoMore, HoldsNothing

LEMMA ThenAddHolds ==
  ASSUME NEW items \in SUBSET Item, NEW r \in Seq(Frames), NEW q
  PROVE  ThenAdd(items, r) \in Seq(Frames) /\ HeldIn(ThenAdd(items, r), q) = HeldIn(r, q)
<1>1. AddFrame(items) \in Frames /\ AddFrame(items).at \notin TaskLabels
  BY FramesMade DEF TaskLabels
<1>2. <<AddFrame(items)>> \o r \in Seq(Frames)
      /\ HeldIn(<<AddFrame(items)>> \o r, q) = HeldIn(r, q)
  BY <1>1, HoldsNoMore
<1> QED
  BY <1>2 DEF ThenAdd

LEMMA ThenSubmitHolds ==
  ASSUME NEW qs \in SUBSET Queues, NEW r \in Seq(Frames), NEW q
  PROVE  ThenSubmit(qs, r) \in Seq(Frames) /\ HeldIn(ThenSubmit(qs, r), q) = HeldIn(r, q)
<1>1. SubmitFrame(qs) \in Frames /\ SubmitFrame(qs).at \notin TaskLabels
  BY FramesMade DEF TaskLabels
<1>2. <<SubmitFrame(qs)>> \o r \in Seq(Frames)
      /\ HeldIn(<<SubmitFrame(qs)>> \o r, q) = HeldIn(r, q)
  BY <1>1, HoldsNoMore
<1> QED
  BY <1>2 DEF ThenSubmit

\* A thread holds no more and no fewer tasks than before.
HoldsAsBefore(t, new) ==
  /\ stack' = [stack EXCEPT ![t] = new]
  /\ \A q : HeldIn(new, q) = HeldIn(stack[t], q)

LEMMA KeepsTasks ==
  ASSUME StacksOK, NEW t \in Threads, NEW new, HoldsAsBefore(t, new)
  PROVE  \A q : TasksHeld(stack', q) = TasksHeld(stack, q)
<1>1. /\ stack'[t] = new /\ \A u \in Threads : u # t => stack'[u] = stack[u]
  BY DEF StacksOK, HoldsAsBefore
<1>2. \A q, u : u \in Threads => HeldIn(stack'[u], q) = HeldIn(stack[u], q)
  BY <1>1 DEF HoldsAsBefore
<1> QED
  BY <1>2 DEF TasksHeld

\* The top frame of t, and what it holds.
LEMMA TopHolds ==
  ASSUME StacksOK, NEW t \in Threads, stack[t] # <<>>
  PROVE  /\ Top(t) \in Frames /\ Return(t) \in Seq(Frames) /\ stack[t] \in Seq(Frames)
         /\ stack[t] = <<Top(t)>> \o Return(t)
         /\ Top(t).at \notin TaskLabels =>
              \A q : HeldIn(stack[t], q) = HeldIn(Return(t), q)
<1>1. stack[t] \in Seq(Frames)
  BY DEF StacksOK
<1>2. /\ Top(t) \in Frames /\ Return(t) \in Seq(Frames)
      /\ stack[t] = <<Top(t)>> \o Return(t)
  BY <1>1, Split DEF Top, Return
<1> QED
  BY <1>1, <1>2, HoldsNoMore

\* The calls into HandleIdle hold what the frames under them do.
LEMMA EntersHolding ==
  ASSUME NEW t \in Threads, NEW s \in Seq(Frames), EnterHandleIdle(t, s)
  PROVE  \E new \in Seq(Frames) :
           /\ stack' = [stack EXCEPT ![t] = new]
           /\ \A q : HeldIn(new, q) = HeldIn(s, q)
<1>1. Frame("handleIdle") \in Frames /\ Frame("handleIdle").at \notin TaskLabels
  BY FramesMade DEF PlainLabels, TaskLabels
<1>2. /\ <<Frame("handleIdle")>> \o s \in Seq(Frames)
      /\ \A q : HeldIn(<<Frame("handleIdle")>> \o s, q) = HeldIn(s, q)
  BY <1>1, HoldsNoMore
<1>3. \/ stack' = [stack EXCEPT ![t] = <<Frame("handleIdle")>> \o s]
      \/ stack' = [stack EXCEPT ![t] = s]
  BY DEF EnterHandleIdle
<1> QED
  BY <1>2, <1>3

LEMMA ToldHolding ==
  ASSUME NEW t \in Threads, NEW s \in Seq(Frames), NEW by, QueueIdleStateChanged(t, by, s)
  PROVE  \E new \in Seq(Frames) :
           /\ stack' = [stack EXCEPT ![t] = new]
           /\ \A q : HeldIn(new, q) = HeldIn(s, q)
<1>1. EnterHandleIdle(t, s) \/ stack' = [stack EXCEPT ![t] = s]
  BY DEF QueueIdleStateChanged
<1> QED
  BY <1>1, EntersHolding

\* The pairs that the frame at depth d of thread t holds, n of them.
Share(t, d, n) == {t} \X ({d} \X (1 .. n))

LEMMA ShareSize ==
  ASSUME NEW t, NEW d, NEW n \in Nat
  PROVE  IsFiniteSet(Share(t, d, n)) /\ Cardinality(Share(t, d, n)) = n
<1>1. IsFiniteSet({t}) /\ Cardinality({t}) = 1 /\ IsFiniteSet({d}) /\ Cardinality({d}) = 1
  BY FS_Singleton
<1>2. IsFiniteSet(1 .. n) /\ Cardinality(1 .. n) = n
  BY FS_Interval
<1>3. /\ IsFiniteSet({d} \X (1 .. n))
      /\ Cardinality({d} \X (1 .. n)) = Cardinality({d}) * Cardinality(1 .. n)
  BY <1>1, <1>2, FS_Product
<1>4. /\ IsFiniteSet(Share(t, d, n))
      /\ Cardinality(Share(t, d, n)) = Cardinality({t}) * Cardinality({d} \X (1 .. n))
  BY <1>1, <1>3, FS_Product DEF Share
<1> QED
  BY <1>1, <1>2, <1>3, <1>4

LEMMA ShareSwaps ==
  ASSUME NEW K, NEW t, NEW d, NEW m \in Nat, NEW n \in Nat,
         IsFiniteSet(K \cup Share(t, d, m)),
         K \cap Share(t, d, m) = {}, K \cap Share(t, d, n) = {}
  PROVE  /\ IsFiniteSet(K \cup Share(t, d, n)) /\ Cardinality(K \cup Share(t, d, n)) \in Nat
         /\ Cardinality(K \cup Share(t, d, m)) \in Nat
         /\ Cardinality(K \cup Share(t, d, n)) = Cardinality(K \cup Share(t, d, m)) - m + n
         /\ m <= Cardinality(K \cup Share(t, d, m))
<1>1. /\ IsFiniteSet(Share(t, d, m)) /\ Cardinality(Share(t, d, m)) = m
      /\ IsFiniteSet(Share(t, d, n)) /\ Cardinality(Share(t, d, n)) = n
  BY ShareSize
<1>2. IsFiniteSet(K)
  <2>1. K \in SUBSET (K \cup Share(t, d, m))
    OBVIOUS
  <2> QED
    BY <2>1, FS_Subset
<1>3. Cardinality(K) \in Nat
  BY <1>2, FS_CardinalityType
<1>4. Cardinality({}) = 0
  BY FS_EmptySet
<1>5. ASSUME NEW k \in Nat, IsFiniteSet(Share(t, d, k)), Cardinality(Share(t, d, k)) = k,
             K \cap Share(t, d, k) = {}
      PROVE  /\ IsFiniteSet(K \cup Share(t, d, k))
             /\ Cardinality(K \cup Share(t, d, k)) = Cardinality(K) + k
  <2> DEFINE T == Share(t, d, k)
  <2> HIDE DEF T
  <2>1. /\ IsFiniteSet(K \cup T)
        /\ Cardinality(K \cup T) = Cardinality(K) + Cardinality(T) - Cardinality(K \cap T)
    BY <1>2, <1>5, FS_Union DEF T
  <2>2. Cardinality(K \cap T) = 0 /\ Cardinality(T) = k
    BY <1>4, <1>5 DEF T
  <2> QED
    BY <2>1, <2>2, <1>3 DEF T
<1>6. /\ Cardinality(K \cup Share(t, d, m)) = Cardinality(K) + m
      /\ IsFiniteSet(K \cup Share(t, d, n))
      /\ Cardinality(K \cup Share(t, d, n)) = Cardinality(K) + n
  BY <1>1, <1>5
<1> QED
  BY <1>3, <1>6

\* Above the frames r of a stack s there is one that holds n tasks.
Holds(s, r, q, n) == HeldIn(s, q) = HeldIn(r, q) \cup ({Len(r)} \X (1 .. n))

\* A thread turns the m tasks that it holds above the frames r into n tasks.
LEMMA HeldChanges ==
  ASSUME NEW before, NEW after, NEW t \in Threads,
         \A u \in Threads : u # t => after[u] = before[u],
         NEW q, NEW r \in Seq(Frames), NEW m \in Nat, NEW n \in Nat,
         Holds(before[t], r, q, m), Holds(after[t], r, q, n), IsFiniteSet(TasksHeld(before, q))
  PROVE  /\ IsFiniteSet(TasksHeld(after, q)) /\ Cardinality(TasksHeld(after, q)) \in Nat
         /\ Cardinality(TasksHeld(before, q)) \in Nat
         /\ Cardinality(TasksHeld(after, q)) = Cardinality(TasksHeld(before, q)) - m + n
         /\ m <= Cardinality(TasksHeld(before, q))
<1> USE DEF Holds
<1> DEFINE K == {x \in Threads \X (Nat \X Nat) :
                   IF x[1] = t THEN x[2] \in HeldIn(r, q) ELSE x[2] \in HeldIn(before[x[1]], q)}
<1>2. \A p \in HeldIn(r, q) : p \in Nat \X Nat /\ p[1] < Len(r)
  BY DEF HeldIn
<1>3. Len(r) \in Nat /\ ~(Len(r) < Len(r))
  BY LenProperties
<1>4. ASSUME NEW k \in Nat
      PROVE  /\ K \cap Share(t, Len(r), k) = {}
             /\ Share(t, Len(r), k) \subseteq Threads \X (Nat \X Nat)
             /\ \A x \in Threads \X (Nat \X Nat) :
                  x \in Share(t, Len(r), k) <=> x[1] = t /\ x[2] \in {Len(r)} \X (1 .. k)
  BY <1>2, <1>3 DEF Share
<1>5. TasksHeld(before, q) = K \cup Share(t, Len(r), m)
  <2>1. ASSUME NEW x \in Threads \X (Nat \X Nat)
        PROVE  x \in TasksHeld(before, q) <=> x \in K \cup Share(t, Len(r), m)
    <3>1. CASE x[1] = t
      BY <3>1, <1>4 DEF TasksHeld
    <3>2. CASE x[1] # t
      BY <3>2, <1>4 DEF TasksHeld
    <3> QED
      BY <3>1, <3>2
  <2> QED
    BY <2>1, <1>4 DEF TasksHeld
<1>6. TasksHeld(after, q) = K \cup Share(t, Len(r), n)
  <2>1. ASSUME NEW x \in Threads \X (Nat \X Nat)
        PROVE  x \in TasksHeld(after, q) <=> x \in K \cup Share(t, Len(r), n)
    <3>1. CASE x[1] = t
      BY <3>1, <1>4 DEF TasksHeld
    <3>2. CASE x[1] # t
      BY <3>2, <1>4 DEF TasksHeld
    <3> QED
      BY <3>1, <3>2
  <2> QED
    BY <2>1, <1>4 DEF TasksHeld
<1>7. K \cap Share(t, Len(r), m) = {} /\ K \cap Share(t, Len(r), n) = {}
  BY <1>4
<1> HIDE DEF K
<1>8. PICK S, S1, d : S = TasksHeld(before, q) /\ S1 = TasksHeld(after, q) /\ d = Len(r)
  OBVIOUS
<1>9. /\ IsFiniteSet(S) /\ S = K \cup Share(t, d, m) /\ K \cap Share(t, d, m) = {}
      /\ S1 = K \cup Share(t, d, n) /\ K \cap Share(t, d, n) = {}
  BY <1>5, <1>6, <1>7, <1>8
<1>10. /\ IsFiniteSet(S1) /\ Cardinality(S) \in Nat /\ Cardinality(S1) \in Nat
       /\ Cardinality(S1) = Cardinality(S) - m + n /\ m <= Cardinality(S)
  <2>1. /\ IsFiniteSet(K \cup Share(t, d, m)) /\ m \in Nat /\ n \in Nat
        /\ K \cap Share(t, d, m) = {} /\ K \cap Share(t, d, n) = {}
    BY <1>9
  <2>2. /\ IsFiniteSet(K \cup Share(t, d, n)) /\ Cardinality(K \cup Share(t, d, n)) \in Nat
        /\ Cardinality(K \cup Share(t, d, m)) \in Nat
        /\ Cardinality(K \cup Share(t, d, n)) = Cardinality(K \cup Share(t, d, m)) - m + n
        /\ m <= Cardinality(K \cup Share(t, d, m))
    BY ONLY <2>1, ShareSwaps
  <2> QED
    BY <2>2, <1>9
<1> QED
  BY <1>8, <1>10

LEMMA HeldIsOfTop ==
  ASSUME StacksOK, NEW t \in Threads, stack[t] # <<>>, NEW q
  PROVE  Holds(stack[t], Return(t), q, HeldBy(Top(t), q))
<1>1. /\ Top(t) \in Frames /\ Return(t) \in Seq(Frames)
      /\ stack[t] = <<Top(t)>> \o Return(t)
  BY TopHolds
<1> DEFINE f == Top(t)
           r == Return(t)
<1> HIDE DEF f, r
<1>2. HeldIn(<<f>> \o r, q) = HeldIn(r, q) \cup ({Len(r)} \X (1 .. HeldBy(f, q)))
  BY <1>1, HeldCons DEF f, r
<1> QED
  BY <1>1, <1>2 DEF f, r, Holds

\* The critical section of AddItemToQueue grabs tasks of its queue, or none.
LEMMA PushItemHolds ==
  ASSUME Core, NEW t \in Threads, PushItem(t), NEW x \in Queues, IsFiniteSet(TasksHeld(stack, x))
  PROVE  LET q == QueueOf[Top(t).item.node]
         IN  /\ IsFiniteSet(TasksHeld(stack', x))
             /\ x # q \/ ~(sq[q].running > 0) =>
                  Cardinality(TasksHeld(stack', x)) = Cardinality(TasksHeld(stack, x))
             /\ x = q /\ sq[q].running > 0 =>
                  Cardinality(TasksHeld(stack', x)) = Cardinality(TasksHeld(stack, x)) + (sq[q].toAdd + 1)
<1> DEFINE q == QueueOf[Top(t).item.node]
<1>1. PICK f \in Frames :
        /\ f.at \in {"callFalse", "addTask"} /\ f.q = q
        /\ f.tasks = IF sq[q].running > 0 THEN sq[q].toAdd + 1 ELSE 0
        /\ stack' = [stack EXCEPT ![t] = <<f>> \o Return(t)]
  BY PushItemTurns
<1>2. /\ StacksOK /\ stack[t] # <<>> /\ Top(t).at = "push" /\ Top(t) \in Frames
  <2>1. At(t, "push") /\ StacksOK
    BY DEF PushItem, Core
  <2> QED
    BY <2>1, TopMost
<1>3. HeldBy(Top(t), x) = 0 /\ HeldBy(f, x) \in Nat
  BY <1>2, HeldByType DEF TaskLabels
<1>4. Return(t) \in Seq(Frames)
  BY <1>2, TopHolds
<1>5. Holds(stack[t], Return(t), x, 0)
  BY <1>2, <1>3, HeldIsOfTop
<1>6. Holds(<<f>> \o Return(t), Return(t), x, HeldBy(f, x))
  BY <1>4, HeldCons DEF Holds
<1> DEFINE new == <<f>> \o Return(t)
           r == Return(t)
           n == HeldBy(f, x)
<1>7. /\ stack' = [stack EXCEPT ![t] = new] /\ r \in Seq(Frames) /\ n \in Nat /\ 0 \in Nat
      /\ Holds(stack[t], r, x, 0) /\ Holds(new, r, x, n)
  BY <1>1, <1>3, <1>4, <1>5, <1>6
<1> HIDE DEF new, r, n
<1>8. /\ IsFiniteSet(TasksHeld(stack', x)) /\ Cardinality(TasksHeld(stack, x)) \in Nat
      /\ Cardinality(TasksHeld(stack', x)) = Cardinality(TasksHeld(stack, x)) + n
  <2>1. /\ t \in Threads /\ IsFiniteSet(TasksHeld(stack, x)) /\ Holds(stack'[t], r, x, n)
        /\ \A u \in Threads : u # t => stack'[u] = stack[u]
    BY <1>2, <1>7 DEF StacksOK
  <2>2. PICK k \in Nat, c \in Nat : k = 0 /\ c = n
    BY <1>7
  <2>3. PICK before, after, s : before = stack /\ after = stack' /\ s = r
    OBVIOUS
  <2>4. /\ t \in Threads /\ IsFiniteSet(TasksHeld(before, x)) /\ s \in Seq(Frames)
        /\ Holds(before[t], s, x, k) /\ Holds(after[t], s, x, c)
        /\ \A u \in Threads : u # t => after[u] = before[u]
        /\ k \in Nat /\ c \in Nat
    BY <2>1, <2>2, <2>3, <1>5, <1>7
  <2>5. /\ IsFiniteSet(TasksHeld(after, x)) /\ Cardinality(TasksHeld(after, x)) \in Nat
        /\ Cardinality(TasksHeld(before, x)) \in Nat
        /\ Cardinality(TasksHeld(after, x)) = Cardinality(TasksHeld(before, x)) - k + c
        /\ k <= Cardinality(TasksHeld(before, x))
    BY ONLY <2>4, HeldChanges
  <2> QED
    BY <2>2, <2>3, <2>5
<1>9. n = IF x = q /\ sq[q].running > 0 THEN sq[q].toAdd + 1 ELSE 0
  BY <1>1 DEF HeldBy, TaskLabels, n
<1> HIDE DEF q
<1>10. n \in Nat
  BY <1>7
<1>11. x # q \/ ~(sq[q].running > 0) =>
         Cardinality(TasksHeld(stack', x)) = Cardinality(TasksHeld(stack, x))
  BY <1>8, <1>9
<1>12. x = q /\ sq[q].running > 0 =>
         Cardinality(TasksHeld(stack', x)) = Cardinality(TasksHeld(stack, x)) + (sq[q].toAdd + 1)
  BY <1>8, <1>9, <1>10
<1> QED
  BY <1>8, <1>11, <1>12 DEF q

LEMMA AddTasksHolds ==
  ASSUME Core, NEW t \in Threads, AddTasks(t), NEW x \in Queues, IsFiniteSet(TasksHeld(stack, x))
  PROVE  /\ IsFiniteSet(TasksHeld(stack', x))
         /\ Cardinality(TasksHeld(stack', x)) =
              Cardinality(TasksHeld(stack, x)) - (IF x = Top(t).q THEN Top(t).tasks ELSE 0)
<1>1. /\ StacksOK /\ stack[t] # <<>> /\ Top(t).at = "addTask" /\ Top(t) \in Frames
  <2>1. At(t, "addTask") /\ StacksOK
    BY DEF AddTasks, Core
  <2> QED
    BY <2>1, TopMost
<1>2. Top(t).todo \in SUBSET Item /\ Return(t) \in Seq(Frames)
  BY <1>1, TopHolds, FrameFields DEF AddLabels, TaskLabels
<1> DEFINE new == ThenAdd(Top(t).todo, Return(t))
           r == Return(t)
           m == HeldBy(Top(t), x)
<1>3. HeldIn(new, x) = HeldIn(r, x)
  BY <1>2, ThenAddHolds
<1>4. m \in Nat /\ m = IF x = Top(t).q THEN Top(t).tasks ELSE 0
  BY <1>1, HeldByType DEF HeldBy, TaskLabels
<1>5. Holds(stack[t], r, x, m)
  BY <1>1, HeldIsOfTop
<1>6. Holds(new, r, x, 0)
  BY <1>3 DEF Holds
<1>7. stack' = [stack EXCEPT ![t] = new] /\ r \in Seq(Frames) /\ 0 \in Nat
  BY <1>2 DEF AddTasks
<1> HIDE DEF new, r, m
<1>8. /\ IsFiniteSet(TasksHeld(stack', x)) /\ Cardinality(TasksHeld(stack, x)) \in Nat
      /\ Cardinality(TasksHeld(stack', x)) = Cardinality(TasksHeld(stack, x)) - m
  <2>1. /\ t \in Threads /\ IsFiniteSet(TasksHeld(stack, x)) /\ Holds(stack'[t], r, x, 0)
        /\ \A u \in Threads : u # t => stack'[u] = stack[u]
    BY <1>1, <1>6, <1>7 DEF StacksOK
  <2>2. PICK k \in Nat, c \in Nat : k = m /\ c = 0
    BY <1>4
  <2>3. PICK before, after, s : before = stack /\ after = stack' /\ s = r
    OBVIOUS
  <2>4. /\ t \in Threads /\ IsFiniteSet(TasksHeld(before, x)) /\ s \in Seq(Frames)
        /\ Holds(before[t], s, x, k) /\ Holds(after[t], s, x, c)
        /\ \A u \in Threads : u # t => after[u] = before[u]
        /\ k \in Nat /\ c \in Nat
    BY <2>1, <2>2, <2>3, <1>5, <1>7
  <2>5. /\ IsFiniteSet(TasksHeld(after, x)) /\ Cardinality(TasksHeld(after, x)) \in Nat
        /\ Cardinality(TasksHeld(before, x)) \in Nat
        /\ Cardinality(TasksHeld(after, x)) = Cardinality(TasksHeld(before, x)) - k + c
        /\ k <= Cardinality(TasksHeld(before, x))
    BY ONLY <2>4, HeldChanges
  <2> QED
    BY <2>2, <2>3, <2>5
<1> QED
  BY <1>4, <1>8

\* No task is grabbed or given to an executor.
TasksStay == \A q : TasksHeld(stack', q) = TasksHeld(stack, q)

LEMMA StaysOver ==
  ASSUME StacksOK, NEW t \in Threads, stack[t] # <<>>, Top(t).at \notin TaskLabels,
         NEW new, stack' = [stack EXCEPT ![t] = new],
         \A q : HeldIn(new, q) = HeldIn(Return(t), q)
  PROVE  TasksStay
<1>1. \A q : HeldIn(stack[t], q) = HeldIn(Return(t), q)
  BY TopHolds
<1>2. HoldsAsBefore(t, new)
  BY <1>1 DEF HoldsAsBefore
<1> QED
  BY <1>2, KeepsTasks DEF TasksStay

LEMMA StaysFresh ==
  ASSUME StacksOK, NEW t \in Threads, \A q : HeldIn(stack[t], q) = {},
         NEW new, stack' = [stack EXCEPT ![t] = new], \A q : HeldIn(new, q) = {}
  PROVE  TasksStay
<1>1. HoldsAsBefore(t, new)
  BY DEF HoldsAsBefore
<1> QED
  BY <1>1, KeepsTasks DEF TasksStay

LEMMA NodeHoldsNothing ==
  ASSUME StacksOK, NEW w \in Workers, NEW l \in NodeLabels, At(w, l)
  PROVE  w \in Threads /\ \A q : HeldIn(stack[w], q) = {}
<1>1. w \in Threads /\ stack[w] # <<>> /\ Top(w).at = l /\ On(Return(w)) = {}
  BY WorkerTop
<1>2. /\ Return(w) \in Seq(Frames)
      /\ \A q : HeldIn(stack[w], q) = HeldIn(Return(w), q)
  BY <1>1, TopHolds DEF NodeLabels, TaskLabels
<1>3. Len(Return(w)) = 0
  <2>1. Len(Return(w)) \in Nat /\ DOMAIN Return(w) = 1 .. Len(Return(w))
    BY <1>2, LenProperties
  <2>2. 1 \notin DOMAIN Return(w)
    BY <1>1 DEF On
  <2> QED
    BY <2>1, <2>2
<1>4. \A q : HeldIn(Return(w), q) = {}
  BY <1>3 DEF HeldIn
<1> QED
  BY <1>1, <1>2, <1>4

LEMMA CallsKeepTasks ==
  ASSUME Core, NEW t \in Threads,
         TryAddNode(t) \/ SubmitWaitingTasks(t) \/ CallIdleTrue(t)
  PROVE  TasksStay
<1>1. StacksOK
  BY DEF Core
<1>2. CASE TryAddNode(t)
  <2>1. At(t, "add")
    BY <1>2 DEF TryAddNode
  <2>2. stack[t] # <<>> /\ Top(t).at = "add" /\ Top(t) \in Frames
    BY <2>1, <1>1, TopMost
  <2>3. Top(t).todo \in SUBSET Item /\ Return(t) \in Seq(Frames)
    BY <2>2, <1>1, TopHolds, FrameFields DEF AddLabels
  <2>4. PICK i \in Top(t).todo :
          \/ stack' = [stack EXCEPT ![t] = <<PushFrame(Top(t).todo \ {i}, i)>> \o Return(t)]
          \/ stack' = [stack EXCEPT ![t] = ThenAdd(Top(t).todo \ {i}, Return(t))]
    BY <1>2 DEF TryAddNode
  <2>5. PICK new : /\ stack' = [stack EXCEPT ![t] = new]
                   /\ \/ new = <<PushFrame(Top(t).todo \ {i}, i)>> \o Return(t)
                      \/ new = ThenAdd(Top(t).todo \ {i}, Return(t))
    BY <2>4
  <2>6. \A q : HeldIn(new, q) = HeldIn(Return(t), q)
    <3>1. i \in Item /\ Top(t).todo \ {i} \in SUBSET Item
      BY <2>3
    <3>2. CASE new = <<PushFrame(Top(t).todo \ {i}, i)>> \o Return(t)
      <4>1. /\ PushFrame(Top(t).todo \ {i}, i) \in Frames
            /\ PushFrame(Top(t).todo \ {i}, i).at \notin TaskLabels
        BY <3>1, FramesMade DEF TaskLabels
      <4> QED
        BY <4>1, <3>2, <2>3, HoldsNoMore
    <3>3. CASE new = ThenAdd(Top(t).todo \ {i}, Return(t))
      BY <3>1, <3>3, <2>3, ThenAddHolds
    <3> QED
      BY <3>2, <3>3, <2>5
  <2>7. Top(t).at \notin TaskLabels
    BY <2>2 DEF TaskLabels
  <2> QED
    BY <2>2, <2>5, <2>6, <2>7, <1>1, StaysOver
<1>3. CASE SubmitWaitingTasks(t)
  <2>1. At(t, "submit")
    BY <1>3 DEF SubmitWaitingTasks
  <2>2. stack[t] # <<>> /\ Top(t).at = "submit" /\ Top(t) \in Frames
    BY <2>1, <1>1, TopMost
  <2>3. Top(t).qs \in SUBSET Queues /\ Return(t) \in Seq(Frames)
    BY <2>2, <1>1, TopHolds, FrameFields
  <2>4. PICK q \in Top(t).qs :
          stack' = [stack EXCEPT ![t] = ThenSubmit(Top(t).qs \ {q}, Return(t))]
    BY <1>3 DEF SubmitWaitingTasks
  <2>5. \A x : HeldIn(ThenSubmit(Top(t).qs \ {q}, Return(t)), x) = HeldIn(Return(t), x)
    BY <2>3, ThenSubmitHolds
  <2>6. Top(t).at \notin TaskLabels
    BY <2>2 DEF TaskLabels
  <2> QED
    BY <2>2, <2>4, <2>5, <2>6, <1>1, StaysOver
<1>4. CASE CallIdleTrue(t)
  <2>1. At(t, "callTrue") /\ QueueIdleStateChanged(t, -1, Return(t))
    BY <1>4 DEF CallIdleTrue
  <2>2. stack[t] # <<>> /\ Top(t).at = "callTrue" /\ Top(t) \in Frames
    BY <2>1, <1>1, TopMost
  <2>3. Return(t) \in Seq(Frames) /\ Top(t).at \notin TaskLabels
    BY <2>2, <1>1, TopHolds DEF TaskLabels
  <2>4. EnterHandleIdle(t, Return(t)) \/ stack' = [stack EXCEPT ![t] = Return(t)]
    BY <2>1 DEF QueueIdleStateChanged
  <2>5. PICK new : /\ stack' = [stack EXCEPT ![t] = new]
                   /\ \A q : HeldIn(new, q) = HeldIn(Return(t), q)
    <3>1. CASE EnterHandleIdle(t, Return(t))
      <4> DEFINE s == Return(t)
      <4>1. s \in Seq(Frames) /\ EnterHandleIdle(t, s)
        BY <2>3, <3>1
      <4> HIDE DEF s
      <4>2. \E new \in Seq(Frames) :
              /\ stack' = [stack EXCEPT ![t] = new]
              /\ \A q : HeldIn(new, q) = HeldIn(s, q)
        BY ONLY <4>1, t \in Threads, EntersHolding
      <4> QED
        BY <4>2 DEF s
    <3>2. CASE stack' = [stack EXCEPT ![t] = Return(t)]
      BY <3>2
    <3> QED
      BY <3>1, <3>2, <2>4
  <2> QED
    BY <2>2, <2>3, <2>5, <1>1, StaysOver
<1> QED
  BY <1>2, <1>3, <1>4

LEMMA CallIdleFalseKeepsTasks ==
  ASSUME Core, NEW t \in Threads, CallIdleFalse(t)
  PROVE  TasksStay
<1>1. StacksOK /\ At(t, "callFalse")
  BY DEF Core, CallIdleFalse
<1>2. stack[t] # <<>> /\ Top(t).at = "callFalse" /\ Top(t) \in Frames
  BY <1>1, TopMost
<1>3. Return(t) \in Seq(Frames) /\ stack[t] = <<Top(t)>> \o Return(t)
  BY <1>1, <1>2, TopHolds
<1>4. Top(t).q \in Queues /\ Top(t).tasks \in Nat /\ Top(t).todo \in SUBSET Item
  BY <1>2, FrameFields DEF AddLabels, TaskLabels
<1> DEFINE f == AddTaskFrame(Top(t).todo, Top(t).q, Top(t).tasks)
           r == Return(t)
           s == <<f>> \o r
<1>5. f \in Frames /\ f.at = "addTask" /\ f.q = Top(t).q /\ f.tasks = Top(t).tasks
  BY <1>4, FramesMade
<1>6. QueueIdleStateChanged(t, 1, s)
  BY DEF CallIdleFalse
<1> HIDE DEF f
<1>7. \A q : HeldBy(f, q) = HeldBy(Top(t), q)
  BY <1>2, <1>5 DEF HeldBy, TaskLabels
<1>8. s \in Seq(Frames) /\ \A q : HeldIn(s, q) = HeldIn(stack[t], q)
  <2>1. s \in Seq(Frames)
    BY <1>3, <1>5, Cons
  <2>2. ASSUME NEW q PROVE HeldIn(s, q) = HeldIn(stack[t], q)
    <3>1. HeldIn(s, q) = HeldIn(r, q) \cup ({Len(r)} \X (1 .. HeldBy(f, q)))
      BY <1>3, <1>5, HeldCons
    <3>2. Holds(stack[t], r, q, HeldBy(Top(t), q))
      BY <1>1, <1>2, HeldIsOfTop
    <3> QED
      BY <3>1, <3>2, <1>7 DEF Holds
  <2> QED
    BY <2>1, <2>2
<1> HIDE DEF s
<1>9. PICK new : /\ stack' = [stack EXCEPT ![t] = new]
                 /\ \A q : HeldIn(new, q) = HeldIn(s, q)
  BY <1>6, <1>8, ToldHolding
<1>10. HoldsAsBefore(t, new)
  BY <1>8, <1>9 DEF HoldsAsBefore
<1> QED
  BY <1>1, <1>10, KeepsTasks DEF TasksStay

LEMMA EntersStays ==
  ASSUME StacksOK, NEW t \in Threads, NEW s \in Seq(Frames), EnterHandleIdle(t, s),
         \A q : HeldIn(s, q) = HeldIn(stack[t], q)
  PROVE  TasksStay
<1>1. PICK new \in Seq(Frames) :
        /\ stack' = [stack EXCEPT ![t] = new]
        /\ \A q : HeldIn(new, q) = HeldIn(s, q)
  BY EntersHolding
<1>2. HoldsAsBefore(t, new)
  BY <1>1 DEF HoldsAsBefore
<1> QED
  BY <1>2, KeepsTasks DEF TasksStay

LEMMA ReturnStays ==
  ASSUME StacksOK, NEW t \in Threads, stack[t] # <<>>, Top(t).at \notin TaskLabels,
         stack' = [stack EXCEPT ![t] = Return(t)]
  PROVE  TasksStay
  BY StaysOver

\* A frame that is no task follows the one on top.
LEMMA FollowStays ==
  ASSUME StacksOK, NEW t \in Threads, stack[t] # <<>>, Top(t).at \notin TaskLabels,
         NEW f \in Frames, f.at \notin TaskLabels,
         stack' = [stack EXCEPT ![t] = <<f>> \o Return(t)]
  PROVE  TasksStay
<1>1. Return(t) \in Seq(Frames)
  BY TopHolds
<1>2. \A q : HeldIn(<<f>> \o Return(t), q) = HeldIn(Return(t), q)
  BY <1>1, HoldsNoMore
<1> QED
  BY <1>2, StaysOver

LEMMA HandleIdleKeepsTasks ==
  ASSUME Core, NEW t \in Threads, HandleIdle(t)
  PROVE  TasksStay
<1>1. StacksOK
  BY DEF Core
<1>2. PICK l \in HandlerLabels : At(t, l)
  BY DEF HandleIdle, HandleIdleNotIdle, HandleIdleQuit, HandleIdleBlocked,
         HandleIdleNextLayer, StopQueuesForLayer, ActivateNode, StartQueuesForLayer,
         LockStateMutex, HandleIdleUnthrottle, UnthrottleSources, HandleIdleEndOfTurn,
         InHandleIdle, HandlerLabels, Turn, LayerLabels
<1>3. /\ stack[t] # <<>> /\ Top(t).at \notin TaskLabels /\ Return(t) \in Seq(Frames)
      /\ stack[t] \in Seq(Frames) /\ Top(t) \in Frames
  <2>1. stack[t] # <<>> /\ Top(t).at = l
    BY <1>1, <1>2, TopMost
  <2> QED
    BY <2>1, <1>1, TopHolds DEF HandlerLabels, Turn, LayerLabels, TaskLabels
<1> DEFINE Plain(l1) == Frame(l1) \in Frames /\ Frame(l1).at \notin TaskLabels
<1>4. /\ Plain("handleIdle") /\ Plain("unthrottle") /\ Plain("endOfTurn") /\ Plain("lock")
      /\ Plain("stopQueues") /\ Plain("startQueues")
  BY FramesMade DEF PlainLabels, TaskLabels
<1>5. CASE stack' = [stack EXCEPT ![t] = Return(t)]
  BY <1>1, <1>3, <1>5, ReturnStays
<1>6. CASE stack' = [stack EXCEPT ![t] = <<Frame("handleIdle")>> \o Return(t)]
  BY <1>1, <1>3, <1>4, <1>6, FollowStays
<1>7. CASE stack' = stack
  BY <1>7 DEF TasksStay
<1>8. CASE HandleIdleNextLayer(t)
  <2> DEFINE f == Frame("stopQueues")
             g == Frame("lock")
             new == <<f, g>> \o stack[t]
  <2>1. stack' = [stack EXCEPT ![t] = new]
    BY <1>8 DEF HandleIdleNextLayer
  <2>2. f \in Frames /\ f.at \notin TaskLabels /\ g \in Frames /\ g.at \notin TaskLabels
    BY <1>4
  <2> HIDE DEF f, g
  <2>3. <<g>> \o stack[t] \in Seq(Frames) /\ \A q : HeldIn(<<g>> \o stack[t], q) = HeldIn(stack[t], q)
    BY <1>3, <2>2, HoldsNoMore
  <2>4. \A q : HeldIn(<<f>> \o (<<g>> \o stack[t]), q) = HeldIn(stack[t], q)
    BY <2>2, <2>3, HoldsNoMore
  <2>5. new = <<f>> \o (<<g>> \o stack[t])
    BY <1>3, <2>2, TwoCons
  <2> HIDE DEF new
  <2>6. HoldsAsBefore(t, new)
    BY <2>1, <2>4, <2>5 DEF HoldsAsBefore
  <2> QED
    BY <2>6, <1>1, KeepsTasks DEF TasksStay
<1>9. CASE StopQueuesForLayer(t)
  <2>1. ActivateFrame(1) \in Frames /\ ActivateFrame(1).at \notin TaskLabels
    BY FramesMade DEF TaskLabels
  <2>2. stack' = [stack EXCEPT ![t] = <<ActivateFrame(1)>> \o Return(t)]
    BY <1>9 DEF StopQueuesForLayer
  <2> QED
    BY <2>1, <2>2, <1>1, <1>3, FollowStays
<1>10. CASE ActivateNode(t)
  <2> DEFINE i == Top(t).i
             n == active_sources_[i]
             g == IF i = Len(active_sources_) THEN Frame("startQueues") ELSE ActivateFrame(i + 1)
             f == AddFrame(Items("run", {n}))
             new == <<f, g>> \o Return(t)
  <2>1. stack' = [stack EXCEPT ![t] = new]
    BY <1>10 DEF ActivateNode
  <2>2. /\ f \in Frames /\ f.at \notin TaskLabels /\ g \in Frames /\ g.at \notin TaskLabels
    <3>1. i \in Nat \ {0} /\ n \in Nodes
      BY <1>10, ActivateNodeTurns
    <3>2. Items("run", {n}) \in SUBSET Item
      <4>1. {n} \in SUBSET Nodes
        BY <3>1
      <4> QED
        BY <4>1, RunItems
    <3>3. f \in Frames /\ f.at \notin TaskLabels
      BY <3>2, FramesMade DEF TaskLabels
    <3>4. ActivateFrame(i + 1) \in Frames /\ ActivateFrame(i + 1).at \notin TaskLabels
      BY <3>1, FramesMade DEF TaskLabels
    <3> QED
      BY <3>3, <3>4, <1>4
  <2> HIDE DEF f, g
  <2>3. <<g>> \o Return(t) \in Seq(Frames) /\ \A q : HeldIn(<<g>> \o Return(t), q) = HeldIn(Return(t), q)
    BY <1>3, <2>2, HoldsNoMore
  <2>4. \A q : HeldIn(<<f>> \o (<<g>> \o Return(t)), q) = HeldIn(Return(t), q)
    BY <2>2, <2>3, HoldsNoMore
  <2>5. new = <<f>> \o (<<g>> \o Return(t))
    BY <1>3, <2>2, TwoCons
  <2> HIDE DEF new
  <2> QED
    BY <2>1, <2>4, <2>5, <1>1, <1>3, StaysOver
<1>11. CASE StartQueuesForLayer(t)
  <2>1. \A q : HeldIn(ThenSubmit(Queues, Return(t)), q) = HeldIn(Return(t), q)
    BY <1>3, ThenSubmitHolds
  <2>2. stack' = [stack EXCEPT ![t] = ThenSubmit(Queues, Return(t))]
    BY <1>11 DEF StartQueuesForLayer
  <2> QED
    BY <2>1, <2>2, <1>1, <1>3, StaysOver
<1>12. CASE UnthrottleSources(t)
  <2> DEFINE f == Frame("lock")
             g == Frame(IF throttled # {} THEN "handleIdle" ELSE "endOfTurn")
             r == <<f, g>> \o Return(t)
             new == ThenAdd(LetGo(throttled), r)
  <2>1. stack' = [stack EXCEPT ![t] = new]
    BY <1>12 DEF UnthrottleSources
  <2>2. /\ f \in Frames /\ f.at \notin TaskLabels /\ g \in Frames /\ g.at \notin TaskLabels
    BY <1>4
  <2>3. LetGo(throttled) \in SUBSET Item
    BY <1>12, UnthrottleSourcesTurns
  <2> HIDE DEF f, g
  <2>4. <<g>> \o Return(t) \in Seq(Frames) /\ \A q : HeldIn(<<g>> \o Return(t), q) = HeldIn(Return(t), q)
    BY <1>3, <2>2, HoldsNoMore
  <2>5. /\ <<f>> \o (<<g>> \o Return(t)) \in Seq(Frames)
        /\ \A q : HeldIn(<<f>> \o (<<g>> \o Return(t)), q) = HeldIn(Return(t), q)
    BY <2>2, <2>4, HoldsNoMore
  <2>6. r = <<f>> \o (<<g>> \o Return(t))
    BY <1>3, <2>2, TwoCons
  <2> HIDE DEF r
  <2>7. \A q : HeldIn(new, q) = HeldIn(Return(t), q)
    BY <2>3, <2>5, <2>6, ThenAddHolds
  <2> HIDE DEF new
  <2> QED
    BY <2>1, <2>7, <1>1, <1>3, StaysOver
<1>13. CASE HandleIdleNotIdle(t) \/ HandleIdleQuit(t) \/ LockStateMutex(t)
  BY <1>5, <1>13 DEF HandleIdleNotIdle, HandleIdleQuit, LockStateMutex, LeaveHandleIdle
<1>14. CASE HandleIdleBlocked(t)
  BY <1>7, <1>14 DEF HandleIdleBlocked
<1>15. CASE HandleIdleEndOfTurn(t)
  BY <1>5, <1>6, <1>15 DEF HandleIdleEndOfTurn, LeaveHandleIdle
<1>16. CASE HandleIdleUnthrottle(t)
  <2>1. stack' = [stack EXCEPT ![t] = <<Frame("unthrottle")>> \o Return(t)]
    BY <1>16 DEF HandleIdleUnthrottle
  <2> QED
    BY <2>1, <1>1, <1>3, <1>4, FollowStays
<1> QED
  BY <1>8, <1>9, <1>10, <1>11, <1>12, <1>13, <1>14, <1>15, <1>16 DEF HandleIdle

\* A worker in the middle of a task goes on with it, or adds items first.
LEMMA TaskStays ==
  ASSUME StacksOK, NEW w \in Workers, NEW l \in NodeLabels, At(w, l),
         NEW f \in Frames, f.at \notin TaskLabels, NEW items \in SUBSET Item,
         \/ stack' = [stack EXCEPT ![w] = <<f>>]
         \/ stack' = [stack EXCEPT ![w] = ThenAdd(items, <<f>>)]
         \/ stack' = [stack EXCEPT ![w] = <<>>]
  PROVE  TasksStay
<1>1. w \in Threads /\ \A q : HeldIn(stack[w], q) = {}
  BY NodeHoldsNothing
<1>2. <<f>> \in Seq(Frames) /\ \A q : HeldIn(<<f>>, q) = {}
  BY SingleHolds
<1>3. \A q : HeldIn(ThenAdd(items, <<f>>), q) = {}
  BY <1>2, ThenAddHolds
<1>4. \A q : HeldIn(<<>>, q) = {}
  BY HoldsNothing
<1>5. PICK new : stack' = [stack EXCEPT ![w] = new] /\ \A q : HeldIn(new, q) = {}
  BY <1>2, <1>3, <1>4
<1> QED
  BY <1>1, <1>5, StaysFresh

LEMMA TaskKeepsTasks ==
  ASSUME Core, NEW w \in Workers, Task(w)
  PROVE  TasksStay
<1>1. StacksOK /\ w \in Threads
  BY DEF Core, Threads
<1>2. ASSUME NEW q \in Queues, TakeTask(w, q) PROVE TasksStay
  <2>0. \E i \in sq[q].items :
          /\ i.node \in Nodes /\ i.kind \in {"open", "run"}
          /\ NodeFrame(i.kind, i.node) \in Frames
          /\ stack' = [stack EXCEPT ![w] = <<NodeFrame(i.kind, i.node)>>]
    <3>1. \E i \in sq[q].items :
              /\ i.node \in Nodes /\ i.kind \in {"open", "run"}
              /\ \A x \in Queues \ {q} : sq'[x] = sq[x]
              /\ sq' \in [Queues -> QueueState]
              /\ sq'[q].items = sq[q].items \ {i} /\ sq'[q].pending = sq[q].pending
              /\ sq'[q].toAdd = sq[q].toAdd /\ sq'[q].running = sq[q].running
              /\ NodeFrame(i.kind, i.node) \in Frames
              /\ Turns(w, {}, {NodeFrame(i.kind, i.node)})
              /\ stack' = [stack EXCEPT ![w] = <<NodeFrame(i.kind, i.node)>>]
      BY <1>2, TakeTaskTurns, Zenon
    <3> QED
      BY <3>1, Zenon
  <2>1. PICK i \in sq[q].items :
          /\ i.node \in Nodes /\ i.kind \in {"open", "run"}
          /\ NodeFrame(i.kind, i.node) \in Frames
          /\ stack' = [stack EXCEPT ![w] = <<NodeFrame(i.kind, i.node)>>]
    BY <2>0
  <2> DEFINE f == NodeFrame(i.kind, i.node)
  <2>2. f \in Frames /\ f.at \notin TaskLabels
    BY <2>1, FramesMade DEF TaskLabels, NodeLabels
  <2> HIDE DEF f
  <2>3. \A x : HeldIn(<<f>>, x) = {}
    BY <2>2, SingleHolds
  <2>4. stack[w] = <<>> /\ stack' = [stack EXCEPT ![w] = <<f>>]
    BY <1>2, <2>1 DEF TakeTask, f
  <2>5. \A x : HeldIn(stack[w], x) = {}
    BY <2>4, HoldsNothing
  <2> QED
    BY <2>3, <2>4, <2>5, <1>1, StaysFresh
<1> DEFINE n == Top(w).node
<1>3. \A k \in NodeLabels, m \in Nodes :
        NodeFrame(k, m) \in Frames /\ NodeFrame(k, m).at \notin TaskLabels
  BY FramesMade DEF NodeLabels, TaskLabels
<1>4. \A l \in NodeLabels : At(w, l) => n \in Nodes
  BY <1>1, WorkerTop
<1>5. {} \in SUBSET Item /\ \A m \in Nodes : Items("run", {m}) \in SUBSET Item
  <2>1. ASSUME NEW m \in Nodes PROVE Items("run", {m}) \in SUBSET Item
    <3>1. {m} \in SUBSET Nodes
      OBVIOUS
    <3> QED
      BY <3>1, RunItems
  <2> QED
    BY <2>1
<1>6. CASE OpenNode(w)
  <2>1. At(w, "open") /\ "open" \in NodeLabels /\ "opened" \in NodeLabels
    BY <1>6 DEF OpenNode, NodeLabels
  <2>2. Items("open", OpenedBy(n)) \in SUBSET Item
    BY <1>6, OpenNodeTurns
  <2>3. \/ stack' = [stack EXCEPT ![w] = ThenAdd(Items("open", OpenedBy(n)), <<NodeFrame("opened", n)>>)]
        \/ stack' = [stack EXCEPT ![w] = <<NodeFrame("opened", n)>>]
    BY <1>6 DEF OpenNode
  <2> QED
    BY <2>1, <2>2, <2>3, <1>1, <1>3, <1>4, TaskStays
<1>7. CASE NodeOpened(w)
  <2>1. /\ At(w, "opened") /\ "opened" \in NodeLabels /\ "toSourcesQueue" \in NodeLabels
        /\ "finish" \in NodeLabels
    BY <1>7 DEF NodeOpened, NodeLabels
  <2>2. \/ stack' = [stack EXCEPT ![w] = <<NodeFrame("toSourcesQueue", n)>>]
        \/ stack' = [stack EXCEPT ![w] = ThenAdd(Items("run", {n}), <<NodeFrame("finish", n)>>)]
    BY <1>7 DEF NodeOpened
  <2>3. n \in Nodes
    BY <2>1, <1>4
  <2>4. CASE stack' = [stack EXCEPT ![w] = <<NodeFrame("toSourcesQueue", n)>>]
    BY <2>1, <2>3, <2>4, <1>1, <1>3, <1>5, TaskStays
  <2>5. CASE stack' = [stack EXCEPT ![w] = ThenAdd(Items("run", {n}), <<NodeFrame("finish", n)>>)]
    BY <2>1, <2>3, <2>5, <1>1, <1>3, <1>5, TaskStays
  <2> QED
    BY <2>2, <2>4, <2>5
<1>8. CASE AddNodeToSourcesQueue(w) \/ MarkClosed(w)
  <2>1. /\ At(w, "toSourcesQueue") \/ At(w, "close")
        /\ \/ stack' = [stack EXCEPT ![w] = <<NodeFrame("finish", n)>>]
           \/ stack' = [stack EXCEPT ![w] = <<NodeFrame("end", n)>>]
    BY <1>8 DEF AddNodeToSourcesQueue, MarkClosed
  <2>2. /\ "toSourcesQueue" \in NodeLabels /\ "close" \in NodeLabels
        /\ "finish" \in NodeLabels /\ "end" \in NodeLabels
    BY DEF NodeLabels
  <2>3. PICK l \in NodeLabels : At(w, l)
    BY <2>1, <2>2
  <2>4. n \in Nodes
    BY <2>3, <1>4
  <2>5. PICK k \in NodeLabels : stack' = [stack EXCEPT ![w] = <<NodeFrame(k, n)>>]
    BY <2>1, <2>2
  <2> QED
    BY <2>3, <2>4, <2>5, <1>1, <1>3, <1>5, TaskStays
<1>9. ASSUME NEW m \in Nodes, SourceEmits(w, m) \/ SourceCloses(w, m) PROVE TasksStay
  <2>1. PICK k \in {"end", "close"} :
          \/ k = "end" /\ SourceEmits(w, m)
          \/ k = "close" /\ SourceCloses(w, m)
    BY <1>9
  <2>2. NodeFrame(k, m) \in Frames /\ Items("run", Downstream[m]) \in SUBSET Item
    BY <2>1, SourceRunsTurns
  <2>3. /\ At(w, "run") /\ "run" \in NodeLabels /\ k \in NodeLabels
        /\ stack' = [stack EXCEPT ![w] =
                       ThenAdd(Items("run", Downstream[m]) \cup {}, <<NodeFrame(k, m)>>)]
    BY <2>1 DEF SourceEmits, SourceCloses, Running, Deliver, NodeLabels
  <2>4. Items("run", Downstream[m]) \cup {} \in SUBSET Item
    BY <2>2
  <2> QED
    BY <2>3, <2>4, <1>1, <1>3, TaskStays
<1>10. ASSUME NEW m \in Nodes, NodeProcesses(w, m) PROVE TasksStay
  <2>1. /\ At(w, "run") /\ "run" \in NodeLabels /\ "end" \in NodeLabels
    BY <1>10 DEF NodeProcesses, Running, NodeLabels
  <2>2. PICK ss \in SUBSET {s \in throttled : m \in Downstream[s]},
             gives \in SUBSET ({m} \ announced) :
          stack' = [stack EXCEPT ![w] = ThenAdd(Processed(m, ss, gives), <<NodeFrame("end", m)>>)]
    BY <1>10 DEF NodeProcesses, Deliver, Processed
  <2>3. ss \in SUBSET Sources
    BY DEF Core, TypeOK
  <2>4. Processed(m, ss, gives) \in SUBSET Item
    <3>1. Items("run", Downstream[m]) \in SUBSET Item
      <4>1. Downstream[m] \in SUBSET Nodes
        BY GraphAssumption
      <4> QED
        BY <4>1, RunItems
    <3>2. LetGo(ss) \in SUBSET Item
      BY <2>3, LetGoItems
    <3>3. Items("open", UNION {OpenedBy(x) : x \in gives}) \in SUBSET Item
      <4>1. \A x : OpenedBy(x) \in SUBSET Nodes
        BY DEF OpenedBy
      <4>2. UNION {OpenedBy(x) : x \in gives} \in SUBSET Nodes
        BY <4>1
      <4> QED
        BY <4>2, ItemsKinds
    <3> QED
      BY <3>1, <3>2, <3>3 DEF Processed
  <2> QED
    BY <2>1, <2>2, <2>4, <1>1, <1>3, TaskStays
<1>11. ASSUME NEW m \in Nodes, ProcessFails(w, m) \/ ProcessStops(w, m) PROVE TasksStay
  <2>1. /\ At(w, "run") /\ "run" \in NodeLabels /\ "end" \in NodeLabels
        /\ stack' = [stack EXCEPT ![w] = <<NodeFrame("end", m)>>]
    BY <1>11 DEF ProcessFails, ProcessStops, Running, NodeLabels
  <2> QED
    BY <2>1, <1>1, <1>3, <1>5, TaskStays
<1>12. CASE EndScheduling(w)
  <2>1. /\ At(w, "end") /\ "end" \in NodeLabels /\ "finish" \in NodeLabels
        /\ \/ stack' = [stack EXCEPT ![w] = ThenAdd(Items("run", {n}), <<NodeFrame("finish", n)>>)]
           \/ stack' = [stack EXCEPT ![w] = <<NodeFrame("finish", n)>>]
    BY <1>12 DEF EndScheduling, NodeLabels
  <2>2. n \in Nodes
    BY <2>1, <1>4
  <2> QED
    BY <2>1, <2>2, <1>1, <1>3, <1>5, TaskStays
<1>13. CASE FinishTask(w)
  <2>1. /\ At(w, "finish") /\ "finish" \in NodeLabels
        /\ \/ stack' = [stack EXCEPT ![w] = <<Frame("callTrue")>>]
           \/ stack' = [stack EXCEPT ![w] = <<>>]
    BY <1>13 DEF FinishTask, NodeLabels
  <2>2. Frame("callTrue") \in Frames /\ Frame("callTrue").at \notin TaskLabels
    BY FramesMade DEF PlainLabels, TaskLabels
  <2> QED
    BY <2>1, <2>2, <1>1, <1>5, TaskStays
<1>14. ASSUME NEW m \in Nodes, OpenFails(w, m) \/ CloseFails(w, m) PROVE TasksStay
  <2>1. CASE OpenFails(w, m)
    <3>1. /\ At(w, "open") /\ "open" \in NodeLabels /\ "finish" \in NodeLabels
          /\ stack' = [stack EXCEPT ![w] = <<NodeFrame("finish", m)>>]
      BY <2>1 DEF OpenFails, NodeLabels
    <3> QED
      BY <3>1, <1>1, <1>3, <1>5, <1>14, TaskStays
  <2>2. CASE CloseFails(w, m)
    BY <2>2 DEF CloseFails, TasksStay, queueVars
  <2> QED
    BY <2>1, <2>2, <1>14
<1> QED
  BY <1>2, <1>6, <1>7, <1>8, <1>9, <1>10, <1>11, <1>12, <1>13, <1>14 DEF Task

LEMMA AppKeepsTasks ==
  ASSUME Core, NEW a \in AppThreads, Start(a) \/ AppReturn(a) \/ App(a)
  PROVE  TasksStay
<1>1. StacksOK /\ a \in Threads
  BY DEF Core, Threads
<1>2. CASE Start(a) \/ Resume(a) \/ Cancel(a)
  <2>1. stack[a] = <<>> /\ EnterHandleIdle(a, <<SubmitFrame(Queues)>>)
    BY <1>2 DEF Start, Resume, Cancel, AppCall
  <2>2. SubmitFrame(Queues) \in Frames /\ SubmitFrame(Queues).at \notin TaskLabels
    BY FramesMade DEF TaskLabels
  <2>3. /\ <<SubmitFrame(Queues)>> \in Seq(Frames)
        /\ \A q : HeldIn(<<SubmitFrame(Queues)>>, q) = HeldIn(stack[a], q)
    BY <2>1, <2>2, SingleHolds, HoldsNothing
  <2> QED
    BY <2>1, <2>3, <1>1, EntersStays
<1>3. ASSUME NEW items \in SUBSET Item, NEW r \in Seq(Frames), \A q : HeldIn(r, q) = {},
             stack[a] = <<>>, stack' = [stack EXCEPT ![a] = ThenAdd(items, r)]
      PROVE  TasksStay
  <2>1. \A q : HeldIn(ThenAdd(items, r), q) = {}
    BY <1>3, ThenAddHolds
  <2>2. \A q : HeldIn(stack[a], q) = {}
    BY <1>3, HoldsNothing
  <2> QED
    BY <2>1, <2>2, <1>1, <1>3, StaysFresh
<1> DEFINE Plain(l1) == Frame(l1) \in Frames /\ Frame(l1).at \notin TaskLabels
<1>4. Plain("addedPacket") /\ Plain("closedAll") /\ Plain("stopSources")
  BY FramesMade DEF PlainLabels, TaskLabels
<1>5. ASSUME NEW n \in InputNodes, AddPacket(a, n) PROVE TasksStay
  <2>1. /\ stack[a] = <<>>
        /\ stack' = [stack EXCEPT ![a] = ThenAdd(Items("run", {n}), <<Frame("addedPacket")>>)]
    BY <1>5 DEF AddPacket, AppCall
  <2>2. Items("run", {n}) \in SUBSET Item
    BY <1>5, AddPacketTurns
  <2>3. <<Frame("addedPacket")>> \in Seq(Frames) /\ \A q : HeldIn(<<Frame("addedPacket")>>, q) = {}
    BY <1>4, SingleHolds
  <2> QED
    BY <2>1, <2>2, <2>3, <1>3
<1>6. ASSUME NEW kind, CloseAllInputs(a, kind) PROVE TasksStay
  <2> DEFINE g == IF kind = "closeAllPacketSources" THEN <<Frame("stopSources")>> ELSE <<>>
             r == <<Frame("closedAll")>> \o g
  <2>1. stack[a] = <<>> /\ stack' = [stack EXCEPT ![a] = ThenAdd(Items("run", InputNodes), r)]
    BY <1>6 DEF CloseAllInputs, AppCall
  <2>2. Items("run", InputNodes) \in SUBSET Item
    BY <1>6, CloseAllInputsTurns
  <2>3. g \in Seq(Frames) /\ \A q : HeldIn(g, q) = {}
    BY <1>4, SingleHolds, HoldsNothing, EmptySeq
  <2> HIDE DEF g
  <2>4. r \in Seq(Frames) /\ \A q : HeldIn(r, q) = {}
    BY <2>3, <1>4, HoldsNoMore
  <2> HIDE DEF r
  <2> QED
    BY <2>1, <2>2, <2>4, <1>3
<1>7. CASE AppReturn(a)
  <2>1. /\ stack[a] # <<>> /\ Top(a) \in Frames
        /\ Top(a).at \in {"addedPacket", "closedAll", "stopSources"}
    BY <1>7, AppReturnTurns DEF AppReturn, AddedPacketToGraphInputStream,
       ClosedAllGraphInputStreams, CloseAllSourceNodes, At
  <2>2. Top(a).at \notin TaskLabels
    BY <2>1 DEF TaskLabels
  <2>3. EnterHandleIdle(a, Return(a)) \/ stack' = [stack EXCEPT ![a] = Return(a)]
    BY <1>7 DEF AppReturn, AddedPacketToGraphInputStream, ClosedAllGraphInputStreams,
       CloseAllSourceNodes
  <2> DEFINE r == Return(a)
  <2>4. r \in Seq(Frames) /\ \A q : HeldIn(r, q) = HeldIn(stack[a], q)
    BY <2>1, <2>2, <1>1, TopHolds
  <2>5. CASE EnterHandleIdle(a, r)
    <3> HIDE DEF r
    <3> QED
      BY <2>4, <2>5, <1>1, EntersStays
  <2>6. CASE stack' = [stack EXCEPT ![a] = Return(a)]
    BY <2>1, <2>2, <2>6, <1>1, ReturnStays
  <2> QED
    BY <2>3, <2>5, <2>6
<1>8. CASE Pause(a)
  BY <1>8 DEF Pause, TasksStay
<1> QED
  BY <1>2, <1>5, <1>6, <1>7, <1>8 DEF App

-----------------------------------------------------------------------------
(* Every item of a queue is a task: one that the executor has, one that waits in
   the queue to be given to it, or one that a thread has grabbed.  pending_ counts
   the tasks that were grabbed and the ones that run. *)

Serves(F, q) == \E f \in F : f.at \in NodeLabels /\ QueueOf[f.node] = q
\* The workers in the middle of a task of q.
Serving(st, q) == {w \in Workers : Serves(On(st[w]), q)}

TasksCounted ==
  \A q \in Queues :
    /\ IsFiniteSet(sq[q].items) /\ IsFiniteSet(TasksHeld(stack, q))
    /\ Cardinality(sq[q].items) = executor[q] + sq[q].toAdd + Cardinality(TasksHeld(stack, q))
    /\ sq[q].pending = Cardinality(sq[q].items) - sq[q].toAdd + Cardinality(Serving(stack, q))

LEMMA ServingCounts ==
  ASSUME NEW st, NEW q
  PROVE  IsFiniteSet(Serving(st, q)) /\ Cardinality(Serving(st, q)) \in Nat
<1>1. Serving(st, q) \in SUBSET Threads
  BY DEF Serving, Threads
<1>2. IsFiniteSet(Serving(st, q))
  BY <1>1, FiniteAssumption, FS_Subset
<1> QED
  BY <1>2, FS_CardinalityType

\* The workers serve the same queues after a step as before it.
ServingStays == \A q : Serving(stack', q) = Serving(stack, q)

LEMMA ServesAsBefore ==
  ASSUME NEW t \in Threads, NEW gone, NEW come, Turns(t, gone, come),
         \A q : Serves(come, q) <=> Serves(gone, q)
  PROVE  ServingStays
<1>1. PICK R : /\ \A u \in Threads \ {t} : stack'[u] = stack[u]
               /\ On(stack[t]) = gone \cup R /\ On(stack'[t]) = come \cup R
  BY DEF Turns
<1>2. ASSUME NEW q, NEW w \in Workers
      PROVE  Serves(On(stack'[w]), q) <=> Serves(On(stack[w]), q)
  <2>1. CASE w = t
    <3>1. Serves(come \cup R, q) <=> Serves(come, q) \/ Serves(R, q)
      BY DEF Serves
    <3>2. Serves(gone \cup R, q) <=> Serves(gone, q) \/ Serves(R, q)
      BY DEF Serves
    <3> QED
      BY <2>1, <3>1, <3>2, <1>1
  <2>2. CASE w # t
    BY <2>2, <1>1 DEF Threads
  <2> QED
    BY <2>1, <2>2
<1> QED
  BY <1>2 DEF ServingStays, Serving

LEMMA NoneServed ==
  ASSUME NEW F, \A f \in F : f.at \notin NodeLabels
  PROVE  \A q : ~Serves(F, q)
  BY DEF Serves

\* What a step that leaves the tasks where they are leaves as it is.
LEMMA TasksCountedStays ==
  ASSUME TasksCounted, TasksStay, ServingStays, executor' = executor,
         \A q \in Queues : /\ sq'[q].items = sq[q].items /\ sq'[q].pending = sq[q].pending
                           /\ sq'[q].toAdd = sq[q].toAdd
  PROVE  TasksCounted'
<1>1. ASSUME NEW q \in Queues
      PROVE  /\ IsFiniteSet(sq'[q].items) /\ IsFiniteSet(TasksHeld(stack', q))
             /\ Cardinality(sq'[q].items) = executor'[q] + sq'[q].toAdd + Cardinality(TasksHeld(stack', q))
             /\ sq'[q].pending = Cardinality(sq'[q].items) - sq'[q].toAdd + Cardinality(Serving(stack', q))
  <2>1. TasksHeld(stack', q) = TasksHeld(stack, q) /\ Serving(stack', q) = Serving(stack, q)
    BY DEF TasksStay, ServingStays
  <2> QED
    BY <2>1 DEF TasksCounted
<1> QED
  BY <1>1 DEF TasksCounted

LEMMA CountsTyped ==
  ASSUME TypeOK, TasksCounted, NEW q \in Queues
  PROVE  /\ sq[q].pending \in Nat /\ sq[q].toAdd \in Nat /\ executor[q] \in Nat
         /\ Cardinality(sq[q].items) \in Nat /\ Cardinality(TasksHeld(stack, q)) \in Nat
         /\ Cardinality(Serving(stack, q)) \in Nat
<1>1. IsFiniteSet(sq[q].items) /\ IsFiniteSet(TasksHeld(stack, q))
  BY DEF TasksCounted
<1>2. Cardinality(sq[q].items) \in Nat /\ Cardinality(TasksHeld(stack, q)) \in Nat
  BY <1>1, FS_CardinalityType
<1> QED
  BY <1>2, QueueTyped, ServingCounts DEF TypeOK

\* The item that is pushed is not in its queue yet.
LEMMA PushedIsNew ==
  ASSUME Core, NEW t \in Threads, At(t, "push")
  PROVE  LET i == Top(t).item
         IN  [node |-> i.node, kind |-> IF i.kind = "open" THEN "open" ELSE "run"]
               \notin sq[QueueOf[i.node]].items
<1>1. StacksOK /\ OpenedOnce /\ FliesOnce
  BY DEF Core
<1>2. Top(t).at = "push" /\ Top(t) \in On(stack[t]) /\ Top(t) \in Frames
  BY <1>1, TopMost
<1>3. Top(t).item \in Item
  BY <1>2, FrameFields
<1> DEFINE i == Top(t).item
<1>4. i.node \in Nodes /\ i.kind \in {"open", "run", "unthrottled"}
      /\ i = [node |-> i.node, kind |-> i.kind]
  BY <1>3 DEF Item
<1>5. CASE i.kind = "open"
  <2>1. OpensOn(t, i.node)
    BY <1>2, <1>4, <1>5 DEF OpensOn, Opens, OpenItem
  <2>2. ~OpenQueued(i.node)
    BY <2>1, <1>1, <1>4 DEF OpenedOnce
  <2> QED
    BY <2>2, <1>5 DEF OpenQueued, OpenItem
<1>6. CASE i.kind # "open"
  <2>1. RunsOn(t, i.node)
    BY <1>2, <1>6 DEF RunsOn, Runs
  <2>2. ~RunQueued(i.node)
    BY <2>1, <1>1, <1>4 DEF FliesOnce
  <2> QED
    BY <2>2, <1>6 DEF RunQueued, RunItem
<1> QED
  BY <1>5, <1>6

LEMMA PushItemCounts ==
  ASSUME Core, TasksCounted, NEW t \in Threads, PushItem(t)
  PROVE  TasksCounted'
<1> DEFINE q == QueueOf[Top(t).item.node]
           i == Top(t).item
           item == [node |-> i.node, kind |-> IF i.kind = "open" THEN "open" ELSE "run"]
<1>1. /\ q \in Queues /\ \A x \in Queues \ {q} : sq'[x] = sq[x]
      /\ sq'[q].items = sq[q].items \cup {item}
      /\ sq[q].running > 0 =>
           sq'[q].pending = sq[q].pending + (sq[q].toAdd + 1) /\ sq'[q].toAdd = 0
      /\ ~(sq[q].running > 0) =>
           sq'[q].pending = sq[q].pending /\ sq'[q].toAdd = sq[q].toAdd + 1
  BY PushItemTurns
<1>2. item \notin sq[q].items
  BY PushedIsNew DEF PushItem
<1>3. ServingStays
  <2>1. PICK f \in Frames : /\ f.at \in {"callFalse", "addTask"}
                            /\ Turns(t, {Top(t)}, {f})
    BY PushItemTurns
  <2>2. Top(t).at = "push"
    BY PushItemTurns
  <2>3. (\A x : ~Serves({Top(t)}, x)) /\ \A x : ~Serves({f}, x)
    BY <2>1, <2>2, NoneServed DEF NodeLabels
  <2> QED
    BY <2>1, <2>3, ServesAsBefore
<1>4. executor' = executor
  BY DEF PushItem
<1>5. ASSUME NEW x \in Queues, x # q
      PROVE  /\ IsFiniteSet(sq'[x].items) /\ IsFiniteSet(TasksHeld(stack', x))
             /\ Cardinality(sq'[x].items) = executor'[x] + sq'[x].toAdd + Cardinality(TasksHeld(stack', x))
             /\ sq'[x].pending = Cardinality(sq'[x].items) - sq'[x].toAdd + Cardinality(Serving(stack', x))
  <2>1. IsFiniteSet(TasksHeld(stack, x))
    BY DEF TasksCounted
  <2>2. IsFiniteSet(TasksHeld(stack', x)) /\ Cardinality(TasksHeld(stack', x)) = Cardinality(TasksHeld(stack, x))
    BY <2>1, <1>5, PushItemHolds
  <2>3. sq'[x] = sq[x] /\ Serving(stack', x) = Serving(stack, x)
    BY <1>1, <1>3, <1>5 DEF ServingStays
  <2> QED
    BY <2>2, <2>3, <1>4 DEF TasksCounted
<1>6. /\ IsFiniteSet(sq'[q].items) /\ IsFiniteSet(TasksHeld(stack', q))
      /\ Cardinality(sq'[q].items) = executor'[q] + sq'[q].toAdd + Cardinality(TasksHeld(stack', q))
      /\ sq'[q].pending = Cardinality(sq'[q].items) - sq'[q].toAdd + Cardinality(Serving(stack', q))
  <2>1. /\ IsFiniteSet(sq[q].items) /\ IsFiniteSet(TasksHeld(stack, q))
        /\ Cardinality(sq[q].items) = executor[q] + sq[q].toAdd + Cardinality(TasksHeld(stack, q))
        /\ sq[q].pending = Cardinality(sq[q].items) - sq[q].toAdd + Cardinality(Serving(stack, q))
    BY <1>1 DEF TasksCounted
  <2>2. /\ IsFiniteSet(TasksHeld(stack', q))
        /\ ~(sq[q].running > 0) =>
             Cardinality(TasksHeld(stack', q)) = Cardinality(TasksHeld(stack, q))
        /\ sq[q].running > 0 =>
             Cardinality(TasksHeld(stack', q)) = Cardinality(TasksHeld(stack, q)) + (sq[q].toAdd + 1)
    BY <2>1, <1>1, PushItemHolds
  <2>3. IsFiniteSet(sq'[q].items) /\ Cardinality(sq'[q].items) = Cardinality(sq[q].items) + 1
    <3> HIDE DEF item, q
    <3>1. PICK S : S = sq[q].items
      OBVIOUS
    <3>2. IsFiniteSet(S) /\ item \notin S /\ sq'[q].items = S \cup {item}
      BY <3>1, <2>1, <1>1, <1>2
    <3>3. IsFiniteSet(S \cup {item}) /\ Cardinality(S \cup {item}) = Cardinality(S) + 1
      BY <3>2, FS_AddElement
    <3> QED
      BY <3>1, <3>2, <3>3
  <2>4. /\ sq[q].pending \in Nat /\ sq[q].toAdd \in Nat /\ executor[q] \in Nat
        /\ Cardinality(sq[q].items) \in Nat /\ Cardinality(TasksHeld(stack, q)) \in Nat
        /\ Cardinality(Serving(stack, q)) \in Nat
    BY <1>1, CountsTyped DEF Core
  <2>5. Serving(stack', q) = Serving(stack, q)
    BY <1>3 DEF ServingStays
  <2> HIDE DEF q
  <2> QED
    BY <2>1, <2>2, <2>3, <2>4, <2>5, <1>1, <1>4
<1> HIDE DEF q
<1>7. \A x \in Queues :
        /\ IsFiniteSet(sq'[x].items) /\ IsFiniteSet(TasksHeld(stack', x))
        /\ Cardinality(sq'[x].items) = executor'[x] + sq'[x].toAdd + Cardinality(TasksHeld(stack', x))
        /\ sq'[x].pending = Cardinality(sq'[x].items) - sq'[x].toAdd + Cardinality(Serving(stack', x))
  BY <1>5, <1>6
<1> QED
  BY <1>7 DEF TasksCounted

LEMMA AddTasksCounts ==
  ASSUME Core, TasksCounted, NEW t \in Threads, AddTasks(t)
  PROVE  TasksCounted'
<1>1. /\ Top(t) \in Frames /\ Top(t).at = "addTask" /\ Top(t).q \in Queues /\ Top(t).tasks \in Nat
      /\ Turns(t, {Top(t)}, AddSet(Top(t).todo)) /\ Top(t).todo \in SUBSET Item
  BY AddTasksTurns
<1>2. ServingStays
  <2>1. (\A x : ~Serves({Top(t)}, x)) /\ \A x : ~Serves(AddSet(Top(t).todo), x)
    <3>1. \A f \in AddSet(Top(t).todo) : f.at = "add"
      BY <1>1, FramesMade DEF AddSet
    <3> QED
      BY <3>1, <1>1, NoneServed DEF NodeLabels
  <2> QED
    BY <2>1, <1>1, ServesAsBefore
<1>3. /\ executor' = [executor EXCEPT ![Top(t).q] = @ + Top(t).tasks] /\ sq' = sq
      /\ executor \in [Queues -> Nat]
  BY DEF AddTasks, Core, TypeOK
<1>4. ASSUME NEW x \in Queues
      PROVE  /\ IsFiniteSet(sq'[x].items) /\ IsFiniteSet(TasksHeld(stack', x))
             /\ Cardinality(sq'[x].items) = executor'[x] + sq'[x].toAdd + Cardinality(TasksHeld(stack', x))
             /\ sq'[x].pending = Cardinality(sq'[x].items) - sq'[x].toAdd + Cardinality(Serving(stack', x))
  <2> DEFINE k == IF x = Top(t).q THEN Top(t).tasks ELSE 0
  <2>1. /\ IsFiniteSet(sq[x].items) /\ IsFiniteSet(TasksHeld(stack, x))
        /\ Cardinality(sq[x].items) = executor[x] + sq[x].toAdd + Cardinality(TasksHeld(stack, x))
        /\ sq[x].pending = Cardinality(sq[x].items) - sq[x].toAdd + Cardinality(Serving(stack, x))
    BY DEF TasksCounted
  <2>2. /\ IsFiniteSet(TasksHeld(stack', x))
        /\ Cardinality(TasksHeld(stack', x)) = Cardinality(TasksHeld(stack, x)) - k
    BY <2>1, AddTasksHolds
  <2>3. k \in Nat /\ executor'[x] = executor[x] + k
    BY <1>1, <1>3
  <2>4. /\ sq[x].toAdd \in Nat /\ executor[x] \in Nat
        /\ Cardinality(sq[x].items) \in Nat /\ Cardinality(TasksHeld(stack, x)) \in Nat
    BY CountsTyped DEF Core
  <2>5. Serving(stack', x) = Serving(stack, x)
    BY <1>2 DEF ServingStays
  <2> HIDE DEF k
  <2> QED
    BY <2>1, <2>2, <2>3, <2>4, <2>5, <1>3
<1> QED
  BY <1>4 DEF TasksCounted

LEMMA SubmitCounts ==
  ASSUME Core, TasksCounted, NEW t \in Threads, SubmitWaitingTasks(t)
  PROVE  TasksCounted'
<1>1. /\ Top(t) \in Frames /\ Top(t).at = "submit" /\ Top(t).qs \in SUBSET Queues
  BY SubmitWaitingTasksTurns
<1>2. PICK q \in Queues :
        /\ IF sq[q].running > 0 THEN Submits(q) ELSE UNCHANGED queueVars
        /\ Turns(t, {Top(t)}, SubmitSet(Top(t).qs \ {q}))
  BY SubmitWaitingTasksTurns
<1>3. TasksStay
  BY CallsKeepTasks
<1>4. ServingStays
  <2>1. (\A x : ~Serves({Top(t)}, x)) /\ \A x : ~Serves(SubmitSet(Top(t).qs \ {q}), x)
    <3>1. \A f \in SubmitSet(Top(t).qs \ {q}) : f.at = "submit"
      BY <1>1, FramesMade DEF SubmitSet
    <3> QED
      BY <3>1, <1>1, NoneServed DEF NodeLabels
  <2> QED
    BY <2>1, <1>2, ServesAsBefore
<1>5. CASE ~(sq[q].running > 0)
  BY <1>2, <1>3, <1>4, <1>5, TasksCountedStays DEF queueVars
<1>6. CASE sq[q].running > 0
  <2>1. /\ executor' = [executor EXCEPT ![q] = @ + sq[q].toAdd] /\ executor \in [Queues -> Nat]
        /\ \A x \in Queues \ {q} : sq'[x] = sq[x]
        /\ sq'[q].items = sq[q].items
        /\ sq'[q].pending = sq[q].pending + sq[q].toAdd /\ sq'[q].toAdd = 0
    BY <1>2, <1>6 DEF Submits, Core, TypeOK
  <2>2. ASSUME NEW x \in Queues
        PROVE  /\ IsFiniteSet(sq'[x].items) /\ IsFiniteSet(TasksHeld(stack', x))
               /\ Cardinality(sq'[x].items) = executor'[x] + sq'[x].toAdd + Cardinality(TasksHeld(stack', x))
               /\ sq'[x].pending = Cardinality(sq'[x].items) - sq'[x].toAdd + Cardinality(Serving(stack', x))
    <3>1. /\ IsFiniteSet(sq[x].items) /\ IsFiniteSet(TasksHeld(stack, x))
          /\ Cardinality(sq[x].items) = executor[x] + sq[x].toAdd + Cardinality(TasksHeld(stack, x))
          /\ sq[x].pending = Cardinality(sq[x].items) - sq[x].toAdd + Cardinality(Serving(stack, x))
      BY DEF TasksCounted
    <3>2. /\ sq[x].toAdd \in Nat /\ executor[x] \in Nat /\ sq[x].pending \in Nat
          /\ Cardinality(sq[x].items) \in Nat /\ Cardinality(TasksHeld(stack, x)) \in Nat
          /\ Cardinality(Serving(stack, x)) \in Nat
      BY CountsTyped DEF Core
    <3>3. Serving(stack', x) = Serving(stack, x) /\ TasksHeld(stack', x) = TasksHeld(stack, x)
      BY <1>3, <1>4 DEF ServingStays, TasksStay
    <3>4. CASE x # q
      BY <3>1, <3>3, <3>4, <2>1
    <3>5. CASE x = q
      BY <3>1, <3>2, <3>3, <3>5, <2>1
    <3> QED
      BY <3>4, <3>5
  <2> QED
    BY <2>2 DEF TasksCounted
<1> QED
  BY <1>5, <1>6

LEMMA TakeTaskCounts ==
  ASSUME Core, TasksCounted, NEW w \in Workers, NEW q \in Queues, TakeTask(w, q)
  PROVE  TasksCounted'
<1>1. PICK i \in sq[q].items :
        /\ i.node \in Nodes /\ i.kind \in {"open", "run"}
        /\ \A x \in Queues \ {q} : sq'[x] = sq[x]
        /\ sq'[q].items = sq[q].items \ {i} /\ sq'[q].pending = sq[q].pending
        /\ sq'[q].toAdd = sq[q].toAdd /\ sq'[q].running = sq[q].running
        /\ Turns(w, {}, {NodeFrame(i.kind, i.node)})
  BY TakeTaskTurns
<1>2. TasksStay
  <2>1. Task(w)
    BY DEF Task
  <2> QED
    BY <2>1, TaskKeepsTasks
<1>3. QueueOf[i.node] = q
  BY <1>1 DEF Core, ItemsPlaced
<1> DEFINE f == NodeFrame(i.kind, i.node)
<1>4. f.at \in NodeLabels /\ f.node = i.node
  BY <1>1, FramesMade DEF NodeLabels
<1>5. \A x : Serves({f}, x) <=> x = q
  BY <1>3, <1>4 DEF Serves
<1>6. /\ \A x \in Queues \ {q} : Serving(stack', x) = Serving(stack, x)
      /\ Serving(stack', q) = Serving(stack, q) \cup {w} /\ w \notin Serving(stack, q)
  <2> HIDE DEF f
  <2>1. stack[w] = <<>> /\ w \in Threads
    BY DEF TakeTask, Threads
  <2>2. On(stack[w]) = {} /\ On(stack'[w]) = {f} /\ \A u \in Threads \ {w} : stack'[u] = stack[u]
    <3>1. On(stack[w]) = {}
      BY <2>1, Empty
    <3>2. Turns(w, {}, {f})
      BY <1>1 DEF f
    <3> QED
      BY <3>1, <3>2 DEF Turns
  <2>3. \A x : ~Serves(On(stack[w]), x)
    BY <2>2 DEF Serves
  <2>4. \A x : Serves(On(stack'[w]), x) <=> x = q
    BY <2>2, <1>5
  <2>5. \A u \in Workers : u # w => stack'[u] = stack[u]
    BY <2>2 DEF Threads
  <2> QED
    BY <2>3, <2>4, <2>5 DEF Serving
<1>7. executor' = [executor EXCEPT ![q] = @ - 1] /\ executor[q] > 0 /\ executor \in [Queues -> Nat]
  BY DEF TakeTask, Core, TypeOK
<1>8. ASSUME NEW x \in Queues
      PROVE  /\ IsFiniteSet(sq'[x].items) /\ IsFiniteSet(TasksHeld(stack', x))
             /\ Cardinality(sq'[x].items) = executor'[x] + sq'[x].toAdd + Cardinality(TasksHeld(stack', x))
             /\ sq'[x].pending = Cardinality(sq'[x].items) - sq'[x].toAdd + Cardinality(Serving(stack', x))
  <2>1. /\ IsFiniteSet(sq[x].items) /\ IsFiniteSet(TasksHeld(stack, x))
        /\ Cardinality(sq[x].items) = executor[x] + sq[x].toAdd + Cardinality(TasksHeld(stack, x))
        /\ sq[x].pending = Cardinality(sq[x].items) - sq[x].toAdd + Cardinality(Serving(stack, x))
    BY DEF TasksCounted
  <2>2. /\ sq[x].toAdd \in Nat /\ executor[x] \in Nat /\ sq[x].pending \in Nat
        /\ Cardinality(sq[x].items) \in Nat /\ Cardinality(TasksHeld(stack, x)) \in Nat
        /\ Cardinality(Serving(stack, x)) \in Nat
    BY CountsTyped DEF Core
  <2>3. TasksHeld(stack', x) = TasksHeld(stack, x)
    BY <1>2 DEF TasksStay
  <2>4. CASE x # q
    BY <2>1, <2>3, <2>4, <1>1, <1>6, <1>7
  <2>5. CASE x = q
    <3>1. /\ IsFiniteSet(sq'[x].items)
          /\ Cardinality(sq'[x].items) = Cardinality(sq[x].items) - 1
      <4>1. PICK S : S = sq[x].items
        OBVIOUS
      <4>2. IsFiniteSet(S) /\ i \in S /\ sq'[x].items = S \ {i}
        BY <4>1, <2>1, <2>5, <1>1
      <4>3. IsFiniteSet(S \ {i}) /\ Cardinality(S \ {i}) = Cardinality(S) - 1
        BY <4>2, FS_RemoveElement
      <4> QED
        BY <4>1, <4>2, <4>3
    <3>2. Cardinality(Serving(stack', x)) = Cardinality(Serving(stack, x)) + 1
      <4>1. PICK S : S = Serving(stack, x)
        OBVIOUS
      <4>2. IsFiniteSet(S) /\ w \notin S /\ Serving(stack', x) = S \cup {w}
        BY <4>1, <2>5, <1>6, ServingCounts
      <4>3. Cardinality(S \cup {w}) = Cardinality(S) + 1
        BY <4>2, FS_AddElement
      <4> QED
        BY <4>1, <4>2, <4>3
    <3>3. executor'[x] = executor[x] - 1
      BY <2>5, <1>7
    <3>4. sq'[x].pending = sq[x].pending /\ sq'[x].toAdd = sq[x].toAdd
      BY <2>5, <1>1
    <3> QED
      BY <3>1, <3>2, <3>3, <3>4, <2>1, <2>2, <2>3
  <2> QED
    BY <2>4, <2>5
<1> QED
  BY <1>8 DEF TasksCounted

LEMMA FinishTaskCounts ==
  ASSUME Core, TasksCounted, NEW w \in Workers, FinishTask(w)
  PROVE  /\ TasksCounted' /\ sq' \in [Queues -> QueueState]
         /\ sq[QueueOf[Top(w).node]].pending > 0
<1> DEFINE q == QueueOf[Top(w).node]
<1>1. /\ w \in Threads /\ Top(w) \in Frames /\ Top(w).at = "finish" /\ q \in Queues
      /\ \A x \in Queues \ {q} : sq'[x] = sq[x]
      /\ sq'[q].items = sq[q].items /\ sq'[q].toAdd = sq[q].toAdd
      /\ sq'[q].pending = sq[q].pending - 1
      /\ sq[q].pending - 1 \in Nat => sq' \in [Queues -> QueueState]
  BY FinishTaskTurns
<1>2. TasksStay
  <2>1. Task(w)
    BY DEF Task
  <2> QED
    BY <2>1, TaskKeepsTasks
<1>3. \A x : Serves({Top(w)}, x) <=> x = q
  BY <1>1 DEF Serves, NodeLabels
<1>4. /\ \A x \in Queues \ {q} : Serving(stack', x) = Serving(stack, x)
      /\ Serving(stack', q) = Serving(stack, q) \ {w} /\ w \in Serving(stack, q)
  <2>1. On(stack[w]) = {Top(w)}
    BY WorkerTop DEF FinishTask, Core, NodeLabels
  <2>2. /\ \A u \in Threads \ {w} : stack'[u] = stack[u]
        /\ \A f \in On(stack'[w]) : f.at \notin NodeLabels
    <3>1. PICK C : Turns(w, {Top(w)}, C) /\ (C = {} \/ C = {Frame("callTrue")})
      BY FinishTaskTurns
    <3>2. Frame("callTrue").at \notin NodeLabels
      BY FramesMade DEF PlainLabels, NodeLabels
    <3>3. PICK R : /\ \A u \in Threads \ {w} : stack'[u] = stack[u]
                   /\ On(stack[w]) = {Top(w)} \cup R /\ On(stack'[w]) = C \cup R
                   /\ \A f \in {Top(w)} : Fits(w, f, R)
      BY <3>1 DEF Turns
    <3>4. R = {}
      BY <3>3, <1>1 DEF Fits, NodeLabels
    <3> QED
      BY <3>1, <3>2, <3>3, <3>4
  <2>3. \A x : Serves(On(stack[w]), x) <=> x = q
    BY <2>1, <1>3
  <2>4. \A x : ~Serves(On(stack'[w]), x)
    BY <2>2, NoneServed
  <2>5. \A u \in Workers : u # w => stack'[u] = stack[u]
    BY <2>2 DEF Threads
  <2> HIDE DEF q
  <2> QED
    BY <2>3, <2>4, <2>5 DEF Serving
<1>5. executor' = executor
  BY DEF FinishTask
<1> HIDE DEF q
<1>6. /\ Cardinality(Serving(stack, q)) > 0
      /\ Cardinality(Serving(stack', q)) = Cardinality(Serving(stack, q)) - 1
  <2>1. PICK S : S = Serving(stack, q)
    OBVIOUS
  <2>2. IsFiniteSet(S) /\ w \in S /\ Serving(stack', q) = S \ {w}
    BY <2>1, <1>4, ServingCounts
  <2>3. IsFiniteSet(S \ {w}) /\ Cardinality(S \ {w}) = Cardinality(S) - 1
    BY <2>2, FS_RemoveElement
  <2>4. Cardinality(S) \in Nat /\ Cardinality(S \ {w}) \in Nat
    BY <2>2, <2>3, FS_CardinalityType
  <2> QED
    BY <2>1, <2>2, <2>3, <2>4
<1>7. ASSUME NEW x \in Queues
      PROVE  /\ IsFiniteSet(sq'[x].items) /\ IsFiniteSet(TasksHeld(stack', x))
             /\ Cardinality(sq'[x].items) = executor'[x] + sq'[x].toAdd + Cardinality(TasksHeld(stack', x))
             /\ sq'[x].pending = Cardinality(sq'[x].items) - sq'[x].toAdd + Cardinality(Serving(stack', x))
             /\ x = q => sq[x].pending > 0
  <2>1. /\ IsFiniteSet(sq[x].items) /\ IsFiniteSet(TasksHeld(stack, x))
        /\ Cardinality(sq[x].items) = executor[x] + sq[x].toAdd + Cardinality(TasksHeld(stack, x))
        /\ sq[x].pending = Cardinality(sq[x].items) - sq[x].toAdd + Cardinality(Serving(stack, x))
    BY DEF TasksCounted
  <2>2. /\ sq[x].toAdd \in Nat /\ executor[x] \in Nat /\ sq[x].pending \in Nat
        /\ Cardinality(sq[x].items) \in Nat /\ Cardinality(TasksHeld(stack, x)) \in Nat
        /\ Cardinality(Serving(stack, x)) \in Nat
    BY CountsTyped DEF Core
  <2>3. TasksHeld(stack', x) = TasksHeld(stack, x)
    BY <1>2 DEF TasksStay
  <2>4. CASE x # q
    BY <2>1, <2>3, <2>4, <1>1, <1>4, <1>5
  <2>5. CASE x = q
    <3>1. /\ sq'[x].items = sq[x].items /\ sq'[x].toAdd = sq[x].toAdd
          /\ sq'[x].pending = sq[x].pending - 1
          /\ Cardinality(Serving(stack, x)) > 0
          /\ Cardinality(Serving(stack', x)) = Cardinality(Serving(stack, x)) - 1
      BY <2>5, <1>1, <1>6
    <3> QED
      BY <3>1, <2>1, <2>2, <2>3, <1>5
  <2> QED
    BY <2>4, <2>5
<1>8. TasksCounted'
  BY <1>7 DEF TasksCounted
<1>9. sq[q].pending \in Nat /\ sq[q].pending > 0
  BY <1>1, <1>7, QueueTyped DEF Core
<1>10. sq[q].pending - 1 \in Nat
  BY <1>9
<1> QED
  BY <1>1, <1>8, <1>9, <1>10 DEF q

-----------------------------------------------------------------------------
(* Most steps replace the frames gone of a thread by frames come which open and run
   only what these did. *)

OpensCalm(gone, come, n) ==
  \A f \in come : Opens(f, n) =>
    /\ f.at # "toSourcesQueue"
    /\ \E g \in gone : Opens(g, n) /\ g.at # "toSourcesQueue"
RunsCalm(gone, come, n) ==
  \A f \in come : Runs(f, n) => \E g \in gone : Runs(g, n) /\ (f.at # "end" => g.at # "end")
\* The sources that are to be run have been active.
AddsReached(come) ==
  \A f \in come : f.at \in AddLabels =>
    \A i \in f.todo : i.node \in Sources /\ i.kind # "open" => status[i.node] \in {"Active", "Closed"}
ServesCalm(gone, come) == \A q : Serves(come, q) <=> Serves(gone, q)
LayersCalm(gone, come) == \A f \in come : f.at \in {"stopQueues", "activate"} => f \in gone

FramesCalm(gone, come) ==
  /\ \A n \in Nodes : OpensCalm(gone, come, n) /\ RunsCalm(gone, come, n)
  /\ AddsReached(come) /\ ServesCalm(gone, come) /\ LayersCalm(gone, come)
CalmStep(t) == \E gone, come : Turns(t, gone, come) /\ FramesCalm(gone, come)

\* A frame that opens, runs, serves and activates nothing.
Inert(f) ==
  \/ f.at \in PlainLabels \ {"stopQueues"} \/ f.at = "submit"
  \/ /\ f.at = "add"
     /\ \A i \in f.todo : /\ i.kind # "open"
                          /\ i.node \in Sources => status[i.node] \in {"Active", "Closed"}

LEMMA InertCalm ==
  ASSUME NEW gone, NEW come, \A f \in gone : f.at \notin NodeLabels, \A f \in come : Inert(f)
  PROVE  FramesCalm(gone, come)
<1>1. ASSUME NEW f \in come
      PROVE  /\ \A n : ~Opens(f, n) /\ ~Runs(f, n)
             /\ f.at \notin NodeLabels /\ f.at \notin {"stopQueues", "activate"}
  BY DEF Inert, Opens, Runs, OpenItem, AddLabels, TaskLabels, NodeLabels, PlainLabels
<1>2. \A n : OpensCalm(gone, come, n) /\ RunsCalm(gone, come, n)
  BY <1>1 DEF OpensCalm, RunsCalm
<1>3. AddsReached(come)
  BY DEF Inert, AddsReached, AddLabels, TaskLabels, PlainLabels
<1>4. ServesCalm(gone, come)
  BY <1>1 DEF ServesCalm, Serves
<1>5. LayersCalm(gone, come)
  BY <1>1 DEF LayersCalm
<1> QED
  BY <1>2, <1>3, <1>4, <1>5 DEF FramesCalm

LEMMA WithHandler ==
  ASSUME NEW gone, NEW come, FramesCalm(gone, come)
  PROVE  FramesCalm(gone, come \cup {Frame("handleIdle")})
<1> DEFINE h == Frame("handleIdle")
<1>1. h.at = "handleIdle"
  BY FramesMade DEF PlainLabels
<1> HIDE DEF h
<1>2. /\ \A n : ~Opens(h, n) /\ ~Runs(h, n)
      /\ h.at \notin NodeLabels /\ h.at \notin {"stopQueues", "activate"}
      /\ h.at \notin AddLabels
  BY <1>1 DEF Opens, Runs, AddLabels, TaskLabels, NodeLabels
<1>3. \A n \in Nodes : OpensCalm(gone, come \cup {h}, n) /\ RunsCalm(gone, come \cup {h}, n)
  BY <1>2 DEF FramesCalm, OpensCalm, RunsCalm
<1>4. AddsReached(come \cup {h}) /\ LayersCalm(gone, come \cup {h})
  BY <1>2 DEF FramesCalm, AddsReached, LayersCalm
<1>5. ServesCalm(gone, come \cup {h})
  BY <1>2 DEF FramesCalm, ServesCalm, Serves
<1>6. FramesCalm(gone, come \cup {h})
  BY <1>3, <1>4, <1>5 DEF FramesCalm
<1> QED
  BY <1>6 DEF h

LEMMA EntersCalm ==
  ASSUME NEW t, NEW gone, NEW come, FramesCalm(gone, come), Enters(t, gone, come)
  PROVE  CalmStep(t)
<1>1. FramesCalm(gone, come \cup {Frame("handleIdle")})
  BY WithHandler
<1>2. Turns(t, gone, come) \/ Turns(t, gone, come \cup {Frame("handleIdle")})
  BY DEF Enters
<1>3. PICK c : Turns(t, gone, c) /\ FramesCalm(gone, c)
  BY <1>1, <1>2
<1> QED
  BY <1>3 DEF CalmStep

LEMMA TellsCalm ==
  ASSUME NEW t, NEW by, NEW gone, NEW come, FramesCalm(gone, come), Tells(t, by, gone, come)
  PROVE  CalmStep(t)
<1>1. Enters(t, gone, come) \/ Turns(t, gone, come)
  BY DEF Tells
<1>2. CASE Enters(t, gone, come)
  BY <1>2, EntersCalm
<1>3. CASE Turns(t, gone, come)
  BY <1>3 DEF CalmStep
<1> QED
  BY <1>1, <1>2, <1>3

LEMMA InertMade ==
  /\ \A l \in PlainLabels \ {"stopQueues"} : Inert(Frame(l))
  /\ \A qs \in SUBSET Queues : \A f \in SubmitSet(qs) : Inert(f)
  /\ \A ns \in SUBSET (Nodes \ Sources) : \A f \in AddSet(Items("run", ns)) : Inert(f)
<1>1. \A l \in PlainLabels \ {"stopQueues"} : Inert(Frame(l))
  BY FramesMade DEF Inert
<1>2. \A qs \in SUBSET Queues : \A f \in SubmitSet(qs) : Inert(f)
  BY FramesMade DEF Inert, SubmitSet
<1>3. ASSUME NEW ns \in SUBSET (Nodes \ Sources), NEW f \in AddSet(Items("run", ns))
      PROVE  Inert(f)
  <2>1. ns \in SUBSET Nodes
    OBVIOUS
  <2>2. /\ Items("run", ns) \in SUBSET Item
        /\ \A i \in Items("run", ns) : i.node \in ns /\ i.kind = "run"
    BY <2>1, ItemsKinds
  <2>3. f.at = "add" /\ f.todo = Items("run", ns)
    BY <2>2, FramesMade DEF AddSet
  <2> QED
    BY <2>2, <2>3 DEF Inert
<1> QED
  BY <1>1, <1>2, <1>3

\* The frame of an AddNode call is replaced by one with no more items to add.
LEMMA AddsOnCalm ==
  ASSUME Core, NEW t \in Threads, NEW g \in On(stack[t]), g.at \in AddLabels, NEW come,
         \A f \in come : f.at \in AddLabels \ {"push"} /\ f.todo \subseteq g.todo
  PROVE  FramesCalm({g}, come)
<1>1. ASSUME NEW f \in come
      PROVE  /\ \A n : (Opens(f, n) => Opens(g, n)) /\ ~Runs(f, n)
             /\ f.at \notin NodeLabels /\ f.at \notin {"stopQueues", "activate", "toSourcesQueue"}
  BY DEF Opens, Runs, AddLabels, TaskLabels, NodeLabels
<1>2. g.at \notin NodeLabels /\ g.at # "toSourcesQueue"
  BY DEF AddLabels, TaskLabels, NodeLabels
<1>3. \A n : OpensCalm({g}, come, n) /\ RunsCalm({g}, come, n)
  BY <1>1, <1>2 DEF OpensCalm, RunsCalm
<1>4. AddsReached(come)
  <2>1. g \in Frames
    BY ElementOfSeq, LenProperties DEF Core, StacksOK, On
  <2>2. g.todo \in SUBSET Item
    BY <2>1, FrameFields
  <2>3. \A i \in g.todo : i.node \in Sources /\ i.kind # "open" => status[i.node] \in {"Active", "Closed"}
    BY <2>2, GraphAssumption DEF Core, FliesWhenOpen, Reached, Item
  <2> QED
    BY <2>3 DEF AddsReached
<1>5. ServesCalm({g}, come) /\ LayersCalm({g}, come)
  BY <1>1, <1>2 DEF ServesCalm, Serves, LayersCalm
<1> QED
  BY <1>3, <1>4, <1>5 DEF FramesCalm

\* What the invariants say of the opening of n, and of its flights.
OpenIn(st, t, n) == \E f \in On(st[t]) : Opens(f, n)
Openings(n, st, queued, stat, ann, unopened) ==
  /\ \A t, u \in Threads : OpenIn(st, t, n) /\ OpenIn(st, u, n) => t = u
  /\ \A t \in Threads : ~(OpenIn(st, t, n) /\ queued)
  /\ \A t \in Threads : \A f \in On(st[t]) :
       Opens(f, n) =>
         /\ OpenDeps[n] \subseteq ann
         /\ f.at # "toSourcesQueue" => stat = "Prepared"
         /\ f.at = "toSourcesQueue" => stat = "Opened" /\ unopened
  /\ queued => OpenDeps[n] \subseteq ann /\ stat = "Prepared"
  /\ stat # "Prepared" => OpenDeps[n] \subseteq ann

RunIn(st, t, n) == \E f \in On(st[t]) : Runs(f, n)
Been(stat) == stat \in {"Active", "Closed"}
Flights(n, st, queued, stat, flying) ==
  /\ \A t, u \in Threads : RunIn(st, t, n) /\ RunIn(st, u, n) => t = u
  /\ \A t \in Threads : ~(RunIn(st, t, n) /\ queued)
  /\ \A t \in Threads : RunIn(st, t, n) => flying = 1
  /\ queued => flying = 1
  /\ stat = "Closed" => flying = 1
  /\ \A t \in Threads : \A f \in On(st[t]) :
       /\ Runs(f, n) /\ f.at # "end" => stat # "Closed"
       /\ Runs(f, n) /\ n \in Sources => Been(stat)
       /\ n \in Sources /\ f.at \in AddLabels /\ (\E i \in f.todo : i.node = n /\ i.kind # "open")
            => Been(stat)
  /\ queued => stat # "Closed" /\ (n \in Sources => Been(stat))

LEMMA OpeningsNow ==
  ASSUME Core, NEW n \in Nodes
  PROVE  Openings(n, stack, OpenQueued(n), status[n], announced, n \in unopened_sources_)
  BY DEF Core, OpenedOnce, OpeningsPrepared, OpensOn, Openings, OpenIn

LEMMA FlightsNow ==
  ASSUME Core, NEW n \in Nodes
  PROVE  Flights(n, stack, RunQueued(n), status[n], inFlight[n])
  BY DEF Core, FliesOnce, FliesWhenOpen, RunsOn, Reached, Flights, RunIn, Been

OpeningsThen(n) ==
  Openings(n, stack', OpenItem(n) \in sq'[QueueOf[n]].items, status'[n], announced',
           n \in unopened_sources_')
FlightsThen(n) ==
  Flights(n, stack', RunItem(n) \in sq'[QueueOf[n]].items, status'[n], inFlight'[n])

LEMMA OpeningsTaken ==
  ASSUME \A n \in Nodes : OpeningsThen(n)
  PROVE  OpenedOnce' /\ OpeningsPrepared'
<1>1. OpenedOnce'
  BY DEF OpenedOnce, OpensOn, OpenQueued, OpeningsThen, Openings, OpenIn
<1>2. OpeningsPrepared'
  BY DEF OpeningsPrepared, OpenQueued, OpeningsThen, Openings
<1> QED
  BY <1>1, <1>2

LEMMA FlightsTaken ==
  ASSUME \A n \in Nodes : FlightsThen(n)
  PROVE  FliesOnce' /\ FliesWhenOpen'
<1>1. FliesOnce'
  BY DEF FliesOnce, RunsOn, RunQueued, FlightsThen, Flights, RunIn
<1>2. FliesWhenOpen'
  BY DEF FliesWhenOpen, Reached, RunQueued, FlightsThen, Flights, Been
<1> QED
  BY <1>1, <1>2

LEMMA OpeningsKept ==
  ASSUME Core, NEW t \in Threads, NEW gone, NEW come, Turns(t, gone, come), NEW n \in Nodes,
         OpensCalm(gone, come, n),
         OpenItem(n) \in sq'[QueueOf[n]].items => OpenQueued(n),
         announced \subseteq announced', n \in unopened_sources_ => n \in unopened_sources_',
         \/ status'[n] = status[n]
         \/ status[n] # "Prepared" /\ status'[n] # "Prepared" /\ n \notin unopened_sources_
  PROVE  OpeningsThen(n)
<1>1. PICK R : /\ \A u \in Threads \ {t} : stack'[u] = stack[u]
               /\ On(stack[t]) = gone \cup R /\ On(stack'[t]) = come \cup R
  BY DEF Turns
<1>2. Openings(n, stack, OpenQueued(n), status[n], announced, n \in unopened_sources_)
  BY OpeningsNow
<1>3. ASSUME NEW u \in Threads, NEW f \in On(stack'[u]), Opens(f, n)
      PROVE  \E g \in On(stack[u]) :
               /\ Opens(g, n) /\ (g.at = "toSourcesQueue" <=> f.at = "toSourcesQueue")
  <2>1. CASE u = t /\ f \in come
    BY <2>1, <1>1, <1>3 DEF OpensCalm
  <2>2. CASE ~(u = t /\ f \in come)
    BY <2>2, <1>1, <1>3
  <2> QED
    BY <2>1, <2>2
<1>4. \A u \in Threads : OpenIn(stack', u, n) => OpenIn(stack, u, n)
  BY <1>3 DEF OpenIn
<1>5. ASSUME NEW u \in Threads, NEW f \in On(stack'[u]), Opens(f, n)
      PROVE  /\ OpenDeps[n] \subseteq announced'
             /\ f.at # "toSourcesQueue" => status'[n] = "Prepared"
             /\ f.at = "toSourcesQueue" => status'[n] = "Opened" /\ n \in unopened_sources_'
  BY <1>2, <1>3, <1>5 DEF Openings
<1>6. /\ OpenItem(n) \in sq'[QueueOf[n]].items => OpenDeps[n] \subseteq announced' /\ status'[n] = "Prepared"
      /\ status'[n] # "Prepared" => OpenDeps[n] \subseteq announced'
  BY <1>2 DEF Openings
<1>7. /\ \A u, v \in Threads : OpenIn(stack', u, n) /\ OpenIn(stack', v, n) => u = v
      /\ \A u \in Threads : ~(OpenIn(stack', u, n) /\ OpenItem(n) \in sq'[QueueOf[n]].items)
  BY <1>2, <1>4 DEF Openings
<1> QED
  BY <1>5, <1>6, <1>7 DEF OpeningsThen, Openings

LEMMA FlightsKept ==
  ASSUME Core, NEW t \in Threads, NEW gone, NEW come, Turns(t, gone, come), NEW n \in Nodes,
         RunsCalm(gone, come, n),
         \A f \in come : n \in Sources /\ f.at \in AddLabels
                           /\ (\E i \in f.todo : i.node = n /\ i.kind # "open") => Been(status'[n]),
         RunItem(n) \in sq'[QueueOf[n]].items => RunQueued(n), inFlight'[n] = inFlight[n],
         \/ status'[n] = status[n]
         \/ status'[n] # "Closed" /\ (Been(status[n]) => Been(status'[n]))
  PROVE  FlightsThen(n)
<1>1. PICK R : /\ \A u \in Threads \ {t} : stack'[u] = stack[u]
               /\ On(stack[t]) = gone \cup R /\ On(stack'[t]) = come \cup R
  BY DEF Turns
<1>2. Flights(n, stack, RunQueued(n), status[n], inFlight[n])
  BY FlightsNow
<1>3. ASSUME NEW u \in Threads, NEW f \in On(stack'[u]), Runs(f, n)
      PROVE  \E g \in On(stack[u]) : Runs(g, n) /\ (f.at # "end" => g.at # "end")
  <2>1. CASE u = t /\ f \in come
    BY <2>1, <1>1, <1>3 DEF RunsCalm
  <2>2. CASE ~(u = t /\ f \in come)
    BY <2>2, <1>1, <1>3
  <2> QED
    BY <2>1, <2>2
<1>4. \A u \in Threads : RunIn(stack', u, n) => RunIn(stack, u, n)
  BY <1>3 DEF RunIn
<1>5. ASSUME NEW u \in Threads, NEW f \in On(stack'[u])
      PROVE  /\ Runs(f, n) /\ f.at # "end" => status'[n] # "Closed"
             /\ Runs(f, n) /\ n \in Sources => Been(status'[n])
             /\ n \in Sources /\ f.at \in AddLabels /\ (\E i \in f.todo : i.node = n /\ i.kind # "open")
                  => Been(status'[n])
  <2>1. Runs(f, n) /\ f.at # "end" => status'[n] # "Closed"
    BY <1>2, <1>3 DEF Flights
  <2>2. Runs(f, n) /\ n \in Sources => Been(status'[n])
    BY <1>2, <1>3 DEF Flights
  <2>3. CASE u = t /\ f \in come
    BY <2>1, <2>2, <2>3
  <2>4. CASE ~(u = t /\ f \in come)
    <3>1. f \in On(stack[u])
      BY <2>4, <1>1
    <3>2. n \in Sources /\ f.at \in AddLabels /\ (\E i \in f.todo : i.node = n /\ i.kind # "open")
            => Been(status[n])
      BY <3>1, <1>2 DEF Flights
    <3> QED
      BY <2>1, <2>2, <3>2
  <2> QED
    BY <2>3, <2>4
<1>6. /\ RunItem(n) \in sq'[QueueOf[n]].items =>
           inFlight'[n] = 1 /\ status'[n] # "Closed" /\ (n \in Sources => Been(status'[n]))
      /\ status'[n] = "Closed" => inFlight'[n] = 1
  BY <1>2 DEF Flights
<1>7. /\ \A u, v \in Threads : RunIn(stack', u, n) /\ RunIn(stack', v, n) => u = v
      /\ \A u \in Threads : ~(RunIn(stack', u, n) /\ RunItem(n) \in sq'[QueueOf[n]].items)
      /\ \A u \in Threads : RunIn(stack', u, n) => inFlight'[n] = 1
  BY <1>2, <1>4 DEF Flights
<1> QED
  BY <1>5, <1>6, <1>7 DEF FlightsThen, Flights

\* The parts of the invariant about nodes, about sources, and about HandleIdle.
NodesSound == ItemsPlaced /\ OpenedOnce /\ OpeningsPrepared /\ FliesOnce /\ FliesWhenOpen
SourcesSound == SourcesPlaced /\ LayerToActivate /\ LowerLayersClosed /\ LayersInOrder
HandlingSound == HandlerAlone /\ RunningExact
Inv == TypeOK /\ StacksOK /\ HandlingSound /\ NodesSound /\ SourcesSound /\ TasksCounted

LEMMA InvParts ==
  /\ Inv <=> Core /\ TasksCounted
  /\ Core <=> TypeOK /\ StacksOK /\ HandlingSound /\ NodesSound /\ SourcesSound
  BY DEF Inv, Core, HandlingSound, NodesSound, SourcesSound

SameItems == \A q \in Queues : sq'[q].items = sq[q].items

LEMMA CalmKeeps ==
  ASSUME Core, NEW t \in Threads, CalmStep(t), SameItems,
         UNCHANGED <<status, announced, unopened_sources_, inFlight>>
  PROVE  NodesSound' /\ ServingStays
<1>1. PICK gone, come : Turns(t, gone, come) /\ FramesCalm(gone, come)
  BY DEF CalmStep
<1>2. \A n \in Nodes : QueueOf[n] \in Queues
  BY GraphAssumption
<1>3. ASSUME NEW n \in Nodes PROVE OpeningsThen(n) /\ FlightsThen(n)
  <2>1. /\ OpenItem(n) \in sq'[QueueOf[n]].items => OpenQueued(n)
        /\ RunItem(n) \in sq'[QueueOf[n]].items => RunQueued(n)
    BY <1>2 DEF SameItems, OpenQueued, RunQueued
  <2>2. OpensCalm(gone, come, n) /\ RunsCalm(gone, come, n)
    BY <1>1 DEF FramesCalm
  <2>3. \A f \in come : n \in Sources /\ f.at \in AddLabels
                          /\ (\E i \in f.todo : i.node = n /\ i.kind # "open") => Been(status'[n])
    BY <1>1 DEF FramesCalm, AddsReached, Been
  <2>4. OpeningsThen(n)
    BY <1>1, <2>1, <2>2, OpeningsKept
  <2>5. FlightsThen(n)
    BY <1>1, <2>1, <2>2, <2>3, FlightsKept
  <2> QED
    BY <2>4, <2>5
<1>4. OpenedOnce' /\ OpeningsPrepared' /\ FliesOnce' /\ FliesWhenOpen'
  BY <1>3, OpeningsTaken, FlightsTaken
<1>5. ItemsPlaced'
  BY DEF Core, ItemsPlaced, SameItems
<1>6. ServingStays
  BY <1>1, ServesAsBefore DEF FramesCalm, ServesCalm
<1> QED
  BY <1>4, <1>5, <1>6 DEF NodesSound

LEMMA LayersKept ==
  ASSUME Core, NEW t \in Threads, NEW gone, NEW come, Turns(t, gone, come),
         LayersCalm(gone, come),
         UNCHANGED <<status, unopened_sources_, sources_queue_, active_sources_>>
  PROVE  SourcesSound'
<1>1. PICK R : /\ \A u \in Threads \ {t} : stack'[u] = stack[u]
               /\ On(stack[t]) = gone \cup R /\ On(stack'[t]) = come \cup R
  BY DEF Turns
<1>2. ASSUME NEW u \in Threads, NEW f \in On(stack'[u]), f.at \in {"stopQueues", "activate"}
      PROVE  f \in On(stack[u])
  BY <1>1, <1>2 DEF LayersCalm
<1>3. LayerToActivate'
  BY <1>2 DEF Core, LayerToActivate
<1>4. SourcesPlaced' /\ LowerLayersClosed' /\ LayersInOrder'
  BY DEF Core, SourcesPlaced, LowerLayersClosed, LayersInOrder, InActive
<1> QED
  BY <1>3, <1>4 DEF SourcesSound

LEMMA CalmKeepsLayers ==
  ASSUME Core, NEW t \in Threads, CalmStep(t),
         UNCHANGED <<status, unopened_sources_, sources_queue_, active_sources_>>
  PROVE  SourcesSound'
<1>1. PICK gone, come : Turns(t, gone, come) /\ FramesCalm(gone, come)
  BY DEF CalmStep
<1> QED
  BY <1>1, LayersKept DEF FramesCalm

-----------------------------------------------------------------------------
(* The steps that leave every node where it is in its life cycle. *)

LEMMA NothingCalm ==
  FramesCalm({}, {})
  BY DEF FramesCalm, OpensCalm, RunsCalm, AddsReached, ServesCalm, LayersCalm

LEMMA TurnsCalm ==
  ASSUME NEW t, NEW gone, NEW come, Turns(t, gone, come),
         \A f \in gone : f.at \notin NodeLabels, \A f \in come : Inert(f)
  PROVE  CalmStep(t)
  BY InertCalm DEF CalmStep

LEMMA CallsCalm ==
  ASSUME Core, NEW t \in Threads,
         AddTasks(t) \/ SubmitWaitingTasks(t) \/ CallIdleFalse(t) \/ CallIdleTrue(t)
  PROVE  CalmStep(t)
<1>1. CASE AddTasks(t)
  <2>1. /\ Top(t).at = "addTask" /\ Top(t).todo \in SUBSET Item
        /\ Turns(t, {Top(t)}, AddSet(Top(t).todo))
    BY <1>1, AddTasksTurns
  <2>2. Top(t) \in On(stack[t])
    BY <1>1, TopMost DEF AddTasks, Core
  <2>3. \A f \in AddSet(Top(t).todo) : f.at = "add" /\ f.todo = Top(t).todo
    BY <2>1, FramesMade DEF AddSet
  <2>4. FramesCalm({Top(t)}, AddSet(Top(t).todo))
    BY <2>1, <2>2, <2>3, AddsOnCalm DEF AddLabels, TaskLabels
  <2> QED
    BY <2>1, <2>4 DEF CalmStep
<1>2. CASE SubmitWaitingTasks(t)
  <2>1. Top(t).at = "submit" /\ Top(t).qs \in SUBSET Queues
    BY <1>2, SubmitWaitingTasksTurns
  <2>2. PICK q \in Top(t).qs : Turns(t, {Top(t)}, SubmitSet(Top(t).qs \ {q}))
    BY <1>2, SubmitWaitingTasksTurns
  <2>3. \A f \in SubmitSet(Top(t).qs \ {q}) : Inert(f)
    BY <2>1, InertMade
  <2>4. Top(t).at \notin NodeLabels
    BY <2>1 DEF NodeLabels
  <2> QED
    BY <2>2, <2>3, <2>4, TurnsCalm
<1>3. CASE CallIdleFalse(t)
  <2>1. /\ Top(t).at = "callFalse"
        /\ \E f : /\ f.at = "addTask" /\ f.todo = Top(t).todo
                  /\ Tells(t, 1, {Top(t)}, {f})
    BY <1>3, CallIdleFalseTurns
  <2>2. PICK f : /\ f.at = "addTask" /\ f.todo = Top(t).todo
                 /\ Tells(t, 1, {Top(t)}, {f})
    BY <2>1
  <2>3. Top(t) \in On(stack[t])
    BY <1>3, TopMost DEF CallIdleFalse, Core
  <2>4. FramesCalm({Top(t)}, {f})
    BY <2>1, <2>2, <2>3, AddsOnCalm DEF AddLabels, TaskLabels
  <2> QED
    BY <2>2, <2>4, TellsCalm
<1>4. CASE CallIdleTrue(t)
  <2>1. Top(t).at = "callTrue" /\ Tells(t, -1, {Top(t)}, {})
    BY <1>4, CallIdleTrueTurns
  <2>2. Top(t).at \notin NodeLabels
    BY <2>1 DEF NodeLabels
  <2>3. FramesCalm({Top(t)}, {})
    BY <2>2, InertCalm
  <2> QED
    BY <2>1, <2>3, TellsCalm
<1> QED
  BY <1>1, <1>2, <1>3, <1>4

LEMMA HandlerCalm ==
  ASSUME Core, NEW t \in Threads,
         \/ HandleIdleNotIdle(t) \/ HandleIdleQuit(t) \/ HandleIdleBlocked(t)
         \/ StartQueuesForLayer(t) \/ LockStateMutex(t)
         \/ HandleIdleUnthrottle(t) \/ UnthrottleSources(t) \/ HandleIdleEndOfTurn(t)
  PROVE  CalmStep(t)
<1>1. CASE HandleIdleNotIdle(t) \/ HandleIdleQuit(t)
  <2>1. At(t, "handleIdle") /\ LeaveHandleIdle(t)
    BY <1>1 DEF HandleIdleNotIdle, HandleIdleQuit, InHandleIdle
  <2>2. Turns(t, {Top(t)}, {}) /\ Top(t).at \in Turn
    BY <2>1, LeaveHandleIdleTurns
  <2>3. Top(t).at \notin NodeLabels
    BY <2>2 DEF Turn, NodeLabels
  <2> QED
    BY <2>2, <2>3, TurnsCalm
<1>2. CASE HandleIdleBlocked(t)
  <2>1. stack' = stack
    BY <1>2 DEF HandleIdleBlocked
  <2>2. On(stack[t]) \in SUBSET Frames
    BY ElementOfSeq, LenProperties DEF Core, StacksOK, On
  <2>3. Turns(t, {}, {})
    BY <2>1, <2>2 DEF Turns
  <2> QED
    BY <2>3, NothingCalm DEF CalmStep
<1>3. CASE StartQueuesForLayer(t)
  <2>1. Top(t).at = "startQueues" /\ Turns(t, {Top(t)}, SubmitSet(Queues))
    BY <1>3, StartQueuesTurns
  <2>2. Top(t).at \notin NodeLabels /\ \A f \in SubmitSet(Queues) : Inert(f)
    BY <2>1, InertMade DEF NodeLabels
  <2> QED
    BY <2>1, <2>2, TurnsCalm
<1>4. CASE LockStateMutex(t)
  <2>1. Top(t).at = "lock" /\ Turns(t, {Top(t)}, {})
    BY <1>4, LockTurns
  <2>2. Top(t).at \notin NodeLabels
    BY <2>1 DEF NodeLabels
  <2> QED
    BY <2>1, <2>2, TurnsCalm
<1>5. CASE UnthrottleSources(t)
  <2> DEFINE turn == Frame(IF throttled # {} THEN "handleIdle" ELSE "endOfTurn")
             come == AddSet(LetGo(throttled)) \cup {Frame("lock"), turn}
  <2>1. /\ Top(t).at = "unthrottle" /\ LetGo(throttled) \in SUBSET Item
        /\ Turns(t, {Top(t)}, come)
    BY <1>5, UnthrottleSourcesTurns
  <2>2. Inert(Frame("lock")) /\ Inert(turn)
    BY InertMade DEF PlainLabels
  <2>3. \A f \in AddSet(LetGo(throttled)) : f.at = "add" /\ f.todo = LetGo(throttled)
    BY <2>1, FramesMade DEF AddSet
  <2>4. throttled \in SUBSET Sources
    BY DEF Core, TypeOK
  <2>5. \A i \in LetGo(throttled) : i.kind = "unthrottled" /\ status[i.node] = "Active"
    BY <2>4, LetGoItems
  <2>6. \A f \in AddSet(LetGo(throttled)) : Inert(f)
    BY <2>3, <2>5 DEF Inert
  <2>7. \A f \in come : Inert(f)
    BY <2>2, <2>6
  <2>8. Top(t).at \notin NodeLabels
    BY <2>1 DEF NodeLabels
  <2> QED
    BY <2>1, <2>7, <2>8, TurnsCalm
<1>6. CASE HandleIdleEndOfTurn(t)
  <2>1. /\ Top(t).at \in Turn
        /\ Turns(t, {Top(t)}, {}) \/ Turns(t, {Top(t)}, {Frame("handleIdle")})
    BY <1>6, EndOfTurnTurns
  <2>2. Top(t).at \notin NodeLabels /\ Inert(Frame("handleIdle"))
    BY <2>1, InertMade DEF Turn, NodeLabels, PlainLabels
  <2> QED
    BY <2>1, <2>2, TurnsCalm
<1>7. CASE HandleIdleUnthrottle(t)
  <2>1. Top(t).at = "handleIdle" /\ Turns(t, {Top(t)}, {Frame("unthrottle")})
    BY <1>7, UnthrottleTurns
  <2>2. Top(t).at \notin NodeLabels /\ Inert(Frame("unthrottle"))
    BY <2>1, InertMade DEF NodeLabels, PlainLabels
  <2> QED
    BY <2>1, <2>2, TurnsCalm
<1> QED
  BY <1>1, <1>2, <1>3, <1>4, <1>5, <1>6, <1>7

\* A frame g of a node is replaced by the next one of this node.
LEMMA NodeCalm ==
  ASSUME NEW g, g.at \in NodeLabels, NEW h, h.at \in {"close", "end", "finish"},
         h.node = g.node, h.at # "finish" => g.at \in {"run", "close"},
         NEW A, \A f \in A : Inert(f),
         NEW gone, gone = {g}, NEW come, come = A \cup {h}
  PROVE  FramesCalm(gone, come)
<1>1. ASSUME NEW f \in A
      PROVE  /\ \A n : ~Opens(f, n) /\ ~Runs(f, n)
             /\ f.at \notin NodeLabels /\ f.at \notin {"stopQueues", "activate"}
  BY DEF Inert, Opens, Runs, OpenItem, AddLabels, TaskLabels, NodeLabels, PlainLabels
<1>2. /\ \A n : ~Opens(h, n) /\ h.at \in NodeLabels
      /\ h.at \notin {"stopQueues", "activate"} /\ h.at \notin AddLabels
  BY DEF Opens, AddLabels, TaskLabels, NodeLabels
<1>3. \A n : Runs(h, n) => Runs(g, n) /\ g.at # "end"
  BY DEF Runs
<1>4. \A n : OpensCalm({g}, A \cup {h}, n) /\ RunsCalm({g}, A \cup {h}, n)
  BY <1>1, <1>2, <1>3 DEF OpensCalm, RunsCalm
<1>5. AddsReached(A)
  BY DEF Inert, AddsReached, AddLabels, TaskLabels, PlainLabels
<1>6. AddsReached(A \cup {h})
  BY <1>2, <1>5 DEF AddsReached
<1>7. ServesCalm({g}, A \cup {h})
  BY <1>1, <1>2 DEF ServesCalm, Serves
<1>8. LayersCalm({g}, A \cup {h})
  BY <1>1, <1>2 DEF LayersCalm
<1>9. FramesCalm({g}, A \cup {h})
  BY <1>4, <1>6, <1>7, <1>8 DEF FramesCalm
<1> QED
  BY <1>9

\* It is, and nothing is added.
LEMMA NodeCalmAlone ==
  ASSUME NEW g, g.at \in NodeLabels, NEW h, h.at \in {"close", "end", "finish"},
         h.node = g.node, h.at # "finish" => g.at \in {"run", "close"},
         NEW gone, gone = {g}, NEW come, come = {h}
  PROVE  FramesCalm(gone, come)
<1>1. PICK A : A = {}
  OBVIOUS
<1>2. come = A \cup {h} /\ \A f \in A : Inert(f)
  BY <1>1
<1> QED
  BY <1>2, NodeCalm

LEMMA DownstreamInert ==
  ASSUME NEW n \in Nodes
  PROVE  \A f \in AddSet(Items("run", Downstream[n])) : Inert(f)
<1>1. Downstream[n] \in SUBSET (Nodes \ Sources)
  BY GraphAssumption
<1> QED
  BY <1>1, InertMade

LEMMA RunCalm ==
  ASSUME Core, NEW w \in Workers, NEW n \in Nodes,
         \/ SourceEmits(w, n) \/ SourceCloses(w, n)
         \/ ProcessFails(w, n) \/ ProcessStops(w, n)
         \/ OpenFails(w, n) \/ CloseFails(w, n)
  PROVE  CalmStep(w)
<1>1. CASE SourceEmits(w, n) \/ SourceCloses(w, n)
  <2>1. PICK k \in {"end", "close"} :
          \/ k = "end" /\ SourceEmits(w, n)
          \/ k = "close" /\ SourceCloses(w, n)
    BY <1>1
  <2>2. /\ Top(w).at = "run" /\ Top(w).node = n
        /\ Turns(w, {Top(w)}, AddSet(Items("run", Downstream[n])) \cup {NodeFrame(k, n)})
    BY <2>1, SourceRunsTurns
  <2>3. NodeFrame(k, n).at = k /\ NodeFrame(k, n).node = n
    BY FramesMade DEF NodeLabels
  <2>4. /\ Top(w).at \in NodeLabels /\ Top(w).at \in {"run", "close"}
        /\ NodeFrame(k, n).at \in {"close", "end", "finish"} /\ NodeFrame(k, n).node = Top(w).node
        /\ \A f \in AddSet(Items("run", Downstream[n])) : Inert(f)
        /\ NodeFrame(k, n).at # "finish" => Top(w).at \in {"run", "close"}
    BY <2>2, <2>3, DownstreamInert DEF NodeLabels
  <2>5. FramesCalm({Top(w)}, AddSet(Items("run", Downstream[n])) \cup {NodeFrame(k, n)})
    <3>1. PICK g, h, A : g = Top(w) /\ h = NodeFrame(k, n)
                         /\ A = AddSet(Items("run", Downstream[n]))
      OBVIOUS
    <3>2. /\ g.at \in NodeLabels /\ h.at \in {"close", "end", "finish"} /\ h.node = g.node
          /\ h.at # "finish" => g.at \in {"run", "close"}
          /\ \A f \in A : Inert(f)
      BY <2>4, <3>1
    <3>3. PICK gone, come : gone = {g} /\ come = A \cup {h}
      OBVIOUS
    <3>4. FramesCalm(gone, come)
      BY Z3T(60), <3>2, <3>3, NodeCalm
    <3> QED
      BY <3>1, <3>3, <3>4
  <2> QED
    BY <2>2, <2>5 DEF CalmStep
<1>2. CASE ProcessFails(w, n) \/ ProcessStops(w, n)
  <2>1. /\ Top(w).at = "run" /\ Top(w).node = n
        /\ Turns(w, {Top(w)}, {NodeFrame("end", n)})
    BY <1>2, FailsOrStopsTurns
  <2>2. NodeFrame("end", n).at = "end" /\ NodeFrame("end", n).node = n
    BY FramesMade DEF NodeLabels
  <2>5. /\ Top(w).at \in NodeLabels /\ Top(w).at \in {"run", "close"}
        /\ NodeFrame("end", n).at \in {"close", "end", "finish"}
        /\ NodeFrame("end", n).node = Top(w).node
    BY <2>1, <2>2 DEF NodeLabels
  <2>3. FramesCalm({Top(w)}, {NodeFrame("end", n)})
    BY <2>5, NodeCalmAlone
  <2> QED
    BY <2>1, <2>3 DEF CalmStep
<1>3. CASE OpenFails(w, n)
  <2>1. /\ Top(w).at = "open" /\ Top(w).node = n
        /\ Turns(w, {Top(w)}, {NodeFrame("finish", n)})
    BY <1>3, OpenFailsTurns
  <2>2. NodeFrame("finish", n).at = "finish" /\ NodeFrame("finish", n).node = n
    BY FramesMade DEF NodeLabels
  <2>3. /\ Top(w).at \in NodeLabels /\ NodeFrame("finish", n).at \in {"close", "end", "finish"}
        /\ NodeFrame("finish", n).node = Top(w).node
    BY <2>1, <2>2 DEF NodeLabels
  <2>4. FramesCalm({Top(w)}, {NodeFrame("finish", n)})
    BY <2>2, <2>3, NodeCalmAlone
  <2> QED
    BY <2>1, <2>4 DEF CalmStep
<1>4. CASE CloseFails(w, n)
  BY <1>4, CloseFailsTurns, NothingCalm DEF CalmStep
<1> QED
  BY <1>1, <1>2, <1>3, <1>4

LEMMA AppCalm ==
  ASSUME Core, NEW a \in AppThreads, Start(a) \/ AppReturn(a) \/ App(a)
  PROVE  CalmStep(a)
<1>1. CASE Start(a) \/ Resume(a) \/ Cancel(a)
  <2>1. Enters(a, {}, {SubmitFrame(Queues)})
    BY <1>1, StartTurns
  <2>2. Inert(SubmitFrame(Queues))
    BY FramesMade DEF Inert
  <2>3. FramesCalm({}, {SubmitFrame(Queues)})
    BY <2>2, InertCalm
  <2> QED
    BY <2>1, <2>3, EntersCalm
<1>2. CASE AppReturn(a)
  <2>1. /\ Top(a).at \in {"addedPacket", "closedAll", "stopSources"}
        /\ Enters(a, {Top(a)}, {}) \/ Turns(a, {Top(a)}, {})
    BY <1>2, AppReturnTurns
  <2>2. Top(a).at \notin NodeLabels
    BY <2>1 DEF NodeLabels
  <2>3. FramesCalm({Top(a)}, {})
    BY <2>2, InertCalm
  <2> QED
    BY <2>1, <2>3, EntersCalm DEF CalmStep
<1>3. ASSUME NEW n \in InputNodes, AddPacket(a, n) PROVE CalmStep(a)
  <2>1. /\ n \in Nodes \ Sources
        /\ Turns(a, {}, AddSet(Items("run", {n})) \cup {Frame("addedPacket")})
    BY <1>3, AddPacketTurns
  <2>2. Inert(Frame("addedPacket")) /\ \A f \in AddSet(Items("run", {n})) : Inert(f)
    BY <2>1, InertMade DEF PlainLabels
  <2> QED
    BY <2>1, <2>2, TurnsCalm
<1>4. ASSUME NEW kind, CloseAllInputs(a, kind) PROVE CalmStep(a)
  <2>1. PICK C \in {{Frame("closedAll")}, {Frame("closedAll"), Frame("stopSources")}} :
          Turns(a, {}, AddSet(Items("run", InputNodes)) \cup C)
    BY <1>4, CloseAllInputsTurns
  <2>2. \A f \in C : Inert(f)
    BY <2>1, InertMade DEF PlainLabels
  <2>3. \A f \in AddSet(Items("run", InputNodes)) : Inert(f)
    BY InertMade, GraphAssumption
  <2> QED
    BY <2>1, <2>2, <2>3, TurnsCalm
<1>5. CASE Pause(a)
  <2>1. stack' = stack /\ a \in Threads
    BY <1>5 DEF Pause, Threads
  <2>2. On(stack[a]) \in SUBSET Frames
    BY <2>1, ElementOfSeq, LenProperties DEF Core, StacksOK, On
  <2>3. Turns(a, {}, {})
    BY <2>1, <2>2 DEF Turns
  <2> QED
    BY <2>3, NothingCalm DEF CalmStep
<1> QED
  BY <1>1, <1>2, <1>3, <1>4, <1>5 DEF App

-----------------------------------------------------------------------------
(* The steps that take nodes on in their life cycle. *)

\* Only the thread t had to do with the opening of n, or the queue had.
LEMMA OpeningsOf ==
  ASSUME Core, NEW t \in Threads, NEW gone, NEW come, Turns(t, gone, come), NEW n \in Nodes,
         \/ \E g \in gone : Opens(g, n)
         \/ OpenQueued(n)
         \/ \A u \in Threads : ~OpensOn(u, n),
         \A f \in come : Opens(f, n) =>
           /\ OpenDeps[n] \subseteq announced'
           /\ f.at # "toSourcesQueue" => status'[n] = "Prepared"
           /\ f.at = "toSourcesQueue" => status'[n] = "Opened" /\ n \in unopened_sources_'
           /\ OpenItem(n) \notin sq'[QueueOf[n]].items,
         OpenItem(n) \in sq'[QueueOf[n]].items =>
           OpenDeps[n] \subseteq announced' /\ status'[n] = "Prepared",
         status'[n] # "Prepared" => OpenDeps[n] \subseteq announced'
  PROVE  OpeningsThen(n)
<1>1. PICK R : /\ \A u \in Threads \ {t} : stack'[u] = stack[u]
               /\ On(stack[t]) = gone \cup R /\ On(stack'[t]) = come \cup R
               /\ \A f \in gone : Fits(t, f, R)
  BY DEF Turns
<1>2. Openings(n, stack, OpenQueued(n), status[n], announced, n \in unopened_sources_)
  BY OpeningsNow
<1>3. /\ \A f \in R : ~Opens(f, n)
      /\ \A u \in Threads \ {t} : ~OpenIn(stack, u, n)
  <2>1. CASE \E g \in gone : Opens(g, n)
    <3>1. \A f \in R : ~Opens(f, n)
      BY <1>1, <2>1 DEF Fits
    <3>2. OpenIn(stack, t, n)
      BY <1>1, <2>1 DEF OpenIn
    <3> QED
      BY <1>2, <3>1, <3>2 DEF Openings
  <2>2. CASE OpenQueued(n)
    <3>1. \A u \in Threads : ~OpenIn(stack, u, n)
      BY <1>2, <2>2 DEF Openings
    <3> QED
      BY <1>1, <3>1 DEF OpenIn
  <2>3. CASE \A u \in Threads : ~OpensOn(u, n)
    BY <1>1, <2>3 DEF OpensOn, OpenIn
  <2> QED
    BY <2>1, <2>2, <2>3
<1>4. ASSUME NEW u \in Threads, NEW f \in On(stack'[u]), Opens(f, n)
      PROVE  u = t /\ f \in come
  BY <1>1, <1>3, <1>4 DEF OpenIn
<1>5. \A u \in Threads : OpenIn(stack', u, n) => u = t /\ OpenItem(n) \notin sq'[QueueOf[n]].items
  BY <1>4 DEF OpenIn
<1>6. \A u \in Threads : \A f \in On(stack'[u]) :
        Opens(f, n) =>
          /\ OpenDeps[n] \subseteq announced'
          /\ f.at # "toSourcesQueue" => status'[n] = "Prepared"
          /\ f.at = "toSourcesQueue" => status'[n] = "Opened" /\ n \in unopened_sources_'
  BY <1>4
<1> QED
  BY <1>5, <1>6 DEF OpeningsThen, Openings

\* Only the thread t, the queue, or no one had n in flight.
LEMMA FlightsOf ==
  ASSUME Core, NEW t \in Threads, NEW gone, NEW come, Turns(t, gone, come), NEW n \in Nodes,
         (\E g \in gone : Runs(g, n)) \/ RunQueued(n) \/ inFlight[n] = 0,
         \A f \in come : Runs(f, n) =>
           /\ f.at # "end" => status'[n] # "Closed"
           /\ n \in Sources => Been(status'[n])
           /\ inFlight'[n] = 1 /\ RunItem(n) \notin sq'[QueueOf[n]].items,
         \A f \in come : n \in Sources /\ f.at \in AddLabels
                           /\ (\E i \in f.todo : i.node = n /\ i.kind # "open") => Been(status'[n]),
         RunItem(n) \in sq'[QueueOf[n]].items =>
           inFlight'[n] = 1 /\ status'[n] # "Closed" /\ (n \in Sources => Been(status'[n])),
         status'[n] = "Closed" => inFlight'[n] = 1,
         Been(status[n]) => Been(status'[n])
  PROVE  FlightsThen(n)
<1>1. PICK R : /\ \A u \in Threads \ {t} : stack'[u] = stack[u]
               /\ On(stack[t]) = gone \cup R /\ On(stack'[t]) = come \cup R
               /\ \A f \in gone : Fits(t, f, R)
  BY DEF Turns
<1>2. Flights(n, stack, RunQueued(n), status[n], inFlight[n])
  BY FlightsNow
<1>3. /\ \A f \in R : ~Runs(f, n)
      /\ \A u \in Threads \ {t} : ~RunIn(stack, u, n)
  <2>1. CASE \E g \in gone : Runs(g, n)
    <3>1. \A f \in R : ~Runs(f, n)
      BY <1>1, <2>1 DEF Fits
    <3>2. RunIn(stack, t, n)
      BY <1>1, <2>1 DEF RunIn
    <3> QED
      BY <1>2, <3>1, <3>2 DEF Flights
  <2>2. CASE RunQueued(n) \/ inFlight[n] = 0
    <3>1. \A u \in Threads : ~RunIn(stack, u, n)
      BY <1>2, <2>2 DEF Flights
    <3> QED
      BY <1>1, <3>1 DEF RunIn
  <2> QED
    BY <2>1, <2>2
<1>4. ASSUME NEW u \in Threads, NEW f \in On(stack'[u]), Runs(f, n)
      PROVE  u = t /\ f \in come
  BY <1>1, <1>3, <1>4 DEF RunIn
<1>5. \A u \in Threads : RunIn(stack', u, n) =>
        u = t /\ inFlight'[n] = 1 /\ RunItem(n) \notin sq'[QueueOf[n]].items
  BY <1>4 DEF RunIn
<1>6. ASSUME NEW u \in Threads, NEW f \in On(stack'[u])
      PROVE  /\ Runs(f, n) /\ f.at # "end" => status'[n] # "Closed"
             /\ Runs(f, n) /\ n \in Sources => Been(status'[n])
             /\ n \in Sources /\ f.at \in AddLabels /\ (\E i \in f.todo : i.node = n /\ i.kind # "open")
                  => Been(status'[n])
  <2>1. /\ Runs(f, n) /\ f.at # "end" => status'[n] # "Closed"
        /\ Runs(f, n) /\ n \in Sources => Been(status'[n])
    BY <1>4
  <2>2. CASE u = t /\ f \in come
    BY <2>1, <2>2
  <2>3. CASE ~(u = t /\ f \in come)
    <3>1. f \in On(stack[u])
      BY <2>3, <1>1
    <3>2. n \in Sources /\ f.at \in AddLabels /\ (\E i \in f.todo : i.node = n /\ i.kind # "open")
            => Been(status[n])
      BY <3>1, <1>2 DEF Flights
    <3> QED
      BY <2>1, <3>2
  <2> QED
    BY <2>2, <2>3
<1> QED
  BY <1>5, <1>6 DEF FlightsThen, Flights

LEMMA NodesTaken ==
  ASSUME \A n \in Nodes : OpeningsThen(n) /\ FlightsThen(n), ItemsPlaced'
  PROVE  NodesSound'
  BY OpeningsTaken, FlightsTaken DEF NodesSound

LEMMA PlacedAsBefore ==
  ASSUME Core, SameItems
  PROVE  /\ ItemsPlaced'
         /\ \A n \in Nodes : /\ OpenItem(n) \in sq'[QueueOf[n]].items <=> OpenQueued(n)
                             /\ RunItem(n) \in sq'[QueueOf[n]].items <=> RunQueued(n)
<1>1. \A n \in Nodes : QueueOf[n] \in Queues
  BY GraphAssumption
<1>2. ItemsPlaced'
  BY DEF Core, ItemsPlaced, SameItems
<1> QED
  BY <1>1, <1>2 DEF SameItems, OpenQueued, RunQueued

\* The thread goes on in frames that are about no node.
LEMMA NoNodeTouched ==
  ASSUME Core, NEW t \in Threads, NEW gone, NEW come, Turns(t, gone, come),
         \A f \in come : f.at \notin NodeLabels \cup AddLabels, SameItems,
         UNCHANGED <<status, announced, unopened_sources_, inFlight>>
  PROVE  NodesSound'
<1>1. \A f \in come, n \in Nodes : ~Opens(f, n) /\ ~Runs(f, n)
  BY DEF Opens, Runs, NodeLabels, AddLabels, TaskLabels
<1>2. ASSUME NEW n \in Nodes PROVE OpeningsThen(n) /\ FlightsThen(n)
  <2>1. OpensCalm(gone, come, n) /\ RunsCalm(gone, come, n)
    BY <1>1 DEF OpensCalm, RunsCalm
  <2>2. OpeningsThen(n)
    BY <2>1, PlacedAsBefore, OpeningsKept
  <2>3. FlightsThen(n)
    BY <2>1, PlacedAsBefore, FlightsKept
  <2> QED
    BY <2>2, <2>3
<1> QED
  BY <1>2, PlacedAsBefore, NodesTaken

LEMMA TryAddNodeKeeps ==
  ASSUME Core, NEW t \in Threads, TryAddNode(t)
  PROVE  NodesSound' /\ ServingStays
<1>1. /\ Top(t) \in Frames /\ Top(t).at = "add" /\ Top(t) \in On(stack[t]) /\ Top(t).todo \in SUBSET Item
  BY TopMost, FrameFields DEF TryAddNode, Core, AddLabels
<1>2. PICK i \in Top(t).todo :
        LET rest == Top(t).todo \ {i}
            n == i.node
            wanted == \/ i.kind = "open"
                      \/ /\ IsReady(n) /\ inFlight[n] = 0
                         /\ i.kind = "run" => n \notin throttled
        IN  /\ IF wanted /\ ~has_error THEN Turns(t, {Top(t)}, {PushFrame(rest, i)})
                                       ELSE Turns(t, {Top(t)}, AddSet(rest))
            /\ inFlight' = [inFlight EXCEPT ![n] =
                              IF wanted /\ i.kind # "open" /\ ~has_error THEN 1 ELSE @]
  BY TryAddNodeTurns
<1> DEFINE rest == Top(t).todo \ {i}
           p == PushFrame(rest, i)
<1>3. /\ i \in Item /\ i.node \in Nodes /\ rest \in SUBSET Item
      /\ p.at = "push" /\ p.todo = rest /\ p.item = i
  BY <1>1, FramesMade DEF Item
<1>4. /\ SameItems /\ UNCHANGED <<status, announced, unopened_sources_>>
      /\ inFlight \in [Nodes -> 0 .. 1]
  BY DEF TryAddNode, SameItems, schedulerVars, queueVars, Core, TypeOK
<1> HIDE DEF p, rest
<1>5. CASE i.kind = "open" /\ ~has_error
  <2>1. Turns(t, {Top(t)}, {p}) /\ inFlight' = inFlight
    BY <1>2, <1>3, <1>4, <1>5 DEF p, rest
  <2>2. \A n : (Opens(p, n) => Opens(Top(t), n)) /\ ~Runs(p, n)
    <3>1. \A n : OpenItem(n) \in rest \/ i = OpenItem(n) => OpenItem(n) \in Top(t).todo
      BY <1>2 DEF rest
    <3> QED
      BY <1>1, <1>3, <1>5, <3>1 DEF Opens, Runs, AddLabels, TaskLabels
  <2>3. \A n : OpensCalm({Top(t)}, {p}, n) /\ RunsCalm({Top(t)}, {p}, n)
    BY <2>2, <1>1, <1>3 DEF OpensCalm, RunsCalm
  <2>4. AddsReached({p})
    <3>1. \A j \in Top(t).todo : j.node \in Sources /\ j.kind # "open" => status[j.node] \in {"Active", "Closed"}
      BY <1>1, GraphAssumption DEF Core, FliesWhenOpen, Reached, Item, AddLabels
    <3> QED
      BY <1>3, <3>1 DEF AddsReached, rest
  <2>5. ServesCalm({Top(t)}, {p}) /\ LayersCalm({Top(t)}, {p})
    BY <1>1, <1>3 DEF ServesCalm, Serves, LayersCalm, NodeLabels
  <2>6. CalmStep(t)
    BY <2>1, <2>3, <2>4, <2>5 DEF CalmStep, FramesCalm
  <2> QED
    BY <2>1, <2>6, <1>4, CalmKeeps
<1>6. CASE ~has_error /\ i.kind # "open" /\ IsReady(i.node) /\ inFlight[i.node] = 0
             /\ (i.kind = "run" => i.node \notin throttled)
  <2>1. Turns(t, {Top(t)}, {p}) /\ inFlight' = [inFlight EXCEPT ![i.node] = 1]
    BY <1>2, <1>3, <1>6 DEF p, rest
  <2>2. \A n : (Opens(p, n) => Opens(Top(t), n)) /\ (Runs(p, n) <=> n = i.node)
    <3>1. \A n : /\ OpenItem(n) \in rest => OpenItem(n) \in Top(t).todo
                 /\ i # OpenItem(n)
      BY <1>2, <1>6 DEF rest, OpenItem
    <3> QED
      BY <1>1, <1>3, <1>6, <3>1 DEF Opens, Runs, AddLabels, TaskLabels
  <2>3. \A j \in Top(t).todo : j.node \in Sources /\ j.kind # "open" => Been(status[j.node])
    BY <1>1, GraphAssumption DEF Core, FliesWhenOpen, Reached, Been, Item, AddLabels
  <2>4. ASSUME NEW n \in Nodes PROVE OpeningsThen(n)
    <3>1. OpensCalm({Top(t)}, {p}, n)
      BY <2>2, <1>1, <1>3 DEF OpensCalm
    <3> QED
      BY <3>1, <2>1, <1>4, PlacedAsBefore, OpeningsKept
  <2>5. ASSUME NEW n \in Nodes PROVE FlightsThen(n)
    <3>1. \A f \in {p} : n \in Sources /\ f.at \in AddLabels
                           /\ (\E j \in f.todo : j.node = n /\ j.kind # "open") => Been(status'[n])
      BY <2>3, <1>3, <1>4 DEF rest
    <3>2. CASE n = i.node
      <4>1. /\ n \in Sources => Been(status[n])
            /\ status[n] # "Closed" /\ ~RunQueued(n)
        BY <3>2, <2>3, <1>2, <1>6 DEF IsReady, Core, FliesOnce
      <4>2. inFlight'[n] = 1 /\ status'[n] = status[n] /\ RunItem(n) \notin sq'[QueueOf[n]].items
        BY <4>1, <3>2, <2>1, <1>4, PlacedAsBefore
      <4> QED
        BY <4>1, <4>2, <3>1, <3>2, <2>1, <1>6, FlightsOf
    <3>3. CASE n # i.node
      <4>1. inFlight'[n] = inFlight[n] /\ RunsCalm({Top(t)}, {p}, n)
        BY <3>3, <2>1, <2>2, <1>4 DEF RunsCalm
      <4> QED
        BY <4>1, <3>1, <2>1, <1>4, PlacedAsBefore, FlightsKept
    <3> QED
      BY <3>2, <3>3
  <2>6. ServingStays
    <3>1. \A q : Serves({p}, q) <=> Serves({Top(t)}, q)
      BY <1>1, <1>3 DEF Serves, NodeLabels
    <3> QED
      BY <3>1, <2>1, ServesAsBefore
  <2> QED
    BY <2>4, <2>5, <2>6, <1>4, PlacedAsBefore, NodesTaken
<1>7. CASE ~(i.kind = "open" /\ ~has_error)
             /\ ~(~has_error /\ i.kind # "open" /\ IsReady(i.node) /\ inFlight[i.node] = 0
                    /\ (i.kind = "run" => i.node \notin throttled))
  <2>1. Turns(t, {Top(t)}, AddSet(rest)) /\ inFlight' = inFlight
    BY <1>2, <1>3, <1>4, <1>7 DEF rest
  <2>2. \A f \in AddSet(rest) : f.at \in AddLabels \ {"push"} /\ f.todo \subseteq Top(t).todo
    BY <1>3, FramesMade DEF AddSet, AddLabels, TaskLabels, rest
  <2>3. FramesCalm({Top(t)}, AddSet(rest))
    BY <1>1, <2>2, AddsOnCalm DEF AddLabels
  <2>4. CalmStep(t)
    BY <2>1, <2>3 DEF CalmStep
  <2> QED
    BY <2>1, <2>4, <1>4, CalmKeeps
<1> QED
  BY <1>5, <1>6, <1>7

LEMMA PushItemKeeps ==
  ASSUME Core, NEW t \in Threads, PushItem(t)
  PROVE  NodesSound' /\ ServingStays
<1> DEFINE i == Top(t).item
           m == i.node
           q == QueueOf[m]
           kind == IF i.kind = "open" THEN "open" ELSE "run"
           new == [node |-> m, kind |-> kind]
<1>1. /\ Top(t) \in Frames /\ Top(t).at = "push" /\ Top(t) \in On(stack[t])
      /\ Top(t).todo \in SUBSET Item /\ Top(t).item \notin Top(t).todo
  BY TopMost, FrameFields DEF PushItem, Core, AddLabels, Fits
<1>2. /\ Top(t).item \in Item /\ QueueOf[Top(t).item.node] \in Queues
      /\ \A x \in Queues \ {q} : sq'[x] = sq[x]
      /\ sq'[q].items = sq[q].items \cup {new}
  BY PushItemTurns
<1>3. PICK f \in Frames :
        /\ f.at \in {"callFalse", "addTask"} /\ f.todo = Top(t).todo
        /\ Turns(t, {Top(t)}, {f})
  <2>1. \E f \in Frames :
          /\ f.at = IF QueueIdle(q) THEN "callFalse" ELSE "addTask"
          /\ f.todo = Top(t).todo
          /\ Turns(t, {Top(t)}, {f})
    BY PushItemTurns
  <2> QED
    BY <2>1
<1>4. UNCHANGED <<status, announced, unopened_sources_, inFlight>>
  BY DEF PushItem, schedulerVars, nodeVars
<1>5. /\ m \in Nodes /\ i.kind \in {"open", "run", "unthrottled"} /\ q \in Queues
      /\ \A n : i = OpenItem(n) <=> n = m /\ i.kind = "open"
      /\ \A n : new = OpenItem(n) <=> n = m /\ i.kind = "open"
      /\ \A n : new = RunItem(n) <=> n = m /\ i.kind # "open"
  BY <1>2 DEF Item, OpenItem, RunItem
<1> HIDE DEF i, m, q, kind, new
<1>6. /\ \A n : Opens(f, n) => Opens(Top(t), n)
      /\ \A n : ~Runs(f, n)
  BY <1>1, <1>3 DEF Opens, Runs, AddLabels, TaskLabels
<1>7. /\ \A n : OpensCalm({Top(t)}, {f}, n) /\ RunsCalm({Top(t)}, {f}, n)
      /\ \A q2 : Serves({f}, q2) <=> Serves({Top(t)}, q2)
  BY <1>1, <1>3, <1>6 DEF OpensCalm, RunsCalm, Serves, NodeLabels
<1>8. ServingStays
  BY <1>3, <1>7, ServesAsBefore
<1>9. \A n \in Nodes : \A g \in {f} :
        n \in Sources /\ g.at \in AddLabels /\ (\E j \in g.todo : j.node = n /\ j.kind # "open")
          => Been(status[n])
  BY <1>1, <1>3 DEF Core, FliesWhenOpen, Reached, Been, AddLabels
<1>10. \A n \in Nodes :
         /\ OpenItem(n) \in sq'[QueueOf[n]].items <=> OpenQueued(n) \/ new = OpenItem(n)
         /\ RunItem(n) \in sq'[QueueOf[n]].items <=> RunQueued(n) \/ new = RunItem(n)
  <2>1. ASSUME NEW n \in Nodes, NEW x, x.node = n
        PROVE  x \in sq'[QueueOf[n]].items <=> x \in sq[QueueOf[n]].items \/ new = x
    <3>1. QueueOf[n] \in Queues
      BY GraphAssumption
    <3>2. CASE QueueOf[n] = q
      BY <3>2, <1>2
    <3>3. CASE QueueOf[n] # q
      <4>1. new # x
        BY <3>3, <2>1 DEF new, q
      <4> QED
        BY <3>1, <3>3, <4>1, <1>2
    <3> QED
      BY <3>2, <3>3
  <2>2. ASSUME NEW n \in Nodes
        PROVE  /\ OpenItem(n) \in sq'[QueueOf[n]].items <=> OpenQueued(n) \/ new = OpenItem(n)
               /\ RunItem(n) \in sq'[QueueOf[n]].items <=> RunQueued(n) \/ new = RunItem(n)
    <3>1. OpenItem(n).node = n /\ RunItem(n).node = n
      BY DEF OpenItem, RunItem
    <3> QED
      BY <2>1, <3>1 DEF OpenQueued, RunQueued
  <2> QED
    BY <2>2
<1>11. ItemsPlaced'
  <2>1. ASSUME NEW x \in Queues, NEW j \in sq'[x].items PROVE QueueOf[j.node] = x
    <3>1. j \in sq[x].items \/ (x = q /\ j = new)
      BY <1>2
    <3> QED
      BY <3>1 DEF Core, ItemsPlaced, new, q
  <2> QED
    BY <2>1 DEF ItemsPlaced
<1>12. ASSUME NEW n \in Nodes PROVE OpeningsThen(n)
  <2>1. CASE n = m /\ i.kind = "open"
    <3>1. Opens(Top(t), n) /\ ~Opens(f, n)
      BY <2>1, <1>1, <1>3, <1>5 DEF Opens, i, AddLabels, TaskLabels
    <3>2. OpenDeps[n] \subseteq announced /\ status[n] = "Prepared"
      BY <3>1, <1>1 DEF Core, OpeningsPrepared
    <3>3. OpenDeps[n] \subseteq announced' /\ status'[n] = "Prepared"
      BY <3>2, <1>4
    <3> QED
      BY <3>1, <3>3, <1>3, OpeningsOf
  <2>2. CASE ~(n = m /\ i.kind = "open")
    <3>1. OpenItem(n) \in sq'[QueueOf[n]].items => OpenQueued(n)
      BY <2>2, <1>5, <1>10
    <3> QED
      BY <3>1, <1>3, <1>4, <1>7, OpeningsKept
  <2> QED
    BY <2>1, <2>2
<1>13. ASSUME NEW n \in Nodes PROVE FlightsThen(n)
  <2>1. CASE n = m /\ i.kind # "open"
    <3>1. Runs(Top(t), n)
      BY <2>1, <1>1 DEF Runs, i, m
    <3>2. inFlight[n] = 1 /\ status[n] # "Closed" /\ (n \in Sources => Been(status[n]))
      BY <3>1, <1>1 DEF Core, FliesOnce, FliesWhenOpen, RunsOn, Reached, Been
    <3>3. inFlight'[n] = 1 /\ status'[n] = status[n]
      BY <3>2, <1>4
    <3> QED
      BY <3>1, <3>2, <3>3, <1>3, <1>6, <1>9, FlightsOf
  <2>2. CASE ~(n = m /\ i.kind # "open")
    <3>1. RunItem(n) \in sq'[QueueOf[n]].items => RunQueued(n)
      BY <2>2, <1>5, <1>10
    <3> QED
      BY <3>1, <1>3, <1>4, <1>7, <1>9, FlightsKept
  <2> QED
    BY <2>1, <2>2
<1> QED
  BY <1>8, <1>11, <1>12, <1>13, NodesTaken

LEMMA TakeTaskKeeps ==
  ASSUME Core, NEW w \in Workers, NEW q \in Queues, TakeTask(w, q)
  PROVE  NodesSound'
<1>1. PICK i \in sq[q].items :
        /\ i.node \in Nodes /\ i.kind \in {"open", "run"}
        /\ \A x \in Queues \ {q} : sq'[x] = sq[x]
        /\ sq'[q].items = sq[q].items \ {i}
        /\ NodeFrame(i.kind, i.node) \in Frames
        /\ Turns(w, {}, {NodeFrame(i.kind, i.node)})
  BY TakeTaskTurns
<1> DEFINE f == NodeFrame(i.kind, i.node)
<1>2. f.at = i.kind /\ f.node = i.node
  BY <1>1, FramesMade DEF NodeLabels
<1> HIDE DEF f
<1>3. Turns(w, {}, {f}) /\ w \in Threads
  BY <1>1 DEF f, Threads
<1>4. UNCHANGED <<status, announced, unopened_sources_, inFlight>>
  BY DEF TakeTask, schedulerVars, nodeVars
<1>5. /\ QueueOf[i.node] = q
      /\ \A n : i = OpenItem(n) <=> n = i.node /\ i.kind = "open"
      /\ \A n : i = RunItem(n) <=> n = i.node /\ i.kind = "run"
  <2>1. i \in [node : Nodes, kind : {"open", "run"}]
    BY QueueTyped DEF Core, QueueState
  <2> QED
    BY <1>1, <2>1 DEF Core, ItemsPlaced, OpenItem, RunItem
<1>6. \A n \in Nodes :
        /\ OpenItem(n) \in sq'[QueueOf[n]].items => OpenQueued(n) /\ OpenItem(n) # i
        /\ RunItem(n) \in sq'[QueueOf[n]].items => RunQueued(n) /\ RunItem(n) # i
  <2>1. \A n \in Nodes : QueueOf[n] \in Queues
    BY GraphAssumption
  <2>2. \A x \in Queues : \A j \in sq'[x].items : j \in sq[x].items /\ (x = q => j # i)
    BY <1>1
  <2>3. ASSUME NEW n \in Nodes
        PROVE  /\ OpenItem(n) \in sq'[QueueOf[n]].items => OpenQueued(n) /\ OpenItem(n) # i
               /\ RunItem(n) \in sq'[QueueOf[n]].items => RunQueued(n) /\ RunItem(n) # i
    BY <2>1, <2>2, <1>5 DEF OpenQueued, RunQueued, OpenItem, RunItem
  <2> QED
    BY <2>3
<1>7. ItemsPlaced'
  <2>1. \A x \in Queues : \A j \in sq'[x].items : j \in sq[x].items
    BY <1>1
  <2> QED
    BY <2>1 DEF Core, ItemsPlaced
<1>8. /\ \A n : Opens(f, n) <=> i = OpenItem(n)
      /\ \A n : Runs(f, n) <=> i = RunItem(n)
      /\ f.at \notin AddLabels /\ f.at # "toSourcesQueue"
  BY <1>1, <1>2, <1>5 DEF Opens, Runs, AddLabels, TaskLabels
<1>9. ASSUME NEW n \in Nodes PROVE OpeningsThen(n)
  <2>1. CASE i = OpenItem(n)
    <3>1. OpenQueued(n)
      BY <2>1, <1>1, <1>5 DEF OpenQueued
    <3>2. /\ OpenDeps[n] \subseteq announced' /\ status'[n] = "Prepared"
          /\ OpenItem(n) \notin sq'[QueueOf[n]].items
      BY <3>1, <2>1, <1>4, <1>6 DEF Core, OpeningsPrepared
    <3> QED
      BY <3>1, <3>2, <1>3, <1>8, OpeningsOf
  <2>2. CASE i # OpenItem(n)
    <3>1. OpensCalm({}, {f}, n)
      BY <2>2, <1>8 DEF OpensCalm
    <3> QED
      BY <3>1, <1>3, <1>4, <1>6, OpeningsKept
  <2> QED
    BY <2>1, <2>2
<1>10. ASSUME NEW n \in Nodes PROVE FlightsThen(n)
  <2>1. CASE i = RunItem(n)
    <3>1. RunQueued(n)
      BY <2>1, <1>1, <1>5 DEF RunQueued
    <3>2. /\ inFlight'[n] = 1 /\ status'[n] # "Closed" /\ (n \in Sources => Been(status'[n]))
          /\ RunItem(n) \notin sq'[QueueOf[n]].items /\ status'[n] = status[n]
      BY <3>1, <2>1, <1>4, <1>6 DEF Core, FliesOnce, FliesWhenOpen, Reached, Been
    <3> QED
      BY <3>1, <3>2, <1>3, <1>8, FlightsOf
  <2>2. CASE i # RunItem(n)
    <3>1. RunsCalm({}, {f}, n)
      BY <2>2, <1>8 DEF RunsCalm
    <3> QED
      BY <3>1, <1>3, <1>4, <1>6, <1>8, FlightsKept
  <2> QED
    BY <2>1, <2>2
<1> QED
  BY <1>7, <1>9, <1>10, NodesTaken

LEMMA AddSetFrames ==
  ASSUME NEW items \in SUBSET Item, NEW f \in AddSet(items)
  PROVE  /\ f.at = "add" /\ f.todo = items /\ f.at \in AddLabels
         /\ f.at \notin NodeLabels /\ f.at \notin {"stopQueues", "activate", "toSourcesQueue"}
         /\ \A n : ~Runs(f, n) /\ (Opens(f, n) <=> OpenItem(n) \in items)
<1>1. f.at = "add" /\ f.todo = items
  BY FramesMade DEF AddSet
<1> QED
  BY <1>1 DEF Opens, Runs, AddLabels, TaskLabels, NodeLabels

\* A worker goes on with the node it serves.
LEMMA ServesOn ==
  ASSUME NEW t \in Threads, NEW g, g.at \in NodeLabels, NEW h, h.at \in NodeLabels,
         h.node = g.node, NEW A, \A f \in A : f.at \notin NodeLabels,
         NEW gone, gone = {g}, NEW come, come = A \cup {h}, Turns(t, gone, come)
  PROVE  ServingStays
<1>1. \A q : Serves(come, q) <=> Serves(gone, q)
  BY DEF Serves
<1> QED
  BY <1>1, ServesAsBefore

LEMMA OpenItems ==
  ASSUME NEW ns \in SUBSET Nodes
  PROVE  /\ Items("open", ns) \in SUBSET Item /\ \A i \in Items("open", ns) : i.kind = "open"
         /\ \A m : OpenItem(m) \in Items("open", ns) <=> m \in ns
<1>1. /\ Items("open", ns) \in SUBSET Item
      /\ \A i \in Items("open", ns) : i.node \in ns /\ i.kind = "open"
      /\ \A m \in ns : OpenItem(m) \in Items("open", ns)
  BY ItemsKinds DEF OpenItem
<1>2. \A m : OpenItem(m).node = m
  BY DEF OpenItem
<1> QED
  BY <1>1, <1>2

LEMMA OpenNodeKeeps ==
  ASSUME Core, NEW w \in Workers, OpenNode(w)
  PROVE  NodesSound' /\ ServingStays
<1> DEFINE n == Top(w).node
           opened == NodeFrame("opened", n)
           items == Items("open", OpenedBy(n))
<1>1. /\ w \in Threads /\ Top(w) \in Frames /\ Top(w).at = "open" /\ n \in Nodes
      /\ Items("open", OpenedBy(n)) \in SUBSET Item
  BY OpenNodeTurns
<1>2. opened.at = "opened" /\ opened.node = n
  BY <1>1, FramesMade DEF NodeLabels
<1>3. UNCHANGED <<status, unopened_sources_, inFlight>> /\ SameItems
  BY DEF OpenNode, schedulerVars, queueVars, SameItems
<1>4. /\ \A m : Opens(opened, m) <=> m = n
      /\ \A m : ~Runs(opened, m) /\ (Opens(Top(w), m) <=> m = n)
      /\ opened.at \notin AddLabels /\ opened.at \in NodeLabels /\ Top(w).at \in NodeLabels
  BY <1>1, <1>2 DEF Opens, Runs, AddLabels, TaskLabels, NodeLabels
<1>5. OpensOn(w, n)
  BY <1>1, <1>4, TopMost DEF OpensOn, OpenNode, Core
<1>6. \A m \in OpenedBy(n) : /\ m \in Nodes /\ OpenDeps[m] \subseteq announced \cup {n}
                             /\ status[m] = "Prepared" /\ ~OpenQueued(m)
                             /\ \A t \in Threads : ~OpensOn(t, m)
  BY <1>1, OpenedByNone DEF Core
<1>7. n \notin OpenedBy(n)
  BY <1>1, <1>5, <1>6
<1>8. /\ OpenedBy(n) \in SUBSET Nodes
      /\ \A m \in Nodes : OpenItem(m) \in items <=> m \in OpenedBy(n)
      /\ \A i \in items : i.kind = "open"
  <2>1. OpenedBy(n) \in SUBSET Nodes
    BY DEF OpenedBy
  <2> QED
    BY <2>1, OpenItems
<1>9. \E A : /\ \A f \in A : /\ f.at \notin NodeLabels /\ f.at \in AddLabels /\ f.at # "toSourcesQueue"
                             /\ \A m \in Nodes : ~Runs(f, m) /\ (Opens(f, m) => m \in OpenedBy(n))
                             /\ \A i \in f.todo : i.kind = "open"
             /\ announced \subseteq announced'
             /\ A # {} => announced' = announced \cup {n}
             /\ Turns(w, {Top(w)}, A \cup {opened})
  <2>1. CASE announced' = announced \cup {n} /\ Turns(w, {Top(w)}, AddSet(items) \cup {opened})
    <3>1. \A f \in AddSet(items) :
            /\ f.at \notin NodeLabels /\ f.at \in AddLabels /\ f.at # "toSourcesQueue"
            /\ \A m \in Nodes : ~Runs(f, m) /\ (Opens(f, m) => m \in OpenedBy(n))
            /\ \A i \in f.todo : i.kind = "open"
      BY <1>1, <1>8, AddSetFrames
    <3> QED
      BY <2>1, <3>1
  <2>2. CASE announced' = announced /\ Turns(w, {Top(w)}, {opened})
    <3>1. {opened} = {} \cup {opened}
      OBVIOUS
    <3> QED
      BY <2>2, <3>1
  <2> QED
    BY <2>1, <2>2, OpenNodeTurns
<1>10. PICK A : /\ \A f \in A : /\ f.at \notin NodeLabels /\ f.at \in AddLabels /\ f.at # "toSourcesQueue"
                                /\ \A m \in Nodes : ~Runs(f, m) /\ (Opens(f, m) => m \in OpenedBy(n))
                                /\ \A i \in f.todo : i.kind = "open"
                /\ announced \subseteq announced'
                /\ A # {} => announced' = announced \cup {n}
                /\ Turns(w, {Top(w)}, A \cup {opened})
  BY <1>9
<1> HIDE DEF n, opened, items
<1>11. ASSUME NEW m \in Nodes PROVE OpeningsThen(m)
  <2>1. CASE m \in OpenedBy(n)
    <3>1. OpenItem(m) \notin sq'[QueueOf[m]].items
      BY <2>1, <1>3, <1>6, PlacedAsBefore
    <3>2. status'[m] = "Prepared"
      BY <2>1, <1>3, <1>6
    <3>3. \A f \in A \cup {opened} : Opens(f, m) =>
            f.at # "toSourcesQueue" /\ OpenDeps[m] \subseteq announced'
      BY <2>1, <1>4, <1>6, <1>7, <1>10
    <3>4. \A u \in Threads : ~OpensOn(u, m)
      BY <2>1, <1>6
    <3> QED
      BY <3>1, <3>2, <3>3, <3>4, <1>1, <1>10, OpeningsOf
  <2>2. CASE m \notin OpenedBy(n)
    <3>1. OpensCalm({Top(w)}, A \cup {opened}, m)
      BY <2>2, <1>1, <1>2, <1>4, <1>10 DEF OpensCalm
    <3> QED
      BY <3>1, <1>1, <1>3, <1>10, PlacedAsBefore, OpeningsKept
  <2> QED
    BY <2>1, <2>2
<1>12. ASSUME NEW m \in Nodes PROVE FlightsThen(m)
  <2>1. RunsCalm({Top(w)}, A \cup {opened}, m)
    BY <1>4, <1>10 DEF RunsCalm
  <2>2. \A f \in A \cup {opened} : f.at \in AddLabels => ~\E i \in f.todo : i.node = m /\ i.kind # "open"
    BY <1>4, <1>10
  <2> QED
    BY <2>1, <2>2, <1>1, <1>3, <1>10, PlacedAsBefore, FlightsKept
<1>13. ServingStays
  <2>1. opened.node = Top(w).node
    BY <1>2 DEF n
  <2> QED
    BY <2>1, <1>1, <1>4, <1>10, ServesOn
<1> QED
  BY <1>3, <1>11, <1>12, <1>13, PlacedAsBefore, NodesTaken

LEMMA NodeOpenedKeeps ==
  ASSUME Core, NEW w \in Workers, NodeOpened(w)
  PROVE  NodesSound' /\ ServingStays
<1>1. /\ w \in Threads /\ Top(w) \in Frames /\ Top(w).at = "opened" /\ Top(w).node \in Nodes
      /\ Top(w) \in On(stack[w])
  BY NodeOpenedTurns, TopMost DEF NodeOpened, Core
<1>2. PICK n \in Nodes : n = Top(w).node
  BY <1>1
<1>3. /\ status' = [status EXCEPT ![n] = "Opened"] /\ SameItems
      /\ UNCHANGED <<announced, unopened_sources_, inFlight>>
      /\ status \in [Nodes -> {"Prepared", "Opened", "Active", "Closed"}]
  BY <1>2 DEF NodeOpened, schedulerVars, queueVars, SameItems, Core, TypeOK
<1>4. /\ \A m : ~Runs(Top(w), m) /\ (Opens(Top(w), m) <=> m = n)
      /\ Top(w).at \in NodeLabels
  BY <1>1, <1>2 DEF Opens, Runs, AddLabels, TaskLabels, NodeLabels
<1>5. /\ status[n] = "Prepared" /\ OpenDeps[n] \subseteq announced
      /\ ~OpenQueued(n)
  BY <1>1, <1>4 DEF Core, OpeningsPrepared, OpenedOnce, OpensOn
<1>6. /\ \A m \in Nodes \ {n} : status'[m] = status[m]
      /\ status'[n] = "Opened"
  BY <1>3
<1>7. PICK h, A : /\ h.at \in {"toSourcesQueue", "finish"} /\ h.node = n
                  /\ h.at = "toSourcesQueue" => n \in Sources
                  /\ \A f \in A : Inert(f)
                  /\ Turns(w, {Top(w)}, A \cup {h})
  <2>1. /\ NodeFrame("toSourcesQueue", n).at = "toSourcesQueue" /\ NodeFrame("toSourcesQueue", n).node = n
        /\ NodeFrame("finish", n).at = "finish" /\ NodeFrame("finish", n).node = n
    BY FramesMade DEF NodeLabels
  <2>2. CASE n \in Sources
    <3>1. Turns(w, {Top(w)}, {NodeFrame("toSourcesQueue", n)})
      BY <2>2, <1>2, NodeOpenedTurns
    <3>2. {NodeFrame("toSourcesQueue", n)} = {} \cup {NodeFrame("toSourcesQueue", n)}
      OBVIOUS
    <3> QED
      BY <2>1, <2>2, <3>1, <3>2
  <2>3. CASE n \notin Sources
    <3>1. Turns(w, {Top(w)}, AddSet(Items("run", {n})) \cup {NodeFrame("finish", n)})
      BY <2>3, <1>2, NodeOpenedTurns
    <3>2. \A f \in AddSet(Items("run", {n})) : Inert(f)
      BY <2>3, InertMade
    <3> QED
      BY <2>1, <3>1, <3>2
  <2> QED
    BY <2>2, <2>3
<1>8. \A f \in A : /\ \A m : ~Opens(f, m) /\ ~Runs(f, m)
                   /\ f.at \notin NodeLabels
  BY <1>7 DEF Inert, Opens, Runs, OpenItem, AddLabels, TaskLabels, NodeLabels, PlainLabels
<1>9. /\ \A m : ~Runs(h, m) /\ (Opens(h, m) => m = n /\ h.at = "toSourcesQueue")
      /\ h.at \notin AddLabels /\ h.at \in NodeLabels
  BY <1>7 DEF Opens, Runs, AddLabels, TaskLabels, NodeLabels
<1>10. n \in Sources => n \in unopened_sources_
  BY <1>5 DEF Core, SourcesPlaced
<1>11. ASSUME NEW m \in Nodes PROVE OpeningsThen(m)
  <2>1. CASE m = n
    <3>1. \A f \in A \cup {h} : Opens(f, m) =>
            /\ OpenDeps[m] \subseteq announced'
            /\ f.at # "toSourcesQueue" => status'[m] = "Prepared"
            /\ f.at = "toSourcesQueue" => status'[m] = "Opened" /\ m \in unopened_sources_'
            /\ OpenItem(m) \notin sq'[QueueOf[m]].items
      BY <2>1, <1>3, <1>5, <1>6, <1>7, <1>8, <1>9, <1>10, PlacedAsBefore
    <3>2. /\ OpenItem(m) \notin sq'[QueueOf[m]].items
          /\ OpenDeps[m] \subseteq announced'
      BY <2>1, <1>3, <1>5, PlacedAsBefore
    <3>3. \E g \in {Top(w)} : Opens(g, m)
      BY <2>1, <1>4
    <3> QED
      BY <3>1, <3>2, <3>3, <1>1, <1>7, OpeningsOf
  <2>2. CASE m # n
    <3>1. OpensCalm({Top(w)}, A \cup {h}, m) /\ status'[m] = status[m]
      BY <2>2, <1>6, <1>8, <1>9 DEF OpensCalm
    <3> QED
      BY <3>1, <1>1, <1>3, <1>7, PlacedAsBefore, OpeningsKept
  <2> QED
    BY <2>1, <2>2
<1>12. ASSUME NEW m \in Nodes PROVE FlightsThen(m)
  <2>1. RunsCalm({Top(w)}, A \cup {h}, m)
    BY <1>8, <1>9 DEF RunsCalm
  <2>2. \/ status'[m] = status[m]
        \/ status'[m] # "Closed" /\ (Been(status[m]) => Been(status'[m]))
    BY <1>5, <1>6 DEF Been
  <2>3. \A f \in A \cup {h} : m \in Sources /\ f.at \in AddLabels
                        /\ (\E i \in f.todo : i.node = m /\ i.kind # "open") => Been(status'[m])
    <3>1. \A f \in A : f.at \in AddLabels => \A i \in f.todo : i.node \in Sources => Been(status[i.node])
      BY <1>7 DEF Inert, Been, AddLabels, TaskLabels, PlainLabels
    <3>2. Been(status[m]) => Been(status'[m])
      BY <2>2
    <3> QED
      BY <1>9, <3>1, <3>2
  <2> QED
    BY <2>1, <2>2, <2>3, <1>1, <1>3, <1>7, PlacedAsBefore, FlightsKept
<1>13. ServingStays
  <2>1. h.node = Top(w).node
    BY <1>2, <1>7
  <2> QED
    BY <2>1, <1>1, <1>4, <1>7, <1>8, <1>9, ServesOn
<1> QED
  BY <1>3, <1>11, <1>12, <1>13, PlacedAsBefore, NodesTaken

LEMMA ToSourcesQueueKeeps ==
  ASSUME Core, NEW w \in Workers, AddNodeToSourcesQueue(w)
  PROVE  NodesSound' /\ ServingStays
<1>1. /\ w \in Threads /\ Top(w) \in Frames /\ Top(w).at = "toSourcesQueue" /\ Top(w).node \in Nodes
      /\ Top(w) \in On(stack[w])
  BY ToSourcesQueueTurns, TopMost DEF AddNodeToSourcesQueue, Core
<1>2. PICK n \in Nodes : n = Top(w).node
  BY <1>1
<1>3. PICK h : h = NodeFrame("finish", n)
  OBVIOUS
<1>4. Turns(w, {Top(w)}, {h}) /\ h.at = "finish" /\ h.node = n
  BY <1>2, <1>3, ToSourcesQueueTurns, FramesMade DEF NodeLabels
<1>5. /\ SameItems /\ UNCHANGED <<status, announced, inFlight>>
      /\ \A m : m # n => (m \in unopened_sources_ => m \in unopened_sources_')
  BY <1>2 DEF AddNodeToSourcesQueue, queueVars, nodeVars, SameItems
<1>6. Opens(Top(w), n) /\ \A m : ~Opens(h, m) /\ ~Runs(h, m)
  BY <1>1, <1>2, <1>4 DEF Opens, Runs, AddLabels, TaskLabels
<1>7. OpenDeps[n] \subseteq announced /\ ~OpenQueued(n)
  BY <1>1, <1>6 DEF Core, OpeningsPrepared, OpenedOnce, OpensOn
<1>8. ASSUME NEW m \in Nodes PROVE OpeningsThen(m)
  <2>1. CASE m = n
    <3>1. OpenItem(m) \notin sq'[QueueOf[m]].items /\ OpenDeps[m] \subseteq announced'
      BY <2>1, <1>5, <1>7, PlacedAsBefore
    <3>2. /\ \E g \in {Top(w)} : Opens(g, m)
          /\ \A f \in {h} : ~Opens(f, m)
      BY <2>1, <1>6
    <3> QED
      BY <3>1, <3>2, <1>1, <1>4, OpeningsOf
  <2>2. CASE m # n
    <3>1. OpensCalm({Top(w)}, {h}, m)
      BY <1>6 DEF OpensCalm
    <3> QED
      BY <2>2, <3>1, <1>1, <1>4, <1>5, PlacedAsBefore, OpeningsKept
  <2> QED
    BY <2>1, <2>2
<1>9. ASSUME NEW m \in Nodes PROVE FlightsThen(m)
  <2>1. RunsCalm({Top(w)}, {h}, m)
    BY <1>6 DEF RunsCalm
  <2>2. h.at \notin AddLabels
    BY <1>4 DEF AddLabels, TaskLabels
  <2> QED
    BY <2>1, <2>2, <1>1, <1>4, <1>5, PlacedAsBefore, FlightsKept
<1>10. ServingStays
  <2>1. \A q : Serves({h}, q) <=> Serves({Top(w)}, q)
    BY <1>1, <1>2, <1>4 DEF Serves, NodeLabels
  <2> QED
    BY <2>1, <1>1, <1>4, ServesAsBefore
<1> QED
  BY <1>5, <1>8, <1>9, <1>10, PlacedAsBefore, NodesTaken

LEMMA MarkClosedKeeps ==
  ASSUME Core, NEW w \in Workers, MarkClosed(w)
  PROVE  NodesSound' /\ ServingStays
<1>1. /\ w \in Threads /\ Top(w) \in Frames /\ Top(w).at = "close" /\ Top(w).node \in Nodes
      /\ Top(w).node \in Sources /\ Top(w) \in On(stack[w])
  BY MarkClosedTurns, TopMost DEF MarkClosed, Core
<1>2. PICK n \in Nodes : n = Top(w).node
  BY <1>1
<1>3. PICK h : h = NodeFrame("end", n)
  OBVIOUS
<1>4. Turns(w, {Top(w)}, {h}) /\ h.at = "end" /\ h.node = n
  BY <1>2, <1>3, MarkClosedTurns, FramesMade DEF NodeLabels
<1>5. /\ status' = [status EXCEPT ![n] = "Closed"] /\ SameItems
      /\ UNCHANGED <<announced, unopened_sources_, inFlight>>
      /\ status \in [Nodes -> {"Prepared", "Opened", "Active", "Closed"}]
  BY <1>2 DEF MarkClosed, schedulerVars, queueVars, SameItems, Core, TypeOK
<1>6. /\ status'[n] = "Closed" /\ \A m \in Nodes \ {n} : status'[m] = status[m]
  BY <1>5
<1>7. /\ \A m : ~Opens(h, m) /\ (Runs(h, m) <=> m = n) /\ (Runs(Top(w), m) <=> m = n)
      /\ h.at \notin AddLabels
  BY <1>1, <1>2, <1>4 DEF Opens, Runs, AddLabels, TaskLabels
<1>8. /\ Reached(n) /\ inFlight[n] = 1 /\ ~RunQueued(n) /\ n \notin unopened_sources_
  <2>1. Reached(n) /\ inFlight[n] = 1 /\ ~RunQueued(n)
    BY <1>1, <1>2, <1>7 DEF Core, FliesOnce, FliesWhenOpen, RunsOn
  <2> QED
    BY <2>1, <1>1, <1>2 DEF Core, SourcesPlaced, Reached
<1>9. ASSUME NEW m \in Nodes PROVE OpeningsThen(m)
  <2>1. OpensCalm({Top(w)}, {h}, m)
    BY <1>7 DEF OpensCalm
  <2>2. \/ status'[m] = status[m]
        \/ status[m] # "Prepared" /\ status'[m] # "Prepared" /\ m \notin unopened_sources_
    BY <1>6, <1>8 DEF Reached
  <2> QED
    BY <2>1, <2>2, <1>1, <1>4, <1>5, PlacedAsBefore, OpeningsKept
<1>10. ASSUME NEW m \in Nodes PROVE FlightsThen(m)
  <2>1. CASE m = n
    <3>1. inFlight'[m] = 1 /\ RunItem(m) \notin sq'[QueueOf[m]].items /\ Been(status'[m])
      BY <2>1, <1>5, <1>6, <1>8, PlacedAsBefore DEF Been
    <3>2. \E g \in {Top(w)} : Runs(g, m)
      BY <2>1, <1>7
    <3>3. \A f \in {h} : f.at = "end"
      BY <1>4
    <3> QED
      BY <3>1, <3>2, <3>3, <1>1, <1>4, FlightsOf
  <2>2. CASE m # n
    <3>1. RunsCalm({Top(w)}, {h}, m) /\ status'[m] = status[m]
      BY <2>2, <1>6, <1>7 DEF RunsCalm
    <3> QED
      BY <3>1, <1>1, <1>4, <1>5, <1>7, PlacedAsBefore, FlightsKept
  <2> QED
    BY <2>1, <2>2
<1>11. ServingStays
  <2>1. \A q : Serves({h}, q) <=> Serves({Top(w)}, q)
    BY <1>1, <1>2, <1>4 DEF Serves, NodeLabels
  <2> QED
    BY <2>1, <1>1, <1>4, ServesAsBefore
<1> QED
  BY <1>5, <1>9, <1>10, <1>11, PlacedAsBefore, NodesTaken

\* SetQueuesRunning leaves the rest of each queue as it is.
LEMMA StartsQueues ==
  ASSUME TypeOK, NEW by \in {1, -1}, SetQueuesRunning(by)
  PROVE  /\ sq' \in [Queues -> QueueState]
         /\ \A q \in Queues : /\ sq'[q].items = sq[q].items /\ sq'[q].pending = sq[q].pending
                              /\ sq'[q].toAdd = sq[q].toAdd /\ sq'[q].running = sq[q].running + by
<1>1. ASSUME NEW q \in Queues
      PROVE  /\ sq'[q] \in QueueState
             /\ sq'[q].items = sq[q].items /\ sq'[q].pending = sq[q].pending
             /\ sq'[q].toAdd = sq[q].toAdd /\ sq'[q].running = sq[q].running + by
  <2>1. PICK r \in QueueState : r = sq[q]
    BY QueueTyped
  <2>2. sq'[q] = [r EXCEPT !.running = @ + by]
    BY <2>1 DEF SetQueuesRunning
  <2>3. r.running + by \in Int
    BY <2>1 DEF QueueState
  <2>4. /\ [r EXCEPT !.running = @ + by] \in QueueState
        /\ [r EXCEPT !.running = @ + by].items = r.items
        /\ [r EXCEPT !.running = @ + by].pending = r.pending
        /\ [r EXCEPT !.running = @ + by].toAdd = r.toAdd
        /\ [r EXCEPT !.running = @ + by].running = r.running + by
    BY <2>3 DEF QueueState
  <2> QED
    BY <2>1, <2>2, <2>4
<1>2. sq' = [q \in Queues |-> sq'[q]]
  BY DEF SetQueuesRunning
<1> QED
  BY <1>1, <1>2

LEMMA NodeProcessesKeeps ==
  ASSUME Core, NEW w \in Workers, NEW n \in Nodes, NodeProcesses(w, n)
  PROVE  NodesSound' /\ ServingStays
<1>1. /\ w \in Threads /\ Top(w) \in Frames /\ Top(w).at = "run" /\ Top(w).node = n
      /\ n \notin Sources
  BY NodeProcessesTurns
<1>2. PICK h : h = NodeFrame("end", n)
  OBVIOUS
<1>3. h.at = "end" /\ h.node = n
  BY <1>2, FramesMade DEF NodeLabels
<1>4. PICK ss \in SUBSET Sources, gives \in SUBSET ({n} \ announced) :
        /\ announced' = announced \cup gives
        /\ Processed(n, ss, gives) \in SUBSET Item
        /\ \A i \in Processed(n, ss, gives) :
             \/ i.kind = "run" /\ i.node \in Downstream[n]
             \/ i.kind = "unthrottled" /\ i.node \in ss /\ status[i.node] = "Active"
             \/ i.kind = "open" /\ gives = {n} /\ i.node \in OpenedBy(n)
        /\ Turns(w, {Top(w)}, AddSet(Processed(n, ss, gives)) \cup {h})
  BY <1>2, NodeProcessesTurns
<1>5. PICK items \in SUBSET Item : items = Processed(n, ss, gives)
  BY <1>4
<1>6. /\ announced' = announced \cup gives
      /\ \A i \in items :
             \/ i.kind = "run" /\ i.node \in Downstream[n]
             \/ i.kind = "unthrottled" /\ status[i.node] = "Active"
             \/ i.kind = "open" /\ gives = {n} /\ i.node \in OpenedBy(n)
      /\ Turns(w, {Top(w)}, AddSet(items) \cup {h})
  BY <1>4, <1>5
<1>7. SameItems /\ UNCHANGED <<status, unopened_sources_, inFlight>>
  BY DEF NodeProcesses, schedulerVars, queueVars, SameItems
<1>8. /\ \A m : ~Opens(h, m) /\ (Runs(h, m) <=> m = n) /\ (Runs(Top(w), m) <=> m = n)
      /\ h.at \notin AddLabels /\ h.at \in NodeLabels /\ Top(w).at \in NodeLabels /\ Top(w).at # "end"
  BY <1>1, <1>3 DEF Opens, Runs, AddLabels, TaskLabels, NodeLabels
<1>9. \A f \in AddSet(items) : /\ f.at \in AddLabels /\ f.at \notin NodeLabels /\ f.at # "toSourcesQueue"
                               /\ f.todo = items
                               /\ \A m : ~Runs(f, m) /\ (Opens(f, m) => OpenItem(m) \in items)
  BY AddSetFrames
<1>10. ASSUME NEW m \in Nodes, OpenItem(m) \in items
       PROVE  gives = {n} /\ m \in OpenedBy(n)
  <2>1. OpenItem(m).kind = "open" /\ OpenItem(m).node = m
    BY DEF OpenItem
  <2> QED
    BY <2>1, <1>6, <1>10
<1>11. \A m \in OpenedBy(n) : /\ m \in Nodes /\ OpenDeps[m] \subseteq announced \cup {n}
                              /\ status[m] = "Prepared" /\ ~OpenQueued(m)
                              /\ \A t \in Threads : ~OpensOn(t, m)
  BY OpenedByNone DEF Core
<1>12. ASSUME NEW m \in Nodes PROVE OpeningsThen(m)
  <2>1. CASE OpenItem(m) \in items
    <3>1. /\ OpenItem(m) \notin sq'[QueueOf[m]].items /\ status'[m] = "Prepared"
          /\ OpenDeps[m] \subseteq announced'
      BY <2>1, <1>6, <1>7, <1>10, <1>11, PlacedAsBefore
    <3>2. \A f \in AddSet(items) \cup {h} : Opens(f, m) => f.at # "toSourcesQueue"
      BY <1>8, <1>9
    <3>3. \A u \in Threads : ~OpensOn(u, m)
      BY <2>1, <1>10, <1>11
    <3> QED
      BY <3>1, <3>2, <3>3, <1>1, <1>6, OpeningsOf
  <2>2. CASE OpenItem(m) \notin items
    <3>1. OpensCalm({Top(w)}, AddSet(items) \cup {h}, m)
      BY <2>2, <1>8, <1>9 DEF OpensCalm
    <3>2. announced \subseteq announced'
      BY <1>6
    <3> QED
      BY <3>1, <3>2, <1>1, <1>6, <1>7, PlacedAsBefore, OpeningsKept
  <2> QED
    BY <2>1, <2>2
<1>13. ASSUME NEW m \in Nodes PROVE FlightsThen(m)
  <2>1. RunsCalm({Top(w)}, AddSet(items) \cup {h}, m)
    BY <1>8, <1>9 DEF RunsCalm
  <2>2. \A f \in AddSet(items) \cup {h} : m \in Sources /\ f.at \in AddLabels
                        /\ (\E i \in f.todo : i.node = m /\ i.kind # "open") => Been(status'[m])
    <3>1. Downstream[n] \in SUBSET (Nodes \ Sources)
      BY GraphAssumption
    <3>2. \A i \in items : i.kind # "open" /\ i.node \in Sources => status[i.node] = "Active"
      BY <3>1, <1>6
    <3> QED
      BY <3>2, <1>7, <1>8, <1>9 DEF Been
  <2> QED
    BY <2>1, <2>2, <1>1, <1>6, <1>7, PlacedAsBefore, FlightsKept
<1>14. ServingStays
  BY <1>1, <1>3, <1>6, <1>8, <1>9, ServesOn
<1> QED
  BY <1>7, <1>12, <1>13, <1>14, PlacedAsBefore, NodesTaken

LEMMA ActivateNodeKeeps ==
  ASSUME Core, NEW t \in Threads, ActivateNode(t)
  PROVE  NodesSound' /\ ServingStays
<1>1. PICK i : i = Top(t).i
  OBVIOUS
<1>2. PICK n : n = active_sources_[i]
  OBVIOUS
<1>3. PICK next : next = IF i = Len(active_sources_) THEN Frame("startQueues")
                                                     ELSE ActivateFrame(i + 1)
  OBVIOUS
<1>4. /\ Top(t) \in Frames /\ Top(t).at = "activate"
      /\ i \in DOMAIN active_sources_ /\ n \in Sources /\ n \in Nodes
      /\ i \in Nat \ {0} /\ status[n] = "Opened"
      /\ status' = [status EXCEPT ![n] = "Active"]
      /\ AddFrame(Items("run", {n})) \in Frames
      /\ Turns(t, {Top(t)}, {AddFrame(Items("run", {n})), next})
  BY <1>1, <1>2, <1>3, ActivateNodeTurns
<1>5. PICK a : a = AddFrame(Items("run", {n}))
  OBVIOUS
<1>6. /\ a.at = "add" /\ a.todo = Items("run", {n})
      /\ \A j \in a.todo : j.node = n /\ j.kind = "run"
  <2>1. /\ Items("run", {n}) \in SUBSET Item
        /\ \A j \in Items("run", {n}) : j.node \in {n} /\ j.kind = "run"
    BY <1>4, RunItems
  <2>2. a.at = "add" /\ a.todo = Items("run", {n})
    BY <2>1, <1>5, FramesMade
  <2> QED
    BY <2>1, <2>2
<1>7. next.at \in {"startQueues", "activate"}
  BY <1>3, <1>4, FramesMade DEF PlainLabels
<1>8. /\ \A f \in {a, next} : /\ f.at \notin NodeLabels
                              /\ \A m : ~Opens(f, m) /\ ~Runs(f, m)
      /\ next.at \notin AddLabels /\ Top(t).at \notin NodeLabels
  BY <1>4, <1>6, <1>7 DEF Opens, Runs, OpenItem, AddLabels, TaskLabels, NodeLabels
<1>9. /\ SameItems /\ UNCHANGED <<announced, unopened_sources_, inFlight>>
      /\ status \in [Nodes -> {"Prepared", "Opened", "Active", "Closed"}]
  BY DEF ActivateNode, schedulerVars, queueVars, SameItems, Core, TypeOK
<1>10. status'[n] = "Active" /\ \A m \in Nodes \ {n} : status'[m] = status[m]
  BY <1>4, <1>9
<1>11. n \notin unopened_sources_
  BY <1>2, <1>4 DEF Core, SourcesPlaced, InActive
<1>12. Turns(t, {Top(t)}, {a, next})
  BY <1>4, <1>5
<1>13. ASSUME NEW m \in Nodes PROVE OpeningsThen(m) /\ FlightsThen(m)
  <2>1. OpensCalm({Top(t)}, {a, next}, m) /\ RunsCalm({Top(t)}, {a, next}, m)
    BY <1>8 DEF OpensCalm, RunsCalm
  <2>2. /\ \/ status'[m] = status[m]
           \/ status[m] # "Prepared" /\ status'[m] # "Prepared" /\ m \notin unopened_sources_
        /\ \/ status'[m] = status[m]
           \/ status'[m] # "Closed" /\ (Been(status[m]) => Been(status'[m]))
    BY <1>4, <1>10, <1>11 DEF Been
  <2>3. \A f \in {a, next} : m \in Sources /\ f.at \in AddLabels
                        /\ (\E j \in f.todo : j.node = m /\ j.kind # "open") => Been(status'[m])
    BY <1>6, <1>8, <1>10 DEF Been
  <2>4. OpeningsThen(m)
    BY <2>1, <2>2, <1>9, <1>12, PlacedAsBefore, OpeningsKept
  <2>5. FlightsThen(m)
    BY <2>1, <2>2, <2>3, <1>9, <1>12, PlacedAsBefore, FlightsKept
  <2> QED
    BY <2>4, <2>5
<1>14. ServingStays
  <2>1. \A q : Serves({a, next}, q) <=> Serves({Top(t)}, q)
    BY <1>8 DEF Serves
  <2> QED
    BY <2>1, <1>12, ServesAsBefore
<1> QED
  BY <1>9, <1>13, <1>14, PlacedAsBefore, NodesTaken

LEMMA EndSchedulingKeeps ==
  ASSUME Core, NEW w \in Workers, EndScheduling(w)
  PROVE  NodesSound' /\ ServingStays
<1>1. /\ w \in Threads /\ Top(w) \in Frames /\ Top(w).at = "end" /\ Top(w).node \in Nodes
      /\ Top(w) \in On(stack[w])
  BY EndSchedulingTurns, TopMost DEF EndScheduling, Core
<1>2. PICK n \in Nodes : n = Top(w).node
  BY <1>1
<1>3. PICK h : h = NodeFrame("finish", n)
  OBVIOUS
<1>4. h.at = "finish" /\ h.node = n
  BY <1>3, FramesMade DEF NodeLabels
<1>5. /\ SameItems /\ UNCHANGED <<status, announced, unopened_sources_>>
      /\ inFlight \in [Nodes -> 0 .. 1]
  BY DEF EndScheduling, schedulerVars, queueVars, SameItems, Core, TypeOK
<1>6. /\ \A m : ~Opens(h, m) /\ ~Runs(h, m) /\ (Runs(Top(w), m) <=> m = n)
      /\ h.at \notin AddLabels /\ h.at \in NodeLabels /\ Top(w).at \in NodeLabels
  BY <1>1, <1>2, <1>4 DEF Opens, Runs, AddLabels, TaskLabels, NodeLabels
<1>7. ~RunQueued(n) /\ (n \in Sources => Reached(n))
  BY <1>1, <1>2, <1>6 DEF Core, FliesOnce, FliesWhenOpen, RunsOn
<1>8. CASE status[n] = "Closed"
  <2>1. inFlight' = inFlight /\ Turns(w, {Top(w)}, {h})
    BY <1>2, <1>3, <1>8, EndSchedulingTurns
  <2>2. /\ h.node = Top(w).node /\ Top(w).at \in NodeLabels
        /\ h.at \in {"close", "end", "finish"} /\ (h.at # "finish" => Top(w).at \in {"run", "close"})
    BY <1>2, <1>4, <1>6
  <2>3. FramesCalm({Top(w)}, {h})
    BY <2>2, NodeCalmAlone
  <2>4. CalmStep(w)
    BY <2>1, <2>3 DEF CalmStep
  <2> QED
    BY <2>1, <2>4, <1>1, <1>5, CalmKeeps
<1>9. CASE status[n] # "Closed"
  <2>1. /\ inFlight' = [inFlight EXCEPT ![n] = 0] /\ Items("run", {n}) \in SUBSET Item
        /\ Turns(w, {Top(w)}, AddSet(Items("run", {n})) \cup {h})
    BY <1>2, <1>3, <1>9, EndSchedulingTurns
  <2>2. PICK items \in SUBSET Item : items = Items("run", {n})
    BY <2>1
  <2>3. Turns(w, {Top(w)}, AddSet(items) \cup {h})
    BY <2>1, <2>2
  <2>4. /\ \A m : OpenItem(m) \notin items
        /\ \A i \in items : i.node = n /\ i.kind = "run"
    BY <2>2, RunItems
  <2>5. \A f \in AddSet(items) : /\ f.at \in AddLabels /\ f.at \notin NodeLabels
                                 /\ f.todo = items
                                 /\ \A m : ~Runs(f, m) /\ ~Opens(f, m)
    BY <2>4, AddSetFrames
  <2>6. \A m \in Nodes : \A f \in AddSet(items) \cup {h} : m \in Sources /\ f.at \in AddLabels
            /\ (\E i \in f.todo : i.node = m /\ i.kind # "open") => Been(status'[m])
    BY <2>4, <2>5, <1>5, <1>6, <1>7 DEF Been, Reached
  <2>7. ASSUME NEW m \in Nodes PROVE OpeningsThen(m)
    <3>1. OpensCalm({Top(w)}, AddSet(items) \cup {h}, m)
      BY <2>5, <1>6 DEF OpensCalm
    <3> QED
      BY <3>1, <2>3, <1>1, <1>5, PlacedAsBefore, OpeningsKept
  <2>8. ASSUME NEW m \in Nodes PROVE FlightsThen(m)
    <3>1. \A f \in AddSet(items) \cup {h} : ~Runs(f, m)
      BY <2>5, <1>6
    <3>2. CASE m = n
      <4>1. /\ \E g \in {Top(w)} : Runs(g, m)
            /\ RunItem(m) \notin sq'[QueueOf[m]].items /\ status'[m] # "Closed"
            /\ status'[m] = status[m]
        BY <3>2, <1>5, <1>6, <1>7, <1>9, PlacedAsBefore
      <4> QED
        BY <4>1, <3>1, <2>3, <2>6, <1>1, FlightsOf
    <3>3. CASE m # n
      <4>1. inFlight'[m] = inFlight[m] /\ RunsCalm({Top(w)}, AddSet(items) \cup {h}, m)
        BY <3>1, <3>3, <2>1, <1>5 DEF RunsCalm
      <4> QED
        BY <4>1, <2>3, <2>6, <1>1, <1>5, PlacedAsBefore, FlightsKept
    <3> QED
      BY <3>2, <3>3
  <2>9. ServingStays
    <3>1. h.node = Top(w).node
      BY <1>2, <1>4
    <3> QED
      BY <3>1, <2>3, <2>5, <1>1, <1>6, ServesOn
  <2> QED
    BY <2>7, <2>8, <2>9, <1>5, PlacedAsBefore, NodesTaken
<1> QED
  BY <1>8, <1>9

LEMMA FinishTaskKeeps ==
  ASSUME Core, NEW w \in Workers, FinishTask(w)
  PROVE  NodesSound'
<1>1. w \in Threads /\ SameItems
  BY FinishTaskTurns DEF SameItems
<1>2. PICK come \in {{}, {Frame("callTrue")}} : Turns(w, {Top(w)}, come)
  BY FinishTaskTurns
<1>3. \A f \in come : f.at \notin NodeLabels \cup AddLabels
  BY <1>2, FramesMade DEF PlainLabels, NodeLabels, AddLabels, TaskLabels
<1>4. UNCHANGED <<status, announced, unopened_sources_, inFlight>>
  BY DEF FinishTask, schedulerVars, nodeVars
<1> QED
  BY <1>1, <1>2, <1>3, <1>4, NoNodeTouched

LEMMA LayerKeeps ==
  ASSUME Core, NEW t \in Threads, HandleIdleNextLayer(t) \/ StopQueuesForLayer(t)
  PROVE  NodesSound' /\ ServingStays
<1>1. PICK come : /\ Turns(t, {Top(t)}, come)
                  /\ \A f \in come : f.at \notin NodeLabels \cup AddLabels
                  /\ Top(t).at \notin NodeLabels
  <2>1. CASE HandleIdleNextLayer(t)
    <3>1. /\ Turns(t, {Top(t)}, {Frame("stopQueues"), Frame("lock"), Top(t)})
          /\ Top(t).at = "handleIdle"
      BY <2>1, NextLayerTurns
    <3>2. \A f \in {Frame("stopQueues"), Frame("lock"), Top(t)} : f.at \notin NodeLabels \cup AddLabels
      BY <3>1, FramesMade DEF PlainLabels, NodeLabels, AddLabels, TaskLabels
    <3> QED
      BY <3>1, <3>2
  <2>2. CASE StopQueuesForLayer(t)
    <3>1. Turns(t, {Top(t)}, {ActivateFrame(1)}) /\ Top(t).at = "stopQueues"
      BY <2>2, StopQueuesTurns
    <3>2. /\ \A f \in {ActivateFrame(1)} : f.at \notin NodeLabels \cup AddLabels
          /\ Top(t).at \notin NodeLabels
      BY <3>1, FramesMade DEF PlainLabels, NodeLabels, AddLabels, TaskLabels
    <3> QED
      BY <3>1, <3>2
  <2> QED
    BY <2>1, <2>2
<1>2. SameItems
  <2>1. CASE HandleIdleNextLayer(t)
    BY <2>1 DEF HandleIdleNextLayer, queueVars, SameItems
  <2>2. CASE StopQueuesForLayer(t)
    BY <2>2, StartsQueues DEF StopQueuesForLayer, SameItems, Core
  <2> QED
    BY <2>1, <2>2
<1>3. UNCHANGED <<status, announced, unopened_sources_, inFlight>>
  BY DEF HandleIdleNextLayer, StopQueuesForLayer, schedulerVars, nodeVars
<1>4. ServingStays
  <2>1. \A q : Serves(come, q) <=> Serves({Top(t)}, q)
    BY <1>1 DEF Serves
  <2> QED
    BY <2>1, <1>1, ServesAsBefore
<1> QED
  BY <1>1, <1>2, <1>3, <1>4, NoNodeTouched

-----------------------------------------------------------------------------
(* The sources and their layers. *)

LEMMA SmallestOf ==
  ASSUME NEW T \in SUBSET Nat, T # {}
  PROVE  \E m \in T : \A y \in T : m <= y
<1> DEFINE Less == {ss \in Nat \X Nat : ss[1] < ss[2]}
<1>1. IsWellFoundedOn(Less, Nat)
  BY NatLessThanWellFounded DEF OpToRel
<1>2. PICK m \in T : \A y \in T : <<y, m>> \notin Less
  BY <1>1, WFMin
<1>3. ASSUME NEW y \in T PROVE m <= y
  <2>1. <<y, m>> \in Less <=> y < m
    OBVIOUS
  <2> QED
    BY <1>2, <2>1
<1> QED
  BY <1>3

LEMMA LargestOf ==
  ASSUME NEW n \in Nat, NEW S \in SUBSET (0 .. n), S # {}
  PROVE  Max(S) \in S /\ \A x \in S : x <= Max(S)
<1>1. PICK T : T = {y \in Nat : \E x \in S : y = n - x}
  OBVIOUS
<1>2. \A x \in S : x \in Int /\ n - x \in Nat
  OBVIOUS
<1>3. \A x \in S : n - x \in T
  BY <1>1, <1>2
<1>4. T \in SUBSET Nat /\ T # {}
  BY <1>1, <1>3
<1>5. PICK m \in T : \A y \in T : m <= y
  BY <1>4, SmallestOf
<1>6. PICK k \in S : m = n - k
  BY <1>1, <1>5
<1>7. ASSUME NEW x \in S PROVE k >= x
  <2>1. m <= n - x
    BY <1>5, <1>3
  <2> QED
    BY <2>1, <1>6, <1>2
<1>8. Max(S) \in S /\ \A x \in S : Max(S) >= x
  BY <1>7 DEF Max
<1> QED
  BY <1>8

LEMMA SomeLowest ==
  ASSUME NEW ss \in SUBSET Sources, ss # {}
  PROVE  LowestLayer(ss) # {}
<1>1. {Layer[s] : s \in ss} \in SUBSET Nat /\ {Layer[s] : s \in ss} # {}
  BY GraphAssumption
<1>2. PICK m \in {Layer[s] : s \in ss} : \A y \in {Layer[s] : s \in ss} : m <= y
  BY <1>1, SmallestOf
<1>3. PICK s \in ss : m = Layer[s]
  BY <1>2
<1>4. s \in LowestLayer(ss)
  BY <1>2, <1>3 DEF LowestLayer
<1> QED
  BY <1>4

LEMMA OrderCovers ==
  ASSUME NEW ss \in SUBSET Sources, NEW o \in SourcesInOrder(ss)
  PROVE  /\ o \in Seq(Sources) /\ DOMAIN o = 1 .. Len(o)
         /\ \A j \in DOMAIN o : o[j] \in ss
         /\ \A j, k \in DOMAIN o : o[j] = o[k] => j = k
         /\ \A s \in ss : \E j \in DOMAIN o : o[j] = s
<1>1. IsFiniteSet(ss)
  <2>1. ss \in SUBSET Nodes
    BY GraphAssumption
  <2> QED
    BY <2>1, FiniteAssumption, FS_Subset
<1>2. PICK n \in Nat : n = Cardinality(ss)
  BY <1>1, FS_CardinalityType
<1>3. o \in [1 .. n -> ss] /\ \A i, j \in DOMAIN o : i # j => o[i] # o[j]
  BY <1>2 DEF SourcesInOrder
<1>4. o \in Injection(1 .. n, ss)
  BY <1>3 DEF Injection, IsInjective
<1>5. Cardinality(1 .. n) = n
  BY FS_Interval
<1>6. o \in Surjection(1 .. n, ss)
  BY <1>1, <1>2, <1>4, <1>5, FS_Injection
<1>7. \A s \in ss : \E j \in 1 .. n : o[j] = s
  BY <1>6 DEF Surjection
<1>8. o \in Seq(Sources) /\ Len(o) = n
  BY <1>3
<1> QED
  BY <1>3, <1>7, <1>8

\* What CleanupActiveSources leaves, and that it removes closed sources only.
LEMMA Trims ==
  ASSUME TypeOK
  PROVE  /\ ActiveSources \in Seq(Sources)
         /\ \A j \in DOMAIN ActiveSources :
              j \in DOMAIN active_sources_ /\ ActiveSources[j] = active_sources_[j]
         /\ \A j \in DOMAIN active_sources_ :
              j \in DOMAIN ActiveSources \/ status[active_sources_[j]] = "Closed"
<1> DEFINE open == {i \in DOMAIN active_sources_ : status[active_sources_[i]] # "Closed"}
           S == open \cup {0}
<1>1. PICK n \in Nat : n = Len(active_sources_)
  BY DEF TypeOK
<1>2. /\ active_sources_ \in Seq(Sources) /\ DOMAIN active_sources_ = 1 .. n
      /\ \A i \in 1 .. n : active_sources_[i] \in Sources
  BY <1>1 DEF TypeOK
<1>3. S \in SUBSET (0 .. n) /\ S # {}
  BY <1>2
<1>4. PICK k \in S : k = Max(S) /\ \A x \in S : x <= k
  BY <1>3, LargestOf
<1>5. ActiveSources = SubSeq(active_sources_, 1, k) /\ k \in 0 .. n
  BY <1>3, <1>4 DEF ActiveSources
<1>6. \A i \in 1 .. k : active_sources_[i] \in Sources
  BY <1>2, <1>5
<1>7. /\ SubSeq(active_sources_, 1, k) \in Seq(Sources)
      /\ Len(SubSeq(active_sources_, 1, k)) = IF 1 <= k THEN k - 1 + 1 ELSE 0
      /\ \A i \in 1 .. k - 1 + 1 : SubSeq(active_sources_, 1, k)[i] = active_sources_[1 + i - 1]
  BY <1>5, <1>6, SubSeqProperties
<1>8. /\ ActiveSources \in Seq(Sources) /\ Len(ActiveSources) = k
      /\ \A i \in 1 .. k : ActiveSources[i] = active_sources_[i]
  BY <1>5, <1>7
<1>9. DOMAIN ActiveSources = 1 .. k
  BY <1>8, LenProperties
<1>10. ASSUME NEW j \in DOMAIN active_sources_
       PROVE  j \in DOMAIN ActiveSources \/ status[active_sources_[j]] = "Closed"
  BY <1>2, <1>4, <1>5, <1>9
<1> QED
  BY <1>2, <1>5, <1>8, <1>9, <1>10

LEMMA NoneLeftActive ==
  ASSUME TypeOK, ActiveSources = <<>>
  PROVE  \A j \in DOMAIN active_sources_ : status[active_sources_[j]] = "Closed"
<1>1. DOMAIN <<>> = {}
  OBVIOUS
<1>2. \A j \in DOMAIN active_sources_ :
        j \in DOMAIN ActiveSources \/ status[active_sources_[j]] = "Closed"
  BY Trims
<1> QED
  BY <1>1, <1>2

\* A thread in its turn of HandleIdle is not adding a layer, nor is any other.
LEMMA TurnAlone ==
  ASSUME Core, NEW t \in Threads, At(t, "handleIdle") \/ At(t, "endOfTurn"),
         NEW u \in Threads, NEW f \in On(stack[u])
  PROVE  f.at \notin LayerLabels \cup {"lock"}
<1>1. /\ Top(t).at \in Turn /\ On(stack[t]) = {Top(t)} \cup On(Return(t))
      /\ \A g \in On(Return(t)) : g.at \notin HandlerLabels
  BY TurnOnTop DEF Core
<1>2. Handles(t)
  BY <1>1 DEF Handles, Has, HandlerLabels
<1>3. CASE u = t
  BY <1>1, <1>3 DEF HandlerLabels, Turn, LayerLabels
<1>4. CASE u # t
  <2>1. ~Handles(u)
    BY <1>2, <1>4 DEF Core, HandlerAlone
  <2> QED
    BY <2>1 DEF Handles, Has, HandlerLabels
<1> QED
  BY <1>3, <1>4

LEMMA LayerFramesKept ==
  ASSUME NEW t \in Threads, NEW gone, NEW come, Turns(t, gone, come), LayersCalm(gone, come)
  PROVE  \A u \in Threads : \A f \in On(stack'[u]) :
           f.at \in {"stopQueues", "activate"} => f \in On(stack[u])
<1>1. PICK R : /\ \A u \in Threads \ {t} : stack'[u] = stack[u]
               /\ On(stack[t]) = gone \cup R /\ On(stack'[t]) = come \cup R
  BY DEF Turns
<1> QED
  BY <1>1 DEF LayersCalm

\* A turn of HandleIdle that only removes closed sources from the active ones.
LEMMA TrimKeeps ==
  ASSUME Core, NEW t \in Threads, CalmStep(t), At(t, "handleIdle") \/ At(t, "endOfTurn"),
         active_sources_' = ActiveSources \/ active_sources_' = active_sources_,
         UNCHANGED <<status, unopened_sources_, sources_queue_>>
  PROVE  SourcesSound'
<1>1. PICK gone, come : Turns(t, gone, come) /\ LayersCalm(gone, come)
  BY DEF CalmStep, FramesCalm
<1>2. \A u \in Threads : \A f \in On(stack'[u]) : f.at \notin {"stopQueues", "activate"}
  BY <1>1, LayerFramesKept, TurnAlone DEF LayerLabels
<1>3. LayerToActivate'
  BY <1>2 DEF LayerToActivate
<1>4. /\ \A j \in DOMAIN active_sources_' :
           j \in DOMAIN active_sources_ /\ active_sources_'[j] = active_sources_[j]
      /\ \A j \in DOMAIN active_sources_ :
           j \in DOMAIN active_sources_' \/ status[active_sources_[j]] = "Closed"
  BY Trims DEF Core
<1>5. SourcesPlaced'
  <2>1. \A s \in Sources : InActive(s)' => InActive(s)
    BY <1>4 DEF InActive
  <2>2. \A s \in Sources : InActive(s) => InActive(s)' \/ status[s] = "Closed"
    BY <1>4 DEF InActive
  <2> QED
    BY <1>4, <2>1, <2>2 DEF Core, SourcesPlaced
<1>6. LowerLayersClosed' /\ LayersInOrder'
  BY <1>4 DEF Core, LowerLayersClosed, LayersInOrder
<1> QED
  BY <1>3, <1>5, <1>6 DEF SourcesSound

LEMMA TurnKeepsLayers ==
  ASSUME Core, NEW t \in Threads,
         \/ HandleIdleNotIdle(t) \/ HandleIdleQuit(t) \/ HandleIdleBlocked(t)
         \/ HandleIdleUnthrottle(t) \/ HandleIdleEndOfTurn(t)
  PROVE  SourcesSound'
<1>1. CalmStep(t)
  BY HandlerCalm
<1>2. At(t, "handleIdle") \/ At(t, "endOfTurn")
  BY DEF HandleIdleNotIdle, HandleIdleQuit, HandleIdleBlocked, HandleIdleUnthrottle,
         HandleIdleEndOfTurn, InHandleIdle
<1>3. active_sources_' = ActiveSources \/ active_sources_' = active_sources_
  BY DEF HandleIdleNotIdle, HandleIdleQuit, HandleIdleBlocked, HandleIdleUnthrottle,
         HandleIdleEndOfTurn
<1>4. UNCHANGED <<status, unopened_sources_, sources_queue_>>
  BY DEF HandleIdleNotIdle, HandleIdleQuit, HandleIdleBlocked, HandleIdleUnthrottle,
         HandleIdleEndOfTurn, nodeVars
<1> QED
  BY <1>1, <1>2, <1>3, <1>4, TrimKeeps

\* The next layer is taken when all the lower ones are closed.
LEMMA NextLayerKeepsLayers ==
  ASSUME Core, NEW t \in Threads, HandleIdleNextLayer(t)
  PROVE  SourcesSound'
<1> DEFINE ss == LowestLayer(sources_queue_)
<1>1. /\ At(t, "handleIdle") /\ ActiveSources = <<>> /\ sources_queue_ # {}
      /\ ~LowerLayerUnopened /\ active_sources_' \in SourcesInOrder(ss)
      /\ sources_queue_' = sources_queue_ \ ss
      /\ UNCHANGED <<status, unopened_sources_>>
  BY DEF HandleIdleNextLayer, InHandleIdle, nodeVars
<1>2. ss \in SUBSET Sources /\ ss # {} /\ ss \subseteq sources_queue_
  <2>1. sources_queue_ \in SUBSET Sources
    BY DEF Core, TypeOK
  <2> QED
    BY <1>1, <2>1, SomeLowest DEF LowestLayer
<1>3. PICK o \in SourcesInOrder(ss) : active_sources_' = o
  BY <1>1
<1>4. /\ o \in Seq(Sources) /\ DOMAIN o = 1 .. Len(o)
      /\ \A j \in DOMAIN o : o[j] \in ss
      /\ \A j, k \in DOMAIN o : o[j] = o[k] => j = k
      /\ \A s \in ss : \E j \in DOMAIN o : o[j] = s
  <2> HIDE DEF ss
  <2> QED
    BY <1>2, <1>3, OrderCovers
<1>5. \A j \in DOMAIN active_sources_ : status[active_sources_[j]] = "Closed"
  BY <1>1, NoneLeftActive DEF Core
<1>6. \A s \in Sources : InActive(s) => status[s] = "Closed"
  BY <1>5 DEF InActive
<1>7. \A s \in Sources : InActive(s)' <=> s \in ss
  BY <1>3, <1>4 DEF InActive
<1>8. SourcesPlaced'
  <2> HIDE DEF ss
  <2> QED
    BY <1>1, <1>2, <1>3, <1>4, <1>6, <1>7 DEF Core, SourcesPlaced
<1>9. LayerToActivate'
  <2>1. /\ Top(t).at = "handleIdle"
        /\ Turns(t, {Top(t)}, {Frame("stopQueues"), Frame("lock"), Top(t)})
    BY NextLayerTurns
  <2>2. PICK R : /\ \A u \in Threads \ {t} : stack'[u] = stack[u]
                 /\ On(stack[t]) = {Top(t)} \cup R
                 /\ On(stack'[t]) = {Frame("stopQueues"), Frame("lock"), Top(t)} \cup R
    BY <2>1 DEF Turns
  <2>3. \A u \in Threads : \A f \in On(stack[u]) : f.at \notin {"stopQueues", "activate"}
    BY <1>1, TurnAlone DEF LayerLabels
  <2>4. \A f \in {Frame("stopQueues"), Frame("lock"), Top(t)} : f.at # "activate"
    BY <2>1 DEF Frame
  <2>5. \A u \in Threads : \A f \in On(stack'[u]) : f.at # "activate"
    BY <2>2, <2>3, <2>4
  <2>6. o # <<>>
    <3>1. PICK s \in ss : TRUE
      BY <1>2
    <3>2. \E j \in DOMAIN o : o[j] = s
      BY <1>4
    <3>3. DOMAIN <<>> = {}
      OBVIOUS
    <3> QED
      BY <3>2, <3>3
  <2>7. \A j \in DOMAIN o : status[o[j]] = "Opened"
    BY <1>2, <1>4 DEF Core, SourcesPlaced
  <2> QED
    BY <1>1, <1>3, <2>5, <2>6, <2>7 DEF LayerToActivate
<1>10. LowerLayersClosed'
  <2>1. ASSUME NEW j \in DOMAIN o, NEW r \in Sources, Layer[r] < Layer[o[j]]
        PROVE  status[r] = "Closed"
    <3>1. o[j] \in ss
      BY <1>4
    <3>2. r \notin unopened_sources_
      BY <1>1, <2>1, <3>1 DEF LowerLayerUnopened
    <3>3. r \notin sources_queue_
      <4>1. Layer[r] \in Nat /\ Layer[o[j]] \in Nat
        BY <1>2, <3>1, GraphAssumption
      <4> QED
        BY <2>1, <3>1, <4>1 DEF LowestLayer
    <3>4. CASE InActive(r)
      BY <3>4, <1>6
    <3> QED
      BY <3>2, <3>3, <3>4 DEF Core, SourcesPlaced
  <2> QED
    BY <1>1, <1>3, <2>1 DEF LowerLayersClosed
<1>11. LayersInOrder'
  BY <1>1 DEF Core, LayersInOrder
<1> QED
  BY <1>8, <1>9, <1>10, <1>11 DEF SourcesSound

\* A thread that is adding a layer is the only one that is in HandleIdle.
LEMMA LayerAlone ==
  ASSUME Core, NEW t \in Threads, stack[t] # <<>>, Top(t).at \in LayerLabels,
         NEW gone, NEW come, gone = {Top(t)}, Turns(t, gone, come)
  PROVE  /\ \A u \in Threads \ {t} : \A f \in On(stack'[u]) : f.at \notin LayerLabels
         /\ \A f \in On(stack'[t]) : f.at \in LayerLabels => f \in come
<1>1. PICK R : /\ \A u \in Threads \ {t} : stack'[u] = stack[u]
               /\ On(stack[t]) = gone \cup R /\ On(stack'[t]) = come \cup R
               /\ \A f \in gone : Fits(t, f, R)
  BY DEF Turns
<1>2. Handles(t)
  BY <1>1 DEF Handles, Has, HandlerLabels
<1>3. ASSUME NEW u \in Threads \ {t}, NEW f \in On(stack'[u]) PROVE f.at \notin LayerLabels
  <2>1. ~Handles(u)
    BY <1>2 DEF Core, HandlerAlone
  <2> QED
    BY <2>1, <1>1 DEF Handles, Has, HandlerLabels
<1>4. \A f \in R : f.at \notin LayerLabels
  BY <1>1 DEF Fits
<1> QED
  BY <1>1, <1>3, <1>4

LEMMA StopQueuesKeepsLayers ==
  ASSUME Core, NEW t \in Threads, StopQueuesForLayer(t)
  PROVE  SourcesSound'
<1>1. /\ Top(t) \in Frames /\ Top(t).at = "stopQueues" /\ stack[t] # <<>>
      /\ Turns(t, {Top(t)}, {ActivateFrame(1)})
  BY StopQueuesTurns DEF StopQueuesForLayer, At
<1>2. ActivateFrame(1).at = "activate" /\ ActivateFrame(1).i = 1
  BY DEF ActivateFrame
<1>3. PICK come : come = {ActivateFrame(1)}
  OBVIOUS
<1>4. /\ \A u \in Threads \ {t} : \A f \in On(stack'[u]) : f.at \notin LayerLabels
      /\ \A f \in On(stack'[t]) : f.at \in LayerLabels => f \in come
  BY <1>1, <1>3, LayerAlone DEF LayerLabels
<1>5. UNCHANGED <<status, unopened_sources_, sources_queue_, active_sources_>>
  BY DEF StopQueuesForLayer, schedulerVars, nodeVars
<1>6. Top(t) \in On(stack[t])
  BY <1>1 DEF Turns
<1>7. /\ active_sources_ # <<>>
      /\ \A j \in DOMAIN active_sources_ : status[active_sources_[j]] = "Opened"
  BY <1>1, <1>6 DEF Core, LayerToActivate
<1>8. 1 \in DOMAIN active_sources_
  <2>1. active_sources_ \in Seq(Sources)
    BY DEF Core, TypeOK
  <2> QED
    BY <2>1, <1>7
<1>9. LayerToActivate'
  <2>1. ASSUME NEW u \in Threads, NEW f \in On(stack'[u]), f.at \in LayerLabels
        PROVE  f.at = "activate" /\ f.i = 1
    BY <1>2, <1>3, <1>4, <2>1
  <2> QED
    BY <2>1, <1>5, <1>7, <1>8 DEF LayerToActivate, LayerLabels
<1>10. SourcesPlaced' /\ LowerLayersClosed' /\ LayersInOrder'
  BY <1>5 DEF Core, SourcesPlaced, LowerLayersClosed, LayersInOrder, InActive
<1> QED
  BY <1>9, <1>10 DEF SourcesSound

LEMMA ActivateNodeKeepsLayers ==
  ASSUME Core, NEW t \in Threads, ActivateNode(t)
  PROVE  SourcesSound'
<1>1. PICK i : i = Top(t).i
  OBVIOUS
<1>2. PICK n : n = active_sources_[i]
  OBVIOUS
<1>3. PICK next : next = IF i = Len(active_sources_) THEN Frame("startQueues")
                                                     ELSE ActivateFrame(i + 1)
  OBVIOUS
<1>4. /\ Top(t) \in Frames /\ Top(t).at = "activate" /\ stack[t] # <<>>
      /\ i \in DOMAIN active_sources_ /\ n \in Sources /\ n \in Nodes /\ i \in Nat \ {0}
      /\ status[n] = "Opened" /\ status' = [status EXCEPT ![n] = "Active"]
      /\ next \in Frames /\ Turns(t, {Top(t)}, {AddFrame(Items("run", {n})), next})
  BY <1>1, <1>2, <1>3, ActivateNodeTurns DEF ActivateNode, At
<1>5. UNCHANGED <<unopened_sources_, sources_queue_, active_sources_>>
  BY DEF ActivateNode, schedulerVars
<1>6. /\ status'[n] = "Active" /\ \A s \in Nodes : s # n => status'[s] = status[s]
  BY <1>4 DEF Core, TypeOK
<1>7. Sources \subseteq Nodes
  BY GraphAssumption
<1>8. SourcesPlaced'
  <2>1. InActive(n)
    BY <1>2, <1>4 DEF InActive
  <2>2. \A s : InActive(s)' <=> InActive(s)
    BY <1>5 DEF InActive
  <2> QED
    BY <1>4, <1>5, <1>6, <1>7, <2>1, <2>2 DEF Core, SourcesPlaced
<1>9. LayerToActivate'
  <2>1. PICK come : come = {AddFrame(Items("run", {n})), next}
    OBVIOUS
  <2>2. /\ \A u \in Threads \ {t} : \A f \in On(stack'[u]) : f.at \notin LayerLabels
        /\ \A f \in On(stack'[t]) : f.at \in LayerLabels => f \in come
    BY <1>4, <2>1, LayerAlone DEF LayerLabels
  <2>3. AddFrame(Items("run", {n})).at = "add"
    BY DEF AddFrame
  <2>4. ASSUME NEW u \in Threads, NEW f \in On(stack'[u]), f.at \in {"stopQueues", "activate"}
        PROVE  f.at = "activate" /\ i # Len(active_sources_) /\ f.i = i + 1
    <3>1. f = next
      BY <2>1, <2>2, <2>3, <2>4 DEF LayerLabels
    <3> QED
      BY <3>1, <2>4, <1>3 DEF Frame, ActivateFrame
  <2>5. Top(t) \in On(stack[t])
    BY <1>4 DEF Turns
  <2>6. \A j \in DOMAIN active_sources_ : j >= i => status[active_sources_[j]] = "Opened"
    BY <1>1, <1>4, <2>5 DEF Core, LayerToActivate
  <2>7. active_sources_ \in Seq(Sources) /\ DOMAIN active_sources_ = 1 .. Len(active_sources_)
    BY DEF Core, TypeOK
  <2>8. i # Len(active_sources_) => i + 1 \in DOMAIN active_sources_
    BY <1>4, <2>7
  <2>9. ASSUME NEW j \in DOMAIN active_sources_, j >= i + 1
        PROVE  status'[active_sources_[j]] = "Opened"
    <3>1. j \in Nat /\ j # i /\ j >= i
      BY <1>4, <2>7, <2>9
    <3>2. active_sources_[j] # n
      BY <1>2, <1>4, <3>1 DEF Core, SourcesPlaced
    <3>3. active_sources_[j] \in Nodes
      BY <1>7, <2>7
    <3> QED
      BY <3>1, <3>2, <3>3, <2>6, <1>6
  <2> QED
    BY <1>5, <2>4, <2>8, <2>9 DEF LayerToActivate
<1>10. \A r \in Sources : status[r] = "Closed" => status'[r] = "Closed"
  BY <1>4, <1>6, <1>7
<1>11. LowerLayersClosed'
  BY <1>5, <1>10 DEF Core, LowerLayersClosed
<1>12. LayersInOrder'
  <2>1. ASSUME NEW s \in Sources, NEW r \in Sources, status'[s] = "Active", Layer[r] < Layer[s]
        PROVE  status'[r] = "Closed"
    <3>1. CASE s = n
      BY <2>1, <3>1, <1>2, <1>4, <1>10 DEF Core, LowerLayersClosed
    <3>2. CASE s # n
      BY <2>1, <3>2, <1>6, <1>7, <1>10 DEF Core, LayersInOrder
    <3> QED
      BY <3>1, <3>2
  <2> QED
    BY <2>1 DEF LayersInOrder
<1> QED
  BY <1>8, <1>9, <1>11, <1>12 DEF SourcesSound

\* The life cycle of one node goes on, and no source of the layer is concerned.
LEMMA NodeKeepsLayers ==
  ASSUME Core, NEW t \in Threads, NEW gone, NEW come, Turns(t, gone, come), LayersCalm(gone, come),
         NEW n \in Nodes, NEW stat, status' = [status EXCEPT ![n] = stat],
         UNCHANGED <<unopened_sources_, sources_queue_, active_sources_>>,
         \/ status[n] = "Prepared" /\ stat = "Opened"
         \/ status[n] = "Active" /\ stat = "Closed" /\ n \in Sources
  PROVE  SourcesSound'
<1>1. /\ status'[n] = stat /\ \A s \in Nodes : s # n => status'[s] = status[s]
  BY DEF Core, TypeOK
<1>2. Sources \subseteq Nodes
  BY GraphAssumption
<1>3. \A s : InActive(s)' <=> InActive(s)
  BY DEF InActive
<1>4. SourcesPlaced'
  <2>1. ASSUME NEW s \in Sources
        PROVE  /\ s \in unopened_sources_' \/ s \in sources_queue_' \/ InActive(s)' \/ status'[s] = "Closed"
               /\ s \in unopened_sources_' =>
                    status'[s] \in {"Prepared", "Opened"} /\ s \notin sources_queue_' /\ ~InActive(s)'
               /\ s \in sources_queue_' => status'[s] = "Opened" /\ ~InActive(s)'
               /\ InActive(s)' => status'[s] # "Prepared"
    <3>1. CASE s = n
      BY <3>1, <1>1, <1>3 DEF Core, SourcesPlaced
    <3>2. CASE s # n
      BY <3>2, <1>1, <1>2, <1>3 DEF Core, SourcesPlaced
    <3> QED
      BY <3>1, <3>2
  <2>2. \A s \in Nodes \ Sources : status'[s] \in {"Prepared", "Opened"}
    BY <1>1 DEF Core, SourcesPlaced
  <2>3. \A j, k \in DOMAIN active_sources_' : active_sources_'[j] = active_sources_'[k] => j = k
    BY DEF Core, SourcesPlaced
  <2> QED
    BY <2>1, <2>2, <2>3 DEF SourcesPlaced
<1>5. \A s \in Nodes : status[s] \in {"Opened", "Closed"} => status'[s] = status[s]
  BY <1>1
<1>6. \A j \in DOMAIN active_sources_ : active_sources_[j] \in Nodes
  BY <1>2 DEF Core, TypeOK
<1>7. LayerToActivate'
  BY LayerFramesKept, <1>5, <1>6 DEF Core, LayerToActivate
<1>8. LowerLayersClosed'
  BY <1>2, <1>5 DEF Core, LowerLayersClosed
<1>9. LayersInOrder'
  <2>1. \A s \in Sources : status'[s] = "Active" => status[s] = "Active"
    BY <1>1, <1>2
  <2> QED
    BY <2>1, <1>2, <1>5 DEF Core, LayersInOrder
<1> QED
  BY <1>4, <1>7, <1>8, <1>9 DEF SourcesSound

LEMMA NodeOpenedKeepsLayers ==
  ASSUME Core, NEW w \in Workers, NodeOpened(w)
  PROVE  SourcesSound'
<1>1. PICK n : n = Top(w).node
  OBVIOUS
<1>2. PICK A : A = AddSet(Items("run", {n}))
  OBVIOUS
<1>3. /\ w \in Threads /\ Top(w) \in Frames /\ Top(w).at = "opened" /\ n \in Nodes
      /\ Items("run", {n}) \in SUBSET Item
      /\ \/ Turns(w, {Top(w)}, {NodeFrame("toSourcesQueue", n)})
         \/ Turns(w, {Top(w)}, A \cup {NodeFrame("finish", n)})
  BY <1>1, <1>2, NodeOpenedTurns
<1>4. PICK come : /\ Turns(w, {Top(w)}, come)
                  /\ \A f \in come : f.at \in {"toSourcesQueue", "finish", "add"}
  <2>1. \A f \in A : f.at = "add"
    BY <1>2, <1>3, AddSetFrames
  <2>2. NodeFrame("toSourcesQueue", n).at = "toSourcesQueue" /\ NodeFrame("finish", n).at = "finish"
    BY DEF NodeFrame
  <2> QED
    BY <1>3, <2>1, <2>2
<1>5. PICK gone : gone = {Top(w)}
  OBVIOUS
<1>6. Turns(w, gone, come) /\ LayersCalm(gone, come)
  BY <1>4, <1>5 DEF LayersCalm
<1>7. Top(w) \in On(stack[w]) /\ Opens(Top(w), n)
  BY <1>1, <1>3, <1>4 DEF Turns, Opens
<1>8. status[n] = "Prepared"
  BY <1>3, <1>7 DEF Core, OpeningsPrepared
<1>9. /\ status' = [status EXCEPT ![n] = "Opened"]
      /\ UNCHANGED <<unopened_sources_, sources_queue_, active_sources_>>
  BY <1>1 DEF NodeOpened, schedulerVars
<1> QED
  BY <1>3, <1>6, <1>8, <1>9, NodeKeepsLayers

LEMMA MarkClosedKeepsLayers ==
  ASSUME Core, NEW w \in Workers, MarkClosed(w)
  PROVE  SourcesSound'
<1>1. PICK n : n = Top(w).node
  OBVIOUS
<1>2. PICK gone, come : gone = {Top(w)} /\ come = {NodeFrame("end", n)}
  OBVIOUS
<1>3. /\ w \in Threads /\ Top(w) \in Frames /\ Top(w).at = "close"
      /\ n \in Sources /\ n \in Nodes /\ Turns(w, gone, come)
  BY <1>1, <1>2, MarkClosedTurns
<1>4. LayersCalm(gone, come)
  BY <1>2 DEF LayersCalm, NodeFrame
<1>5. Top(w) \in On(stack[w]) /\ Runs(Top(w), n)
  BY <1>1, <1>2, <1>3 DEF Turns, Runs
<1>6. Reached(n) /\ status[n] # "Closed"
  BY <1>3, <1>5 DEF Core, FliesWhenOpen
<1>7. /\ status' = [status EXCEPT ![n] = "Closed"]
      /\ UNCHANGED <<unopened_sources_, sources_queue_, active_sources_>>
  BY <1>1 DEF MarkClosed, schedulerVars
<1> QED
  BY <1>3, <1>4, <1>6, <1>7, NodeKeepsLayers DEF Reached

LEMMA ToSourcesQueueKeepsLayers ==
  ASSUME Core, NEW w \in Workers, AddNodeToSourcesQueue(w)
  PROVE  SourcesSound'
<1>1. PICK n : n = Top(w).node
  OBVIOUS
<1>2. PICK gone, come : gone = {Top(w)} /\ come = {NodeFrame("finish", n)}
  OBVIOUS
<1>3. /\ w \in Threads /\ Top(w) \in Frames /\ Top(w).at = "toSourcesQueue"
      /\ n \in Sources /\ n \in Nodes /\ Turns(w, gone, come)
  BY <1>1, <1>2, ToSourcesQueueTurns
<1>4. LayersCalm(gone, come)
  BY <1>2 DEF LayersCalm, NodeFrame
<1>5. Top(w) \in On(stack[w]) /\ Opens(Top(w), n)
  BY <1>1, <1>2, <1>3 DEF Turns, Opens
<1>6. status[n] = "Opened" /\ n \in unopened_sources_
  BY <1>3, <1>5 DEF Core, OpeningsPrepared
<1>7. /\ sources_queue_' = sources_queue_ \cup {n}
      /\ unopened_sources_' = unopened_sources_ \ {n}
      /\ UNCHANGED <<status, active_sources_>>
  BY <1>1 DEF AddNodeToSourcesQueue, nodeVars
<1>8. SourcesPlaced'
  <2>1. \A s : InActive(s)' <=> InActive(s)
    BY <1>7 DEF InActive
  <2> QED
    BY <1>3, <1>6, <1>7, <2>1 DEF Core, SourcesPlaced
<1>9. LayerToActivate'
  BY <1>3, <1>4, <1>7, LayerFramesKept DEF Core, LayerToActivate
<1>10. LowerLayersClosed' /\ LayersInOrder'
  BY <1>7 DEF Core, LowerLayersClosed, LayersInOrder
<1> QED
  BY <1>8, <1>9, <1>10 DEF SourcesSound

\* The other steps activate nothing.
LEMMA PushesKeepLayers ==
  ASSUME Core, NEW t \in Threads, TryAddNode(t) \/ PushItem(t)
  PROVE  SourcesSound'
<1>1. PICK come : /\ Turns(t, {Top(t)}, come)
                  /\ \A f \in come : f.at \in {"push", "add", "callFalse", "addTask"}
  <2>1. CASE TryAddNode(t)
    <3>1. PICK i \in Top(t).todo :
            \/ Turns(t, {Top(t)}, {PushFrame(Top(t).todo \ {i}, i)})
            \/ Turns(t, {Top(t)}, AddSet(Top(t).todo \ {i}))
      BY <2>1, TryAddNodeTurns
    <3>2. /\ PushFrame(Top(t).todo \ {i}, i).at = "push"
          /\ \A f \in AddSet(Top(t).todo \ {i}) : f.at = "add"
      BY DEF PushFrame, AddSet, AddFrame
    <3> QED
      BY <3>1, <3>2
  <2>2. CASE PushItem(t)
    <3>1. PICK f : /\ f.at = IF QueueIdle(QueueOf[Top(t).item.node]) THEN "callFalse" ELSE "addTask"
                   /\ Turns(t, {Top(t)}, {f})
      BY <2>2, PushItemTurns, Zenon
    <3> QED
      BY <3>1
  <2> QED
    BY <2>1, <2>2
<1>2. PICK gone : gone = {Top(t)}
  OBVIOUS
<1>3. Turns(t, gone, come) /\ LayersCalm(gone, come)
  BY <1>1, <1>2 DEF LayersCalm
<1>4. UNCHANGED <<status, unopened_sources_, sources_queue_, active_sources_>>
  BY DEF TryAddNode, PushItem, schedulerVars, nodeVars
<1> QED
  BY <1>3, <1>4, LayersKept

LEMMA TasksKeepLayers ==
  ASSUME Core, NEW w \in Workers,
         \/ \E q \in Queues : TakeTask(w, q)
         \/ OpenNode(w) \/ EndScheduling(w) \/ FinishTask(w)
         \/ \E n \in Nodes : NodeProcesses(w, n)
  PROVE  SourcesSound'
<1>1. PICK gone, come :
        /\ w \in Threads /\ Turns(w, gone, come)
        /\ \A f \in come : f.at \in NodeLabels \cup {"add", "callTrue"}
  <2>1. CASE \E q \in Queues : TakeTask(w, q)
    <3>1. PICK q \in Queues : TakeTask(w, q)
      BY <2>1
    <3>2. PICK i : /\ w \in Threads /\ i.kind \in {"open", "run"}
                   /\ Turns(w, {}, {NodeFrame(i.kind, i.node)})
      BY <3>1, TakeTaskTurns
    <3>3. NodeFrame(i.kind, i.node).at \in NodeLabels
      BY <3>2 DEF NodeFrame, NodeLabels
    <3> QED
      BY <3>2, <3>3
  <2>2. CASE OpenNode(w)
    <3> DEFINE n == Top(w).node
               items == Items("open", OpenedBy(n))
    <3>1. /\ w \in Threads
          /\ \/ Turns(w, {Top(w)}, AddSet(items) \cup {NodeFrame("opened", n)})
             \/ Turns(w, {Top(w)}, {NodeFrame("opened", n)})
      BY <2>2, OpenNodeTurns
    <3>2. \A f \in AddSet(items) \cup {NodeFrame("opened", n)} : f.at \in {"add", "opened"}
      BY DEF AddSet, AddFrame, NodeFrame
    <3> HIDE DEF n, items
    <3> QED
      BY <3>1, <3>2 DEF NodeLabels
  <2>3. CASE EndScheduling(w)
    <3> DEFINE n == Top(w).node
               items == Items("run", {n})
    <3>1. /\ w \in Threads
          /\ \/ Turns(w, {Top(w)}, AddSet(items) \cup {NodeFrame("finish", n)})
             \/ Turns(w, {Top(w)}, {NodeFrame("finish", n)})
      BY <2>3, EndSchedulingTurns
    <3>2. \A f \in AddSet(items) \cup {NodeFrame("finish", n)} : f.at \in {"add", "finish"}
      BY DEF AddSet, AddFrame, NodeFrame
    <3> HIDE DEF n, items
    <3> QED
      BY <3>1, <3>2 DEF NodeLabels
  <2>4. CASE FinishTask(w)
    <3>1. /\ w \in Threads
          /\ Turns(w, {Top(w)}, {Frame("callTrue")}) \/ Turns(w, {Top(w)}, {})
      BY <2>4, FinishTaskTurns
    <3>2. Frame("callTrue").at = "callTrue"
      BY DEF Frame
    <3> QED
      BY <3>1, <3>2
  <2>5. CASE \E n \in Nodes : NodeProcesses(w, n)
    <3>1. PICK n \in Nodes : NodeProcesses(w, n)
      BY <2>5
    <3>2. PICK items \in SUBSET Item :
            w \in Threads /\ Turns(w, {Top(w)}, AddSet(items) \cup {NodeFrame("end", n)})
      BY <3>1, NodeProcessesTurns
    <3>3. \A f \in AddSet(items) \cup {NodeFrame("end", n)} : f.at \in {"add", "end"}
      BY DEF AddSet, AddFrame, NodeFrame
    <3> QED
      BY <3>2, <3>3 DEF NodeLabels
  <2> QED
    BY <2>1, <2>2, <2>3, <2>4, <2>5
<1>2. LayersCalm(gone, come)
  BY <1>1 DEF LayersCalm, NodeLabels
<1>3. UNCHANGED <<status, unopened_sources_, sources_queue_, active_sources_>>
  BY DEF TakeTask, OpenNode, EndScheduling, FinishTask, NodeProcesses, schedulerVars, nodeVars
<1> QED
  BY <1>1, <1>2, <1>3, LayersKept

LEMMA CallsKeepLayers ==
  ASSUME Core, NEW t \in Threads,
         \/ AddTasks(t) \/ SubmitWaitingTasks(t) \/ CallIdleFalse(t) \/ CallIdleTrue(t)
         \/ StartQueuesForLayer(t) \/ LockStateMutex(t) \/ UnthrottleSources(t)
  PROVE  SourcesSound'
<1>1. CalmStep(t)
  BY CallsCalm, HandlerCalm
<1>2. UNCHANGED <<status, unopened_sources_, sources_queue_, active_sources_>>
  BY DEF AddTasks, SubmitWaitingTasks, CallIdleFalse, CallIdleTrue, QueueIdleStateChanged,
         StartQueuesForLayer, LockStateMutex, UnthrottleSources, schedulerVars, nodeVars
<1> QED
  BY <1>1, <1>2, CalmKeepsLayers

LEMMA RunsKeepLayers ==
  ASSUME Core, NEW w \in Workers, NEW n \in Nodes,
         \/ SourceEmits(w, n) \/ SourceCloses(w, n)
         \/ ProcessFails(w, n) \/ ProcessStops(w, n)
         \/ OpenFails(w, n) \/ CloseFails(w, n)
  PROVE  SourcesSound'
<1>1. CalmStep(w) /\ w \in Threads
  BY RunCalm DEF Threads
<1>2. UNCHANGED <<status, unopened_sources_, sources_queue_, active_sources_>>
  BY DEF SourceEmits, SourceCloses, ProcessFails, ProcessStops, OpenFails, CloseFails,
         schedulerVars, nodeVars
<1> QED
  BY <1>1, <1>2, CalmKeepsLayers

LEMMA AppKeepsLayers ==
  ASSUME Core, NEW a \in AppThreads, Start(a) \/ AppReturn(a) \/ App(a)
  PROVE  SourcesSound'
<1>1. CalmStep(a) /\ a \in Threads
  BY AppCalm DEF Threads
<1>2. UNCHANGED <<status, unopened_sources_, sources_queue_, active_sources_>>
  BY DEF Start, AppReturn, App, AddedPacketToGraphInputStream, ClosedAllGraphInputStreams,
         CloseAllSourceNodes, AddPacket, CloseAllInputs, Pause, Resume, Cancel,
         schedulerVars, nodeVars
<1> QED
  BY <1>1, <1>2, CalmKeepsLayers

\* Every step keeps the sources in their places and the layers in order.
LEMMA StepKeepsLayers ==
  ASSUME Core, Next
  PROVE  SourcesSound'
<1>1. CASE \E w \in Workers : Task(w)
  <2>1. PICK w \in Workers : Task(w)
    BY <1>1
  <2> QED
    BY <2>1, NodeOpenedKeepsLayers, ToSourcesQueueKeepsLayers, MarkClosedKeepsLayers,
       TasksKeepLayers, RunsKeepLayers DEF Task
<1>2. CASE \E t \in Threads : Shared(t)
  <2>1. PICK t \in Threads : Shared(t)
    BY <1>2
  <2> QED
    BY <2>1, PushesKeepLayers, CallsKeepLayers, TurnKeepsLayers, NextLayerKeepsLayers,
       StopQueuesKeepsLayers, ActivateNodeKeepsLayers DEF Shared, HandleIdle
<1>3. CASE \E a \in AppThreads : Start(a) \/ AppReturn(a) \/ App(a)
  BY <1>3, AppKeepsLayers
<1> QED
  BY <1>1, <1>2, <1>3 DEF Next
=============================================================================
