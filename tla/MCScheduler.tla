---------------------------- MODULE MCScheduler ----------------------------
(* Scheduler for TLC: two sources of different layers and a node fed by the
   application, over two queues. *)
EXTENDS Scheduler, TLC

CONSTANTS w1, w2, a1, a2, q0, q1, s0, s1, n0, n1

NoCalls == [k \in CallKinds |-> 0]
Calls(ks) == [k \in CallKinds |-> IF k \in ks THEN 1 ELSE 0]

\* s0 and s1 feed n0 ; the application feeds n1, on a queue of its own.
LayersNodes == {s0, s1, n0, n1}
LayersSources == {s0, s1}
LayersQueueOf == [n \in LayersNodes |-> IF n = n1 THEN q1 ELSE q0]
LayersLayer == [n \in LayersSources |-> IF n = s0 THEN 0 ELSE 1]
LayersId == s0 :> 0 @@ s1 :> 1 @@ n0 :> 2 @@ n1 :> 3
LayersDownstream == [n \in LayersNodes |-> IF n \in LayersSources THEN {n0} ELSE {}]
\* n0 awaits headers, and s0 a side packet that n1 gives when it is opened or run.
LayersOpenDeps == [n \in LayersNodes |->
  CASE n = n0 -> LayersSources [] n = s0 -> {n1} [] OTHER -> {}]
LayersPackets == [n \in LayersSources |-> 1]
LayersBudget == [a \in {a1} |-> Calls({"addPacket", "closeAllInputs"})]
OnePacketBudget == [a \in {a1} |-> Calls({"addPacket"})]

\* No sources: the application feeds n1, which feeds n0 on the other queue.
AppNodes == {n0, n1}
AppQueueOf == [n \in AppNodes |-> IF n = n1 THEN q1 ELSE q0]
AppDownstream == [n \in AppNodes |-> IF n = n1 THEN {n0} ELSE {}]
AppOpenDeps == [n \in AppNodes |-> IF n = n0 THEN {n1} ELSE {}]
NoLayer == [n \in {} |-> 0]
AppBudget == [a \in {a1} |->
  [k \in CallKinds |-> CASE k = "addPacket" -> 2 [] k = "closeAllInputs" -> 1 [] OTHER -> 0]]
PauseResumeBudget == [a \in {a1, a2} |->
  IF a = a1 THEN Calls({"addPacket", "closeAllInputs"}) ELSE Calls({"pause", "resume"})]

\* A source and the application feed a node each.
OneNodes == {s0, n0, n1}
OneQueueOf == [n \in OneNodes |-> IF n = n1 THEN q1 ELSE q0]
OneLayer == [n \in {s0} |-> 0]
OneLayer1 == [n \in {s0} |-> 1]
OneDownstream == [n \in OneNodes |-> IF n = s0 THEN {n0} ELSE {}]
OneOpenDeps == [n \in OneNodes |-> {}]
PauseBudget == [a \in {a1, a2} |->
  IF a = a1 THEN Calls({"addPacket", "closeAllPacketSources", "cancel"})
            ELSE Calls({"pause", "resume"})]
\* Source layers and a graph input: n1, fed by the application, feeds n0.
MixedDownstream == [n \in LayersNodes |-> IF n = n1 THEN {n0} ELSE {}]
MixedOpenDeps == [n \in LayersNodes |-> {}]
MixedPackets == [n \in LayersSources |-> 0]
=============================================================================
