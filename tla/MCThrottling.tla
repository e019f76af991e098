---------------------------- MODULE MCThrottling ----------------------------
(* Throttling for TLC: node a reads two graph inputs and a source (streams *)
(* 1 to 3), and node b reads what a sends (stream 4).                      *)
EXTENDS Throttling, TLC

CONSTANTS g1, g2, src, a, b

MCProducer == <<g1, g2, src, a>>
MCConsumer == <<a, a, a, b>>

Packets(n1, n2, n3) == (g1 :> n1) @@ (g2 :> n2) @@ (src :> n3)
Run(packets, limits, add_mode) ==
  [packets |-> packets, limits |-> limits, add_mode |-> add_mode]
MCRuns ==
  { \* Two threads wait for the stream of node b.
    Run(Packets(2, 1, 0), <<-1, -1, -1, 1>>, "WAIT_TILL_NOT_FULL"),
    \* The same stream throttles a source and a graph input.
    Run(Packets(1, 0, 1), <<-1, -1, -1, 1>>, "WAIT_TILL_NOT_FULL"),
    \* A source, or a graph input, is throttled by its own stream and by that of node b.
    Run(Packets(0, 0, 3), <<1, 1, 1, 1>>, "WAIT_TILL_NOT_FULL"),
    Run(Packets(2, 0, 0), <<1, 1, 1, 1>>, "WAIT_TILL_NOT_FULL"),
    Run(Packets(3, 0, 0), <<2, 1, 1, 1>>, "ADD_IF_NOT_FULL") }

\* Two packets on a stream that may have two, and a second input that makes node a ready.
RunsToGrow == {Run(Packets(2, 1, 0), <<2, -1, -1, -1>>, "WAIT_TILL_NOT_FULL")}
=============================================================================
