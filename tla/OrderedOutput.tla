---------------------------- MODULE OrderedOutput ----------------------------
(***************************************************************************)
(* What the output side of a node that runs several invocations at once    *)
(* promises to the nodes downstream: whatever the order in which the       *)
(* invocations end, their outputs leave in the order of their inputs, each *)
(* of them once; and the timestamp bound of the stream grows, but never    *)
(* past the outputs of an input that has been taken.                       *)
(***************************************************************************)
EXTENDS Integers

CONSTANTS
  MaxTs,   \* the input timestamps are 1 .. MaxTs
  Offset   \* the output for the input at i has the timestamp i + Offset

Inputs == 1 .. MaxTs
\* Greater than every timestamp: no packet follows.
Done == MaxTs + Offset + 2

VARIABLES
  fate,     \* of each input: none yet, taken, its output packet or silent, sent
  last,     \* the timestamp of the last packet that left
  bound     \* the next packet has at least this timestamp

orderedVars == <<fate, last, bound>>

UnderWay(f) == {i \in Inputs : f[i] \in {"taken", "packet", "silent"}}

\* The bound b leaves room for the outputs of the inputs under way.
Respects(b, f) == b = Done \/ \A i \in UnderWay(f) : b <= i + Offset

OrderedInit ==
  /\ fate = [i \in Inputs |-> "none"]
  /\ last = -1
  /\ bound = 0

Take(i) ==
  /\ fate[i] = "none" /\ \A j \in Inputs : j > i => fate[j] = "none"
  /\ fate' = [fate EXCEPT ![i] = "taken"]
  /\ UNCHANGED <<last, bound>>

Produce(i) ==
  /\ fate[i] = "taken"
  /\ \E kind \in {"packet", "silent"} : fate' = [fate EXCEPT ![i] = kind]
  /\ UNCHANGED <<last, bound>>

\* The output of the oldest input under way leaves, unless the stream is closed.
Send(i) ==
  /\ fate[i] \in {"packet", "silent"} /\ \A j \in UnderWay(fate) : i <= j
  /\ fate' = [fate EXCEPT ![i] = "sent"]
  /\ IF fate[i] = "packet" /\ bound # Done
       THEN bound <= i + Offset /\ last' = i + Offset
       ELSE UNCHANGED last
  /\ bound' \in bound .. Done /\ Respects(bound', fate')
  /\ bound' > last'

Advance ==
  /\ bound' \in bound .. Done /\ Respects(bound', fate)
  /\ UNCHANGED <<fate, last>>

OrderedNext == (\E i \in Inputs : Take(i) \/ Produce(i) \/ Send(i)) \/ Advance

OrderedSpec == OrderedInit /\ [][OrderedNext]_orderedVars
=============================================================================
