----------------------------- MODULE Timestamps -----------------------------
(***************************************************************************)
(* Timestamp, in timestamp.h and timestamp.cc.  The code keeps a timestamp *)
(* in an int64 whose lowest three and highest four values are special; the *)
(* values between them are those a stream of packets may carry.  Here the  *)
(* values are shifted, so that Min is 0, and their number is a parameter:  *)
(* with MaxTimestamp = 2^64 - 7 they are the values of the code, and the   *)
(* gaps between the special values are the code's with any number.         *)
(***************************************************************************)
EXTENDS Integers

CONSTANT MaxTimestamp     \* bound: the last timestamp in the range

ASSUME MaxTimestampAssumption == MaxTimestamp \in Nat

Unset == -3
Unstarted == -2
PreStream == -1
MinTime == 0
MaxTime == MaxTimestamp
PostStream == MaxTimestamp + 1
OneOverPostStream == MaxTimestamp + 2
Done == MaxTimestamp + 3

Timestamp == Unset .. Done

IsRangeValue(t) == MinTime <= t /\ t <= MaxTime
IsAllowedInStream(t) == PreStream <= t /\ t <= PostStream

\* Timestamp + TimestampDiff, clamped to the range.
Plus(t, offset) ==
  IF offset >= 0 /\ t >= MaxTime - offset THEN MaxTime
  ELSE IF offset <= 0 /\ t <= MinTime - offset THEN MinTime
  ELSE t + offset

\* The least timestamp that may follow a packet at t.
NextAllowedInStream(t) ==
  IF t >= MaxTime \/ t = PreStream THEN OneOverPostStream
  ELSE IF t < MinTime THEN MinTime ELSE Plus(t, 1)

\* The greatest timestamp of a packet that may precede one at t.
PreviousAllowedInStream(t) ==
  IF t <= MinTime \/ t = PostStream THEN Unstarted
  ELSE IF t > MaxTime THEN MaxTime ELSE Plus(t, -1)

Earlier(t, u) == IF t <= u THEN t ELSE u
Later(t, u) == IF t <= u THEN u ELSE t
=============================================================================
