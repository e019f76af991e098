--------------------------- MODULE MCInputStreams ---------------------------
(* InputStreams for TLC: every handler with two or three streams. *)
EXTENDS InputStreams, TLC

Handler(kind, sync_sets, packets) ==
  [kind |-> kind, process_timestamps |-> FALSE, sync_sets |-> sync_sets, packets |-> packets,
   batch |-> 1, select |-> [t \in packets |-> 1 + (t % 2)],
   trigger |-> 2, target |-> 1, fixed_min_size |-> FALSE]
WithBounds(h) == [h EXCEPT !.process_timestamps = TRUE]

(* Left out, because InputSetsSound does not hold of them: fixed_size with
   process_timestamps (MCFixedSize) or with packets at PreStream, and timestamp_align
   with packets at special values or so far apart that the shift leaves the range. *)
MCHandlers ==
  { Handler("default", <<{1, 2}>>, {PreStream, MaxTime, PostStream}),
    WithBounds(Handler("default", <<{1, 2}>>, {0, PostStream})),
    [Handler("early_close", <<{1, 2}>>, {0, 1}) EXCEPT !.batch = 2],
    [Handler("barrier", <<{1, 2}>>, {0, 1}) EXCEPT !.batch = 2],
    Handler("immediate", <<{1}, {2}>>, {1, PostStream}),
    WithBounds(Handler("immediate", <<{1}, {2}>>, {0, MaxTime})),
    Handler("sync_set", <<{1, 2}, {3}>>, {1}),
    Handler("timestamp_align", <<{1, 2}>>, {1, 2}),
    Handler("mux", <<{1, 2, 3}>>, {1, 2}),
    Handler("fixed_size", <<{1, 2}>>, {1, 2}),
    [Handler("fixed_size", <<{1, 2}>>, {1, 2}) EXCEPT !.fixed_min_size = TRUE, !.batch = 2] }

(* A mux alone, and a node with queues of a fixed size that processes timestamps. *)
MCMux == {Handler("mux", <<{1, 2, 3}>>, {1, 2})}
MCFixedSize == {WithBounds(Handler("fixed_size", <<{1, 2}>>, {1, 2}))}
=============================================================================
