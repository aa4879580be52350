---------------------------- MODULE MCRtspRelay ----------------------------
(* Small instances of RtspRelay for TLC. *)
EXTENDS RtspRelay, TLC

CONSTANTS w1, w2, c1, c2

\* Keys 1 and 2 are the two profiles of one camera, 3 and 4 belong to two others.
OneKey == {1}
TwoCameras == {1, 3}
ThreeKeys == {1, 2, 3}
Streams == [k \in 1..4 |-> IF k <= 2 THEN "a" ELSE IF k = 3 THEN "b" ELSE "c"]

\* One viewer's input, from the first request to Close.
OneInput == [methods |-> {"setup"}, modes |-> {"off", "recent"}, ops |-> {"close"},
             deadlines |-> {"idle", "recent", "start"}, preconnects |-> TRUE]

\* Nobody watches; routes are invalidated while warm inputs come and go.
Invalidations == [methods |-> {}, modes |-> {"off", "always"}, ops |-> {"invalidate"},
                  deadlines |-> {}, preconnects |-> TRUE]

Fair == {OneInput}
Backoff == {Invalidations}

Symmetry == Permutations(Workers) \cup Permutations(Clients)
============================================================================
