----------------------------- MODULE MCEventScan -----------------------------
(* The event index in small environments, one question each. *)
EXTENDS EventScan

CONSTANTS human, vehicle

World0 == [horizon |-> First, codes |-> {human}, faults |-> 0, crons |-> FALSE]

\* Outages: a pass begins, or ends, after one or two of them.
Outages == [World0 EXCEPT !.horizon = First + 6]
\* Scans fail, the process stops and crashes, the clock is corrected.
Failures == [World0 EXCEPT !.horizon = First + 3, !.faults = 1]
\* Both syncs share the channel.
Requests == [World0 EXCEPT !.horizon = First + 1, !.crons = TRUE, !.faults = 1]
\* Two codes, of which one may fail alone.
Both == [World0 EXCEPT !.horizon = First + 1, !.codes = {human, vehicle}, !.faults = 1]

MCWorlds == {Outages, Failures, Requests, Both}
=============================================================================
