---------------------------- MODULE MCDeviceState ----------------------------
(* The device state in small environments, one question each. *)
EXTENDS DeviceState

CONSTANTS c1, c2, nvr, camera, t1, h1

World0 == [handlers |-> {}, ops |-> {}, stored |-> TRUE, sets |-> FALSE, stops |-> FALSE,
           unsteady |-> FALSE, faults |-> 2]

\* Preferences, results and tokens are written while writes fail, the process ends and the
\* bridge stops.
Saves == [World0 EXCEPT !.sets = TRUE, !.stops = TRUE]
\* A request is cut off by the shutdown.
Late == [World0 EXCEPT !.handlers = {h1}, !.ops = {"probe"}, !.stops = TRUE, !.faults = 0]
\* The configuration changes at every point of a probe.
Rotation == [World0 EXCEPT !.handlers = {h1}, !.ops = {"rotate"}, !.stored = FALSE,
                           !.unsteady = TRUE]
\* Requests fail while a probe, a refresh and a capability query share the caches.
Requests == [World0 EXCEPT !.handlers = {h1}, !.ops = {"refresh", "ask"}, !.unsteady = TRUE,
                           !.faults = 1]

MCWorlds == {Saves, Late, Rotation, Requests}
=============================================================================
