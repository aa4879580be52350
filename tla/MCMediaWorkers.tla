--------------------------- MODULE MCMediaWorkers ---------------------------
(* The media workers in small environments, one question each. *)
EXTENDS MediaWorkers

CONSTANTS a, v1, v2

Quiet1 == [kinds |-> {}, playback |-> {}, viewers |-> {v1}, slots |-> {1, 2}, limit |-> 2,
           switches |-> 0, retries |-> 0,
           closes |-> FALSE]

\* Two viewers share one MJPEG worker.
Shared == [Quiet1 EXCEPT !.kinds = {"mjpeg"}, !.viewers = {v1, v2}, !.slots = {1}, !.switches = 1]
\* The source changes while requests of every stage are under way.
Changes == [Quiet1 EXCEPT !.kinds = {"mjpeg"}, !.switches = 1]
\* Live HLS with a fallback attempt.
Live == [Quiet1 EXCEPT !.kinds = {"hls"}, !.viewers = {v1, v2}, !.slots = {1}, !.switches = 1,
                       !.retries = 1]
\* Playback outputs under one limit.
Playback == [Quiet1 EXCEPT !.kinds = {"hls", "dash"}, !.playback = {a}, !.limit = 1]
\* Sessions and a clip compete for the places.
Sessions == [Quiet1 EXCEPT !.kinds = {"webrtc", "clip"}, !.switches = 1, !.closes = TRUE]
\* Close while viewers come and go.
Closing == [Quiet1 EXCEPT !.kinds = {"mjpeg", "hls"}, !.playback = {a}, !.slots = {1},
                          !.closes = TRUE]

MCWorlds == {Shared, Changes, Live, Playback, Sessions, Closing}
=============================================================================
