------------------------- MODULE MCLiveSourceScopes -------------------------
(***************************************************************************)
(* Several small environments of one LiveSource, explored by one run.  A   *)
(* scope says which streams are probed and watched, how many workers and   *)
(* snapshot requests are busy at a time, which routes device probes store, *)
(* how many of them are silent at first, and how much the operator and the *)
(* world do.  It is chosen once.                                           *)
(***************************************************************************)
EXTENDS MCLiveSource

CONSTANT Scopes
VARIABLE scope

\* Two streams, two workers and failure reports; the queue holds one stream.
Queue == [streams |-> {a, b}, watched |-> {a}, workers |-> 2, requests |-> 0,
          layouts |-> {Home}, sources |-> {"nvr"}, silent |-> 2, events |-> 0]

\* Checks race with the operator, with device probes that move or remove a route, and
\* with each other.
Health == [streams |-> {a}, watched |-> {}, workers |-> 2, requests |-> 0,
           layouts |-> AnyLayout, sources |-> Sources, silent |-> 2, events |-> 2]

\* A check lasts long enough for a preference to be changed, changed back and to fail.
Turns == [Health EXCEPT !.layouts = {Home}, !.events = 3]

\* A viewer while the operator or a health worker switches the source.
Switch == [streams |-> {a}, watched |-> {a}, workers |-> 1, requests |-> 0,
           layouts |-> {Home}, sources |-> Sources, silent |-> 1, events |-> 1]

\* A viewer across two changes by the operator, while no check ends.
TwoChanges == [Switch EXCEPT !.workers = 0, !.events = 2]

\* Two snapshot flights of one channel, begun before and after a switch.
Snapshots == [streams |-> {a}, watched |-> {}, workers |-> 1, requests |-> 2,
              layouts |-> {Home}, sources |-> Sources, silent |-> 1, events |-> 1]

AllScopes == {Queue, Health, Turns, Switch, TwoChanges, Snapshots}

Busy(S, local) == Cardinality({x \in S : local[x] # Idle})

Routes(layouts) == (UNION {{l.nvr, l.camera} : l \in layouts}) \ {None}

Within ==
    /\ \A s \in Streams :
         /\ Present(s) <=> s \in scope.streams
         /\ Present(s) => urls[s] \in scope.layouts
         /\ view[s] # Idle => s \in scope.watched
    /\ alive \subseteq Routes(scope.layouts)
    /\ \A s \in scope.streams : Preferred(s) \in scope.sources
    /\ call # Idle => scope.sources = Sources
    /\ Busy(Workers, job) <= scope.workers
    /\ Busy(Requests, request) <= scope.requests
    /\ events <= scope.events
    /\ events = 0 => /\ \A s \in Streams : override[s] = None
                     /\ Cardinality(Routes(scope.layouts) \ alive) <= scope.silent

ScopedInit == scope \in Scopes /\ Init /\ Within
ScopedNext == Next /\ UNCHANGED scope /\ Within'
ScopedSpec == ScopedInit /\ [][ScopedNext]_<<vars, scope>>
=============================================================================
