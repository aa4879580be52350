------------------------- MODULE MCRtspRelayScopes -------------------------
(***************************************************************************)
(* Several small environments of one RtspRelay, explored by one run.  In   *)
(* addition to what RtspRelay reads of its world, these say how many       *)
(* clients come at a time, for which keys, which warm routes may fail, and *)
(* how many inputs there are at a time: Within is the run's CONSTRAINT.    *)
(***************************************************************************)
EXTENDS MCRtspRelay

All == {"idle", "recent", "start", "backoff"}

\* Two clients share one input and come, wait, watch and leave in every order.
Demand == [clients |-> 2, keys |-> {1}, failing |-> {1}, methods |-> {"describe", "setup"}, modes |-> {"off"},
           ops |-> {}, deadlines |-> {"idle"}, preconnects |-> FALSE, workers |-> 1]

\* The same while an input and its predecessor, which is still dying, are both there.
Heirs == [Demand EXCEPT !.methods = {"setup"}, !.workers = 2]

\* A warm input occupies the only slot while a viewer asks for another camera.
Evict == [clients |-> 1, keys |-> {1, 3}, failing |-> {}, methods |-> {"describe"}, modes |-> {"always"},
          ops |-> {}, deadlines |-> {}, preconnects |-> TRUE, workers |-> 2]

\* More failing routes than the retry and start tables of a one-slot relay may hold.
Bounds == [clients |-> 0, keys |-> {1, 2, 3}, failing |-> {1, 2, 3}, methods |-> {}, modes |-> {"always"},
           ops |-> {}, deadlines |-> All, preconnects |-> TRUE, workers |-> 1]

\* Close comes while a viewer asks, waits, is served or leaves.
Shutdown == [clients |-> 1, keys |-> {1}, failing |-> {1}, methods |-> {"describe", "setup"}, modes |-> {"off"},
             ops |-> {"close"}, deadlines |-> {"start"}, preconnects |-> FALSE, workers |-> 2]

\* A client moves between the two profiles of a camera while its source changes.
Reroute == [clients |-> 1, keys |-> {1, 2}, failing |-> {1, 2}, methods |-> {"setup"}, modes |-> {"off"},
            ops |-> {"invalidate"}, deadlines |-> {"start"}, preconnects |-> FALSE, workers |-> 2]

\* Settings and sources change at every point of a reconcile pass over two cameras that fail.
Policy == [clients |-> 0, keys |-> {1, 3}, failing |-> {1, 3}, methods |-> {}, modes |-> {"off", "always"},
           ops |-> {"settings", "invalidate"}, deadlines |-> {"backoff"}, preconnects |-> TRUE, workers |-> 1]

\* The same for one camera, until Close.
LastPass == [Policy EXCEPT !.keys = {1}, !.failing = {1}, !.ops = {"settings", "invalidate", "close"}]

OneSlot == {Demand, Heirs, Evict, Bounds, Shutdown, Reroute, Policy, LastPass}

Within ==
    /\ Cardinality({c \in Clients : ~Unused(c)}) <= world.clients
    /\ Cardinality({w \in Workers : wk[w] # Gone}) <= world.workers
    /\ Registered \cup targets \cup starts \subseteq world.keys
    /\ InRetry \subseteq world.failing
============================================================================
