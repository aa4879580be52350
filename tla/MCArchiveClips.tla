--------------------------- MODULE MCArchiveClips ---------------------------
(* Exports and retention in small environments, one question each. *)
EXTENDS ArchiveClips

CONSTANTS e1, k1, u1, u2, sync

World0 == [items |-> {e1}, users |-> {u1}, clips |-> 1, retries |-> 0, faults |-> 0,
           ages |-> TRUE, deletes |-> FALSE]

\* One clip with everything that can happen to it.
OneClip == [World0 EXCEPT !.deletes = TRUE, !.faults = 1]
\* The event is exported anew after a failure or a crash, and both clips expire.
Again == [World0 EXCEPT !.clips = 2, !.faults = 1, !.users = {}]
\* A user and the sync export, search and link two clips of one event.
Links == [World0 EXCEPT !.clips = 2, !.ages = FALSE]
\* Downloaded chunks, with a second attempt.
Chunk == [World0 EXCEPT !.items = {k1}, !.clips = 1, !.users = {u1, u2}, !.retries = 1,
                        !.ages = FALSE, !.deletes = TRUE]

\* No crash and no failure of the storage or the database is needed.
Orphans == {[World0 EXCEPT !.retries = 0]}

MCWorlds == {OneClip, Again, Links, Chunk}
=============================================================================
