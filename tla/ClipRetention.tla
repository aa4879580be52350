---------------------------- MODULE ClipRetention ----------------------------
(***************************************************************************)
(* What the archive promises about the clips it exports, in one step each: *)
(* bridge/docs/media-and-recording.md, "Export Paths".  A clip appears,    *)
(* records refer to it, retention condemns it once nothing refers to it,   *)
(* and it goes; a clip that is gone does not come back, and nothing comes  *)
(* to refer to a condemned one.  Module ArchiveClips is shown to keep      *)
(* these promises with files, jobs, two tables and no common lock.         *)
(***************************************************************************)
CONSTANTS Clips, Events, None

VARIABLES
    life,     \* where each clip is in its life
    link      \* the clip each event's record refers to

vars == <<life, link>>

Lives == {"new", "present", "condemned", "gone"}

Init == life = [c \in Clips |-> "new"] /\ link = [e \in Events |-> None]

Referred(c) == \E e \in Events : link[e] = c

Appear(c) == life[c] = "new" /\ life' = [life EXCEPT ![c] = "present"] /\ UNCHANGED link

\* Users delete clips, whoever refers to them, and a crash takes those that have left
\* nothing on disk yet.
Erase(lost) ==
    /\ \A c \in lost : life[c] = "present"
    /\ life' = [c \in Clips |-> IF c \in lost THEN "gone" ELSE life[c]]
    /\ UNCHANGED link

\* A reader may refer to a clip that has just gone.
Refer(e, c) ==
    /\ life[c] \in {"present", "gone"}
    /\ link' = [link EXCEPT ![e] = c] /\ UNCHANGED life

Drop(e) == link' = [link EXCEPT ![e] = None] /\ UNCHANGED life

\* One transaction: records expire, and clips nothing refers to any more with them.
Condemn ==
    \E expired \in SUBSET Events, condemned \in SUBSET Clips :
        /\ link' = [e \in Events |-> IF e \in expired THEN None ELSE link[e]]
        /\ \A c \in condemned : life[c] \in {"present", "gone"} /\ ~Referred(c)'
        /\ life' = [c \in Clips |-> IF c \in condemned THEN "condemned" ELSE life[c]]

Destroy(c) == life[c] = "condemned" /\ life' = [life EXCEPT ![c] = "gone"] /\ UNCHANGED link

Next ==
    \/ \E c \in Clips : Appear(c) \/ Destroy(c)
    \/ \E lost \in SUBSET Clips : Erase(lost)
    \/ \E e \in Events : Drop(e) \/ \E c \in Clips : Refer(e, c)
    \/ Condemn

Spec == Init /\ [][Next]_vars
=============================================================================
