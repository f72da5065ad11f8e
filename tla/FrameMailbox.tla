---------------------------- MODULE FrameMailbox ----------------------------
(***************************************************************************)
(* What a video stream promises to its user (libuvc, stream.c): a mailbox  *)
(* that holds one frame.  A publication replaces the frame in it, whether  *)
(* it was read or not; the reader copies the frame when it is newer than   *)
(* its last copy, and works on the copy while publications go on.          *)
(***************************************************************************)
EXTENDS Naturals

CONSTANT Data        \* the possible contents of a frame

VARIABLES
    cell,            \* the frame in the mailbox and its number
    copy,            \* the reader's last copy of it
    reader           \* "off", "waiting" or "reading"

mailbox == <<cell, copy, reader>>

NoFrame == [seq |-> 0, data |-> {}]

Init == cell = NoFrame /\ copy = NoFrame /\ reader = "off"

Open ==
    /\ reader = "off"
    /\ cell' = NoFrame /\ copy' = NoFrame
    /\ UNCHANGED reader

Start ==
    /\ reader = "off"
    /\ cell = NoFrame /\ copy = NoFrame
    /\ reader' = "waiting"
    /\ UNCHANGED <<cell, copy>>

Publish(data) ==
    /\ cell' = [seq |-> cell.seq + 1, data |-> data]
    /\ UNCHANGED <<copy, reader>>

Take ==
    /\ reader = "waiting" /\ copy.seq # cell.seq
    /\ copy' = cell
    /\ reader' = "reading"
    /\ UNCHANGED cell

Done ==
    /\ reader = "reading"
    /\ reader' = "waiting"
    /\ UNCHANGED <<cell, copy>>

Stop ==
    /\ reader = "waiting"
    /\ reader' = "off"
    /\ UNCHANGED <<cell, copy>>

Next ==
    \/ Open \/ Start
    \/ \E data \in Data : Publish(data)
    \/ Take \/ Done \/ Stop

Spec == Init /\ [][Next]_mailbox

-----------------------------------------------------------------------------
\* The copy is never newer than the mailbox, and it is the frame that was
\* published under its number: the reader of the newest number has its data.
CopyIsPublished == copy.seq <= cell.seq /\ (copy.seq = cell.seq => copy = cell)
=============================================================================
