------------------------------ MODULE SafeFile ------------------------------
(***************************************************************************)
(* What a save promises of the file it writes: its text is always a whole  *)
(* one, the old or the new, unless the write had to go in place.           *)
(***************************************************************************)
CONSTANTS
    Text,   \* whole texts
    Torn,   \* part of one text over another
    Gone    \* no file

VARIABLES
    file,       \* what the path holds
    saving,     \* [new, atomic]: the save under way or the last one
    foreign     \* something other than a save was the last to change the file

Saving == [new : Text \cup {Torn}, atomic : BOOLEAN]

Init ==
    /\ file \in Text
    /\ saving \in Saving
    /\ foreign = TRUE

\* A save begins, chooses its method or ends.
Choose == saving' \in Saving /\ UNCHANGED <<file, foreign>>

\* The file becomes the new text in one step.
Commit == file' = saving.new /\ foreign' = FALSE /\ UNCHANGED saving

\* Only a write in place may leave less.
Tear == ~saving.atomic /\ file' = Torn /\ foreign' = FALSE /\ UNCHANGED saving

\* Another program writes or removes the file, or the power goes and takes
\* what was not yet on stable storage.
Others == file' \in Text \cup {Gone, Torn} /\ foreign' = TRUE /\ saving' \in Saving

Next == Choose \/ Commit \/ Tear \/ Others

Spec == Init /\ [][Next]_<<file, saving, foreign>>
=============================================================================
