------------------------- MODULE MCJournalOwnership -------------------------
(* Three processes on one file, alike.                                     *)
EXTENDS JournalOwnership, TLC

Alike == Permutations(Proc)
=============================================================================
