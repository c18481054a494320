-------------------------- MODULE MCJournalWriter --------------------------
(* TLC instances of JournalWriter. *)
EXTENDS JournalWriter
=============================================================================
