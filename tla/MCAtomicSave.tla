---------------------------- MODULE MCAtomicSave ----------------------------
(* The options a save is checked under.                                    *)
EXTENDS AtomicSave

\* 'backup', 'writebackup', 'backupcopy' with and without breakhardlink,
\* 'fsync', 'autoread', and the Emacs profile.
Combinations ==
    LET vim == [copy |-> "auto", keep |-> FALSE, guard |-> TRUE, once |-> FALSE,
                split |-> FALSE, fsync |-> TRUE, autoread |-> TRUE]
    IN  {vim,
         [vim EXCEPT !.keep = TRUE],
         [vim EXCEPT !.copy = "yes", !.split = TRUE],
         [vim EXCEPT !.copy = "no", !.guard = FALSE, !.fsync = FALSE, !.autoread = FALSE],
         [vim EXCEPT !.keep = TRUE, !.guard = FALSE, !.once = TRUE]}
=============================================================================
