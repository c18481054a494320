--------------------------- MODULE MCUndoHistory ---------------------------
(* The undo history on a small instance: two origins, six nodes.           *)
EXTENDS UndoHistory
============================================================================
