---------------------------- MODULE MCLineIndex -----------------------------
(* Edit lists and line starts over short buffers.                          *)
EXTENDS LineIndex

\* EditList::new drops and orders edits and makes no others.
ASSUME NormalizeKeepsEdits ==
    \A len \in 0 .. MaxLen : \A raw \in Lists(len) : Normalize(raw) \in Lists(len)
=============================================================================
