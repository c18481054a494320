-------------------------- MODULE MCLspCoordinator --------------------------
(* Two buffers and a menu of two items.                                    *)
EXTENDS LspCoordinator

TwoItems == {0, 1}
=============================================================================
