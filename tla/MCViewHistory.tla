--------------------------- MODULE MCViewHistory ---------------------------
(* The view history on a small instance. *)
EXTENDS ViewHistory

Spec == ViewSpec
=============================================================================
