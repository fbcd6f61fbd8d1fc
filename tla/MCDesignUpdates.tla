--------------------------- MODULE MCDesignUpdates ---------------------------
(* The leader on a small instance: one worker from the beginning, one late. *)
EXTENDS DesignUpdates

CONSTANTS w1, w2

MCGlobalsAt == {0, 1}
=============================================================================
