--------------------------- MODULE MCEventOutbox ---------------------------
(* A small instance of EventOutbox for TLC.                                *)
EXTENDS EventOutbox

CONSTANTS e1, e2, w1, w2
=============================================================================
