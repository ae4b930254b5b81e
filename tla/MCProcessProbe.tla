--------------------------- MODULE MCProcessProbe ---------------------------
(* An instance of ProcessProbe for TLC: one process id that is given to    *)
(* two processes, and another one.                                         *)
EXTENDS ProcessProbe

ReusedAndOther == {<<1, 1>>, <<1, 2>>, <<2, 1>>}
=============================================================================
