---------------------------- MODULE MCFrameReader ----------------------------
(* Two block sizes, more than a window apart, and contents of one block,   *)
(* and of several.                                                         *)
EXTENDS FrameReader

SmallAndLarge == <<2, 5>>
=============================================================================
