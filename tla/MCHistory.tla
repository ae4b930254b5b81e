----------------------------- MODULE MCHistory -----------------------------
(* Days of three hours of two ticks, for TLC. *)
EXTENDS History

(* The polls of the run are short ones. *)
ASSUME ShortPolls

MCWindows == {<<1, 3>>, <<5, 7>>}
=============================================================================
