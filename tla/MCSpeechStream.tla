--------------------------- MODULE MCSpeechStream ---------------------------
(* Two turns of a speaker, three pieces in all, and one fault. *)
EXTENDS SpeechStream

=============================================================================
