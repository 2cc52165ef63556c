--------------------------- MODULE MCEventPipeline ---------------------------
(* An instance of EventPipeline for TLC: a queue that is soon full. *)
EXTENDS EventPipeline

CONSTANTS e1, e2, c1, c2

MCEmitters == {e1, e2}
MCClosers  == {c1, c2}
=============================================================================
