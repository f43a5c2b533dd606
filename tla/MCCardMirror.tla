---------------------------- MODULE MCCardMirror ----------------------------
(* Instances of CardMirror: the ideas are model values.                     *)
EXTENDS CardMirror

CONSTANTS a, b, c

=============================================================================
