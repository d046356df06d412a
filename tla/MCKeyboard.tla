----------------------------- MODULE MCKeyboard -----------------------------
(* Keyboard with a ring of three slots: two keys fill it. *)
EXTENDS Keyboard
=============================================================================
