------------------------------ MODULE MCTerminal ------------------------------
(* Bounds for the terminal: a screen of two rows and two columns, a buffer *)
(* for two keys, indices below nine.                                       *)
EXTENDS Terminal

MCChar == {"a", "newline", "backspace"}
MCColor == {"gray", "red"}
=============================================================================
