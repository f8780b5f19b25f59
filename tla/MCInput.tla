------------------------------ MODULE MCInput ------------------------------
(***************************************************************************)
(* A line buffer of three and a screen of two rows of five: a line of two  *)
(* characters wraps if it starts near the end.                             *)
(***************************************************************************)
EXTENDS Input

MCCodes == {"letter", "symbol", "enter", "backspace", "shift", "unshift", "caps", "break"}

=============================================================================
