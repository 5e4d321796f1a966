---------------------------- MODULE MCGuessGame -----------------------------
(* Instance of GuessGame: the values on both sides of the range. *)
EXTENDS GuessGame

AllValues == -2 .. MaxValue + 2

=============================================================================
