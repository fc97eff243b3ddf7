---------------------------- MODULE MCCgiServer -----------------------------
(***************************************************************************)
(* CgiServer with clients that ask for a program in a line with another    *)
(* one behind it, whole or cut between CR and LF, or, the second of them,  *)
(* send one byte more than the buffer takes without a line, whole or cut   *)
(* where it is full.                                                       *)
(***************************************************************************)
EXTENDS CgiServer

lines == <<"x", "r", "n", "r", "n">>
full == <<"x", "x", "x", "x", "x", "x">>

requests == { <<lines, lines>>, <<lines, full>> }

=============================================================================
