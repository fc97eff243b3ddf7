------------------------------- MODULE Timers -------------------------------
(***************************************************************************)
(* What the time wheel and the time heap of chapter 11 have in common: the *)
(* addresses of timers.                                                    *)
(***************************************************************************)

CONSTANT
    Timer         \* bound: addresses of timers

NULL == "NULL"

=============================================================================
