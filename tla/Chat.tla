-------------------------------- MODULE Chat --------------------------------
(***************************************************************************)
(* What the chat servers of chapters 9 and 13 have in common: a limit on   *)
(* their users, an accept queue, and clients that connect and talk.        *)
(***************************************************************************)

CONSTANT
    USER_LIMIT    \* users at a time

VARIABLES
    backlog,      \* clients in the accept queue
    inbox,        \* texts that wait in each socket, each what one recv takes
    arrived, said \* environment counters: clients and texts

=============================================================================
