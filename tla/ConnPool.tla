------------------------------- MODULE ConnPool -------------------------------
(***************************************************************************)
(* What the mgr of a springsnail child promises of its conn objects,       *)
(* whatever maps it keeps them in: a conn is idle with a socket to the     *)
(* server, then in a session with one more to a client, then freed and     *)
(* without sockets until it is connected again or given up; and no two     *)
(* conns ever have a socket in common.                                     *)
(***************************************************************************)
CONSTANTS Conn, Fd

VARIABLES
    at,        \* idle, session, freed, lost
    sockets    \* the descriptors of a conn

Unused == Fd \ UNION {sockets[c] : c \in Conn}

Moves(c, from, to) == at[c] = from /\ at' = [at EXCEPT ![c] = to]

\* A conn that cannot connect at the start is lost.
Init ==
    /\ at \in [Conn -> {"idle", "lost"}]
    /\ sockets \in [Conn -> {{}} \cup {{fd} : fd \in Fd}]
    /\ \A c \in Conn : at[c] = "lost" <=> sockets[c] = {}
    /\ \A c, d \in Conn : sockets[c] \cap sockets[d] # {} => c = d

Bind(c) ==
    /\ Moves(c, "idle", "session")
    /\ \E fd \in Unused : sockets' = [sockets EXCEPT ![c] = @ \cup {fd}]

Free(c) == Moves(c, "session", "freed") /\ sockets' = [sockets EXCEPT ![c] = {}]

Reconnect(c) ==
    /\ Moves(c, "freed", "idle")
    /\ \E fd \in Unused : sockets' = [sockets EXCEPT ![c] = {fd}]

GiveUp(c) == Moves(c, "freed", "lost") /\ UNCHANGED sockets

Next ==
    /\ at' # at      \* no step leaves every conn where it is
    /\ \E c \in Conn : Bind(c) \/ Free(c) \/ Reconnect(c) \/ GiveUp(c)

Spec == Init /\ [][Next]_<<at, sockets>>

=============================================================================
