------------------------------ MODULE MCWorker ------------------------------
(***************************************************************************)
(* Two parts of a child of springsnail, each on its own: the sockets and   *)
(* the three maps of its mgr, and what one session does with its bytes.    *)
(* Neither reads what the other keeps, so that one is at rest while the    *)
(* other, named by part, is looked at.                                     *)
(***************************************************************************)
EXTENDS ConnRelay, ConnMgr

VARIABLE part

\* The conns can be told apart by nothing, so that one order of them is enough.
Order == CHOOSE order \in Orders(Conn) : TRUE

WorkerInit ==
    /\ part \in {"mgr", "session"} /\ Init /\ MgrInit
    /\ \A fd \in Idle : m_conns[fd] = Order[fd]
    /\ part = "session" => fails = 0

WorkerNext ==
    /\ \/ part = "mgr" /\ MgrNext /\ UNCHANGED vars
       \/ part = "session" /\ Next /\ UNCHANGED childVars
    /\ UNCHANGED part

\* The event loop and the remote ends go on as in FairSpec.
WorkerSpec ==
    /\ WorkerInit /\ [][WorkerNext]_<<vars, childVars, part>>
    /\ WF_vars(part = "session" /\ Relay)
    /\ \A e \in End : WF_vars(part = "session" /\ PeerDrain(e))

=============================================================================
