------------------------------- MODULE ConnMgr -------------------------------
(***************************************************************************)
(* One child process of springsnail: the three maps of its mgr (mgr.cpp),  *)
(* the file descriptors the process owns, and its event loop               *)
(* processpool::run_child (processpool.h).  What a session does with its   *)
(* bytes is the subject of ConnRelay; here an event on a socket either     *)
(* keeps the session or, when its remote end is gone, ends it.             *)
(*                                                                         *)
(* The kernel gives every new socket the lowest free descriptor, so that a *)
(* number returns soon after it is closed: within one batch of epoll       *)
(* events, or while a map still mentions it.                               *)
(***************************************************************************)
EXTENDS Integers, Sequences, FiniteSets

CONSTANTS
    Conn,        \* the conn objects of m_conncnt connections
    NFd,         \* bound: descriptors 1..NFd for the sockets of the child
    MaxClients,  \* bound: clients announced by the parent
    MaxFail      \* bound: failed connect calls

ASSUME MgrAssumption ==
    /\ IsFiniteSet(Conn) /\ Conn # {}
    /\ NFd \in Nat /\ MaxClients \in Nat /\ MaxFail \in Nat

Fd == 1..NFd
NONE == 0        \* m_cltfd after reset, -1 in the code
NULL == "NULL"   \* what m_used[fd] yields for a key that was absent
PIPE == 0        \* the child's end of the pipe to the parent, as an event

ASSUME NullIsNoConn == NULL \notin Conn

VARIABLES
    m_conns,     \* [subset of Fd -> Conn]: connected to the server, idle
    m_used,      \* [subset of Fd -> Conn \cup {NULL}]: sockets of sessions
    m_freed,     \* [subset of Fd -> Conn]: ended, to be reconnected
    cltfd,       \* m_cltfd
    srvfd,       \* m_srvfd
    m_srv_closed,  \* of a session whose server is gone
    open,        \* descriptors the process has open
    gone,        \* open sockets whose remote end has closed or failed
    edge,        \* sockets on the ready list of the epoll set, and PIPE
    events,      \* events of the last epoll_wait not handled yet
    todo,        \* keys recycle_conns has still to visit
    reported,    \* the count last sent to the parent
    clients,     \* clients announced by the parent so far
    fails        \* connect calls that failed so far

mgrVars == <<m_conns, m_used, m_freed, cltfd, srvfd, m_srv_closed>>
childVars == <<mgrVars, open, gone, edge, events, todo, reported, clients, fails>>

Lowest(S) == CHOOSE x \in S : \A y \in S : x <= y
NewFd == Lowest(Fd \ open)
Keys(S, f) == [x \in DOMAIN f \ S |-> f[x]]                  \* map::erase
\* map::insert keeps the value of a key that is present.
Insert(f, k, v) == [x \in DOMAIN f \cup {k} |-> IF x \in DOMAIN f THEN f[x] ELSE v]
Idle == DOMAIN m_conns
Session(c) == cltfd[c] # NONE
Orders(S) == {s \in [1..Cardinality(S) -> S] : \A i, j \in DOMAIN s : s[i] = s[j] => i = j}

(***************************************************************************)
(* mgr::mgr: every conn object that could connect is idle.                 *)
(***************************************************************************)
MgrInit ==
    /\ \E n \in 0..Cardinality(Conn) : \E s \in Orders(Conn) :
          /\ n <= NFd
          /\ m_conns = [fd \in 1..n |-> s[fd]]
          /\ srvfd = [c \in Conn |-> IF \E fd \in 1..n : s[fd] = c
                                     THEN CHOOSE fd \in 1..n : s[fd] = c ELSE NONE]
          /\ open = 1..n
          /\ fails = Cardinality(Conn) - n
    /\ fails <= MaxFail
    /\ m_used = <<>> /\ m_freed = <<>>
    /\ cltfd = [c \in Conn |-> NONE] /\ m_srv_closed = [c \in Conn |-> FALSE]
    /\ gone = {} /\ edge = {} /\ events = <<>> /\ todo = {}
    /\ reported = 0 /\ clients = 0

(***************************************************************************)
(* The environment.  A socket that is not in the epoll set yet (an idle    *)
(* server connection) is not put on the ready list.                        *)
(***************************************************************************)
Registered(fd) == \E c \in Conn : Session(c) /\ fd \in {cltfd[c], srvfd[c]}

Notify ==      \* the parent announces a client on the pipe
    /\ clients < MaxClients
    /\ clients' = clients + 1 /\ edge' = edge \cup {PIPE}
    /\ UNCHANGED <<mgrVars, open, gone, events, todo, reported, fails>>

Traffic(fd) == \* data or room on a socket of a session
    /\ fd \in open /\ Registered(fd) /\ fd \notin edge
    /\ edge' = edge \cup {fd}
    /\ UNCHANGED <<mgrVars, open, gone, events, todo, reported, clients, fails>>

PeerGone(fd) ==
    /\ fd \in open \ gone
    /\ gone' = gone \cup {fd}
    /\ edge' = IF Registered(fd) THEN edge \cup {fd} ELSE edge
    /\ UNCHANGED <<mgrVars, open, events, todo, reported, clients, fails>>

(***************************************************************************)
(* run_child: the loop.                                                    *)
(***************************************************************************)
Wait ==
    /\ events = <<>> /\ todo = {} /\ edge # {}
    /\ events' \in Orders(edge)
    /\ edge' = {}
    /\ UNCHANGED <<mgrVars, open, gone, todo, reported, clients, fails>>

\* epoll_wait timed out: recycle_conns visits the freed conns in key order.
Timeout ==
    /\ events = <<>> /\ todo = {} /\ edge = {} /\ DOMAIN m_freed # {}
    /\ todo' = DOMAIN m_freed
    /\ UNCHANGED <<mgrVars, open, gone, edge, events, reported, clients, fails>>

\* Variant: a failed connect is not told from a successful one.
ReconnectUnchecked(c) ==
    \/ /\ Fd \ open # {}
       /\ srvfd' = [srvfd EXCEPT ![c] = NewFd]
       /\ m_conns' = Insert(m_conns, NewFd, c)
       /\ open' = open \cup {NewFd}
       /\ UNCHANGED fails
    \/ /\ fails < MaxFail /\ fails' = fails + 1
       /\ srvfd' = [srvfd EXCEPT ![c] = NONE]
       /\ m_conns' = Insert(m_conns, NONE, c)
       /\ UNCHANGED open

\* conn2srv and, when it succeeds, init_srv.
Reconnect(c) ==
    \/ /\ Fd \ open # {}
       /\ srvfd' = [srvfd EXCEPT ![c] = NewFd]
       /\ m_conns' = Insert(m_conns, NewFd, c)
       /\ open' = open \cup {NewFd}
       /\ UNCHANGED fails
    \/ /\ fails < MaxFail /\ fails' = fails + 1
       /\ UNCHANGED <<srvfd, m_conns, open>>

\* Variant: m_freed is not cleared.
RecycleNoClear ==
    /\ todo # {}
    /\ LET key == Lowest(todo)
       IN  /\ todo' = todo \ {key} /\ Reconnect(m_freed[key])
           /\ UNCHANGED m_freed
    /\ UNCHANGED <<m_used, cltfd, m_srv_closed, gone, edge, events, reported, clients>>

\* One round of the loop of recycle_conns, a sleep and a connect; the map is
\* cleared after the last one, also of the conns that could not connect.
Recycle ==
    /\ todo # {}
    /\ LET key == Lowest(todo)
       IN  /\ todo' = todo \ {key} /\ Reconnect(m_freed[key])
           /\ m_freed' = IF todo' = {} THEN <<>> ELSE m_freed
    /\ UNCHANGED <<m_used, cltfd, m_srv_closed, gone, edge, events, reported, clients>>

Handle(fd) == events # <<>> /\ Head(events) = fd /\ events' = Tail(events)

(***************************************************************************)
(* An event on the pipe: accept, pick_conn, init_clt, notify.              *)
(***************************************************************************)
\* accept fails, or there is no idle conn and the new socket is closed.
Reject ==
    /\ Handle(PIPE)
    /\ UNCHANGED <<mgrVars, open, gone, edge, todo, reported, clients, fails>>

Accept ==
    /\ Handle(PIPE)
    /\ Fd \ open # {} /\ Idle # {}
    /\ LET connfd == NewFd
           sfd == Lowest(Idle)
           c == m_conns[sfd]
       IN  /\ m_conns' = Keys({sfd}, m_conns)
           /\ m_used' = Insert(Insert(m_used, connfd, c), sfd, c)
           /\ open' = open \cup {connfd}
           /\ cltfd' = [cltfd EXCEPT ![c] = connfd]
           /\ edge' = edge \cup ({sfd} \cap gone)
           /\ reported' = Cardinality(DOMAIN m_used')
    /\ UNCHANGED <<m_freed, srvfd, m_srv_closed, gone, todo, clients, fails>>

(***************************************************************************)
(* mgr::process on a socket event.                                         *)
(***************************************************************************)
\* Variant: closefd is called for the client socket only.
FreeHalf(c) ==
    LET fds == {cltfd[c], srvfd[c]}
    IN  /\ open' = open \ {cltfd[c]} /\ gone' = gone \ {cltfd[c]} /\ edge' = edge \ fds
        /\ m_used' = Keys(fds, m_used)
        /\ m_freed' = Insert(m_freed, srvfd[c], c)
        /\ cltfd' = [cltfd EXCEPT ![c] = NONE]
        /\ m_srv_closed' = [m_srv_closed EXCEPT ![c] = FALSE]
        /\ reported' = Cardinality(DOMAIN m_used')

\* Variant: reset forgets m_srv_closed.
FreeKeepsClosed(c) ==
    LET fds == {cltfd[c], srvfd[c]}
    IN  /\ open' = open \ fds /\ gone' = gone \ fds /\ edge' = edge \ fds
        /\ m_used' = Keys(fds, m_used)
        /\ m_freed' = Insert(m_freed, srvfd[c], c)
        /\ cltfd' = [cltfd EXCEPT ![c] = NONE]
        /\ reported' = Cardinality(DOMAIN m_used')
        /\ UNCHANGED m_srv_closed

\* free_conn: both sockets are closed and both keys erased; the conn is reset
\* and filed under the number its server socket had.
free_conn(c) ==
    LET fds == {cltfd[c], srvfd[c]}
    IN  /\ open' = open \ fds /\ gone' = gone \ fds /\ edge' = edge \ fds
        /\ m_used' = Keys(fds, m_used)
        /\ m_freed' = Insert(m_freed, srvfd[c], c)
        /\ cltfd' = [cltfd EXCEPT ![c] = NONE]
        /\ m_srv_closed' = [m_srv_closed EXCEPT ![c] = FALSE]
        /\ reported' = Cardinality(DOMAIN m_used')

\* m_used[fd] creates the entry it does not find.
Lookup(fd) == IF fd \in DOMAIN m_used THEN m_used[fd] ELSE NULL

\* No conn for fd, or a conn that has other sockets: process returns NOTHING.
Unknown(fd) ==
    /\ Handle(fd)
    /\ LET c == Lookup(fd) IN c # NULL => fd \notin {cltfd[c], srvfd[c]}
    /\ m_used' = Insert(m_used, fd, NULL)
    /\ UNCHANGED <<m_conns, m_freed, cltfd, srvfd, m_srv_closed>>
    /\ UNCHANGED <<open, gone, edge, todo, reported, clients, fails>>

\* The session goes on.  A write does not notice an end of stream; the modfd
\* to EPOLLIN after it reports the socket again.
Rearm(fd) == edge' = edge \cup ({fd} \cap gone)

CltEvent(fd) ==
    LET c == Lookup(fd)
    IN  /\ Handle(fd) /\ c # NULL /\ cltfd[c] = fd
        /\ \/ /\ fd \in gone \/ m_srv_closed[c]
              /\ free_conn(c) /\ UNCHANGED <<m_conns, srvfd>>
           \/ /\ ~m_srv_closed[c] /\ Rearm(fd)
              /\ UNCHANGED <<mgrVars, open, gone, reported>>
        /\ UNCHANGED <<todo, clients, fails>>

SrvEvent(fd) ==
    LET c == Lookup(fd)
    IN  /\ Handle(fd) /\ c # NULL /\ cltfd[c] # fd /\ srvfd[c] = fd
        /\ \/ /\ fd \in gone
              /\ m_srv_closed' = [m_srv_closed EXCEPT ![c] = TRUE]
              /\ \E woken \in SUBSET {cltfd[c]} : edge' = edge \cup woken
           \/ Rearm(fd) /\ UNCHANGED m_srv_closed
        /\ UNCHANGED <<m_conns, m_used, m_freed, cltfd, srvfd>>
        /\ UNCHANGED <<open, gone, todo, reported, clients, fails>>

Child ==
    \/ Wait \/ Timeout \/ Recycle \/ Reject \/ Accept
    \/ \E fd \in Fd : Unknown(fd) \/ CltEvent(fd) \/ SrvEvent(fd)

MgrNext ==
    \/ Child
    \/ Notify
    \/ \E fd \in Fd : Traffic(fd) \/ PeerGone(fd)

MgrSpec == MgrInit /\ [][MgrNext]_childVars

(***************************************************************************)
(* Properties.                                                             *)
(***************************************************************************)
\* Every variable has its type; no event is left for a closed descriptor.
MgrTypeOK ==
    /\ Idle \subseteq Fd /\ \A fd \in Idle : m_conns[fd] \in Conn
    /\ DOMAIN m_used \subseteq Fd /\ \A fd \in DOMAIN m_used : m_used[fd] \in Conn \cup {NULL}
    /\ DOMAIN m_freed \subseteq Fd /\ \A fd \in DOMAIN m_freed : m_freed[fd] \in Conn
    /\ cltfd \in [Conn -> Fd \cup {NONE}] /\ srvfd \in [Conn -> Fd \cup {NONE}]
    /\ m_srv_closed \in [Conn -> BOOLEAN]
    /\ open \subseteq Fd /\ gone \subseteq open /\ edge \subseteq open \cup {PIPE}
    /\ todo \subseteq DOMAIN m_freed
    /\ {events[i] : i \in DOMAIN events} \subseteq Fd \cup {PIPE}
    /\ clients \in 0..MaxClients /\ fails \in 0..MaxFail /\ reported \in Nat

Owns(c, fd) == \/ fd \in Idle /\ m_conns[fd] = c
               \/ Session(c) /\ fd \in {cltfd[c], srvfd[c]}

\* Every open socket belongs to exactly one conn, as the server socket of an
\* idle conn or one of the two sockets of a session: no descriptor leaks, none
\* is closed twice, none serves two sessions, although the numbers are reused.
SocketsOwned ==
    \A fd \in Fd : /\ fd \in open <=> \E c \in Conn : Owns(c, fd)
                   /\ \A c, d \in Conn : Owns(c, fd) /\ Owns(d, fd) => c = d

\* A stale event of the batch, left by a socket whose number a new session has
\* got since, does reach the new session: process looks the number up.  It never
\* ends it: a session ends only when the remote end of one of the two sockets it
\* has now is gone, whatever happened to earlier sockets and sessions.
EndsForItsOwn ==
    [][\A c \in Conn : Session(c) /\ cltfd'[c] = NONE
                        => {cltfd[c], srvfd[c]} \cap gone # {}]_childVars

\* Where a conn is, in two maps if it is in more than one; those recycle_conns
\* has visited wait in m_freed only to be cleared.
Place(c) ==
    LET idle == \E k \in Idle : m_conns[k] = c
        freed == \E k \in (IF todo = {} THEN DOMAIN m_freed ELSE todo) : m_freed[k] = c
    IN  IF Session(c) THEN (IF idle \/ freed THEN "in two maps" ELSE "session")
        ELSE IF idle THEN (IF freed THEN "in two maps" ELSE "idle")
        ELSE IF freed THEN "freed" ELSE "lost"

Pool == INSTANCE ConnPool WITH
    at <- [c \in Conn |-> Place(c)],
    sockets <- [c \in Conn |-> {fd \in Fd : Owns(c, fd)}]

\* The three maps implement the life cycle of ConnPool: a conn is never in two
\* of them, it goes from one to the next only with the sockets that belong to
\* its new place, and never takes a socket that another conn still has.
ImplementsConnPool == Pool!Spec

=============================================================================
