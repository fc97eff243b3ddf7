---------------------------- MODULE ConnMgrProofs ----------------------------
(***************************************************************************)
(* Theorems about ConnMgr for any number of conns, descriptors, clients    *)
(* and failed connects.                                                    *)
(***************************************************************************)
EXTENDS ConnMgr, TLAPS, FiniteSetTheorems, SequenceTheorems, WellFoundedInduction

\* The keys of m_freed whose conns are still to be connected again.
Waiting == IF todo = {} THEN DOMAIN m_freed ELSE todo

\* recycle_conns runs between two batches.
Batched == events \in Seq(Fd \cup {PIPE}) /\ (todo # {} => events = <<>>)

\* A conn is in one place, and an idle one is filed under its server socket.
Homes ==
    /\ \A k \in Idle : srvfd[m_conns[k]] = k /\ ~Session(m_conns[k])
    /\ \A c \in Conn : Session(c) => srvfd[c] \in Fd /\ srvfd[c] # cltfd[c]
    /\ \A k \in Waiting : ~Session(m_freed[k]) /\ \A j \in Idle : m_conns[j] # m_freed[k]
    /\ \A k, l \in Waiting : m_freed[k] = m_freed[l] => k = l

\* No conn that could be freed next has a server socket with the number of one
\* that waits in m_freed already, where insert would lose it.
Filed ==
    todo = {} => /\ Idle \cap DOMAIN m_freed = {}
                 /\ \A c \in Conn : Session(c) => srvfd[c] \notin DOMAIN m_freed

\* An entry of m_used is of a session and of one of its two open sockets: what
\* process looks up is never a conn that has other sockets now.
Current ==
    \A fd \in DOMAIN m_used :
        m_used[fd] # NULL => /\ fd \in open /\ Session(m_used[fd])
                             /\ fd \in {cltfd[m_used[fd]], srvfd[m_used[fd]]}

Inv == MgrTypeOK /\ Batched /\ SocketsOwned /\ Current /\ Homes /\ Filed

LEMMA LowestIs ==
    ASSUME NEW S, S \subseteq Nat, S # {}
    PROVE  Lowest(S) \in S
<1>1. PICK x \in S : \A y \in S : ~(<<y, x>> \in OpToRel(<, Nat))
  BY NatLessThanWellFounded, WFMin
<1>2. \A y \in S : x <= y
  <2> SUFFICES ASSUME NEW y \in S PROVE x <= y  OBVIOUS
  <2>1. x \in Nat /\ y \in Nat  OBVIOUS
  <2>2. ~(<<y, x>> \in OpToRel(<, Nat))  BY <1>1
  <2>3. ~(y < x)  BY <2>1, <2>2 DEF OpToRel
  <2> QED  BY <2>1, <2>3
<1> QED  BY <1>2 DEF Lowest

LEMMA FdFacts ==
    /\ Fd \subseteq Nat /\ IsFiniteSet(Fd) /\ NONE \notin Fd /\ PIPE \notin Fd /\ NULL \notin Conn
<1>1. NFd \in Nat  BY MgrAssumption DEF MgrAssumption
<1> QED  BY <1>1, NullIsNoConn, FS_Interval DEF Fd, NONE, PIPE, NullIsNoConn

LEMMA FreeFd == ASSUME Fd \ open # {} PROVE NewFd \in Fd /\ NewFd \notin open
BY FdFacts, LowestIs DEF NewFd

-----------------------------------------------------------------------------

\* Steps that change no map and no socket.
LEMMA MapsKept ==
    ASSUME Inv, UNCHANGED <<m_conns, m_freed, cltfd, srvfd, open, todo>>
    PROVE  /\ SocketsOwned' /\ Homes' /\ Filed'
           /\ UNCHANGED m_used => Current'
BY DEF Inv, SocketsOwned, Homes, Filed, Current, Owns, Session, Idle, Waiting

LEMMA NotifyInv == ASSUME Inv, Notify PROVE Inv'
<1>1. UNCHANGED <<mgrVars, open, gone, events, todo, reported, fails>>
      /\ clients' = clients + 1 /\ clients < MaxClients /\ edge' = edge \cup {PIPE}
  BY DEF Notify
<1>2. MgrTypeOK /\ Batched  BY DEF Inv
<1>3. clients' \in 0..MaxClients  BY <1>1, <1>2, MgrAssumption DEF MgrTypeOK, MgrAssumption
<1>4. MgrTypeOK'  BY <1>1, <1>2, <1>3 DEF MgrTypeOK, mgrVars, Idle
<1>5. Batched'  BY <1>1, <1>2 DEF Batched
<1> QED  BY <1>1, <1>4, <1>5, MapsKept DEF Inv, mgrVars

LEMMA TrafficInv == ASSUME Inv, NEW fd \in Fd, Traffic(fd) PROVE Inv'
<1>1. UNCHANGED <<mgrVars, open, gone, events, todo, reported, clients, fails>>
      /\ edge' = edge \cup {fd} /\ fd \in open
  BY DEF Traffic
<1>2. MgrTypeOK /\ Batched  BY DEF Inv
<1>3. MgrTypeOK'  BY <1>1, <1>2 DEF MgrTypeOK, mgrVars, Idle
<1>4. Batched'  BY <1>1, <1>2 DEF Batched
<1> QED  BY <1>1, <1>3, <1>4, MapsKept DEF Inv, mgrVars

LEMMA PeerGoneInv == ASSUME Inv, NEW fd \in Fd, PeerGone(fd) PROVE Inv'
<1>1. UNCHANGED <<mgrVars, open, events, todo, reported, clients, fails>>
      /\ edge' \subseteq edge \cup {fd} /\ gone' = gone \cup {fd} /\ fd \in open
  BY DEF PeerGone
<1>2. MgrTypeOK /\ Batched  BY DEF Inv
<1>3. MgrTypeOK'  BY <1>1, <1>2 DEF MgrTypeOK, mgrVars, Idle
<1>4. Batched'  BY <1>1, <1>2 DEF Batched
<1> QED  BY <1>1, <1>3, <1>4, MapsKept DEF Inv, mgrVars

LEMMA EpollWaitInv == ASSUME Inv, Wait PROVE Inv'
<1>1. UNCHANGED <<mgrVars, open, gone, todo, reported, clients, fails>>
      /\ events' \in Orders(edge) /\ edge' = {} /\ todo = {}
  BY DEF Wait
<1>2. MgrTypeOK /\ Batched  BY DEF Inv
<1>3. edge \subseteq Fd \cup {PIPE}  BY <1>2 DEF MgrTypeOK
<1>4. Cardinality(edge) \in Nat
  <2>1. IsFiniteSet(Fd \cup {PIPE})  BY FdFacts, FS_AddElement
  <2>2. IsFiniteSet(edge)  BY <1>3, <2>1, FS_Subset
  <2> QED  BY <2>2, FS_CardinalityType
<1>5. events' \in [1..Cardinality(edge) -> edge]  BY <1>1 DEF Orders
<1>6. events' \in Seq(Fd \cup {PIPE})
  <2>1. events' \in [1..Cardinality(edge) -> Fd \cup {PIPE}]  BY <1>3, <1>5
  <2> QED  BY <1>4, <2>1
<1>7. {events'[k] : k \in DOMAIN events'} \subseteq Fd \cup {PIPE}  BY <1>3, <1>5
<1>8. MgrTypeOK'  BY <1>1, <1>2, <1>7 DEF MgrTypeOK, mgrVars, Idle
<1>9. Batched'  BY <1>1, <1>6 DEF Batched
<1> QED  BY <1>1, <1>8, <1>9, MapsKept DEF Inv, mgrVars

LEMMA TimeoutInv == ASSUME Inv, Timeout PROVE Inv'
<1>1. UNCHANGED <<mgrVars, open, gone, edge, events, reported, clients, fails>>
      /\ todo' = DOMAIN m_freed /\ todo = {} /\ events = <<>> /\ DOMAIN m_freed # {}
  BY DEF Timeout
<1>2. MgrTypeOK /\ Batched /\ SocketsOwned /\ Current /\ Homes /\ Filed  BY DEF Inv
<1>3. MgrTypeOK'  BY <1>1, <1>2 DEF MgrTypeOK, mgrVars, Idle
<1>4. Batched'  BY <1>1, <1>2 DEF Batched
<1>5. Waiting' = Waiting  BY <1>1 DEF Waiting, mgrVars
<1>6. SocketsOwned' /\ Current'
  BY <1>1, <1>2 DEF SocketsOwned, Current, Owns, Session, Idle, mgrVars
<1>7. Homes'  BY <1>1, <1>2, <1>5 DEF Homes, Session, Idle, mgrVars
<1>8. Filed'  BY <1>1 DEF Filed
<1> QED  BY <1>3, <1>4, <1>6, <1>7, <1>8 DEF Inv

\* The loop takes the next event of its batch.
LEMMA EventTaken ==
    ASSUME Inv, NEW fd, Handle(fd)
    PROVE  /\ fd \in Fd \cup {PIPE} /\ todo = {}
           /\ events' \in Seq(Fd \cup {PIPE})
           /\ {events'[k] : k \in DOMAIN events'} \subseteq Fd \cup {PIPE}
<1>1. events \in Seq(Fd \cup {PIPE}) /\ events # <<>> /\ todo = {}
      /\ fd = Head(events) /\ events' = Tail(events)
  BY DEF Inv, Batched, Handle
<1>2. fd \in Fd \cup {PIPE} /\ events' \in Seq(Fd \cup {PIPE})  BY <1>1, HeadTailProperties
<1>3. \A k \in DOMAIN events' : events'[k] \in Fd \cup {PIPE}  BY <1>2, ElementOfSeq, LenProperties
<1> QED  BY <1>1, <1>2, <1>3

LEMMA RejectInv == ASSUME Inv, Reject PROVE Inv'
<1>1. UNCHANGED <<mgrVars, open, gone, edge, todo, reported, clients, fails>> /\ Handle(PIPE)
  BY DEF Reject
<1>2. MgrTypeOK /\ Batched  BY DEF Inv
<1>3. todo = {} /\ events' \in Seq(Fd \cup {PIPE})
      /\ {events'[k] : k \in DOMAIN events'} \subseteq Fd \cup {PIPE}
  BY <1>1, EventTaken
<1>4. MgrTypeOK'  BY <1>1, <1>2, <1>3 DEF MgrTypeOK, mgrVars, Idle
<1>5. Batched'  BY <1>1, <1>3 DEF Batched
<1> QED  BY <1>1, <1>4, <1>5, MapsKept DEF Inv, mgrVars

LEMMA UnknownInv == ASSUME Inv, NEW fd \in Fd, Unknown(fd) PROVE Inv'
<1>1. /\ UNCHANGED <<m_conns, m_freed, cltfd, srvfd, m_srv_closed>>
      /\ UNCHANGED <<open, gone, edge, todo, reported, clients, fails>>
      /\ Handle(fd) /\ m_used' = Insert(m_used, fd, NULL)
  BY DEF Unknown
<1>2. MgrTypeOK /\ Batched /\ Current  BY DEF Inv
<1>3. todo = {} /\ events' \in Seq(Fd \cup {PIPE})
      /\ {events'[k] : k \in DOMAIN events'} \subseteq Fd \cup {PIPE}
  BY <1>1, EventTaken
<1>4. /\ DOMAIN m_used' = DOMAIN m_used \cup {fd}
      /\ \A x \in DOMAIN m_used : m_used'[x] = m_used[x]
      /\ fd \notin DOMAIN m_used => m_used'[fd] = NULL
  BY <1>1 DEF Insert
<1>5. MgrTypeOK'
  <2>1. DOMAIN m_used' \subseteq Fd /\ \A x \in DOMAIN m_used' : m_used'[x] \in Conn \cup {NULL}
    BY <1>2, <1>4 DEF MgrTypeOK
  <2> QED  BY <1>1, <1>2, <1>3, <2>1 DEF MgrTypeOK, Idle
<1>6. Batched'  BY <1>1, <1>3 DEF Batched
<1>7. Current'  BY <1>1, <1>2, <1>4 DEF Current, Session
<1> QED  BY <1>1, <1>5, <1>6, <1>7, MapsKept DEF Inv

LEMMA SrvEventInv == ASSUME Inv, NEW fd \in Fd, SrvEvent(fd) PROVE Inv'
<1> DEFINE c == Lookup(fd)
<1>1. /\ UNCHANGED <<m_conns, m_used, m_freed, cltfd, srvfd>>
      /\ UNCHANGED <<open, gone, todo, reported, clients, fails>>
      /\ Handle(fd) /\ c # NULL
  BY DEF SrvEvent
<1>2. MgrTypeOK /\ Batched /\ Current /\ SocketsOwned  BY DEF Inv
<1>3. todo = {} /\ events' \in Seq(Fd \cup {PIPE})
      /\ {events'[k] : k \in DOMAIN events'} \subseteq Fd \cup {PIPE}
  BY <1>1, EventTaken
<1>4. c \in Conn /\ Session(c) /\ cltfd[c] \in open
  <2>1. fd \in DOMAIN m_used /\ c = m_used[fd]  BY <1>1 DEF Lookup
  <2>2. c \in Conn  BY <1>1, <1>2, <2>1 DEF MgrTypeOK
  <2>3. Session(c)  BY <1>1, <1>2, <2>1 DEF Current
  <2>4. cltfd[c] \in Fd /\ Owns(c, cltfd[c])  BY <1>2, <2>2, <2>3 DEF MgrTypeOK, Owns, Session
  <2> QED  BY <1>2, <2>2, <2>3, <2>4 DEF SocketsOwned
<1> HIDE DEF c
<1>5. edge' \subseteq open \cup {PIPE} /\ m_srv_closed' \in [Conn -> BOOLEAN]
  <2>1. CASE fd \in gone /\ m_srv_closed' = [m_srv_closed EXCEPT ![c] = TRUE]
             /\ \E woken \in SUBSET {cltfd[c]} : edge' = edge \cup woken
    BY <1>2, <1>4, <2>1 DEF MgrTypeOK
  <2>2. CASE Rearm(fd) /\ UNCHANGED m_srv_closed
    BY <1>2, <2>2 DEF MgrTypeOK, Rearm
  <2> QED  BY <2>1, <2>2 DEF SrvEvent, c
<1>6. MgrTypeOK'  BY <1>1, <1>2, <1>3, <1>5 DEF MgrTypeOK, Idle
<1>7. Batched'  BY <1>1, <1>3 DEF Batched
<1> QED  BY <1>1, <1>6, <1>7, MapsKept DEF Inv

-----------------------------------------------------------------------------

\* free_conn closes both sockets of a session and files its conn under the
\* number the server socket had, where nothing else is filed.
LEMMA FreeInv ==
    ASSUME Inv, NEW c \in Conn, Session(c), free_conn(c), NEW fd \in Fd, Handle(fd),
           UNCHANGED <<m_conns, srvfd, todo, clients, fails>>
    PROVE  Inv'
<1> DEFINE fds == {cltfd[c], srvfd[c]}
<1>1. /\ open' = open \ fds /\ gone' = gone \ fds /\ edge' = edge \ fds
      /\ m_used' = Keys(fds, m_used)
      /\ m_freed' = Insert(m_freed, srvfd[c], c)
      /\ cltfd' = [cltfd EXCEPT ![c] = NONE]
      /\ m_srv_closed' = [m_srv_closed EXCEPT ![c] = FALSE]
      /\ reported' = Cardinality(DOMAIN m_used')
  BY DEF free_conn
<1>2. MgrTypeOK /\ Batched /\ Current /\ SocketsOwned /\ Homes /\ Filed  BY DEF Inv
<1>3. todo = {} /\ todo' = {} /\ events' \in Seq(Fd \cup {PIPE})
      /\ {events'[k] : k \in DOMAIN events'} \subseteq Fd \cup {PIPE}
  BY EventTaken
<1>4. srvfd[c] \in Fd /\ cltfd[c] \in Fd /\ srvfd[c] # cltfd[c] /\ srvfd[c] \notin DOMAIN m_freed
  BY <1>2, <1>3 DEF Homes, Filed, Session, MgrTypeOK
<1>5. /\ DOMAIN m_used' = DOMAIN m_used \ fds
      /\ \A x \in DOMAIN m_used \ fds : m_used'[x] = m_used[x]
  BY <1>1 DEF Keys
<1>6. /\ DOMAIN m_freed' = DOMAIN m_freed \cup {srvfd[c]}
      /\ \A x \in DOMAIN m_freed : m_freed'[x] = m_freed[x]
      /\ m_freed'[srvfd[c]] = c
  BY <1>1, <1>4 DEF Insert
<1>7. /\ cltfd'[c] = NONE /\ \A d \in Conn \ {c} : cltfd'[d] = cltfd[d]
      /\ cltfd' \in [Conn -> Fd \cup {NONE}]
  BY <1>1, <1>2 DEF MgrTypeOK
<1>8. ~Session(c)' /\ \A d \in Conn \ {c} : Session(d)' <=> Session(d)
  BY <1>7 DEF Session
<1>9. \A k \in Idle : m_conns[k] \in Conn \ {c}
  BY <1>2 DEF Homes, MgrTypeOK
<1>10. \A x \in Fd : /\ \A d \in Conn \ {c} : Owns(d, x)' <=> Owns(d, x)
                     /\ ~Owns(c, x)'
                     /\ Owns(c, x) <=> x \in fds
  <2>1. UNCHANGED <<m_conns, srvfd>>  OBVIOUS
  <2> QED  BY <1>7, <1>8, <1>9, <2>1 DEF Owns, Idle
<1>11. SocketsOwned'
  <2> SUFFICES ASSUME NEW x \in Fd
               PROVE  /\ x \in open' <=> \E d \in Conn : Owns(d, x)'
                      /\ \A d, e \in Conn : Owns(d, x)' /\ Owns(e, x)' => d = e
    BY DEF SocketsOwned
  <2>1. x \in open <=> \E d \in Conn : Owns(d, x)  BY <1>2 DEF SocketsOwned
  <2>2. \A d, e \in Conn : Owns(d, x) /\ Owns(e, x) => d = e  BY <1>2 DEF SocketsOwned
  <2>3. x \in open' <=> x \in open /\ x \notin fds  BY <1>1
  <2> HIDE DEF fds
  <2> QED  BY <1>10, <2>1, <2>2, <2>3
<1>12. Current'
  <2> SUFFICES ASSUME NEW x \in DOMAIN m_used', m_used'[x] # NULL
               PROVE  /\ x \in open' /\ Session(m_used[x])'
                      /\ x \in {cltfd'[m_used'[x]], srvfd'[m_used'[x]]}
    BY DEF Current
  <2>1. x \in DOMAIN m_used /\ x \notin fds /\ m_used'[x] = m_used[x]  BY <1>5
  <2> DEFINE d == m_used[x]
  <2>2. d \in Conn /\ x \in open /\ Session(d) /\ x \in {cltfd[d], srvfd[d]}
    BY <1>2, <2>1 DEF Current, MgrTypeOK
  <2>3. d # c  BY <2>1, <2>2
  <2>4. cltfd'[d] = cltfd[d] /\ cltfd'[d] # NONE  BY <1>7, <2>2, <2>3 DEF Session
  <2> QED  BY <1>1, <2>1, <2>2, <2>4 DEF Session
<1>13. Waiting = DOMAIN m_freed /\ Waiting' = DOMAIN m_freed'  BY <1>3 DEF Waiting
<1>14. Homes'
  <2>1. \A k \in Idle' : srvfd'[m_conns'[k]] = k /\ ~Session(m_conns[k])'
    BY <1>2, <1>7, <1>8, <1>9 DEF Homes, Idle, Session
  <2>2. \A d \in Conn : Session(d)' => srvfd'[d] \in Fd /\ srvfd'[d] # cltfd'[d]
    BY <1>2, <1>7, <1>8 DEF Homes
  <2>3. ASSUME NEW k \in Waiting'
        PROVE  ~Session(m_freed[k])' /\ \A j \in Idle' : m_conns'[j] # m_freed'[k]
    <3>1. CASE k = srvfd[c]  BY <1>6, <1>8, <1>9, <3>1 DEF Idle, Session
    <3>2. CASE k \in DOMAIN m_freed
      <4>1. m_freed[k] \in Conn /\ ~Session(m_freed[k])
            /\ \A j \in Idle : m_conns[j] # m_freed[k]
        BY <1>2, <1>13, <3>2 DEF Homes, MgrTypeOK
      <4>2. m_freed'[k] = m_freed[k] /\ m_freed[k] # c  BY <1>6, <3>2, <4>1
      <4> QED  BY <1>7, <4>1, <4>2 DEF Session, Idle
    <3> QED  BY <1>6, <1>13, <2>3, <3>1, <3>2
  <2>4. \A k, l \in Waiting' : m_freed'[k] = m_freed'[l] => k = l
    <3>1. \A k \in DOMAIN m_freed : m_freed[k] # c  BY <1>2, <1>13 DEF Homes
    <3>2. \A k, l \in DOMAIN m_freed : m_freed[k] = m_freed[l] => k = l
      BY <1>2, <1>13 DEF Homes
    <3> QED  BY <1>6, <1>13, <3>1, <3>2
  <2> QED  BY <2>1, <2>2, <2>3, <2>4 DEF Homes
<1>15. Filed'
  <2>1. srvfd[c] \notin Idle
    BY <1>2, <1>4, <1>9, <1>10 DEF SocketsOwned, Owns
  <2>2. \A d \in Conn : d # c /\ Session(d) => srvfd[d] # srvfd[c]
    <3> SUFFICES ASSUME NEW d \in Conn, d # c, Session(d), srvfd[d] = srvfd[c] PROVE FALSE
      OBVIOUS
    <3>1. Owns(d, srvfd[c]) /\ Owns(c, srvfd[c])  BY DEF Owns
    <3> QED  BY <1>2, <1>4, <3>1 DEF SocketsOwned
  <2> QED  BY <1>2, <1>3, <1>6, <1>8, <2>1, <2>2 DEF Filed, Idle
<1>16. MgrTypeOK'
  <2>1. DOMAIN m_used' \subseteq Fd /\ \A x \in DOMAIN m_used' : m_used'[x] \in Conn \cup {NULL}
    BY <1>2, <1>5 DEF MgrTypeOK
  <2>2. DOMAIN m_freed' \subseteq Fd /\ \A x \in DOMAIN m_freed' : m_freed'[x] \in Conn
    BY <1>2, <1>4, <1>6 DEF MgrTypeOK
  <2>3. reported' \in Nat  BY <1>1, <2>1, FdFacts, FS_Subset, FS_CardinalityType
  <2>4. m_srv_closed' \in [Conn -> BOOLEAN]  BY <1>1, <1>2 DEF MgrTypeOK
  <2>5. open' \subseteq Fd /\ gone' \subseteq open' /\ edge' \subseteq open' \cup {PIPE}
    BY <1>1, <1>2 DEF MgrTypeOK
  <2> QED  BY <1>2, <1>3, <1>7, <2>1, <2>2, <2>3, <2>4, <2>5 DEF MgrTypeOK, Idle
<1>17. Batched'  BY <1>3 DEF Batched
<1> QED  BY <1>11, <1>12, <1>14, <1>15, <1>16, <1>17 DEF Inv

LEMMA CltEventInv == ASSUME Inv, NEW fd \in Fd, CltEvent(fd) PROVE Inv'
<1> DEFINE c == Lookup(fd)
<1>1. Handle(fd) /\ c # NULL /\ UNCHANGED <<todo, clients, fails>>  BY DEF CltEvent
<1>2. MgrTypeOK /\ Batched /\ Current  BY DEF Inv
<1>3. c \in Conn /\ Session(c)
  <2>1. fd \in DOMAIN m_used /\ c = m_used[fd]  BY <1>1 DEF Lookup
  <2> QED  BY <1>1, <1>2, <2>1 DEF MgrTypeOK, Current
<1>4. CASE free_conn(c) /\ UNCHANGED <<m_conns, srvfd>>
  BY <1>1, <1>3, <1>4, FreeInv
<1>5. CASE Rearm(fd) /\ UNCHANGED <<mgrVars, open, gone, reported>>
  <2>1. todo = {} /\ events' \in Seq(Fd \cup {PIPE})
        /\ {events'[k] : k \in DOMAIN events'} \subseteq Fd \cup {PIPE}
    BY <1>1, EventTaken
  <2>2. edge' \subseteq open \cup {PIPE}  BY <1>2, <1>5 DEF Rearm, MgrTypeOK
  <2>3. MgrTypeOK'  BY <1>1, <1>2, <1>5, <2>1, <2>2 DEF MgrTypeOK, Idle, mgrVars
  <2>4. Batched'  BY <1>1, <2>1 DEF Batched
  <2> QED  BY <1>1, <1>5, <2>3, <2>4, MapsKept DEF Inv, mgrVars
<1> QED  BY <1>4, <1>5 DEF CltEvent

-----------------------------------------------------------------------------

\* accept and pick_conn: an idle conn gets a second socket with a number that
\* no conn has.  An entry of m_used for either number was left by nobody.
LEMMA AcceptInv == ASSUME Inv, Accept PROVE Inv'
<1>2. MgrTypeOK /\ Batched /\ Current /\ SocketsOwned /\ Homes /\ Filed  BY DEF Inv
<1>4. PICK connfd \in Fd : connfd = NewFd /\ connfd \notin open  BY FreeFd DEF Accept
<1>5. PICK sfd \in Idle : sfd = Lowest(Idle) /\ sfd \in Fd
  <2>1. Idle \subseteq Fd /\ Idle # {}  BY <1>2 DEF MgrTypeOK, Accept
  <2>2. Lowest(Idle) \in Idle  BY <2>1, FdFacts, LowestIs
  <2> QED  BY <2>1, <2>2
<1>0. PICK c \in Conn : c = m_conns[sfd]  BY <1>2 DEF MgrTypeOK
<1>1. /\ Handle(PIPE)
      /\ m_conns' = Keys({sfd}, m_conns)
      /\ m_used' = Insert(Insert(m_used, connfd, c), sfd, c)
      /\ open' = open \cup {connfd}
      /\ cltfd' = [cltfd EXCEPT ![c] = connfd]
      /\ edge' = edge \cup ({sfd} \cap gone)
      /\ reported' = Cardinality(DOMAIN m_used')
      /\ UNCHANGED <<m_freed, srvfd, m_srv_closed, gone, todo, clients, fails>>
  BY <1>0, <1>4, <1>5 DEF Accept
<1>3. todo = {} /\ todo' = {} /\ events' \in Seq(Fd \cup {PIPE})
      /\ {events'[k] : k \in DOMAIN events'} \subseteq Fd \cup {PIPE}
  BY <1>1, EventTaken
<1>6. srvfd[c] = sfd /\ ~Session(c) /\ Owns(c, sfd) /\ sfd \in open /\ sfd # connfd
  <2>1. srvfd[c] = sfd /\ ~Session(c) /\ Owns(c, sfd)
    BY <1>0, <1>2, <1>5 DEF Homes, Owns
  <2>2. sfd \in open  BY <1>2, <1>5, <2>1 DEF SocketsOwned
  <2> QED  BY <1>4, <2>1, <2>2
<1>7. /\ DOMAIN m_conns' = DOMAIN m_conns \ {sfd}
      /\ \A k \in DOMAIN m_conns \ {sfd} : m_conns'[k] = m_conns[k]
  BY <1>1 DEF Keys
<1>8. \A k \in Idle \ {sfd} : m_conns[k] \in Conn \ {c}
  BY <1>0, <1>2, <1>5, <1>6 DEF Homes, MgrTypeOK
<1>9. /\ cltfd'[c] = connfd /\ \A d \in Conn \ {c} : cltfd'[d] = cltfd[d]
      /\ cltfd' \in [Conn -> Fd \cup {NONE}]
  BY <1>1, <1>2, <1>4, <1>5 DEF MgrTypeOK
<1>10. Session(c)' /\ \A d \in Conn \ {c} : Session(d)' <=> Session(d)
  BY <1>4, <1>9, FdFacts DEF Session
<1>11. \A x \in Fd : /\ \A d \in Conn \ {c} : Owns(d, x)' <=> Owns(d, x)
                     /\ Owns(c, x)' <=> x \in {connfd, sfd}
                     /\ Owns(c, x) <=> x = sfd
  <2>1. srvfd' = srvfd  BY <1>1
  <2>2. \A x \in Fd, d \in Conn \ {c} : Owns(d, x)' <=> Owns(d, x)
    <3>1. \A x \in Fd, d \in Conn \ {c} :
             (x \in Idle' /\ m_conns'[x] = d) <=> (x \in Idle /\ m_conns[x] = d)
      BY <1>0, <1>5, <1>7 DEF Idle
    <3> QED  BY <1>9, <1>10, <2>1, <3>1 DEF Owns
  <2>3. \A x \in Fd : Owns(c, x)' <=> x \in {connfd, sfd}
    <3>1. \A x \in Idle' : m_conns'[x] # c  BY <1>7, <1>8 DEF Idle
    <3> QED  BY <1>6, <1>9, <1>10, <2>1, <3>1 DEF Owns
  <2>4. \A x \in Fd : Owns(c, x) <=> x = sfd  BY <1>5, <1>6, <1>8 DEF Owns
  <2> QED  BY <2>2, <2>3, <2>4
<1>12. SocketsOwned'
  <2> SUFFICES ASSUME NEW x \in Fd
               PROVE  /\ x \in open' <=> \E d \in Conn : Owns(d, x)'
                      /\ \A d, e \in Conn : Owns(d, x)' /\ Owns(e, x)' => d = e
    BY DEF SocketsOwned
  <2>1. x \in open <=> \E d \in Conn : Owns(d, x)  BY <1>2 DEF SocketsOwned
  <2>2. \A d, e \in Conn : Owns(d, x) /\ Owns(e, x) => d = e  BY <1>2 DEF SocketsOwned
  <2>3. x \in open' <=> x \in open \/ x = connfd  BY <1>1
  <2> QED  BY <1>4, <1>5, <1>11, <2>1, <2>2, <2>3
<1>13. /\ DOMAIN m_used' = DOMAIN m_used \cup {connfd, sfd}
       /\ \A x \in DOMAIN m_used : m_used'[x] = m_used[x]
       /\ \A x \in {connfd, sfd} \ DOMAIN m_used : m_used'[x] = c
  BY <1>1 DEF Insert
<1>14. Current'
  <2> SUFFICES ASSUME NEW x \in DOMAIN m_used', m_used'[x] # NULL
               PROVE  /\ x \in open' /\ Session(m_used[x])'
                      /\ x \in {cltfd'[m_used'[x]], srvfd'[m_used'[x]]}
    BY DEF Current
  <2>1. CASE x \in DOMAIN m_used
    <3> DEFINE d == m_used[x]
    <3>1. d \in Conn /\ x \in open /\ Session(d) /\ x \in {cltfd[d], srvfd[d]}
          /\ m_used'[x] = d
      BY <1>2, <1>13, <2>1 DEF Current, MgrTypeOK
    <3>2. d # c  BY <1>6, <3>1
    <3>3. cltfd'[d] = cltfd[d] /\ cltfd'[d] # NONE  BY <1>9, <3>1, <3>2 DEF Session
    <3> QED  BY <1>1, <3>1, <3>3 DEF Session
  <2>2. CASE x \notin DOMAIN m_used
    <3>1. x \in {connfd, sfd} /\ m_used'[x] = c  BY <1>13, <2>2
    <3>2. cltfd'[c] # NONE  BY <1>10 DEF Session
    <3> QED  BY <1>1, <1>6, <1>9, <3>1, <3>2 DEF Session
  <2> QED  BY <2>1, <2>2
<1>15. Waiting = DOMAIN m_freed /\ Waiting' = DOMAIN m_freed  BY <1>1, <1>3 DEF Waiting
<1>16. Idle \cap DOMAIN m_freed = {}  BY <1>2, <1>3 DEF Filed
<1>17. Homes'
  <2>1. \A k \in Idle' : srvfd'[m_conns'[k]] = k /\ ~Session(m_conns[k])'
    <3>1. \A k \in Idle' : k \in Idle /\ m_conns'[k] = m_conns[k] /\ m_conns[k] \in Conn \ {c}
      BY <1>7, <1>8 DEF Idle
    <3>2. \A k \in Idle : srvfd[m_conns[k]] = k /\ ~Session(m_conns[k])  BY <1>2 DEF Homes
    <3> SUFFICES ASSUME NEW k \in Idle'
                 PROVE  srvfd'[m_conns'[k]] = k /\ ~(cltfd'[m_conns'[k]] # NONE)
      BY DEF Session
    <3>3. cltfd'[m_conns[k]] = cltfd[m_conns[k]]  BY <1>9, <3>1
    <3> QED  BY <1>1, <3>1, <3>2, <3>3 DEF Session
  <2>2. \A d \in Conn : Session(d)' => srvfd'[d] \in Fd /\ srvfd'[d] # cltfd'[d]
    BY <1>1, <1>2, <1>5, <1>6, <1>9, <1>10 DEF Homes
  <2>3. ASSUME NEW k \in Waiting'
        PROVE  ~Session(m_freed[k])' /\ \A j \in Idle' : m_conns'[j] # m_freed'[k]
    <3>1. m_freed[k] \in Conn /\ ~Session(m_freed[k])
          /\ \A j \in Idle : m_conns[j] # m_freed[k]
      BY <1>2, <1>15 DEF Homes, MgrTypeOK
    <3>2. m_freed[k] # c  BY <1>0, <1>5, <3>1
    <3>3. cltfd'[m_freed[k]] = cltfd[m_freed[k]]  BY <1>9, <3>1, <3>2
    <3> QED  BY <1>1, <1>7, <3>1, <3>3 DEF Session, Idle
  <2>4. \A k, l \in Waiting' : m_freed'[k] = m_freed'[l] => k = l
    BY <1>1, <1>2, <1>15 DEF Homes
  <2> QED  BY <2>1, <2>2, <2>3, <2>4 DEF Homes
<1>18. Filed'
  <2>1. Idle' \cap DOMAIN m_freed' = {}  BY <1>1, <1>7, <1>16 DEF Idle
  <2>2. \A d \in Conn : Session(d)' => srvfd'[d] \notin DOMAIN m_freed'
    BY <1>1, <1>2, <1>3, <1>5, <1>6, <1>10, <1>16 DEF Filed
  <2> QED  BY <2>1, <2>2 DEF Filed
<1>19. MgrTypeOK'
  <2>1. DOMAIN m_used' \subseteq Fd /\ \A x \in DOMAIN m_used' : m_used'[x] \in Conn \cup {NULL}
    BY <1>2, <1>4, <1>5, <1>13 DEF MgrTypeOK
  <2>2. Idle' \subseteq Fd /\ \A k \in Idle' : m_conns'[k] \in Conn
    BY <1>2, <1>7 DEF MgrTypeOK, Idle
  <2>3. reported' \in Nat  BY <1>1, <2>1, FdFacts, FS_Subset, FS_CardinalityType
  <2>4. open' \subseteq Fd /\ gone' \subseteq open' /\ edge' \subseteq open' \cup {PIPE}
    BY <1>1, <1>2, <1>4 DEF MgrTypeOK
  <2> QED  BY <1>1, <1>2, <1>3, <1>9, <2>1, <2>2, <2>3, <2>4 DEF MgrTypeOK
<1>20. Batched'  BY <1>3 DEF Batched
<1> QED  BY <1>12, <1>14, <1>17, <1>18, <1>19, <1>20 DEF Inv

\* One round of recycle_conns: the conn it takes is in no other place, and the
\* number connect gives it belongs to nobody.
LEMMA RecycleInv == ASSUME Inv, Recycle PROVE Inv'
<1>2. MgrTypeOK /\ Batched /\ Current /\ SocketsOwned /\ Homes /\ Filed  BY DEF Inv
<1>0. PICK key \in todo : key = Lowest(todo)
  <2>1. todo \subseteq Nat /\ todo # {}  BY <1>2, FdFacts DEF MgrTypeOK, Recycle
  <2> QED  BY <2>1, LowestIs
<1>3. PICK c \in Conn : c = m_freed[key] /\ key \in DOMAIN m_freed  BY <1>2 DEF MgrTypeOK
<1>1. /\ todo # {} /\ todo' = todo \ {key} /\ Reconnect(c)
      /\ m_freed' = IF todo' = {} THEN <<>> ELSE m_freed
      /\ UNCHANGED <<m_used, cltfd, m_srv_closed, gone, edge, events, reported, clients>>
  BY <1>0, <1>3 DEF Recycle
<1>4. events = <<>> /\ Waiting = todo  BY <1>1, <1>2 DEF Batched, Waiting
<1>5. ~Session(c) /\ \A j \in Idle : m_conns[j] # c  BY <1>2, <1>3, <1>4 DEF Homes
<1>6. /\ Waiting' = todo \ {key}
      /\ \A k \in Waiting' : m_freed'[k] = m_freed[k] /\ m_freed[k] \in Conn \ {c}
  <2>1. Waiting' = todo \ {key}
    BY <1>1 DEF Waiting
  <2>2. \A k \in todo \ {key} : m_freed[k] \in Conn /\ m_freed[k] # c
    BY <1>2, <1>3, <1>4 DEF Homes, MgrTypeOK
  <2> QED  BY <1>1, <2>1, <2>2
<1>7. todo' \subseteq DOMAIN m_freed' /\ DOMAIN m_freed' \subseteq Fd
      /\ \A k \in DOMAIN m_freed' : m_freed'[k] \in Conn
  BY <1>1, <1>2 DEF MgrTypeOK
<1>8. Filed'
  BY <1>1 DEF Filed
<1>9. Batched'  BY <1>1, <1>4 DEF Batched
<1>10. \A d \in Conn : Session(d)' <=> Session(d)  BY <1>1 DEF Session
<1>11. CASE fails < MaxFail /\ fails' = fails + 1 /\ UNCHANGED <<srvfd, m_conns, open>>
  <2>1. SocketsOwned' /\ Current'
    BY <1>1, <1>2, <1>11 DEF SocketsOwned, Current, Owns, Session, Idle
  <2>2. \A k \in Waiting' : ~Session(m_freed[k])' /\ \A j \in Idle' : m_conns'[j] # m_freed'[k]
    BY <1>1, <1>2, <1>4, <1>6, <1>11 DEF Homes, Session, Idle
  <2>3. \A k, l \in Waiting' : m_freed'[k] = m_freed'[l] => k = l
    BY <1>2, <1>4, <1>6 DEF Homes
  <2>4. Homes'  BY <1>1, <1>2, <1>11, <2>2, <2>3 DEF Homes, Session, Idle
  <2>5. fails' \in 0..MaxFail  BY <1>2, <1>11, MgrAssumption DEF MgrTypeOK, MgrAssumption
  <2>6. MgrTypeOK'  BY <1>1, <1>2, <1>7, <1>11, <2>5 DEF MgrTypeOK, Idle
  <2> QED  BY <1>8, <1>9, <2>1, <2>4, <2>6 DEF Inv
<1>12. CASE /\ Fd \ open # {}
            /\ srvfd' = [srvfd EXCEPT ![c] = NewFd]
            /\ m_conns' = Insert(m_conns, NewFd, c)
            /\ open' = open \cup {NewFd}
            /\ UNCHANGED fails
  <2>1. PICK n \in Fd : n = NewFd /\ n \notin open  BY <1>12, FreeFd
  <2>2. n \notin Idle
    <3>1. n \in Idle => Owns(m_conns[n], n) /\ m_conns[n] \in Conn  BY <1>2 DEF Owns, MgrTypeOK
    <3> QED  BY <1>2, <2>1, <3>1 DEF SocketsOwned
  <2>3. /\ Idle' = Idle \cup {n} /\ m_conns'[n] = c
        /\ \A k \in Idle : m_conns'[k] = m_conns[k]
    BY <1>12, <2>1, <2>2 DEF Insert, Idle
  <2>4. srvfd'[c] = n /\ \A d \in Conn \ {c} : srvfd'[d] = srvfd[d]
        /\ srvfd' \in [Conn -> Fd \cup {NONE}]
    BY <1>2, <1>3, <1>12, <2>1 DEF MgrTypeOK
  <2>5. \A x \in Fd : /\ \A d \in Conn \ {c} : Owns(d, x)' <=> Owns(d, x)
                      /\ Owns(c, x)' <=> x = n
                      /\ ~Owns(c, x)
    <3>1. \A x \in Fd, d \in Conn \ {c} : Owns(d, x)' <=> Owns(d, x)
      <4>1. \A x \in Fd, d \in Conn \ {c} :
               (x \in Idle' /\ m_conns'[x] = d) <=> (x \in Idle /\ m_conns[x] = d)
        BY <2>2, <2>3
      <4> QED  BY <1>1, <1>10, <2>4, <4>1 DEF Owns
    <3>2. \A x \in Fd : Owns(c, x)' <=> x = n
      BY <1>3, <1>5, <1>10, <2>1, <2>3 DEF Owns
    <3>3. \A x \in Fd : ~Owns(c, x)  BY <1>5 DEF Owns
    <3> QED  BY <3>1, <3>2, <3>3
  <2>6. SocketsOwned'
    <3> SUFFICES ASSUME NEW x \in Fd
                 PROVE  /\ x \in open' <=> \E d \in Conn : Owns(d, x)'
                        /\ \A d, e \in Conn : Owns(d, x)' /\ Owns(e, x)' => d = e
      BY DEF SocketsOwned
    <3>1. x \in open <=> \E d \in Conn : Owns(d, x)  BY <1>2 DEF SocketsOwned
    <3>2. \A d, e \in Conn : Owns(d, x) /\ Owns(e, x) => d = e  BY <1>2 DEF SocketsOwned
    <3>3. x \in open' <=> x \in open \/ x = n  BY <1>12, <2>1
    <3> QED  BY <1>3, <2>1, <2>5, <3>1, <3>2, <3>3
  <2>7. Current'
    <3> SUFFICES ASSUME NEW x \in DOMAIN m_used, m_used[x] # NULL
                 PROVE  /\ x \in open' /\ Session(m_used[x])'
                        /\ x \in {cltfd[m_used[x]], srvfd'[m_used[x]]}
      BY <1>1 DEF Current
    <3>1. m_used[x] \in Conn /\ x \in open /\ Session(m_used[x])
          /\ x \in {cltfd[m_used[x]], srvfd[m_used[x]]}
      BY <1>2 DEF Current, MgrTypeOK
    <3>2. m_used[x] # c  BY <1>5, <3>1
    <3>3. srvfd'[m_used[x]] = srvfd[m_used[x]]  BY <2>4, <3>1, <3>2
    <3> QED  BY <1>1, <1>12, <3>1, <3>3 DEF Session
  <2>8. Homes'
    <3>1. \A k \in Idle' : srvfd'[m_conns'[k]] = k /\ ~Session(m_conns[k])'
      <4> SUFFICES ASSUME NEW k \in Idle' PROVE srvfd'[m_conns'[k]] = k /\ ~Session(m_conns[k])'
        OBVIOUS
      <4>1. CASE k = n  BY <1>1, <1>5, <2>3, <2>4, <4>1 DEF Session
      <4>2. CASE k # n
        <5>1. k \in Idle /\ m_conns'[k] = m_conns[k] /\ m_conns[k] \in Conn \ {c}
          BY <1>2, <1>5, <2>3, <4>2 DEF MgrTypeOK
        <5>2. srvfd[m_conns[k]] = k /\ ~Session(m_conns[k])  BY <1>2, <5>1 DEF Homes
        <5> QED  BY <1>1, <2>4, <5>1, <5>2 DEF Session
      <4> QED  BY <4>1, <4>2
    <3>2. \A d \in Conn : Session(d)' => srvfd'[d] \in Fd /\ srvfd'[d] # cltfd'[d]
      BY <1>1, <1>2, <1>5, <1>10, <2>4 DEF Homes
    <3>3. \A k \in Waiting' : ~Session(m_freed[k])' /\ \A j \in Idle' : m_conns'[j] # m_freed'[k]
      BY <1>1, <1>2, <1>4, <1>6, <2>3 DEF Homes, Session
    <3>4. \A k, l \in Waiting' : m_freed'[k] = m_freed'[l] => k = l
      BY <1>2, <1>4, <1>6 DEF Homes
    <3> QED  BY <3>1, <3>2, <3>3, <3>4 DEF Homes
  <2>9. MgrTypeOK'
    <3>1. Idle' \subseteq Fd /\ \A k \in Idle' : m_conns'[k] \in Conn
      BY <1>2, <1>3, <2>1, <2>3 DEF MgrTypeOK
    <3>2. open' \subseteq Fd /\ gone' \subseteq open' /\ edge' \subseteq open' \cup {PIPE}
      BY <1>1, <1>2, <1>12, <2>1 DEF MgrTypeOK
    <3> QED  BY <1>1, <1>2, <1>7, <1>12, <2>4, <3>1, <3>2 DEF MgrTypeOK
  <2> QED  BY <1>8, <1>9, <2>6, <2>7, <2>8, <2>9 DEF Inv
<1> QED  BY <1>1, <1>11, <1>12 DEF Reconnect

-----------------------------------------------------------------------------

\* The constructor connects some of the conns, each to a socket of its own.
LEMMA InitInv == MgrInit => Inv
<1> SUFFICES ASSUME MgrInit PROVE Inv  OBVIOUS
<1>1. PICK n \in 0..Cardinality(Conn) : \E s \in Orders(Conn) :
          /\ n <= NFd
          /\ m_conns = [fd \in 1..n |-> s[fd]]
          /\ srvfd = [c \in Conn |-> IF \E fd \in 1..n : s[fd] = c
                                     THEN CHOOSE fd \in 1..n : s[fd] = c ELSE NONE]
          /\ open = 1..n
          /\ fails = Cardinality(Conn) - n
  BY DEF MgrInit
<1>2. PICK s \in Orders(Conn) :
          /\ n <= NFd
          /\ m_conns = [fd \in 1..n |-> s[fd]]
          /\ srvfd = [c \in Conn |-> IF \E fd \in 1..n : s[fd] = c
                                     THEN CHOOSE fd \in 1..n : s[fd] = c ELSE NONE]
          /\ open = 1..n
          /\ fails = Cardinality(Conn) - n
  BY <1>1
<1>3. /\ fails <= MaxFail
      /\ m_used = <<>> /\ m_freed = <<>>
      /\ cltfd = [c \in Conn |-> NONE] /\ m_srv_closed = [c \in Conn |-> FALSE]
      /\ gone = {} /\ edge = {} /\ events = <<>> /\ todo = {}
      /\ reported = 0 /\ clients = 0
  BY DEF MgrInit
<1>4. Cardinality(Conn) \in Nat /\ NFd \in Nat /\ MaxClients \in Nat /\ MaxFail \in Nat
  BY MgrAssumption, FS_CardinalityType DEF MgrAssumption
<1>5. n \in Nat /\ n <= Cardinality(Conn) /\ 1..n \subseteq Fd
  BY <1>2, <1>4 DEF Fd
<1>6. /\ \A k \in 1..n : s[k] \in Conn
      /\ \A k, l \in 1..n : s[k] = s[l] => k = l
  BY <1>4, <1>5 DEF Orders
<1>7. Idle = 1..n /\ \A k \in Idle : m_conns[k] = s[k]  BY <1>2 DEF Idle
<1>8. \A k \in Idle : srvfd[m_conns[k]] = k
  <2> SUFFICES ASSUME NEW k \in 1..n PROVE srvfd[s[k]] = k  BY <1>7
  <2>1. \A l \in 1..n : s[l] = s[k] <=> l = k  BY <1>6
  <2> QED  BY <1>2, <1>6, <2>1
<1>9. srvfd \in [Conn -> Fd \cup {NONE}]
  <2> SUFFICES ASSUME NEW c \in Conn PROVE srvfd[c] \in Fd \cup {NONE}
    BY <1>2
  <2>1. CASE \E fd \in 1..n : s[fd] = c
    <3>1. (CHOOSE fd \in 1..n : s[fd] = c) \in 1..n  BY <2>1
    <3> QED  BY <1>2, <1>5, <2>1, <3>1
  <2>2. CASE ~\E fd \in 1..n : s[fd] = c  BY <1>2, <2>2
  <2> QED  BY <2>1, <2>2
<1>10. \A c \in Conn : ~Session(c)  BY <1>3 DEF Session
<1>11. SocketsOwned
  <2>1. \A c \in Conn, fd \in Fd : Owns(c, fd) <=> fd \in 1..n /\ s[fd] = c
    BY <1>7, <1>10 DEF Owns
  <2> QED  BY <1>2, <1>6, <2>1 DEF SocketsOwned
<1>12. Current  BY <1>3 DEF Current
<1>13. DOMAIN m_freed = {} /\ DOMAIN m_used = {}  BY <1>3
<1>14. Homes
  <2>1. Waiting = {}  BY <1>3, <1>13 DEF Waiting
  <2>2. \A k \in Idle : ~Session(m_conns[k])  BY <1>6, <1>7, <1>10
  <2> QED  BY <1>8, <1>10, <2>1, <2>2 DEF Homes
<1>15. Filed  BY <1>13 DEF Filed
<1>16. Batched  BY <1>3 DEF Batched
<1>17. MgrTypeOK
  <2>1. fails \in 0..MaxFail  BY <1>2, <1>3, <1>4, <1>5
  <2>2. {events[k] : k \in DOMAIN events} = {}  BY <1>3
  <2>3. Idle \subseteq Fd /\ \A fd \in Idle : m_conns[fd] \in Conn  BY <1>5, <1>6, <1>7
  <2>4. open \subseteq Fd  BY <1>2, <1>5
  <2>5. /\ cltfd \in [Conn -> Fd \cup {NONE}] /\ m_srv_closed \in [Conn -> BOOLEAN]
        /\ clients \in 0..MaxClients /\ reported \in Nat
    BY <1>3, <1>4
  <2> QED  BY <1>3, <1>9, <1>13, <2>1, <2>2, <2>3, <2>4, <2>5 DEF MgrTypeOK
<1> QED  BY <1>11, <1>12, <1>14, <1>15, <1>16, <1>17 DEF Inv

LEMMA NextInv == Inv /\ [MgrNext]_childVars => Inv'
<1> SUFFICES ASSUME Inv, [MgrNext]_childVars PROVE Inv'  OBVIOUS
<1>1. CASE Wait  BY <1>1, EpollWaitInv
<1>2. CASE Timeout  BY <1>2, TimeoutInv
<1>3. CASE Recycle  BY <1>3, RecycleInv
<1>4. CASE Reject  BY <1>4, RejectInv
<1>5. CASE Accept  BY <1>5, AcceptInv
<1>6. ASSUME NEW fd \in Fd, Unknown(fd) \/ CltEvent(fd) \/ SrvEvent(fd) PROVE Inv'
  BY <1>6, UnknownInv, CltEventInv, SrvEventInv
<1>7. CASE Notify  BY <1>7, NotifyInv
<1>8. ASSUME NEW fd \in Fd, Traffic(fd) \/ PeerGone(fd) PROVE Inv'
  BY <1>8, TrafficInv, PeerGoneInv
<1>9. CASE UNCHANGED childVars
  <2>1. /\ UNCHANGED <<m_conns, m_used, m_freed, cltfd, srvfd, m_srv_closed>>
        /\ UNCHANGED <<open, gone, edge, events, todo, reported, clients, fails>>
    BY <1>9 DEF childVars, mgrVars
  <2>2. MgrTypeOK' /\ Batched'  BY <2>1 DEF Inv, MgrTypeOK, Batched, Idle
  <2> QED  BY <2>1, <2>2, MapsKept DEF Inv
<1> QED  BY <1>1, <1>2, <1>3, <1>4, <1>5, <1>6, <1>7, <1>8, <1>9 DEF MgrNext, Child

LEMMA Invariant == MgrSpec => []Inv
BY InitInv, NextInv, PTL DEF MgrSpec

\* Every variable has its type, and no event is left for a closed descriptor.
THEOREM TypeCorrect == MgrSpec => []MgrTypeOK
BY Invariant, PTL DEF Inv

\* Every open socket belongs to one conn, whatever the order in which sessions
\* begin and end, connects fail and numbers are given out again.
THEOREM SocketsHaveOwners == MgrSpec => []SocketsOwned
BY Invariant, PTL DEF Inv

\* A conn that has noticed the end of its server is in the session it noticed it
\* in: nothing of an earlier session is left in m_srv_closed.
Noticed == \A c \in Conn : m_srv_closed[c] => Session(c) /\ srvfd[c] \in gone

LEMMA NoticedNext == Inv /\ Noticed /\ [MgrNext]_childVars => Noticed'
<1> SUFFICES ASSUME Inv, Noticed, [MgrNext]_childVars PROVE Noticed'  OBVIOUS
<1>1. MgrTypeOK /\ SocketsOwned /\ Current /\ Homes  BY DEF Inv
<1>2. CASE Recycle
  <2>1. PICK key \in todo : Reconnect(m_freed[key])
    <3>1. todo # {} /\ todo \subseteq Nat  BY <1>1, <1>2, FdFacts DEF Recycle, MgrTypeOK
    <3> QED  BY <1>2, <3>1, LowestIs DEF Recycle
  <2>2. m_freed[key] \in Conn /\ ~Session(m_freed[key])
    BY <1>1, <2>1 DEF MgrTypeOK, Homes, Waiting
  <2>3. UNCHANGED <<cltfd, m_srv_closed, gone>>  BY <1>2 DEF Recycle
  <2>4. \A c \in Conn : c # m_freed[key] => srvfd'[c] = srvfd[c]
    BY <1>1, <2>1 DEF Reconnect, MgrTypeOK
  <2> QED  BY <1>1, <2>2, <2>3, <2>4 DEF Noticed, Session
<1>3. CASE Accept
  <2>1. NewFd \in Fd  BY <1>3, FreeFd DEF Accept
  <2>2. /\ UNCHANGED <<srvfd, m_srv_closed, gone>>
        /\ cltfd' = [cltfd EXCEPT ![m_conns[Lowest(Idle)]] = NewFd]
    BY <1>3 DEF Accept
  <2>3. \A c \in Conn : Session(c) => Session(c)'
    BY <1>1, <2>1, <2>2, FdFacts DEF Session, MgrTypeOK
  <2> QED  BY <2>2, <2>3 DEF Noticed
<1>4. ASSUME NEW fd \in Fd, CltEvent(fd) PROVE Noticed'
  <2>1. PICK c : c = Lookup(fd)  OBVIOUS
  <2>2. c # NULL /\ cltfd[c] = fd  BY <1>4, <2>1 DEF CltEvent
  <2>3. c \in Conn  BY <1>1, <2>1, <2>2 DEF Lookup, MgrTypeOK
  <2>4. CASE free_conn(c) /\ UNCHANGED <<m_conns, srvfd>>
    <3>1. /\ gone' = gone \ {cltfd[c], srvfd[c]}
          /\ cltfd' = [cltfd EXCEPT ![c] = NONE] /\ m_srv_closed' = [m_srv_closed EXCEPT ![c] = FALSE]
      BY <2>4 DEF free_conn
    <3>2. Session(c) /\ srvfd[c] \in Fd
      BY <1>1, <1>4, <2>2, <2>3, FdFacts DEF Session, Homes
    <3>3. SUFFICES ASSUME NEW d \in Conn, m_srv_closed'[d] PROVE Session(d)' /\ srvfd'[d] \in gone'
      BY DEF Noticed
    <3>4. d # c /\ m_srv_closed[d]  BY <1>1, <2>3, <3>1, <3>3 DEF MgrTypeOK
    <3>5. Session(d) /\ srvfd[d] \in gone  BY <3>4 DEF Noticed
    <3>6. Session(d)'  BY <1>1, <3>1, <3>4, <3>5 DEF Session, MgrTypeOK
    <3>7. srvfd[d] \in Fd  BY <1>1, <3>5 DEF Homes
    <3>8. srvfd[d] \notin {cltfd[c], srvfd[c]}
      BY <1>1, <2>3, <3>2, <3>4, <3>5, <3>7 DEF SocketsOwned, Owns
    <3> QED  BY <2>4, <3>1, <3>5, <3>6, <3>8
  <2>5. CASE UNCHANGED <<mgrVars, gone>>
    BY <2>5 DEF Noticed, Session, mgrVars
  <2> QED  BY <1>4, <2>1, <2>4, <2>5 DEF CltEvent
<1>5. ASSUME NEW fd \in Fd, SrvEvent(fd) PROVE Noticed'
  <2>1. PICK c : c = Lookup(fd)  OBVIOUS
  <2>2. /\ c # NULL /\ srvfd[c] = fd /\ UNCHANGED <<cltfd, srvfd, gone>>
        /\ \/ m_srv_closed' = [m_srv_closed EXCEPT ![c] = TRUE] /\ fd \in gone
           \/ UNCHANGED m_srv_closed
    BY <1>5, <2>1 DEF SrvEvent
  <2>3. c \in Conn /\ Session(c)  BY <1>1, <2>1, <2>2 DEF Lookup, MgrTypeOK, Current
  <2> QED  BY <1>1, <2>2, <2>3 DEF Noticed, Session, MgrTypeOK
<1>6. CASE UNCHANGED <<cltfd, srvfd, m_srv_closed>> /\ gone \subseteq gone'
  BY <1>6 DEF Noticed, Session
<1> QED  BY <1>2, <1>3, <1>4, <1>5, <1>6
     DEF MgrNext, Child, Wait, Timeout, Reject, Unknown, Notify, Traffic, PeerGone, childVars, mgrVars

LEMMA NoticedHolds == MgrSpec => [](Inv /\ Noticed)
<1>1. MgrInit => Noticed  BY DEF MgrInit, Noticed
<1> QED  BY <1>1, InitInv, NextInv, NoticedNext, PTL DEF MgrSpec

\* No step ends a session whose two sockets are both still connected.
LEMMA EndNext ==
    Inv /\ Noticed /\ [MgrNext]_childVars
      => \A c \in Conn : Session(c) /\ cltfd'[c] = NONE => {cltfd[c], srvfd[c]} \cap gone # {}
<1> SUFFICES ASSUME Inv, Noticed, [MgrNext]_childVars, NEW c \in Conn, Session(c), cltfd'[c] = NONE
             PROVE  {cltfd[c], srvfd[c]} \cap gone # {}
  OBVIOUS
<1>1. MgrTypeOK  BY DEF Inv
<1>2. cltfd' # cltfd  BY DEF Session
<1>3. CASE Accept
  <2>1. NewFd \in Fd  BY <1>3, FreeFd DEF Accept
  <2>2. cltfd' = [cltfd EXCEPT ![m_conns[Lowest(Idle)]] = NewFd]  BY <1>3 DEF Accept
  <2> QED  BY <1>1, <2>1, <2>2, FdFacts DEF Session, MgrTypeOK
<1>4. ASSUME NEW fd \in Fd, CltEvent(fd) PROVE {cltfd[c], srvfd[c]} \cap gone # {}
  <2>1. PICK d : d = Lookup(fd)  OBVIOUS
  <2>2. d # NULL /\ cltfd[d] = fd  BY <1>4, <2>1 DEF CltEvent
  <2>3. d \in Conn  BY <1>1, <2>1, <2>2 DEF Lookup, MgrTypeOK
  <2>4. (fd \in gone \/ m_srv_closed[d]) /\ free_conn(d)
    BY <1>2, <1>4, <2>1 DEF CltEvent, mgrVars
  <2>5. cltfd' = [cltfd EXCEPT ![d] = NONE]  BY <2>4 DEF free_conn
  <2>6. c = d  BY <1>1, <2>3, <2>5 DEF Session, MgrTypeOK
  <2> QED  BY <2>2, <2>4, <2>6 DEF Noticed
<1> QED  BY <1>2, <1>3, <1>4
     DEF MgrNext, Child, Wait, Timeout, Recycle, Reject, Unknown, SrvEvent, Notify, Traffic,
         PeerGone, childVars, mgrVars

\* A session ends only when the remote end of one of the sockets it has now is
\* gone: nothing left of an earlier socket with the number ends it.
THEOREM SessionsEndForTheirOwn == MgrSpec => EndsForItsOwn
BY NoticedHolds, EndNext, PTL DEF MgrSpec, EndsForItsOwn

-----------------------------------------------------------------------------

(***************************************************************************)
(* ConnMgr implements ConnPool.                                            *)
(***************************************************************************)
IsIdle(c) == \E k \in Idle : m_conns[k] = c
IsFreed(c) == \E k \in Waiting : m_freed[k] = c
Sockets(c) == {fd \in Fd : Owns(c, fd)}

\* What the two maps and the freed set say of a conn.
Mapped ==
    \A c \in Conn :
       /\ Session(c) => Place(c) = "session" /\ Sockets(c) = {cltfd[c], srvfd[c]}
       /\ IsIdle(c) => Place(c) = "idle" /\ Sockets(c) = {srvfd[c]} /\ srvfd[c] \in Fd
       /\ IsFreed(c) => Place(c) = "freed" /\ Sockets(c) = {}
       /\ ~Session(c) /\ ~IsIdle(c) /\ ~IsFreed(c) => Place(c) = "lost" /\ Sockets(c) = {}

\* The refinement mapping in terms of the maps and the members of a conn.
LEMMA Mapping == Inv => Mapped
<1> SUFFICES ASSUME Inv, NEW c \in Conn
             PROVE
       /\ Session(c) => Place(c) = "session" /\ Sockets(c) = {cltfd[c], srvfd[c]}
       /\ IsIdle(c) => Place(c) = "idle" /\ Sockets(c) = {srvfd[c]} /\ srvfd[c] \in Fd
       /\ IsFreed(c) => Place(c) = "freed" /\ Sockets(c) = {}
       /\ ~Session(c) /\ ~IsIdle(c) /\ ~IsFreed(c) => Place(c) = "lost" /\ Sockets(c) = {}
  BY DEF Mapped
<1>1. MgrTypeOK /\ Homes  BY DEF Inv
<1>2. /\ IsIdle(c) => ~Session(c) /\ ~IsFreed(c) /\ srvfd[c] \in Idle /\ m_conns[srvfd[c]] = c
      /\ IsFreed(c) => ~Session(c) /\ ~IsIdle(c)
      /\ Session(c) => srvfd[c] \in Fd /\ cltfd[c] \in Fd
      /\ Idle \subseteq Fd
  BY <1>1 DEF Homes, MgrTypeOK, IsIdle, IsFreed, Session
<1>3. Place(c) = IF Session(c) THEN (IF IsIdle(c) \/ IsFreed(c) THEN "in two maps" ELSE "session")
                 ELSE IF IsIdle(c) THEN (IF IsFreed(c) THEN "in two maps" ELSE "idle")
                 ELSE IF IsFreed(c) THEN "freed" ELSE "lost"
  BY DEF Place, IsIdle, IsFreed, Waiting
<1>4. /\ Session(c) => Place(c) = "session"
      /\ IsIdle(c) => Place(c) = "idle"
      /\ IsFreed(c) => Place(c) = "freed"
      /\ ~Session(c) /\ ~IsIdle(c) /\ ~IsFreed(c) => Place(c) = "lost"
  BY <1>2, <1>3
<1>5. \A fd \in Idle : m_conns[fd] = c => fd = srvfd[c]  BY <1>1 DEF Homes
<1>6. /\ Session(c) => Sockets(c) = {cltfd[c], srvfd[c]}
      /\ ~Session(c) /\ ~IsIdle(c) => Sockets(c) = {}
  BY <1>2 DEF Sockets, Owns, IsIdle
<1>7. IsIdle(c) => Sockets(c) = {srvfd[c]}
  BY <1>2, <1>5 DEF Sockets, Owns
<1> QED  BY <1>2, <1>4, <1>6, <1>7

LEMMA MappingNext == Inv' => Mapped'
BY Mapping, PTL

\* A conn to which nothing happens.
LEMMA Unmoved ==
    ASSUME Inv, Inv', NEW c \in Conn,
           Session(c)' <=> Session(c), IsIdle(c)' <=> IsIdle(c), IsFreed(c)' <=> IsFreed(c),
           cltfd'[c] = cltfd[c], srvfd'[c] = srvfd[c] \/ (~Session(c) /\ ~IsIdle(c))
    PROVE  Place(c)' = Place(c) /\ Sockets(c)' = Sockets(c)
BY Mapping, MappingNext DEF Mapped

\* A step of ConnPool is what happens to one conn.
LEMMA PoolStep ==
    ASSUME NEW c \in Conn, \A d \in Conn \ {c} : Place(d)' = Place(d) /\ Sockets(d)' = Sockets(d),
           \/ Place(c) = "idle" /\ Place(c)' = "session"
              /\ \E fd \in Fd : (\A d \in Conn : fd \notin Sockets(d))
                                /\ Sockets(c)' = Sockets(c) \cup {fd}
           \/ Place(c) = "session" /\ Place(c)' = "freed" /\ Sockets(c)' = {}
           \/ Place(c) = "freed" /\ Place(c)' = "idle"
              /\ \E fd \in Fd : (\A d \in Conn : fd \notin Sockets(d)) /\ Sockets(c)' = {fd}
           \/ Place(c) = "freed" /\ Place(c)' = "lost" /\ Sockets(c)' = Sockets(c)
    PROVE  Pool!Next
<1> DEFINE at == [d \in Conn |-> Place(d)]
           sockets == [d \in Conn |-> {fd \in Fd : Owns(d, fd)}]
<1>1. at' = [at EXCEPT ![c] = Place(c)'] /\ at'[c] # at[c]  OBVIOUS
<1>2. sockets' = [sockets EXCEPT ![c] = Sockets(c)']  BY DEF Sockets
<1>3. \A fd \in Fd : (\A d \in Conn : fd \notin Sockets(d)) => fd \in Pool!Unused
  BY DEF Pool!Unused, Sockets
<1>4. CASE /\ Place(c) = "idle" /\ Place(c)' = "session"
           /\ \E fd \in Fd : (\A d \in Conn : fd \notin Sockets(d))
                             /\ Sockets(c)' = Sockets(c) \cup {fd}
  <2>1. PICK fd \in Pool!Unused : Sockets(c)' = Sockets(c) \cup {fd}  BY <1>3, <1>4
  <2>2. sockets' = [sockets EXCEPT ![c] = @ \cup {fd}]  BY <1>2, <2>1 DEF Sockets
  <2>3. Pool!Bind(c)  BY <1>1, <1>4, <2>2 DEF Pool!Bind, Pool!Moves
  <2> QED  BY <1>1, <2>3 DEF Pool!Next
<1>5. CASE Place(c) = "session" /\ Place(c)' = "freed" /\ Sockets(c)' = {}
  <2>1. Pool!Free(c)  BY <1>1, <1>2, <1>5 DEF Pool!Free, Pool!Moves
  <2> QED  BY <1>1, <2>1 DEF Pool!Next
<1>6. CASE /\ Place(c) = "freed" /\ Place(c)' = "idle"
           /\ \E fd \in Fd : (\A d \in Conn : fd \notin Sockets(d)) /\ Sockets(c)' = {fd}
  <2>1. PICK fd \in Pool!Unused : Sockets(c)' = {fd}  BY <1>3, <1>6
  <2>2. Pool!Reconnect(c)  BY <1>1, <1>2, <1>6, <2>1 DEF Pool!Reconnect, Pool!Moves
  <2> QED  BY <1>1, <2>2 DEF Pool!Next
<1>7. CASE Place(c) = "freed" /\ Place(c)' = "lost" /\ Sockets(c)' = Sockets(c)
  <2>1. sockets' = sockets  BY <1>2, <1>7 DEF Sockets
  <2>2. Pool!GiveUp(c)  BY <1>1, <1>7, <2>1 DEF Pool!GiveUp, Pool!Moves
  <2> QED  BY <1>1, <2>2 DEF Pool!Next
<1> QED  BY <1>4, <1>5, <1>6, <1>7

\* Where no conn moves, ConnPool stutters.
LEMMA PoolStutter ==
    ASSUME \A c \in Conn : Place(c)' = Place(c) /\ Sockets(c)' = Sockets(c)
    PROVE  UNCHANGED <<[c \in Conn |-> Place(c)], [c \in Conn |-> {fd \in Fd : Owns(c, fd)}]>>
BY DEF Sockets

\* Sockets of descriptors that are not open belong to nobody.
LEMMA ClosedFd ==
    ASSUME Inv, NEW fd \in Fd, fd \notin open, NEW c \in Conn
    PROVE  fd \notin Sockets(c)
BY DEF Inv, SocketsOwned, Sockets

LEMMA AcceptRefines == ASSUME Inv, Inv', Accept PROVE Pool!Next
<1>0. MgrTypeOK /\ Homes  BY DEF Inv
<1>1. PICK connfd \in Fd : connfd = NewFd /\ connfd \notin open  BY FreeFd DEF Accept
<1>2. PICK sfd \in Idle : sfd = Lowest(Idle)
  <2>1. Idle \subseteq Nat /\ Idle # {}  BY <1>0, FdFacts DEF MgrTypeOK, Accept
  <2> QED  BY <2>1, LowestIs
<1>3. PICK c \in Conn : c = m_conns[sfd]  BY <1>0 DEF MgrTypeOK
<1>4. /\ m_conns' = Keys({sfd}, m_conns) /\ cltfd' = [cltfd EXCEPT ![c] = connfd]
      /\ UNCHANGED <<m_freed, srvfd, todo>>
  BY <1>1, <1>2, <1>3 DEF Accept
<1>5. Idle' = Idle \ {sfd} /\ \A k \in Idle \ {sfd} : m_conns'[k] = m_conns[k]
  BY <1>4 DEF Keys, Idle
<1>6. cltfd'[c] = connfd /\ \A d \in Conn \ {c} : cltfd'[d] = cltfd[d]
  BY <1>0, <1>4 DEF MgrTypeOK
<1>7. Waiting' = Waiting  BY <1>4 DEF Waiting
<1>8. IsIdle(c) /\ Session(c)'  BY <1>1, <1>3, <1>6, FdFacts DEF IsIdle, Session
<1>9. \A d \in Conn \ {c} : Place(d)' = Place(d) /\ Sockets(d)' = Sockets(d)
  <2> SUFFICES ASSUME NEW d \in Conn \ {c}
               PROVE  Place(d)' = Place(d) /\ Sockets(d)' = Sockets(d)
    OBVIOUS
  <2>1. Session(d)' <=> Session(d)  BY <1>6 DEF Session
  <2>2. IsIdle(d)' <=> IsIdle(d)  BY <1>3, <1>5 DEF IsIdle
  <2>3. IsFreed(d)' <=> IsFreed(d)  BY <1>4, <1>7 DEF IsFreed
  <2> QED  BY <1>4, <1>6, <2>1, <2>2, <2>3, Unmoved
<1>10. /\ Place(c) = "idle" /\ Place(c)' = "session"
       /\ Sockets(c) = {srvfd[c]} /\ Sockets(c)' = {connfd, srvfd[c]}
  BY <1>4, <1>6, <1>8, Mapping, MappingNext DEF Mapped
<1>11. \A d \in Conn : connfd \notin Sockets(d)  BY <1>1, ClosedFd
<1> QED  BY <1>9, <1>10, <1>11, PoolStep

LEMMA RecycleRefines == ASSUME Inv, Inv', Recycle PROVE Pool!Next
<1>0. MgrTypeOK /\ Homes  BY DEF Inv
<1>1. PICK key \in todo : key = Lowest(todo)
  <2>1. todo \subseteq Nat /\ todo # {}  BY <1>0, FdFacts DEF MgrTypeOK, Recycle
  <2> QED  BY <2>1, LowestIs
<1>2. PICK c \in Conn : c = m_freed[key]  BY <1>0 DEF MgrTypeOK
<1>3. /\ todo' = todo \ {key} /\ Reconnect(c) /\ UNCHANGED cltfd
      /\ m_freed' = IF todo' = {} THEN <<>> ELSE m_freed
  BY <1>1, <1>2 DEF Recycle
<1>4. Waiting = todo /\ Waiting' = todo \ {key} /\ \A k \in Waiting' : m_freed'[k] = m_freed[k]
  BY <1>1, <1>3 DEF Waiting
<1>5. IsFreed(c) /\ ~IsFreed(c)' /\ \A d \in Conn \ {c} : IsFreed(d)' <=> IsFreed(d)
  BY <1>0, <1>1, <1>2, <1>4 DEF IsFreed, Homes
<1>6. ~Session(c) /\ ~IsIdle(c) /\ \A d \in Conn : Session(d)' <=> Session(d)
  BY <1>0, <1>1, <1>2, <1>3, <1>4 DEF Homes, IsIdle, Session
<1>7. CASE UNCHANGED <<srvfd, m_conns>>
  <2>1. \A d \in Conn : IsIdle(d)' <=> IsIdle(d)  BY <1>7 DEF IsIdle, Idle
  <2>2. \A d \in Conn \ {c} : Place(d)' = Place(d) /\ Sockets(d)' = Sockets(d)
    BY <1>3, <1>5, <1>6, <1>7, <2>1, Unmoved
  <2>3. Place(c) = "freed" /\ Place(c)' = "lost" /\ Sockets(c) = {} /\ Sockets(c)' = {}
    BY <1>5, <1>6, <2>1, Mapping, MappingNext DEF Mapped
  <2> QED  BY <2>2, <2>3, PoolStep
<1>8. CASE /\ Fd \ open # {} /\ srvfd' = [srvfd EXCEPT ![c] = NewFd]
           /\ m_conns' = Insert(m_conns, NewFd, c)
  <2>1. PICK n \in Fd : n = NewFd /\ n \notin open  BY <1>8, FreeFd
  <2>2. n \notin Idle
    <3>1. n \in Idle => Owns(m_conns[n], n) /\ m_conns[n] \in Conn  BY <1>0 DEF Owns, MgrTypeOK
    <3> QED  BY <2>1, <3>1 DEF Inv, SocketsOwned
  <2>3. /\ Idle' = Idle \cup {n} /\ m_conns'[n] = c
        /\ \A k \in Idle : m_conns'[k] = m_conns[k]
    BY <1>8, <2>1, <2>2 DEF Insert, Idle
  <2>4. srvfd'[c] = n /\ \A d \in Conn \ {c} : srvfd'[d] = srvfd[d]
    BY <1>0, <1>8, <2>1 DEF MgrTypeOK
  <2>5. IsIdle(c)' /\ \A d \in Conn \ {c} : IsIdle(d)' <=> IsIdle(d)
    BY <2>2, <2>3 DEF IsIdle
  <2>6. \A d \in Conn \ {c} : Place(d)' = Place(d) /\ Sockets(d)' = Sockets(d)
    BY <1>3, <1>5, <1>6, <2>4, <2>5, Unmoved
  <2>7. Place(c) = "freed" /\ Place(c)' = "idle" /\ Sockets(c)' = {n}
    BY <1>5, <2>4, <2>5, Mapping, MappingNext DEF Mapped
  <2>8. \A d \in Conn : n \notin Sockets(d)  BY <2>1, ClosedFd
  <2> QED  BY <2>6, <2>7, <2>8, PoolStep
<1> QED  BY <1>3, <1>7, <1>8 DEF Reconnect

LEMMA FreeRefines ==
    ASSUME Inv, Inv', NEW c \in Conn, Session(c), free_conn(c), todo = {},
           UNCHANGED <<m_conns, srvfd, todo>>
    PROVE  Pool!Next
<1>0. MgrTypeOK /\ Homes /\ Filed  BY DEF Inv
<1>1. /\ m_freed' = Insert(m_freed, srvfd[c], c) /\ cltfd' = [cltfd EXCEPT ![c] = NONE]
  BY DEF free_conn
<1>2. /\ DOMAIN m_freed' = DOMAIN m_freed \cup {srvfd[c]}
      /\ \A x \in DOMAIN m_freed : m_freed'[x] = m_freed[x]
      /\ m_freed'[srvfd[c]] = c
  BY <1>0, <1>1 DEF Insert, Filed
<1>3. Waiting = DOMAIN m_freed /\ Waiting' = DOMAIN m_freed'  BY DEF Waiting
<1>4. cltfd'[c] = NONE /\ \A d \in Conn \ {c} : cltfd'[d] = cltfd[d]  BY <1>0, <1>1 DEF MgrTypeOK
<1>5. IsFreed(c)' /\ \A d \in Conn \ {c} : IsFreed(d)' <=> IsFreed(d)
  BY <1>2, <1>3 DEF IsFreed
<1>6. \A d \in Conn \ {c} : Session(d)' <=> Session(d)  BY <1>4 DEF Session
<1>7. \A d \in Conn : IsIdle(d)' <=> IsIdle(d)  BY DEF IsIdle, Idle
<1>8. \A d \in Conn \ {c} : Place(d)' = Place(d) /\ Sockets(d)' = Sockets(d)
  BY <1>4, <1>5, <1>6, <1>7, Unmoved
<1>9. Place(c) = "session" /\ Place(c)' = "freed" /\ Sockets(c)' = {}
  BY <1>5, Mapping, MappingNext DEF Mapped
<1> QED  BY <1>8, <1>9, PoolStep

\* Each step of the child is one of the pool or changes nothing of it.
LEMMA StepRefines ==
    ASSUME Inv, Inv', [MgrNext]_childVars
    PROVE  Pool!Next \/ UNCHANGED <<[c \in Conn |-> Place(c)],
                                    [c \in Conn |-> {fd \in Fd : Owns(c, fd)}]>>
<1>1. CASE Accept  BY <1>1, AcceptRefines
<1>2. CASE Recycle  BY <1>2, RecycleRefines
<1>3. ASSUME NEW fd \in Fd, Handle(fd), NEW c \in Conn, free_conn(c), c = Lookup(fd), c # NULL,
             UNCHANGED <<m_conns, srvfd, todo>>
      PROVE  Pool!Next
  <2>1. fd \in DOMAIN m_used /\ c = m_used[fd]  BY <1>3 DEF Lookup
  <2>2. Session(c)  BY <1>3, <2>1 DEF Inv, Current
  <2>3. todo = {}  BY <1>3, EventTaken
  <2> QED  BY <1>3, <2>2, <2>3, FreeRefines
<1>4. CASE UNCHANGED <<m_conns, m_freed, cltfd, srvfd>> /\ Waiting' = Waiting
  <2>1. \A c \in Conn : /\ Session(c)' <=> Session(c)
                        /\ IsIdle(c)' <=> IsIdle(c)
                        /\ IsFreed(c)' <=> IsFreed(c)
    BY <1>4 DEF Session, IsIdle, IsFreed, Idle
  <2> QED  BY <1>4, <2>1, Unmoved, PoolStutter
<1>5. CASE Timeout
  <2>1. Waiting' = Waiting  BY <1>5 DEF Timeout, Waiting, mgrVars
  <2> QED  BY <1>4, <1>5, <2>1 DEF Timeout, mgrVars
<1>6. ASSUME NEW fd \in Fd, CltEvent(fd)
      PROVE  Pool!Next \/ UNCHANGED <<m_conns, m_freed, cltfd, srvfd, todo>>
  <2> DEFINE c == Lookup(fd)
  <2>1. CASE free_conn(c) /\ UNCHANGED <<m_conns, srvfd>>
    <3>1. Handle(fd) /\ c # NULL /\ UNCHANGED todo  BY <1>6 DEF CltEvent
    <3>2. c \in Conn  BY <3>1 DEF Lookup, Inv, MgrTypeOK
    <3> QED  BY <1>3, <2>1, <3>1, <3>2
  <2>2. CASE UNCHANGED mgrVars  BY <1>6, <2>2 DEF CltEvent, mgrVars
  <2> QED  BY <1>6, <2>1, <2>2 DEF CltEvent
<1>7. CASE UNCHANGED <<m_conns, m_freed, cltfd, srvfd, todo>>
  <2>1. Waiting' = Waiting  BY <1>7 DEF Waiting
  <2> QED  BY <1>4, <1>7, <2>1
<1>8. CASE \/ Wait \/ Reject \/ Notify \/ UNCHANGED childVars
           \/ \E fd \in Fd : Unknown(fd) \/ SrvEvent(fd) \/ Traffic(fd) \/ PeerGone(fd)
  <2>1. UNCHANGED <<m_conns, m_freed, cltfd, srvfd, todo>>
    BY <1>8 DEF Wait, Reject, Notify, Unknown, SrvEvent, Traffic, PeerGone, childVars, mgrVars
  <2> QED  BY <1>7, <2>1
<1> QED  BY <1>1, <1>2, <1>5, <1>6, <1>7, <1>8 DEF MgrNext, Child

LEMMA InitRefines == ASSUME MgrInit PROVE Pool!Init
<1>1. Inv  BY InitInv
<1>2. \A c \in Conn : ~Session(c) /\ ~IsFreed(c)
  BY DEF MgrInit, Session, IsFreed, Waiting
<1>3. \A c \in Conn : \/ Place(c) = "idle" /\ Sockets(c) = {srvfd[c]} /\ srvfd[c] \in Fd
                      \/ Place(c) = "lost" /\ Sockets(c) = {}
  BY <1>1, <1>2, Mapping DEF Mapped
<1>4. \A c, d \in Conn : Sockets(c) \cap Sockets(d) # {} => c = d
  BY <1>1 DEF Inv, SocketsOwned, Sockets
<1> DEFINE at == [c \in Conn |-> Place(c)]
           sockets == [c \in Conn |-> Sockets(c)]
<1>5. sockets = [c \in Conn |-> {fd \in Fd : Owns(c, fd)}]  BY DEF Sockets
<1>6. \A c \in Conn : at[c] = Place(c) /\ sockets[c] = Sockets(c)  OBVIOUS
<1> HIDE DEF at, sockets
<1>7. at \in [Conn -> {"idle", "lost"}]  BY <1>3 DEF at
<1>8. sockets \in [Conn -> {{}} \cup {{fd} : fd \in Fd}]  BY <1>3 DEF sockets
<1>9. \A c \in Conn : at[c] = "lost" <=> sockets[c] = {}  BY <1>3, <1>6
<1>10. \A c, d \in Conn : sockets[c] \cap sockets[d] # {} => c = d  BY <1>4, <1>6
<1> QED  BY <1>5, <1>7, <1>8, <1>9, <1>10 DEF Pool!Init, at

\* The three maps, the members of the conns and the descriptors implement the
\* life cycle of ConnPool: no conn is ever in two maps or takes a socket that
\* another one has.
THEOREM Implements == MgrSpec => ImplementsConnPool
<1>1. Inv /\ Inv' /\ [MgrNext]_childVars
        => [Pool!Next]_<<[c \in Conn |-> Place(c)], [c \in Conn |-> {fd \in Fd : Owns(c, fd)}]>>
  BY StepRefines
<1> QED  BY <1>1, InitRefines, Invariant, PTL DEF MgrSpec, ImplementsConnPool, Pool!Spec

=============================================================================
