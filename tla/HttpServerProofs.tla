--------------------------- MODULE HttpServerProofs ---------------------------
(***************************************************************************)
(* Theorems about HttpServer for any number of clients, workers and        *)
(* descriptors, and any lengths of buffers and answers.                    *)
(***************************************************************************)
EXTENDS HttpServer, TLAPS, FiniteSetTheorems, SequenceTheorems, WellFoundedInduction

Kinds == {"part", "keep", "close", "missing", "bad", "empty", "junk"}
Piece == [by : Client, kind : Kinds]
Events == {"HUP", "IN", "OUT"}

\* What TypeOK leaves open.
Types ==
    /\ backlog \in Seq(Client) /\ m_workqueue \in Seq(Fd)
    /\ m_sockfd \in [Fd -> Fd \cup {NONE}] /\ m_read_buf \in [Fd -> Seq(Piece)]
    /\ inbox \in [Client -> Seq(Piece)] /\ job \in [Worker -> Fd \cup {NONE}]
    /\ \A c \in Client : \A i \in DOMAIN inbox[c] : inbox[c][i].by = c

(***************************************************************************)
(* Where a connection is.                                                  *)
(***************************************************************************)
Armed(fd) == armed[fd] # "off"
Pending(fd) == \E e \in Events : <<fd, e>> \in batch
Listed(fd) == \E i \in DOMAIN m_workqueue : m_workqueue[i] = fd
Worked(fd) == \E w \in Worker : job[w] = fd
Held(fd) == Armed(fd) \/ Pending(fd) \/ writing = fd \/ Listed(fd) \/ Worked(fd)

OnceListed(fd) ==
    \A i, j \in DOMAIN m_workqueue : m_workqueue[i] = fd /\ m_workqueue[j] = fd => i = j

\* In no two places, and not twice in one.
Alone(fd) ==
    /\ \A d, e \in Events : <<fd, d>> \in batch /\ <<fd, e>> \in batch => d = e
    /\ OnceListed(fd)
    /\ \A v, w \in Worker : job[v] = fd /\ job[w] = fd => v = w
    /\ Armed(fd) => ~Pending(fd) /\ writing # fd /\ ~Listed(fd) /\ ~Worked(fd)
    /\ Pending(fd) => writing # fd /\ ~Listed(fd) /\ ~Worked(fd)
    /\ writing = fd => ~Listed(fd) /\ ~Worked(fd)
    /\ Listed(fd) => ~Worked(fd)

WorkedAt(fd, p) == \E w \in Worker : job[w] = fd /\ at[w] = p

\* A connection that is open knows its socket, and is somewhere unless the pool
\* refused it; one that is closed may be in the hands of the worker that
\* closed it, and nowhere else.
Kept(fd) ==
    IF fd \in Open
    THEN /\ m_sockfd[fd] = fd /\ (Held(fd) <=> fd \notin refused)
         /\ ~WorkedAt(fd, "reset")
    ELSE /\ fd \notin refused
         /\ ~Armed(fd) /\ ~Pending(fd) /\ writing # fd /\ ~Listed(fd)
         /\ \A p \in {"process", "armIn", "close"} : ~WorkedAt(fd, p)

\* How far the request of an open connection is, by the place it is in.
Waits(fd) == armed[fd] = "IN" \/ <<fd, "IN">> \in batch \/ WorkedAt(fd, "armIn")
Asks(fd) == Listed(fd) \/ WorkedAt(fd, "process") \/ fd \in refused
Fails(fd) == WorkedAt(fd, "close")
Answers(fd) == armed[fd] = "OUT" \/ <<fd, "OUT">> \in batch \/ writing = fd \/ WorkedAt(fd, "armOut")

Stage(fd) ==
    fd \in Open =>
        /\ \A i \in DOMAIN m_read_buf[fd] : m_read_buf[fd][i].by = sock[fd]
        /\ m_write_idx[fd] > 0 => process_read(fd) # NO_REQUEST
        /\ Waits(fd) => m_write_idx[fd] = 0 /\ process_read(fd) = NO_REQUEST
        /\ Asks(fd) => m_write_idx[fd] = 0
        /\ Fails(fd) => m_write_idx[fd] = HdrLen /\ process_read(fd) = "empty"
        /\ Answers(fd) => /\ m_write_idx[fd] = HdrLen
                          /\ m_linger[fd] = KeepAlive(process_read(fd))
        /\ <<fd, "HUP">> \in batch => sock[fd] \in fin

Good(fd) == Alone(fd) /\ Kept(fd) /\ Stage(fd)
Sound == ~raced => \A fd \in Fd : Good(fd)

Inv == TypeOK /\ Types /\ Sound

-----------------------------------------------------------------------------

LEMMA Constants ==
    /\ Fd \subseteq Nat /\ LISTEN \notin Fd /\ NONE \notin Fd /\ NOBODY \notin Client
    /\ HdrLen \in Nat /\ HdrLen > 0 /\ FileLen \in Nat /\ SockBuf \in Nat
    /\ READ_BUFFER_SIZE \in Nat /\ READ_BUFFER_SIZE > 0
    /\ \A c \in Client : Says[c] \subseteq Kinds
BY HttpAssumption DEF HttpAssumption, Fd, LISTEN, NONE, NOBODY, Kinds

LEMMA SmallestIs ==
    ASSUME NEW S, S \subseteq Nat, S # {}
    PROVE  Smallest(S) \in S
<1>1. PICK x \in S : \A y \in S : ~(<<y, x>> \in OpToRel(<, Nat))
  BY NatLessThanWellFounded, WFMin
<1>2. \A y \in S : x <= y
  <2> SUFFICES ASSUME NEW y \in S PROVE x <= y  OBVIOUS
  <2>1. x \in Nat /\ y \in Nat  OBVIOUS
  <2>2. ~(<<y, x>> \in OpToRel(<, Nat))  BY <1>1
  <2>3. ~(y < x)  BY <2>1, <2>2 DEF OpToRel
  <2> QED  BY <2>1, <2>3
<1> QED  BY <1>2 DEF Smallest

(***************************************************************************)
(* The types.                                                              *)
(***************************************************************************)
LEMMA InitTypes == Init => TypeOK /\ Types
<1> SUFFICES ASSUME Init PROVE TypeOK /\ Types  OBVIOUS
<1>1. 0 \in 0..MaxPieces /\ 0 \in 0..SockBuf
  BY Constants, HttpAssumption DEF HttpAssumption
<1>2. TypeOK
  <2>1. \A fd \in Fd : m_sockfd[fd] \in {fd, NONE} /\ Len(m_read_buf[fd]) <= READ_BUFFER_SIZE
    BY Constants DEF Init
  <2>2. /\ sock \in [Fd -> Client \cup {NOBODY}] /\ armed \in [Fd -> {"IN", "OUT", "off"}]
        /\ outbox \in [Client -> 0..SockBuf]
    BY <1>1 DEF Init
  <2>3. /\ lready \in BOOLEAN /\ m_linger \in [Fd -> BOOLEAN] /\ raced \in BOOLEAN
    BY DEF Init
  <2>4. /\ \A i \in DOMAIN backlog : backlog[i] \in Client
        /\ \A i \in DOMAIN m_workqueue : m_workqueue[i] \in Fd
    BY DEF Init
  <2>5. /\ at \in [Worker -> {"run", "process", "armIn", "armOut", "close", "reset"}]
        /\ \A w \in Worker : job[w] \in Fd \cup {NONE} /\ (job[w] = NONE <=> at[w] = "run")
    BY DEF Init
  <2>6. /\ batch \subseteq (Fd \X {"HUP", "IN", "OUT"}) \cup {<<LISTEN, "IN">>}
        /\ writing \in Fd \cup {NONE} /\ bytes_have_send \in Nat
        /\ m_write_idx \in [Fd -> Nat] /\ said \in 0..MaxPieces /\ refused \subseteq Fd
    BY <1>1 DEF Init
  <2> QED  BY <2>1, <2>2, <2>3, <2>4, <2>5, <2>6 DEF TypeOK
<1>3. Types  BY DEF Init, Types
<1> QED  BY <1>2, <1>3

LEMMA RemoveTypes ==
    ASSUME TypeOK, Types, NEW fd \in Fd, removefd(fd)
    PROVE  /\ sock' \in [Fd -> Client \cup {NOBODY}] /\ armed' \in [Fd -> {"IN", "OUT", "off"}]
           /\ inbox' \in [Client -> Seq(Piece)] /\ outbox' \in [Client -> 0..SockBuf]
           /\ \A c \in Client : \A i \in DOMAIN inbox'[c] : inbox'[c][i].by = c
BY Constants DEF removefd, TypeOK, Types

LEMMA CloseTypes ==
    ASSUME TypeOK, Types, NEW fd \in Fd, close_conn(fd)
    PROVE  /\ sock' \in [Fd -> Client \cup {NOBODY}] /\ armed' \in [Fd -> {"IN", "OUT", "off"}]
           /\ inbox' \in [Client -> Seq(Piece)] /\ outbox' \in [Client -> 0..SockBuf]
           /\ \A c \in Client : \A i \in DOMAIN inbox'[c] : inbox'[c][i].by = c
           /\ m_sockfd' \in [Fd -> Fd \cup {NONE}]
           /\ \A f \in Fd : m_sockfd'[f] \in {f, NONE}
<1>1. CASE m_sockfd[fd] = NONE
  BY <1>1 DEF close_conn, TypeOK, Types
<1>2. CASE m_sockfd[fd] # NONE
  <2>1. removefd(fd) /\ m_sockfd' = [m_sockfd EXCEPT ![fd] = NONE]  BY <1>2 DEF close_conn
  <2> QED  BY <2>1, RemoveTypes DEF TypeOK, Types
<1> QED  BY <1>1, <1>2

LEMMA ResetTypes ==
    ASSUME TypeOK, Types, NEW fd \in Fd, init(fd)
    PROVE  /\ m_linger' \in [Fd -> BOOLEAN] /\ m_write_idx' \in [Fd -> Nat]
           /\ m_read_buf' \in [Fd -> Seq(Piece)]
           /\ \A f \in Fd : Len(m_read_buf'[f]) <= READ_BUFFER_SIZE
BY Constants DEF init, TypeOK, Types

LEMMA ModTypes ==
    ASSUME TypeOK, NEW fd \in Fd, NEW ev \in {"IN", "OUT"}, modfd(fd, ev)
    PROVE  armed' \in [Fd -> {"IN", "OUT", "off"}]
BY DEF modfd, TypeOK

LEMMA TakenIs ==
    ASSUME TypeOK, Types, NEW fd \in Fd, CanWrite(fd)
    PROVE  /\ sock[fd] \in Client /\ Taken(fd) \in Nat /\ HaveSent(fd) \in Nat
           /\ outbox[sock[fd]] + Taken(fd) \in 0..SockBuf
<1>1. sock[fd] \in Client /\ outbox[sock[fd]] \in 0..SockBuf
  BY DEF CanWrite, Open, TypeOK
<1>2. m_iv(fd) \in Nat  BY Constants DEF m_iv, TypeOK
<1>3. Room(fd) \in Nat /\ outbox[sock[fd]] + Room(fd) = SockBuf  BY <1>1, Constants DEF Room
<1>4. Taken(fd) \in Nat /\ Taken(fd) <= Room(fd)  BY <1>2, <1>3 DEF Taken, Less
<1>5. bytes_have_send \in Nat  BY DEF TypeOK
<1> QED  BY <1>1, <1>3, <1>4, <1>5, Constants DEF HaveSent

LEMMA ClientTypes == ASSUME TypeOK, Types, Clients PROVE TypeOK' /\ Types'
<1> PICK c \in Client : Arrive(c) \/ Say(c) \/ Drain(c) \/ Stop(c)  BY DEF Clients
<1> USE DEF kernelVars, objectVars, mainVars, poolVars, historyVars
<1>1. CASE Arrive(c)
  <2>1. backlog' = Append(backlog, c) /\ backlog' \in Seq(Client)  BY <1>1 DEF Arrive, Types
  <2>2. \A i \in DOMAIN backlog' : backlog'[i] \in Client  BY <2>1
  <2> QED  BY <1>1, <2>1, <2>2 DEF Arrive, TypeOK, Types
<1>2. CASE Say(c)
  <2>1. PICK k \in Says[c] : inbox' = [inbox EXCEPT ![c] = Append(@, [by |-> c, kind |-> k])]
    BY <1>2 DEF Say
  <2> DEFINE p == [by |-> c, kind |-> k]
  <2>2. p \in Piece /\ p.by = c  BY <2>1, Constants DEF Piece
  <2> HIDE DEF p
  <2>3. inbox' = [inbox EXCEPT ![c] = Append(@, p)]  BY <2>1 DEF p
  <2>4. inbox' \in [Client -> Seq(Piece)]  BY <2>2, <2>3 DEF Types
  <2>5. \A i \in DOMAIN inbox'[c] : inbox'[c][i].by = c
    <3>1. inbox[c] \in Seq(Piece) /\ inbox'[c] = Append(inbox[c], p)  BY <2>3 DEF Types
    <3>2. \A i \in DOMAIN inbox[c] : inbox[c][i].by = c  BY DEF Types
    <3>3. \A i \in DOMAIN inbox'[c] : (i \in DOMAIN inbox[c] /\ inbox'[c][i] = inbox[c][i])
                                      \/ inbox'[c][i] = p
      BY <2>2, <3>1
    <3> QED  BY <2>2, <3>2, <3>3
  <2>6. \A d \in Client \ {c} : inbox'[d] = inbox[d]  BY <2>3 DEF Types
  <2>7. said' \in 0..MaxPieces  BY <1>2, HttpAssumption DEF Say, TypeOK, HttpAssumption
  <2>8. Types'  BY <1>2, <2>4, <2>5, <2>6 DEF Say, Types
  <2>9. UNCHANGED <<kernelVars, objectVars, mainVars, poolVars, arrived, outbox, fin, historyVars>>
    BY <1>2 DEF Say
  <2>10. TypeOK'  BY <2>7, <2>9 DEF TypeOK
  <2> QED  BY <2>8, <2>10
<1>3. CASE Drain(c)
  <2>1. outbox' \in [Client -> 0..SockBuf]  BY <1>3, Constants DEF Drain, TypeOK
  <2>2. UNCHANGED <<kernelVars, objectVars, mainVars, poolVars, arrived, inbox, said, fin, historyVars>>
    BY <1>3 DEF Drain
  <2>3. TypeOK'  BY <2>1, <2>2 DEF TypeOK
  <2>4. Types'  BY <2>2 DEF Types
  <2> QED  BY <2>3, <2>4
<1>4. CASE Stop(c)
  BY <1>4 DEF Stop, TypeOK, Types
<1> QED  BY <1>1, <1>2, <1>3, <1>4

LEMMA AcceptTypes ==
    ASSUME TypeOK, Types, Accept
    PROVE  /\ TypeOK' /\ Types'
           /\ \E connfd \in Fd \ Open :
                 /\ sock' = [sock EXCEPT ![connfd] = Head(backlog)]
                 /\ armed' = [armed EXCEPT ![connfd] = "IN"]
                 /\ m_sockfd' = [m_sockfd EXCEPT ![connfd] = connfd]
                 /\ init(connfd)
                 /\ raced' = (raced \/ \E w \in Worker : job[w] = connfd)
<1> DEFINE n == Smallest(Fd \ Open)
<1>1. n \in Fd \ Open
  <2>1. Fd \ Open # {} /\ Fd \ Open \subseteq Nat  BY Constants DEF Accept, Open
  <2> QED  BY <2>1, SmallestIs
<1> PICK connfd \in Fd \ Open : connfd = n  BY <1>1
<1>2. /\ sock' = [sock EXCEPT ![connfd] = Head(backlog)]
      /\ armed' = [armed EXCEPT ![connfd] = "IN"]
      /\ m_sockfd' = [m_sockfd EXCEPT ![connfd] = connfd]
      /\ init(connfd)
      /\ raced' = (raced \/ \E w \in Worker : job[w] = connfd)
  BY DEF Accept
<1>3. /\ m_linger' \in [Fd -> BOOLEAN] /\ m_write_idx' \in [Fd -> Nat]
      /\ m_read_buf' \in [Fd -> Seq(Piece)]
      /\ \A f \in Fd : Len(m_read_buf'[f]) <= READ_BUFFER_SIZE
  BY <1>2, ResetTypes
<1>4. backlog # <<>> /\ Head(backlog) \in Client /\ backlog' \in Seq(Client)
  BY DEF Accept, Types
<1>5. \A i \in DOMAIN backlog' : backlog'[i] \in Client  BY <1>4
<1>6. raced' \in BOOLEAN  BY <1>2 DEF TypeOK
<1>7. /\ sock' \in [Fd -> Client \cup {NOBODY}] /\ armed' \in [Fd -> {"IN", "OUT", "off"}]
      /\ m_sockfd' \in [Fd -> Fd \cup {NONE}] /\ \A f \in Fd : m_sockfd'[f] \in {f, NONE}
      /\ batch' \subseteq batch
  BY <1>2, <1>4 DEF TypeOK, Types, Accept, Event
<1>8. UNCHANGED <<lready, writing, bytes_have_send, m_workqueue, at, job>>
      /\ UNCHANGED <<arrived, inbox, outbox, said, fin, begun, refused>>
  BY DEF Accept, poolVars, clientVars
<1>9. TypeOK'
  BY <1>3, <1>5, <1>6, <1>7, <1>8 DEF TypeOK
<1>10. Types'
  BY <1>3, <1>4, <1>7, <1>8 DEF Types
<1> QED  BY <1>2, <1>9, <1>10

LEMMA ReadTypes == ASSUME TypeOK, Types, NEW fd \in Fd, Read(fd) PROVE TypeOK' /\ Types'
<1>1. /\ UNCHANGED <<backlog, lready, m_write_idx, m_linger, writing, bytes_have_send>>
      /\ UNCHANGED <<at, job, arrived, said, fin, begun, raced>>
      /\ batch' \subseteq batch
  BY DEF Read, Event
<1>2. CASE /\ CanRead(fd)
           /\ m_read_buf' = [m_read_buf EXCEPT ![fd] = @ \o inbox[sock[fd]]]
           /\ inbox' = [inbox EXCEPT ![sock[fd]] = <<>>]
           /\ append(fd)
           /\ UNCHANGED <<sock, armed, outbox, m_sockfd>>
  <2>1. sock[fd] \in Client  BY <1>2 DEF CanRead, Open, TypeOK
  <2>2. inbox[sock[fd]] \in Seq(Piece) /\ m_read_buf[fd] \in Seq(Piece)  BY <2>1 DEF Types
  <2>3. /\ m_read_buf[fd] \o inbox[sock[fd]] \in Seq(Piece)
        /\ Len(m_read_buf[fd] \o inbox[sock[fd]]) = Len(m_read_buf[fd]) + Len(inbox[sock[fd]])
    BY <2>2
  <2>4. m_read_buf' \in [Fd -> Seq(Piece)]  BY <1>2, <2>3 DEF Types
  <2>5. \A f \in Fd : Len(m_read_buf'[f]) <= READ_BUFFER_SIZE
    BY <1>2, <2>3 DEF CanRead, Fits, TypeOK, Types
  <2>6. inbox' \in [Client -> Seq(Piece)]
        /\ \A c \in Client : \A i \in DOMAIN inbox'[c] : inbox'[c][i].by = c
    BY <1>2, <2>1 DEF Types
  <2>7. m_workqueue' \in Seq(Fd) /\ refused' \subseteq Fd
    <3>1. CASE Len(m_workqueue) > max_requests
      BY <1>2, <3>1 DEF append, Types, TypeOK
    <3>2. CASE ~(Len(m_workqueue) > max_requests)
      <4>1. m_workqueue' = Append(m_workqueue, fd) /\ refused' = refused
        BY <1>2, <3>2 DEF append
      <4> QED  BY <4>1 DEF Types, TypeOK
    <3> QED  BY <3>1, <3>2
  <2>8. \A i \in DOMAIN m_workqueue' : m_workqueue'[i] \in Fd  BY <2>7
  <2>9. TypeOK'  BY <1>1, <1>2, <2>5, <2>7, <2>8 DEF TypeOK
  <2>10. Types'  BY <1>1, <1>2, <2>4, <2>6, <2>7 DEF Types
  <2> QED  BY <2>9, <2>10
<1>3. CASE close_conn(fd) /\ UNCHANGED <<m_read_buf, m_workqueue, refused>>
  <2>1. TypeOK'  BY <1>1, <1>3, CloseTypes DEF TypeOK
  <2>2. Types'  BY <1>1, <1>3, CloseTypes DEF Types
  <2> QED  BY <2>1, <2>2
<1> QED  BY <1>2, <1>3 DEF Read

LEMMA MainTypes == ASSUME TypeOK, Types, Main PROVE TypeOK' /\ Types'
<1> USE DEF kernelVars, objectVars, mainVars, poolVars, clientVars, historyVars
<1>1. CASE EpollWait
  <2> PICK ready : /\ ready = {fd \in Fd : Fires(fd) # {}}
                   /\ batch' = {r \in ready \X {"HUP", "IN", "OUT"} : r[2] \in Fires(r[1])}
                                  \cup (IF lready THEN {<<LISTEN, "IN">>} ELSE {})
                   /\ armed' = Reported(ready)
    BY <1>1 DEF EpollWait
  <2>1. batch' \subseteq (Fd \X {"HUP", "IN", "OUT"}) \cup {<<LISTEN, "IN">>}  OBVIOUS
  <2>2. armed' \in [Fd -> {"IN", "OUT", "off"}]  BY DEF Reported, TypeOK
  <2>3. lready' = FALSE /\ UNCHANGED <<backlog, sock, objectVars, writing, bytes_have_send>>
        /\ UNCHANGED <<poolVars, clientVars, historyVars>>
    BY <1>1 DEF EpollWait
  <2> QED  BY <2>1, <2>2, <2>3 DEF TypeOK, Types
<1>2. CASE AcceptFails  BY <1>2 DEF AcceptFails, Event, TypeOK, Types
<1>3. CASE Accept  BY <1>3, AcceptTypes
<1>4. CASE WriteFails
  <2>1. writing \in Fd  BY <1>4 DEF WriteFails, TypeOK
  <2>2. close_conn(writing)  BY <1>4 DEF WriteFails
  <2>3. bytes_have_send' = 0 /\ writing' = NONE
        /\ UNCHANGED <<backlog, lready, m_read_buf, m_write_idx, m_linger>>
        /\ UNCHANGED <<batch, poolVars, arrived, said, fin, historyVars>>
    BY <1>4 DEF WriteFails, LeaveWrite
  <2>4. TypeOK'  BY <2>1, <2>2, <2>3, CloseTypes DEF TypeOK
  <2>5. Types'  BY <2>1, <2>2, <2>3, CloseTypes DEF Types
  <2> QED  BY <2>4, <2>5
<1>5. CASE WriteBlocked
  <2>1. writing \in Fd  BY <1>5 DEF WriteBlocked, TypeOK
  <2>2. armed' \in [Fd -> {"IN", "OUT", "off"}]  BY <1>5, <2>1, ModTypes DEF WriteBlocked
  <2> QED  BY <1>5, <2>2 DEF WriteBlocked, LeaveWrite, TypeOK, Types
<1>6. CASE WriteOn
  <2> PICK fd \in Fd : fd = writing  BY <1>6 DEF WriteOn, TypeOK
  <2>1. CanWrite(fd)  BY <1>6 DEF WriteOn, WriteTakes
  <2>2. outbox' = [outbox EXCEPT ![sock[fd]] = @ + Taken(fd)] /\ bytes_have_send' = HaveSent(fd)
    BY <1>6 DEF WriteOn
  <2>3. outbox' \in [Client -> 0..SockBuf] /\ bytes_have_send' \in Nat
    BY <2>1, <2>2, TakenIs DEF TypeOK
  <2> QED  BY <1>6, <2>3 DEF WriteOn, TypeOK, Types
<1>7. CASE WriteDone
  <2> PICK fd \in Fd : fd = writing  BY <1>7 DEF WriteDone, TypeOK
  <2>1. CanWrite(fd) /\ Sent(fd) /\ writing' = NONE /\ bytes_have_send' = 0
        /\ UNCHANGED <<backlog, lready, batch, poolVars, arrived, said, fin, refused, raced>>
    BY <1>7 DEF WriteDone, WriteTakes, LeaveWrite
  <2>2. CASE /\ init(fd) /\ modfd(fd, "IN")
             /\ outbox' = [outbox EXCEPT ![sock[fd]] = @ + Taken(fd)]
             /\ UNCHANGED <<sock, inbox, m_sockfd>>
    <3>1. outbox' \in [Client -> 0..SockBuf]  BY <2>1, <2>2, TakenIs DEF TypeOK
    <3>2. armed' \in [Fd -> {"IN", "OUT", "off"}]  BY <2>2, ModTypes
    <3>3. TypeOK'  BY <2>1, <2>2, <3>1, <3>2, ResetTypes DEF TypeOK
    <3>4. Types'  BY <2>1, <2>2, ResetTypes DEF Types
    <3> QED  BY <3>3, <3>4
  <2>3. CASE close_conn(fd) /\ UNCHANGED <<m_read_buf, m_write_idx, m_linger>>
    <3>1. TypeOK'  BY <2>1, <2>3, CloseTypes DEF TypeOK
    <3>2. Types'  BY <2>1, <2>3, CloseTypes DEF Types
    <3> QED  BY <3>1, <3>2
  <2> QED  BY <2>1, <2>2, <2>3 DEF Sent
<1>8. ASSUME NEW fd \in Fd, Hangup(fd)
      PROVE  TypeOK' /\ Types'
  <2>1. close_conn(fd) /\ batch' \subseteq batch
        /\ UNCHANGED <<backlog, lready, m_read_buf, m_write_idx, m_linger>>
        /\ UNCHANGED <<writing, bytes_have_send, poolVars, arrived, said, fin, historyVars>>
    BY <1>8 DEF Hangup, Event
  <2>2. TypeOK'  BY <2>1, CloseTypes DEF TypeOK
  <2>3. Types'  BY <2>1, CloseTypes DEF Types
  <2> QED  BY <2>2, <2>3
<1>9. ASSUME NEW fd \in Fd, Read(fd)
      PROVE  TypeOK' /\ Types'
  BY <1>9, ReadTypes
<1>10. ASSUME NEW fd \in Fd, WriteNothing(fd)
       PROVE  TypeOK' /\ Types'
  <2>1. init(fd) /\ modfd(fd, "IN") /\ batch' \subseteq batch
        /\ UNCHANGED <<backlog, lready, sock, m_sockfd, writing, bytes_have_send>>
        /\ UNCHANGED <<poolVars, clientVars, historyVars>>
    BY <1>10 DEF WriteNothing, Event
  <2>2. armed' \in [Fd -> {"IN", "OUT", "off"}]  BY <2>1, ModTypes
  <2>3. TypeOK'  BY <2>1, <2>2, ResetTypes DEF TypeOK
  <2>4. Types'  BY <2>1, ResetTypes DEF Types
  <2> QED  BY <2>3, <2>4
<1>11. ASSUME NEW fd \in Fd, Write(fd)
       PROVE  TypeOK' /\ Types'
  BY <1>11 DEF Write, Event, TypeOK, Types
<1> QED  BY <1>1, <1>2, <1>3, <1>4, <1>5, <1>6, <1>7, <1>8, <1>9, <1>10, <1>11 DEF Main

LEMMA WorkerTypes ==
    ASSUME TypeOK, Types, NEW w \in Worker, Take(w) \/ process(w)
    PROVE  TypeOK' /\ Types'
<1> USE DEF kernelVars, objectVars, mainVars, poolVars, clientVars, historyVars
<1>1. CASE Take(w)
  <2>1. Head(m_workqueue) \in Fd /\ m_workqueue' \in Seq(Fd)  BY <1>1 DEF Take, Types
  <2>2. \A i \in DOMAIN m_workqueue' : m_workqueue'[i] \in Fd  BY <2>1
  <2>3. Types'  BY <1>1, <2>1 DEF Take, Types
  <2>4. \A v \in Worker : job'[v] \in Fd \cup {NONE} /\ (job'[v] = NONE <=> at'[v] = "run")
    BY <1>1, <2>1, Constants DEF Take, Step, TypeOK, Types
  <2>5. at' \in [Worker -> {"run", "process", "armIn", "armOut", "close", "reset"}]
    BY <1>1 DEF Take, Step, TypeOK
  <2> QED  BY <1>1, <2>2, <2>3, <2>4, <2>5 DEF Take, TypeOK
<1>2. ASSUME process(w)
      PROVE  job[w] \in Fd
  BY <1>2 DEF process, NeedsMore, Answer, Close, Reset, Arm, Step, TypeOK
<1>3. CASE NeedsMore(w)  BY <1>3 DEF NeedsMore, Step, TypeOK, Types
<1>4. CASE Answer(w)
  <2> PICK fd \in Fd : fd = job[w]  BY <1>2, <1>4 DEF process
  <2>1. m_linger' = [m_linger EXCEPT ![fd] = KeepAlive(process_read(fd))]
        /\ m_write_idx' = [m_write_idx EXCEPT ![fd] = @ + HdrLen]
    BY <1>4 DEF Answer
  <2>2. m_linger' \in [Fd -> BOOLEAN]  BY <2>1 DEF TypeOK, KeepAlive
  <2>3. m_write_idx' \in [Fd -> Nat]  BY <2>1, Constants DEF TypeOK
  <2>4. at' \in [Worker -> {"run", "process", "armIn", "armOut", "close", "reset"}]
        /\ \A v \in Worker : job[v] = NONE <=> at'[v] = "run"
    BY <1>4 DEF Answer, Step, TypeOK
  <2> QED  BY <1>4, <2>2, <2>3, <2>4 DEF Answer, TypeOK, Types
<1>5. CASE Close(w)
  <2> PICK fd \in Fd : fd = job[w]  BY <1>2, <1>5 DEF process
  <2>1. /\ sock' \in [Fd -> Client \cup {NOBODY}] /\ armed' \in [Fd -> {"IN", "OUT", "off"}]
        /\ inbox' \in [Client -> Seq(Piece)] /\ outbox' \in [Client -> 0..SockBuf]
        /\ \A c \in Client : \A i \in DOMAIN inbox'[c] : inbox'[c][i].by = c
    <3>1. CASE m_sockfd[fd] # NONE  BY <1>5, <3>1, RemoveTypes DEF Close
    <3>2. CASE m_sockfd[fd] = NONE  BY <1>5, <3>2 DEF Close, TypeOK, Types
    <3> QED  BY <3>1, <3>2
  <2>2. at' \in [Worker -> {"run", "process", "armIn", "armOut", "close", "reset"}]
        /\ \A v \in Worker : job[v] = NONE <=> at'[v] = "run"
    BY <1>5 DEF Close, Step, TypeOK
  <2> QED  BY <1>5, <2>1, <2>2 DEF Close, TypeOK, Types
<1>6. CASE Reset(w)
  <2>1. m_sockfd' \in [Fd -> Fd \cup {NONE}] /\ \A f \in Fd : m_sockfd'[f] \in {f, NONE}
    BY <1>6 DEF Reset, TypeOK, Types
  <2>2. at' \in [Worker -> {"run", "process", "armIn", "armOut", "close", "reset"}]
        /\ \A v \in Worker : job[v] = NONE <=> at'[v] = "run"
    BY <1>6 DEF Reset, Step, TypeOK
  <2> QED  BY <1>6, <2>1, <2>2 DEF Reset, TypeOK, Types
<1>7. CASE Arm(w)
  <2> PICK fd \in Fd : fd = job[w]  BY <1>2, <1>7 DEF process
  <2>1. armed' \in [Fd -> {"IN", "OUT", "off"}]  BY <1>7, ModTypes DEF Arm
  <2>2. at' \in [Worker -> {"run", "process", "armIn", "armOut", "close", "reset"}]
        /\ job' \in [Worker -> Fd \cup {NONE}]
        /\ \A v \in Worker : job'[v] \in Fd \cup {NONE} /\ (job'[v] = NONE <=> at'[v] = "run")
    BY <1>7 DEF Arm, Step, TypeOK, Types
  <2> QED  BY <1>7, <2>1, <2>2 DEF Arm, TypeOK, Types
<1> QED  BY <1>1, <1>3, <1>4, <1>5, <1>6, <1>7 DEF process

LEMMA NextTypes == ASSUME TypeOK, Types, [Next]_vars PROVE TypeOK' /\ Types'
<1>1. CASE UNCHANGED vars
  BY <1>1 DEF vars, kernelVars, objectVars, mainVars, poolVars, clientVars, historyVars, TypeOK, Types
<1> QED  BY <1>1, ClientTypes, MainTypes, WorkerTypes DEF Next

-----------------------------------------------------------------------------

(***************************************************************************)
(* Where a connection is, and what a step does to those it is not about.   *)
(***************************************************************************)
LEMMA EmptyBuffer == ASSUME NEW fd, m_read_buf'[fd] = <<>> PROVE process_read(fd)' = NO_REQUEST
BY DEF process_read, NO_REQUEST

LEMMA SameBuffer ==
    ASSUME NEW fd, m_read_buf'[fd] = m_read_buf[fd]
    PROVE  process_read(fd)' = process_read(fd)
BY DEF process_read

\* The places a connection is in are the same after a step.
SamePlaces(fd) ==
    /\ armed'[fd] = armed[fd] /\ (writing' = fd <=> writing = fd)
    /\ \A e \in Events : <<fd, e>> \in batch' <=> <<fd, e>> \in batch
    /\ (Listed(fd)' <=> Listed(fd)) /\ (OnceListed(fd) => OnceListed(fd)')
    /\ \A w \in Worker : (job'[w] = fd <=> job[w] = fd) /\ (job[w] = fd => at'[w] = at[w])
    /\ fd \in refused' <=> fd \in refused

SameObject(fd) ==
    /\ sock'[fd] = sock[fd] /\ m_sockfd'[fd] = m_sockfd[fd] /\ m_read_buf'[fd] = m_read_buf[fd]
    /\ m_write_idx'[fd] = m_write_idx[fd] /\ m_linger'[fd] = m_linger[fd] /\ fin \subseteq fin'

LEMMA Untouched ==
    ASSUME NEW fd \in Fd, Good(fd), SamePlaces(fd), SameObject(fd)
    PROVE  Good(fd)'
<1>1. /\ Armed(fd)' <=> Armed(fd)
      /\ Pending(fd)' <=> Pending(fd)
      /\ Worked(fd)' <=> Worked(fd)
      /\ \A p : WorkedAt(fd, p)' <=> WorkedAt(fd, p)
      /\ fd \in Open' <=> fd \in Open
  BY DEF SamePlaces, SameObject, Armed, Pending, Worked, WorkedAt, Open
<1>2. Held(fd)' <=> Held(fd)
  BY <1>1 DEF SamePlaces, Held
<1>3. Alone(fd)'
  BY <1>1 DEF Good, Alone, SamePlaces
<1>4. Kept(fd)'
  BY <1>1, <1>2 DEF Good, Kept, SamePlaces, SameObject
<1>5. /\ Waits(fd)' <=> Waits(fd)
      /\ Asks(fd)' <=> Asks(fd)
      /\ Fails(fd)' <=> Fails(fd)
      /\ Answers(fd)' <=> Answers(fd)
      /\ <<fd, "HUP">> \in batch' <=> <<fd, "HUP">> \in batch
  BY <1>1 DEF SamePlaces, Waits, Asks, Fails, Answers, Events
<1>6. Stage(fd)'
  BY <1>1, <1>5, SameBuffer DEF Good, Stage, SameObject
<1> QED  BY <1>3, <1>4, <1>6 DEF Good

\* A list that stays as it is.
LEMMA SameList ==
    ASSUME m_workqueue' = m_workqueue, NEW fd
    PROVE  (Listed(fd)' <=> Listed(fd)) /\ (OnceListed(fd)' <=> OnceListed(fd))
BY DEF Listed, OnceListed

LEMMA Appended ==
    ASSUME Types, NEW fd \in Fd, m_workqueue' = Append(m_workqueue, fd)
    PROVE  /\ \A f \in Fd \ {fd} : (Listed(f)' <=> Listed(f)) /\ (OnceListed(f) => OnceListed(f)')
           /\ Listed(fd)' /\ (~Listed(fd) => OnceListed(fd)')
<1> DEFINE n == Len(m_workqueue)
<1>1. m_workqueue \in Seq(Fd) /\ n \in Nat /\ DOMAIN m_workqueue = 1..n  BY DEF Types
<1>2. /\ DOMAIN m_workqueue' = 1..(n + 1) /\ m_workqueue'[n + 1] = fd
      /\ \A i \in 1..n : m_workqueue'[i] = m_workqueue[i]
  BY <1>1
<1> HIDE DEF n
<1>3. \A f \in Fd \ {fd} : \A i \in 1..(n + 1) : m_workqueue'[i] = f => i \in 1..n
  BY <1>1, <1>2
<1>4. 1..n \subseteq 1..(n + 1) /\ n + 1 \in 1..(n + 1)  BY <1>1
<1>5. \A i \in 1..(n + 1) : i \in 1..n \/ i = n + 1  BY <1>1
<1> QED  BY <1>1, <1>2, <1>3, <1>4, <1>5 DEF Listed, OnceListed

LEMMA Removed ==
    ASSUME Types, m_workqueue # <<>>, m_workqueue' = Tail(m_workqueue),
           NEW fd, fd = Head(m_workqueue)
    PROVE  /\ \A f \in Fd \ {fd} : (Listed(f)' <=> Listed(f)) /\ (OnceListed(f) => OnceListed(f)')
           /\ fd \in Fd /\ Listed(fd) /\ (OnceListed(fd) => ~Listed(fd)')
<1> DEFINE n == Len(m_workqueue)
<1>1. /\ m_workqueue \in Seq(Fd) /\ n \in Nat /\ n > 0 /\ DOMAIN m_workqueue = 1..n
      /\ fd = m_workqueue[1] /\ fd \in Fd
  BY DEF Types
<1>2. /\ DOMAIN m_workqueue' = 1..(n - 1)
      /\ \A i \in 1..(n - 1) : m_workqueue'[i] = m_workqueue[i + 1]
  BY <1>1
<1> HIDE DEF n
<1>3. /\ \A i \in 1..(n - 1) : i + 1 \in 1..n /\ i + 1 # 1
      /\ \A i \in 1..n : i = 1 \/ \E j \in 1..(n - 1) : j + 1 = i
      /\ 1 \in 1..n /\ \A i, j \in 1..(n - 1) : i + 1 = j + 1 => i = j
  <2>1. \A i \in 1..n : i = 1 \/ (i - 1 \in 1..(n - 1) /\ (i - 1) + 1 = i)  BY <1>1
  <2> QED  BY <1>1, <2>1
<1>4. ASSUME NEW f \in Fd, f # fd
      PROVE  Listed(f)' <=> Listed(f)
  <2>1. ASSUME NEW i \in 1..n, m_workqueue[i] = f
        PROVE  \E j \in 1..(n - 1) : m_workqueue'[j] = f
    <3>1. PICK j \in 1..(n - 1) : j + 1 = i  BY <1>1, <1>3, <1>4, <2>1
    <3> QED  BY <1>2, <2>1, <3>1
  <2>2. ASSUME NEW j \in 1..(n - 1), m_workqueue'[j] = f
        PROVE  \E i \in 1..n : m_workqueue[i] = f
    BY <1>2, <1>3, <2>2
  <2> QED  BY <1>1, <1>2, <2>1, <2>2 DEF Listed
<1>5. \A f \in Fd \ {fd} : OnceListed(f) => OnceListed(f)'
  BY <1>1, <1>2, <1>3 DEF OnceListed
<1>6. Listed(fd)  BY <1>1, <1>3 DEF Listed
<1>7. OnceListed(fd) => ~Listed(fd)'
  <2> SUFFICES ASSUME OnceListed(fd), NEW j \in 1..(n - 1), m_workqueue'[j] = fd
               PROVE  FALSE
    BY <1>2 DEF Listed
  <2>1. j + 1 \in 1..n /\ m_workqueue[j + 1] = fd /\ j + 1 # 1  BY <1>2, <1>3
  <2> QED  BY <1>1, <1>3, <2>1 DEF OnceListed
<1> QED  BY <1>1, <1>4, <1>5, <1>6, <1>7

\* What a worker has in hand is where that worker is.
LEMMA InHand ==
    ASSUME NEW fd \in Fd, Alone(fd), NEW w \in Worker, job[w] = fd
    PROVE  /\ Worked(fd) /\ ~Armed(fd) /\ ~Pending(fd) /\ writing # fd /\ ~Listed(fd)
           /\ \A p : WorkedAt(fd, p) <=> at[w] = p
BY DEF Alone, Worked, WorkedAt

\* A closed connection that is nowhere.
LEMMA Gone ==
    ASSUME NEW fd \in Fd, fd \notin Open', ~Held(fd)', fd \notin refused'
    PROVE  Good(fd)'
BY DEF Good, Alone, Kept, Stage, Held, Listed, OnceListed, Worked, WorkedAt, Pending

\* An open connection that is in the epoll set, and nowhere else.
Requests(fd) ==
    /\ \A i \in DOMAIN m_read_buf[fd] : m_read_buf[fd][i].by = sock[fd]
    /\ armed[fd] = "IN" => m_write_idx[fd] = 0 /\ process_read(fd) = NO_REQUEST
    /\ armed[fd] = "OUT" => /\ m_write_idx[fd] = HdrLen /\ process_read(fd) # NO_REQUEST
                            /\ m_linger[fd] = KeepAlive(process_read(fd))

LEMMA NowArmed ==
    ASSUME NEW fd \in Fd, fd \in Open', m_sockfd'[fd] = fd, fd \notin refused',
           armed'[fd] \in {"IN", "OUT"}, ~Pending(fd)', writing' # fd, ~Listed(fd)', ~Worked(fd)',
           Requests(fd)'
    PROVE  Good(fd)'
<1>1. Armed(fd)' /\ Held(fd)'  BY DEF Armed, Held
<1>2. OnceListed(fd)'  BY DEF OnceListed, Listed
<1>3. Alone(fd)'  BY <1>2 DEF Alone, Pending, Worked
<1>4. \A p : ~WorkedAt(fd, p)'  BY DEF Worked, WorkedAt
<1>5. Kept(fd)'  BY <1>1, <1>4 DEF Kept
<1>6. \A e \in Events : <<fd, e>> \notin batch'  BY DEF Pending
<1>7. /\ Waits(fd)' => armed'[fd] = "IN"
      /\ Answers(fd)' => armed'[fd] = "OUT"
      /\ ~Asks(fd)' /\ ~Fails(fd)' /\ <<fd, "HUP">> \notin batch'
  BY <1>4, <1>6 DEF Waits, Answers, Asks, Fails, Events
<1>8. Stage(fd)'  BY <1>7, Constants DEF Stage, Requests
<1> QED  BY <1>3, <1>5, <1>8 DEF Good

LEMMA EventTaken ==
    ASSUME TypeOK, NEW fd \in Fd, NEW e \in Events, Good(fd), Event(fd, e)
    PROVE  /\ fd \in Open /\ m_sockfd[fd] = fd /\ fd \notin refused
           /\ ~Armed(fd) /\ writing = NONE /\ ~Listed(fd) /\ ~Worked(fd)
           /\ ~Pending(fd)' /\ <<fd, e>> \in batch
           /\ \A f \in Fd \ {fd}, d \in Events : <<f, d>> \in batch' <=> <<f, d>> \in batch
<1>1. writing = NONE /\ <<fd, e>> \in batch /\ batch' = batch \ {<<fd, e>>}  BY DEF Event
<1>2. Pending(fd)  BY <1>1 DEF Pending
<1>3. ~Armed(fd) /\ ~Listed(fd) /\ ~Worked(fd)  BY <1>2 DEF Good, Alone
<1>4. Held(fd)  BY <1>2 DEF Held
<1>5. fd \in Open /\ m_sockfd[fd] = fd /\ fd \notin refused  BY <1>2, <1>4 DEF Good, Kept
<1>6. \A d \in Events : <<fd, d>> \in batch => d = e  BY <1>1 DEF Good, Alone
<1>7. ~Pending(fd)'  BY <1>1, <1>6 DEF Pending
<1>8. \A f \in Fd \ {fd}, d \in Events : <<f, d>> \in batch' <=> <<f, d>> \in batch  BY <1>1
<1> QED  BY <1>1, <1>3, <1>5, <1>7, <1>8

LEMMA MainCloses ==
    ASSUME TypeOK, Types, NEW fd \in Fd, fd \in Open, m_sockfd[fd] = fd, close_conn(fd)
    PROVE  /\ fd \notin Open' /\ ~Armed(fd)'
           /\ \A f \in Fd \ {fd} : /\ sock'[f] = sock[f] /\ armed'[f] = armed[f]
                                   /\ m_sockfd'[f] = m_sockfd[f]
<1>1. removefd(fd) /\ m_sockfd' = [m_sockfd EXCEPT ![fd] = NONE]
  BY Constants DEF close_conn
<1> QED  BY <1>1 DEF removefd, Open, Armed, TypeOK, Types

LEMMA Resets ==
    ASSUME TypeOK, Types, NEW fd \in Fd, init(fd)
    PROVE  /\ m_read_buf'[fd] = <<>> /\ m_write_idx'[fd] = 0
           /\ \A f \in Fd \ {fd} : /\ m_read_buf'[f] = m_read_buf[f]
                                   /\ m_write_idx'[f] = m_write_idx[f] /\ m_linger'[f] = m_linger[f]
BY DEF init, TypeOK, Types

LEMMA Arms ==
    ASSUME TypeOK, Types, NEW fd \in Fd, NEW ev \in {"IN", "OUT"}, modfd(fd, ev)
    PROVE  /\ fd \in Open /\ m_sockfd[fd] = fd => armed'[fd] = ev
           /\ fd \notin Open => armed'[fd] = armed[fd]
           /\ \A f \in Fd \ {fd} : armed'[f] = armed[f]
BY Constants DEF modfd, TypeOK

LEMMA InitSound == Init => Sound
<1> SUFFICES ASSUME Init, NEW fd \in Fd PROVE Good(fd)  BY DEF Sound
<1>1. fd \notin Open /\ fd \notin refused  BY DEF Init, Open
<1>2. ~Armed(fd) /\ ~Pending(fd) /\ writing # fd /\ ~Listed(fd) /\ ~Worked(fd)
  BY Constants DEF Init, Armed, Pending, Listed, Worked
<1>3. Alone(fd)  BY <1>2 DEF Alone, OnceListed, Listed, Worked, Pending
<1>4. Kept(fd)  BY <1>1, <1>2 DEF Kept, Worked, WorkedAt
<1> QED  BY <1>1, <1>3, <1>4 DEF Good, Stage

LEMMA ClientSound == ASSUME TypeOK, Types, Sound, Clients PROVE Sound'
<1> SUFFICES ASSUME ~raced', NEW fd \in Fd PROVE Good(fd)'  BY DEF Sound
<1> PICK c \in Client : Arrive(c) \/ Say(c) \/ Drain(c) \/ Stop(c)  BY DEF Clients
<1> USE DEF kernelVars, objectVars, mainVars, poolVars, clientVars, historyVars
<1>1. /\ UNCHANGED <<sock, armed, objectVars, mainVars, poolVars, historyVars>>
      /\ fin \subseteq fin'
  BY DEF Arrive, Say, Drain, Stop
<1>2. Good(fd)  BY <1>1 DEF Sound
<1>3. SamePlaces(fd) /\ SameObject(fd)  BY <1>1, SameList DEF SamePlaces, SameObject
<1> QED  BY <1>2, <1>3, Untouched

LEMMA EpollSound == ASSUME TypeOK, Types, Sound, EpollWait PROVE Sound'
<1> SUFFICES ASSUME ~raced', NEW fd \in Fd PROVE Good(fd)'  BY DEF Sound
<1> USE DEF kernelVars, objectVars, poolVars, clientVars, historyVars
<1> PICK ready : /\ ready = {f \in Fd : Fires(f) # {}}
                 /\ batch' = {r \in ready \X {"HUP", "IN", "OUT"} : r[2] \in Fires(r[1])}
                                \cup (IF lready THEN {<<LISTEN, "IN">>} ELSE {})
                 /\ armed' = Reported(ready)
  BY DEF EpollWait
<1>1. /\ UNCHANGED <<backlog, sock, objectVars, writing, bytes_have_send>>
      /\ UNCHANGED <<poolVars, clientVars, historyVars>> /\ batch = {} /\ writing = NONE
  BY DEF EpollWait
<1>2. Good(fd)  BY <1>1 DEF Sound
<1>3. \A e \in Events : <<fd, e>> \in batch' <=> e \in Fires(fd)
  BY Constants DEF Events
<1>4. CASE Fires(fd) = {}
  <2>1. armed'[fd] = armed[fd]  BY <1>4 DEF Reported
  <2>2. SamePlaces(fd)  BY <1>1, <1>3, <1>4, <2>1, SameList DEF SamePlaces
  <2>3. SameObject(fd)  BY <1>1 DEF SameObject
  <2> QED  BY <1>2, <2>2, <2>3, Untouched
<1>5. CASE Fires(fd) # {}
  <2>1. Armed(fd)  BY <1>5 DEF Fires, Armed
  <2>2. /\ ~Listed(fd) /\ ~Worked(fd) /\ writing # fd /\ Held(fd)
    BY <1>2, <2>1 DEF Good, Alone, Held
  <2>3. fd \in Open /\ m_sockfd[fd] = fd /\ fd \notin refused  BY <1>2, <2>1, <2>2 DEF Good, Kept
  <2>4. PICK e \in Events : /\ Fires(fd) = {e}
                            /\ e = "IN" => armed[fd] = "IN"
                            /\ e = "OUT" => armed[fd] = "OUT"
                            /\ e = "HUP" => sock[fd] \in fin
    <3>1. armed[fd] \in {"IN", "OUT"}  BY <2>1 DEF Armed, TypeOK
    <3>2. CASE sock[fd] \in fin  BY <3>1, <3>2 DEF Fires, Events
    <3>3. CASE sock[fd] \notin fin  BY <1>5, <3>1, <3>3 DEF Fires, Events
    <3> QED  BY <3>2, <3>3
  <2>5. \A d \in Events : <<fd, d>> \in batch' <=> d = e  BY <1>3, <2>4
  <2>6. ~Armed(fd)' /\ Pending(fd)' /\ armed'[fd] = "off"
    BY <1>5, <2>5 DEF Reported, Armed, Pending
  <2>7. ~Listed(fd)' /\ ~Worked(fd)' /\ writing' # fd /\ OnceListed(fd)'
    BY <1>1, <1>2, <2>2, SameList DEF Worked, Good, Alone
  <2>8. fd \in Open' /\ m_sockfd'[fd] = fd /\ fd \notin refused'
    BY <1>1, <2>3 DEF Open
  <2>9. \A p : ~WorkedAt(fd, p)'  BY <2>7 DEF Worked, WorkedAt
  <2>10. Alone(fd)'  BY <2>5, <2>6, <2>7 DEF Alone, Worked
  <2>11. Kept(fd)'  BY <2>6, <2>8, <2>9 DEF Kept, Held
  <2>12. /\ Waits(fd)' => Waits(fd)
         /\ Answers(fd)' => Answers(fd)
         /\ ~Asks(fd)' /\ ~Fails(fd)'
         /\ <<fd, "HUP">> \in batch' => sock'[fd] \in fin'
    BY <1>1, <2>4, <2>5, <2>6, <2>7, <2>8, <2>9 DEF Waits, Answers, Asks, Fails, Events
  <2>13. Stage(fd)'
    BY <1>1, <1>2, <2>3, <2>12, SameBuffer DEF Good, Stage
  <2> QED  BY <2>10, <2>11, <2>13 DEF Good
<1> QED  BY <1>4, <1>5

LEMMA AcceptSound == ASSUME TypeOK, Types, Sound, AcceptFails \/ Accept PROVE Sound'
<1> SUFFICES ASSUME ~raced', NEW fd \in Fd PROVE Good(fd)'  BY DEF Sound
<1> USE DEF kernelVars, objectVars, poolVars, clientVars, historyVars
<1>1. \A f \in Fd, e \in Events : <<f, e>> \in batch' <=> <<f, e>> \in batch
  BY Constants DEF AcceptFails, Accept, Event
<1>2. CASE AcceptFails
  <2>1. UNCHANGED <<kernelVars, objectVars, writing, bytes_have_send, poolVars, clientVars, historyVars>>
    BY <1>2 DEF AcceptFails
  <2>2. Good(fd)  BY <2>1 DEF Sound
  <2>3. SamePlaces(fd) /\ SameObject(fd)  BY <1>1, <2>1, SameList DEF SamePlaces, SameObject
  <2> QED  BY <2>2, <2>3, Untouched
<1>3. CASE Accept
  <2> PICK connfd \in Fd \ Open :
                 /\ sock' = [sock EXCEPT ![connfd] = Head(backlog)]
                 /\ armed' = [armed EXCEPT ![connfd] = "IN"]
                 /\ m_sockfd' = [m_sockfd EXCEPT ![connfd] = connfd]
                 /\ init(connfd)
                 /\ raced' = (raced \/ \E w \in Worker : job[w] = connfd)
    BY <1>3, AcceptTypes
  <2>1. UNCHANGED <<writing, poolVars, clientVars, refused>> /\ backlog # <<>>
    BY <1>3 DEF Accept
  <2>2. Good(fd)  BY DEF Sound
  <2>3. CASE fd # connfd
    <3>1. SamePlaces(fd)  BY <1>1, <2>1, <2>3, SameList DEF SamePlaces, TypeOK
    <3>2. /\ m_read_buf'[fd] = m_read_buf[fd] /\ m_write_idx'[fd] = m_write_idx[fd]
          /\ m_linger'[fd] = m_linger[fd]
      BY <2>3, Resets
    <3>3. SameObject(fd)  BY <2>1, <2>3, <3>2 DEF SameObject, TypeOK, Types
    <3> QED  BY <2>2, <3>1, <3>3, Untouched
  <2>4. CASE fd = connfd
    <3>1. ~Worked(fd)'  BY <2>1, <2>4 DEF Worked
    <3>2. ~Pending(fd) /\ writing # fd /\ ~Listed(fd) /\ fd \notin refused
      BY <2>2, <2>4 DEF Good, Kept
    <3>3. ~Pending(fd)' /\ writing' # fd /\ ~Listed(fd)' /\ fd \notin refused'
      BY <1>1, <2>1, <3>2, SameList DEF Pending
    <3>4. Head(backlog) \in Client  BY <2>1 DEF Types
    <3>5. fd \in Open' /\ m_sockfd'[fd] = fd /\ armed'[fd] = "IN"
      BY <2>4, <3>4, Constants DEF Open, TypeOK, Types
    <3>6. m_read_buf'[fd] = <<>> /\ m_write_idx'[fd] = 0  BY <2>4, Resets
    <3>7. Requests(fd)'  BY <3>5, <3>6, EmptyBuffer DEF Requests
    <3> QED  BY <3>1, <3>3, <3>5, <3>7, NowArmed
  <2> QED  BY <2>3, <2>4
<1> QED  BY <1>2, <1>3

\* main closes a connection whose event it has taken, or that it was writing to.
LEMMA ClosedByMain ==
    ASSUME TypeOK, Types, NEW fd \in Fd, Good(fd), ~Armed(fd), ~Listed(fd), ~Worked(fd),
           fd \in Open, m_sockfd[fd] = fd, fd \notin refused, close_conn(fd),
           ~Pending(fd)', writing' # fd, UNCHANGED <<poolVars, refused>>
    PROVE  Good(fd)'
<1>1. fd \notin Open' /\ ~Armed(fd)'  BY MainCloses
<1>2. ~Listed(fd)' /\ ~Worked(fd)'  BY SameList DEF poolVars, Worked
<1>3. ~Held(fd)' /\ fd \notin refused'  BY <1>1, <1>2 DEF Held
<1> QED  BY <1>1, <1>3, Gone

LEMMA HangupSound == ASSUME TypeOK, Types, Sound, NEW g \in Fd, Hangup(g) PROVE Sound'
<1> SUFFICES ASSUME ~raced', NEW fd \in Fd PROVE Good(fd)'  BY DEF Sound
<1>1. /\ Event(g, "HUP") /\ close_conn(g) /\ ~raced
      /\ UNCHANGED <<m_read_buf, m_write_idx, m_linger, writing, poolVars, refused, fin>>
  BY DEF Hangup, historyVars
<1>2. Good(fd) /\ Good(g)  BY <1>1 DEF Sound
<1>3. /\ g \in Open /\ m_sockfd[g] = g /\ g \notin refused
      /\ ~Armed(g) /\ writing = NONE /\ ~Listed(g) /\ ~Worked(g)
      /\ ~Pending(g)'
      /\ \A f \in Fd \ {g}, d \in Events : <<f, d>> \in batch' <=> <<f, d>> \in batch
  BY <1>1, <1>2, EventTaken DEF Events
<1>4. CASE fd = g
  BY <1>1, <1>2, <1>3, <1>4, ClosedByMain, Constants
<1>5. CASE fd # g
  <2>1. sock'[fd] = sock[fd] /\ armed'[fd] = armed[fd] /\ m_sockfd'[fd] = m_sockfd[fd]
    BY <1>1, <1>3, <1>5, MainCloses
  <2>2. SamePlaces(fd) /\ SameObject(fd)
    BY <1>1, <1>3, <1>5, <2>1, SameList DEF SamePlaces, SameObject, poolVars
  <2> QED  BY <1>2, <2>2, Untouched
<1> QED  BY <1>4, <1>5

LEMMA ReadSound == ASSUME TypeOK, Types, Sound, NEW g \in Fd, Read(g) PROVE Sound'
<1> SUFFICES ASSUME ~raced', NEW fd \in Fd PROVE Good(fd)'  BY DEF Sound
<1>1. /\ Event(g, "IN") /\ ~raced
      /\ UNCHANGED <<m_write_idx, m_linger, writing, at, job, fin>>
  BY DEF Read
<1>2. Good(fd) /\ Good(g)  BY <1>1 DEF Sound
<1>3. /\ g \in Open /\ m_sockfd[g] = g /\ g \notin refused /\ <<g, "IN">> \in batch
      /\ ~Armed(g) /\ writing = NONE /\ ~Listed(g) /\ ~Worked(g)
      /\ ~Pending(g)'
      /\ \A f \in Fd \ {g}, d \in Events : <<f, d>> \in batch' <=> <<f, d>> \in batch
  BY <1>1, <1>2, EventTaken DEF Events
<1>4. CASE /\ CanRead(g)
           /\ m_read_buf' = [m_read_buf EXCEPT ![g] = @ \o inbox[sock[g]]]
           /\ append(g)
           /\ UNCHANGED <<sock, armed, outbox, m_sockfd>>
  <2>1. CASE fd # g
    <3>1. /\ (Listed(fd)' <=> Listed(fd)) /\ (OnceListed(fd) => OnceListed(fd)')
          /\ fd \in refused' <=> fd \in refused
      <4>1. CASE Len(m_workqueue) > max_requests
        BY <1>4, <2>1, <4>1, SameList DEF append
      <4>2. CASE ~(Len(m_workqueue) > max_requests)
        BY <1>4, <2>1, <4>2, Appended DEF append
      <4> QED  BY <4>1, <4>2
    <3>2. SamePlaces(fd)  BY <1>1, <1>3, <1>4, <2>1, <3>1 DEF SamePlaces
    <3>3. SameObject(fd)  BY <1>1, <1>4, <2>1 DEF SameObject, Types
    <3> QED  BY <1>2, <3>2, <3>3, Untouched
  <2>2. CASE fd = g
    <3>1. /\ ~Armed(fd)' /\ writing' # fd /\ ~Worked(fd)' /\ ~Pending(fd)'
          /\ fd \in Open' /\ m_sockfd'[fd] = fd /\ sock'[fd] = sock[fd] /\ armed'[fd] = armed[fd]
      BY <1>1, <1>3, <1>4, <2>2, Constants DEF Armed, Worked, Open
    <3>2. \A p : ~WorkedAt(fd, p)'  BY <3>1 DEF Worked, WorkedAt
    <3>3. /\ OnceListed(fd)' /\ (Listed(fd)' <=> fd \notin refused')
      <4>1. CASE Len(m_workqueue) > max_requests
        BY <1>3, <1>4, <2>2, <4>1, SameList DEF append, OnceListed, Listed
      <4>2. CASE ~(Len(m_workqueue) > max_requests)
        BY <1>3, <1>4, <2>2, <4>2, Appended DEF append
      <4> QED  BY <4>1, <4>2
    <3>4. Alone(fd)'  BY <3>1, <3>3 DEF Alone, Pending, Worked
    <3>5. Kept(fd)'  BY <3>1, <3>2, <3>3 DEF Kept, Held
    <3>6. m_write_idx'[fd] = 0
      BY <1>1, <1>2, <1>3, <2>2 DEF Good, Stage, Waits
    <3>7. \A i \in DOMAIN m_read_buf'[fd] : m_read_buf'[fd][i].by = sock[fd]
      <4> DEFINE s == m_read_buf[fd]
                 t == inbox[sock[fd]]
      <4>1. sock[fd] \in Client  BY <1>3, <2>2 DEF Open, TypeOK
      <4>2. s \in Seq(Piece) /\ t \in Seq(Piece)  BY <4>1 DEF Types
      <4>3. m_read_buf'[fd] = s \o t  BY <1>4, <2>2 DEF Types
      <4>4. /\ \A i \in DOMAIN s : s[i].by = sock[fd]
            /\ \A i \in DOMAIN t : t[i].by = sock[fd]
        BY <1>2, <1>3, <2>2, <4>1 DEF Good, Stage, Types
      <4> HIDE DEF s, t
      <4>5. \A i \in DOMAIN (s \o t) : (i \in DOMAIN s /\ (s \o t)[i] = s[i])
                \/ (i - Len(s) \in DOMAIN t /\ (s \o t)[i] = t[i - Len(s)])
        BY <4>2
      <4> QED  BY <4>3, <4>4, <4>5
    <3>8. ~Waits(fd)' /\ ~Fails(fd)' /\ ~Answers(fd)' /\ <<fd, "HUP">> \notin batch'
      BY <3>1, <3>2 DEF Waits, Fails, Answers, Pending, Events, Armed
    <3>9. Stage(fd)'  BY <3>1, <3>6, <3>7, <3>8 DEF Stage
    <3> QED  BY <3>4, <3>5, <3>9 DEF Good
  <2> QED  BY <2>1, <2>2
<1>5. CASE close_conn(g) /\ UNCHANGED <<m_read_buf, m_workqueue, refused>>
  <2>1. CASE fd = g
    BY <1>1, <1>2, <1>3, <1>5, <2>1, ClosedByMain, Constants DEF poolVars
  <2>2. CASE fd # g
    <3>1. sock'[fd] = sock[fd] /\ armed'[fd] = armed[fd] /\ m_sockfd'[fd] = m_sockfd[fd]
      BY <1>3, <1>5, <2>2, MainCloses
    <3>2. SamePlaces(fd) /\ SameObject(fd)
      BY <1>1, <1>3, <1>5, <2>2, <3>1, SameList DEF SamePlaces, SameObject
    <3> QED  BY <1>2, <3>2, Untouched
  <2> QED  BY <2>1, <2>2
<1> QED  BY <1>4, <1>5 DEF Read

\* In the write loop the connection has its event no more and is nowhere else.
LEMMA BeingWritten ==
    ASSUME TypeOK, NEW fd \in Fd, Good(fd), writing = fd
    PROVE  /\ fd \in Open /\ m_sockfd[fd] = fd /\ fd \notin refused
           /\ ~Armed(fd) /\ ~Pending(fd) /\ ~Listed(fd) /\ ~Worked(fd)
           /\ m_write_idx[fd] = HdrLen /\ process_read(fd) # NO_REQUEST
           /\ m_linger[fd] = KeepAlive(process_read(fd))
<1>1. Held(fd)  BY DEF Held
<1>2. fd \in Open /\ m_sockfd[fd] = fd /\ fd \notin refused  BY <1>1 DEF Good, Kept
<1>3. ~Armed(fd) /\ ~Pending(fd) /\ ~Listed(fd) /\ ~Worked(fd)  BY DEF Good, Alone
<1>4. Answers(fd)  BY DEF Answers
<1> QED  BY <1>2, <1>3, <1>4, Constants DEF Good, Stage

LEMMA StartWriteSound ==
    ASSUME TypeOK, Types, Sound, NEW g \in Fd, WriteNothing(g) \/ Write(g)
    PROVE  Sound'
<1> SUFFICES ASSUME ~raced', NEW fd \in Fd PROVE Good(fd)'  BY DEF Sound
<1>1. Event(g, "OUT") /\ ~raced  BY DEF WriteNothing, Write, historyVars
<1>2. Good(fd) /\ Good(g)  BY <1>1 DEF Sound
<1>3. /\ g \in Open /\ m_sockfd[g] = g /\ g \notin refused /\ <<g, "OUT">> \in batch
      /\ ~Armed(g) /\ writing = NONE /\ ~Listed(g) /\ ~Worked(g)
      /\ ~Pending(g)'
      /\ \A f \in Fd \ {g}, d \in Events : <<f, d>> \in batch' <=> <<f, d>> \in batch
  BY <1>1, <1>2, EventTaken DEF Events
<1>4. Answers(g) /\ m_write_idx[g] = HdrLen
  BY <1>2, <1>3 DEF Answers, Good, Stage
<1>5. Write(g)  BY <1>4, Constants DEF WriteNothing
<1>6. writing' = g /\ UNCHANGED <<kernelVars, objectVars, poolVars, clientVars, historyVars>>
  BY <1>5 DEF Write
<1> USE DEF kernelVars, objectVars, poolVars, clientVars, historyVars
<1>7. CASE fd # g
  <2>1. SamePlaces(fd) /\ SameObject(fd)
    BY <1>3, <1>6, <1>7, SameList, Constants DEF SamePlaces, SameObject
  <2> QED  BY <1>2, <2>1, Untouched
<1>8. CASE fd = g
  <2>1. /\ ~Armed(fd)' /\ ~Listed(fd)' /\ ~Worked(fd)' /\ ~Pending(fd)' /\ Held(fd)' /\ fd \in Open'
        /\ \A p : ~WorkedAt(fd, p)'
    BY <1>3, <1>6, <1>8, SameList DEF Armed, Worked, WorkedAt, Held, Open
  <2>2. Alone(fd)'  BY <2>1 DEF Alone, Pending, Worked, OnceListed, Listed
  <2>3. Kept(fd)'  BY <1>3, <1>6, <1>8, <2>1 DEF Kept
  <2>4. ~Waits(fd)' /\ ~Asks(fd)' /\ ~Fails(fd)' /\ <<fd, "HUP">> \notin batch'
    BY <1>3, <1>6, <1>8, <2>1 DEF Waits, Asks, Fails, Pending, Events, Armed
  <2>5. Stage(fd)'
    BY <1>2, <1>3, <1>4, <1>6, <1>8, <2>1, <2>4, SameBuffer, Constants DEF Good, Stage
  <2> QED  BY <2>2, <2>3, <2>5 DEF Good
<1> QED  BY <1>7, <1>8

LEMMA WriteSound ==
    ASSUME TypeOK, Types, Sound, WriteFails \/ WriteBlocked \/ WriteOn \/ WriteDone
    PROVE  Sound'
<1> SUFFICES ASSUME ~raced', NEW fd \in Fd PROVE Good(fd)'  BY DEF Sound
<1> USE DEF kernelVars, objectVars, poolVars, clientVars, historyVars
<1>1. PICK g \in Fd : writing = g
  BY DEF WriteFails, WriteBlocked, WriteOn, WriteDone, TypeOK
<1>2. ~raced /\ UNCHANGED <<batch, poolVars, refused, fin>>
  BY DEF WriteFails, WriteBlocked, WriteOn, WriteDone
<1>3. Good(fd) /\ Good(g)  BY <1>2 DEF Sound
<1>4. /\ g \in Open /\ m_sockfd[g] = g /\ g \notin refused
      /\ ~Armed(g) /\ ~Pending(g) /\ ~Listed(g) /\ ~Worked(g)
      /\ m_write_idx[g] = HdrLen /\ process_read(g) # NO_REQUEST
      /\ m_linger[g] = KeepAlive(process_read(g))
  BY <1>1, <1>3, BeingWritten
<1>5. /\ ~Pending(g)' /\ ~Listed(g)' /\ ~Worked(g)'
      /\ \A f \in Fd : (Listed(f)' <=> Listed(f)) /\ (OnceListed(f)' <=> OnceListed(f))
  BY <1>2, <1>4, SameList DEF Pending, Worked
<1>6. ASSUME fd # g, writing' # fd, armed'[fd] = armed[fd], SameObject(fd)
      PROVE  Good(fd)'
  <2>1. SamePlaces(fd)  BY <1>1, <1>2, <1>5, <1>6 DEF SamePlaces
  <2> QED  BY <1>3, <1>6, <2>1, Untouched
<1>7. ASSUME close_conn(g), writing' = NONE, UNCHANGED <<m_read_buf, m_write_idx, m_linger>>
      PROVE  Good(fd)'
  <2>1. CASE fd = g  BY <1>2, <1>3, <1>4, <1>5, <1>7, <2>1, ClosedByMain, Constants
  <2>2. CASE fd # g
    <3>1. sock'[fd] = sock[fd] /\ armed'[fd] = armed[fd] /\ m_sockfd'[fd] = m_sockfd[fd]
      BY <1>4, <1>7, <2>2, MainCloses
    <3>2. SameObject(fd)  BY <1>2, <1>7, <3>1 DEF SameObject
    <3> QED  BY <1>6, <1>7, <2>2, <3>1, <3>2, Constants
  <2> QED  BY <2>1, <2>2
<1>8. CASE WriteFails
  BY <1>1, <1>7, <1>8 DEF WriteFails, LeaveWrite
<1>9. CASE WriteBlocked
  <2>1. modfd(g, "OUT") /\ writing' = NONE /\ UNCHANGED <<sock, objectVars>>
    BY <1>1, <1>9 DEF WriteBlocked, LeaveWrite
  <2>2. armed'[g] = "OUT" /\ \A f \in Fd \ {g} : armed'[f] = armed[f]
    BY <1>4, <2>1, Arms
  <2>3. CASE fd # g
    <3>1. SameObject(fd)  BY <1>2, <2>1 DEF SameObject
    <3> QED  BY <1>6, <2>1, <2>2, <2>3, <3>1, Constants
  <2>4. CASE fd = g
    <3>1. fd \in Open' /\ m_sockfd'[fd] = fd /\ fd \notin refused' /\ writing' # fd
      BY <1>2, <1>4, <2>1, <2>4, Constants DEF Open
    <3>2. Requests(fd)'
      BY <1>3, <1>4, <2>1, <2>2, <2>4, SameBuffer DEF Requests, Good, Stage
    <3> QED  BY <1>5, <2>2, <2>4, <3>1, <3>2, NowArmed
  <2> QED  BY <2>3, <2>4
<1>10. CASE WriteOn
  <2>1. writing' = writing /\ UNCHANGED <<kernelVars, objectVars>>  BY <1>10 DEF WriteOn
  <2>2. SamePlaces(fd) /\ SameObject(fd)  BY <1>2, <1>5, <2>1 DEF SamePlaces, SameObject
  <2> QED  BY <1>3, <2>2, Untouched
<1>11. CASE WriteDone
  <2>1. Sent(g) /\ writing' = NONE  BY <1>1, <1>11 DEF WriteDone, LeaveWrite
  <2>2. CASE init(g) /\ modfd(g, "IN") /\ UNCHANGED <<sock, m_sockfd>>
    <3>1. armed'[g] = "IN" /\ \A f \in Fd \ {g} : armed'[f] = armed[f]
      BY <1>4, <2>2, Arms
    <3>2. CASE fd # g
      <4>1. /\ m_read_buf'[fd] = m_read_buf[fd] /\ m_write_idx'[fd] = m_write_idx[fd]
            /\ m_linger'[fd] = m_linger[fd]
        BY <2>2, <3>2, Resets
      <4>2. SameObject(fd)  BY <1>2, <2>2, <4>1 DEF SameObject
      <4> QED  BY <1>6, <2>1, <3>1, <3>2, <4>2, Constants
    <3>3. CASE fd = g
      <4>1. fd \in Open' /\ m_sockfd'[fd] = fd /\ fd \notin refused' /\ writing' # fd
        BY <1>2, <1>4, <2>1, <2>2, <3>3, Constants DEF Open
      <4>2. m_read_buf'[fd] = <<>> /\ m_write_idx'[fd] = 0  BY <2>2, <3>3, Resets
      <4>3. Requests(fd)'  BY <3>1, <3>3, <4>2, EmptyBuffer DEF Requests
      <4> QED  BY <1>5, <3>1, <3>3, <4>1, <4>3, NowArmed
    <3> QED  BY <3>2, <3>3
  <2>3. CASE close_conn(g) /\ UNCHANGED <<m_read_buf, m_write_idx, m_linger>>
    BY <1>7, <2>1, <2>3
  <2> QED  BY <2>1, <2>2, <2>3 DEF Sent
<1> QED  BY <1>8, <1>9, <1>10, <1>11

LEMMA MainSound == ASSUME TypeOK, Types, Sound, Main PROVE Sound'
BY EpollSound, AcceptSound, HangupSound, ReadSound, StartWriteSound, WriteSound DEF Main

LEMMA TakeSound == ASSUME TypeOK, Types, Sound, NEW w \in Worker, Take(w) PROVE Sound'
<1> SUFFICES ASSUME ~raced', NEW fd \in Fd PROVE Good(fd)'  BY DEF Sound
<1> USE DEF kernelVars, objectVars, mainVars, clientVars, historyVars
<1>1. UNCHANGED <<kernelVars, objectVars, mainVars, clientVars, historyVars>>  BY DEF Take
<1>2. PICK g : g = Head(m_workqueue)  OBVIOUS
<1>3. /\ g \in Fd /\ Listed(g) /\ (OnceListed(g) => ~Listed(g)')
      /\ \A f \in Fd \ {g} : (Listed(f)' <=> Listed(f)) /\ (OnceListed(f) => OnceListed(f)')
  BY <1>2, Removed DEF Take
<1>4. Good(fd) /\ Good(g)  BY <1>1, <1>3 DEF Sound
<1>5. /\ job[w] = NONE /\ job'[w] = g /\ at'[w] = "process"
      /\ \A v \in Worker \ {w} : job'[v] = job[v] /\ at'[v] = at[v]
  BY <1>2 DEF Take, Step, TypeOK, Types
<1>6. CASE fd # g
  <2>1. SamePlaces(fd) /\ SameObject(fd)
    BY <1>1, <1>3, <1>5, <1>6, Constants DEF SamePlaces, SameObject
  <2> QED  BY <1>4, <2>1, Untouched
<1>7. CASE fd = g
  <2>1. /\ ~Armed(fd) /\ ~Pending(fd) /\ writing # fd /\ ~Worked(fd)
        /\ fd \in Open /\ m_sockfd[fd] = fd /\ fd \notin refused /\ OnceListed(fd)
    BY <1>3, <1>4, <1>7 DEF Good, Alone, Kept, Held
  <2>2. /\ ~Armed(fd)' /\ ~Pending(fd)' /\ writing' # fd /\ ~Listed(fd)' /\ Held(fd)'
        /\ fd \in Open' /\ m_sockfd'[fd] = fd /\ fd \notin refused'
    BY <1>1, <1>3, <1>5, <1>7, <2>1 DEF Armed, Pending, Open, Held, Worked
  <2>3. \A v \in Worker : job'[v] = fd <=> v = w
    BY <1>5, <1>7, <2>1 DEF Worked
  <2>4. \A p : WorkedAt(fd, p)' <=> p = "process"  BY <1>5, <2>3 DEF WorkedAt
  <2>5. Alone(fd)'  BY <2>2, <2>3 DEF Alone, Pending, OnceListed, Listed
  <2>6. Kept(fd)'  BY <2>2, <2>4 DEF Kept
  <2>7. ~Waits(fd)' /\ ~Fails(fd)' /\ ~Answers(fd)' /\ <<fd, "HUP">> \notin batch'
    BY <2>2, <2>4 DEF Waits, Fails, Answers, Pending, Events, Armed
  <2>8. Stage(fd)'
    BY <1>1, <1>3, <1>4, <1>7, <2>1, <2>7, SameBuffer DEF Good, Stage, Asks
  <2> QED  BY <2>5, <2>6, <2>8 DEF Good
<1> QED  BY <1>6, <1>7

\* A step of a worker that keeps its connection, and changes that of no other.
LEMMA WorkerKeeps ==
    ASSUME TypeOK, Types, NEW w \in Worker, NEW g \in Fd, job[w] = g, NEW p, Step(w, at[w], p),
           Good(g), UNCHANGED <<batch, writing, m_workqueue, job, refused, fin>>
    PROVE  /\ ~Pending(g)' /\ writing' # g /\ ~Listed(g)' /\ OnceListed(g)' /\ Worked(g)' /\ ~Armed(g)
           /\ \A v \in Worker : job'[v] = g <=> v = w
           /\ \A q : WorkedAt(g, q)' <=> q = p
           /\ \A q : WorkedAt(g, q) <=> q = at[w]
           /\ \A f \in Fd \ {g} : armed'[f] = armed[f] => SamePlaces(f)
<1>1. /\ Worked(g) /\ ~Armed(g) /\ ~Pending(g) /\ writing # g /\ ~Listed(g) /\ OnceListed(g)
      /\ \A q : WorkedAt(g, q) <=> at[w] = q
  BY InHand DEF Good, Alone
<1>2. \A v \in Worker : job[v] = g <=> v = w  BY DEF Good, Alone
<1>3. at'[w] = p /\ \A v \in Worker \ {w} : at'[v] = at[v]  BY DEF Step, TypeOK
<1>4. \A q : WorkedAt(g, q)' <=> q = p  BY <1>2, <1>3 DEF WorkedAt
<1>5. \A f \in Fd : (Listed(f)' <=> Listed(f)) /\ (OnceListed(f)' <=> OnceListed(f))
  BY SameList
<1>6. ASSUME NEW f \in Fd, f # g, armed'[f] = armed[f] PROVE SamePlaces(f)
  BY <1>3, <1>5, <1>6 DEF SamePlaces
<1> QED  BY <1>1, <1>2, <1>4, <1>5, <1>6 DEF Pending, Worked

LEMMA ProcessSound ==
    ASSUME TypeOK, Types, Sound, NEW w \in Worker, NeedsMore(w) \/ Answer(w)
    PROVE  Sound'
<1> SUFFICES ASSUME ~raced', NEW fd \in Fd PROVE Good(fd)'  BY DEF Sound
<1> USE DEF kernelVars, objectVars, mainVars, clientVars, historyVars
<1>1. /\ UNCHANGED <<kernelVars, m_sockfd, m_read_buf, mainVars, m_workqueue, job>>
      /\ UNCHANGED <<clientVars, historyVars>> /\ at[w] = "process"
  BY DEF NeedsMore, Answer, Step
<1>2. PICK g \in Fd : g = job[w]  BY <1>1 DEF TypeOK
<1>3. Good(fd) /\ Good(g)  BY <1>1 DEF Sound
<1>4. PICK p \in {"armIn", "armOut", "close"} :
          /\ Step(w, at[w], p)
          /\ p = "armIn" => process_read(g) = NO_REQUEST
          /\ p = "close" => process_read(g) = "empty"
          /\ p # "armIn" => process_read(g) # NO_REQUEST
  BY <1>1, <1>2 DEF NeedsMore, Answer, Step
<1>5. /\ ~Pending(g)' /\ writing' # g /\ ~Listed(g)' /\ OnceListed(g)' /\ Worked(g)' /\ ~Armed(g)
      /\ \A v \in Worker : job'[v] = g <=> v = w
      /\ \A q : WorkedAt(g, q)' <=> q = p
      /\ \A q : WorkedAt(g, q) <=> q = at[w]
      /\ \A f \in Fd \ {g} : armed'[f] = armed[f] => SamePlaces(f)
  BY <1>1, <1>2, <1>3, <1>4, WorkerKeeps
<1>6. WorkedAt(g, "process")  BY <1>1, <1>5
<1>7. g \in Open /\ m_sockfd[g] = g /\ g \notin refused /\ m_write_idx[g] = 0
  BY <1>2, <1>3, <1>6 DEF Good, Kept, Stage, Asks, Held, Worked
<1>8. /\ \A f \in Fd \ {g} : m_write_idx'[f] = m_write_idx[f] /\ m_linger'[f] = m_linger[f]
      /\ p = "armIn" => m_write_idx'[g] = 0
      /\ p # "armIn" => /\ m_write_idx'[g] = HdrLen
                        /\ m_linger'[g] = KeepAlive(process_read(g))
  <2>1. CASE NeedsMore(w)  BY <1>4, <1>7, <1>2, <2>1 DEF NeedsMore
  <2>2. CASE Answer(w)
    <3>1. /\ m_linger' = [m_linger EXCEPT ![g] = KeepAlive(process_read(g))]
          /\ m_write_idx' = [m_write_idx EXCEPT ![g] = @ + HdrLen]
          /\ process_read(g) # NO_REQUEST
      BY <1>2, <2>2 DEF Answer
    <3> QED  BY <1>4, <1>7, <3>1, Constants DEF TypeOK
  <2> QED  BY <2>1, <2>2
<1>9. CASE fd # g
  <2>1. SameObject(fd)  BY <1>1, <1>8, <1>9 DEF SameObject
  <2> QED  BY <1>1, <1>3, <1>5, <1>9, <2>1, Untouched
<1>10. CASE fd = g
  <2>1. /\ ~Armed(fd)' /\ fd \in Open' /\ m_sockfd'[fd] = fd /\ fd \notin refused' /\ Held(fd)'
        /\ process_read(fd)' = process_read(fd)
    BY <1>1, <1>5, <1>7, <1>10, SameBuffer DEF Armed, Open, Held
  <2>2. Alone(fd)'  BY <1>5, <1>10, <2>1 DEF Alone, Pending
  <2>3. Kept(fd)'  BY <1>5, <1>10, <2>1 DEF Kept
  <2>4. /\ Waits(fd)' => p = "armIn"
        /\ Fails(fd)' => p = "close"
        /\ Answers(fd)' => p = "armOut"
        /\ ~Asks(fd)' /\ <<fd, "HUP">> \notin batch'
    BY <1>5, <1>10, <2>1 DEF Waits, Fails, Answers, Asks, Pending, Events, Armed
  <2>5. Stage(fd)'
    BY <1>1, <1>3, <1>4, <1>7, <1>8, <1>10, <2>1, <2>4, Constants DEF Good, Stage
  <2> QED  BY <2>2, <2>3, <2>5 DEF Good
<1> QED  BY <1>9, <1>10

LEMMA CloseSound ==
    ASSUME TypeOK, Types, Sound, NEW w \in Worker, Close(w) \/ Reset(w)
    PROVE  Sound'
<1> SUFFICES ASSUME ~raced', NEW fd \in Fd PROVE Good(fd)'  BY DEF Sound
<1> USE DEF kernelVars, mainVars, clientVars, historyVars
<1>1. UNCHANGED <<m_read_buf, m_write_idx, m_linger, mainVars, m_workqueue, job, fin, historyVars>>
  BY DEF Close, Reset, objectVars
<1>2. PICK g \in Fd : g = job[w]  BY DEF Close, Reset, Step, TypeOK
<1>3. Good(fd) /\ Good(g)  BY <1>1 DEF Sound
<1>4. PICK p \in {"reset", "armOut"} : Step(w, at[w], p)  BY DEF Close, Reset, Step
<1>5. /\ ~Pending(g)' /\ writing' # g /\ ~Listed(g)' /\ OnceListed(g)' /\ Worked(g)' /\ ~Armed(g)
      /\ \A v \in Worker : job'[v] = g <=> v = w
      /\ \A q : WorkedAt(g, q)' <=> q = p
      /\ \A q : WorkedAt(g, q) <=> q = at[w]
      /\ \A f \in Fd \ {g} : armed'[f] = armed[f] => SamePlaces(f)
  <2>1. UNCHANGED <<batch, writing, m_workqueue, job, refused, fin>> /\ job[w] = g
    BY <1>1, <1>2
  <2>2. Step(w, at[w], p) /\ Good(g) /\ job[w] = g  BY <1>3, <1>4, <2>1
  <2> QED  BY ONLY TypeOK, Types, w \in Worker, g \in Fd, <2>1, <2>2, WorkerKeeps
<1>6. /\ g \notin Open' /\ ~Armed(g)' /\ g \notin refused'
      /\ \A f \in Fd \ {g} : /\ sock'[f] = sock[f] /\ armed'[f] = armed[f]
                             /\ m_sockfd'[f] = m_sockfd[f]
  <2>1. CASE Close(w)
    <3>1. WorkedAt(g, "close")  BY <1>5, <2>1 DEF Close, Step
    <3>2. g \in Open /\ m_sockfd[g] = g /\ g \notin refused
      BY <1>2, <1>3, <3>1 DEF Good, Kept, Held, Worked
    <3>3. removefd(g) /\ UNCHANGED m_sockfd
      BY <1>2, <2>1, <3>2, Constants DEF Close, objectVars
    <3> QED  BY <1>1, <3>2, <3>3 DEF removefd, Open, Armed, TypeOK
  <2>2. CASE Reset(w)
    <3>1. WorkedAt(g, "reset")  BY <1>5, <2>2 DEF Reset, Step
    <3>2. g \notin Open /\ g \notin refused  BY <1>3, <3>1 DEF Good, Kept
    <3>3. UNCHANGED <<sock, armed>> /\ m_sockfd' = [m_sockfd EXCEPT ![g] = NONE]
      BY <1>2, <2>2 DEF Reset
    <3> QED  BY <1>1, <1>5, <3>2, <3>3 DEF Open, Armed, Types
  <2> QED  BY <2>1, <2>2
<1>7. CASE fd # g
  <2>1. SameObject(fd)  BY <1>1, <1>6, <1>7 DEF SameObject
  <2> QED  BY <1>3, <1>5, <1>6, <1>7, <2>1, Untouched
<1>8. CASE fd = g
  <2>1. Alone(fd)'  BY <1>5, <1>6, <1>8 DEF Alone, Pending
  <2>2. Kept(fd)'  BY <1>5, <1>6, <1>8 DEF Kept
  <2> QED  BY <1>6, <1>8, <2>1, <2>2 DEF Good, Stage
<1> QED  BY <1>7, <1>8

LEMMA ArmSound == ASSUME TypeOK, Types, Sound, NEW w \in Worker, Arm(w) PROVE Sound'
<1> SUFFICES ASSUME ~raced', NEW fd \in Fd PROVE Good(fd)'  BY DEF Sound
<1> USE DEF objectVars, mainVars, clientVars, historyVars
<1>1. UNCHANGED <<sock, objectVars, mainVars, m_workqueue, clientVars, historyVars>>  BY DEF Arm
<1>2. PICK g \in Fd : g = job[w]  BY DEF Arm, Step, TypeOK
<1>3. Good(fd) /\ Good(g)  BY <1>1 DEF Sound
<1>4. /\ Worked(g) /\ ~Armed(g) /\ ~Pending(g) /\ writing # g /\ ~Listed(g)
      /\ \A p : WorkedAt(g, p) <=> at[w] = p
  BY <1>2, <1>3, InHand DEF Good
<1>5. /\ job' = [job EXCEPT ![w] = NONE] /\ \A v \in Worker \ {w} : at'[v] = at[v] /\ job'[v] # g
      /\ \A v \in Worker : job'[v] # g
  BY <1>2, <1>3, Constants DEF Arm, Step, TypeOK, Types, Good, Alone
<1>6. ~Worked(g)' /\ ~Pending(g)' /\ writing' # g /\ ~Listed(g)'
  BY <1>1, <1>4, <1>5, SameList DEF Worked, Pending
<1>7. /\ \A f \in Fd \ {g} : armed'[f] = armed[f]
      /\ g \notin Open => armed'[g] = armed[g]
      /\ g \in Open => \/ armed'[g] = "IN" /\ WorkedAt(g, "armIn")
                       \/ armed'[g] = "OUT" /\ WorkedAt(g, "armOut")
  <2>1. g \in Open => m_sockfd[g] = g  BY <1>3 DEF Good, Kept
  <2>2. CASE Step(w, "armIn", "run") /\ modfd(g, "IN")
    BY <1>4, <2>1, <2>2, Arms DEF Step
  <2>3. CASE Step(w, "armOut", "run") /\ modfd(g, "OUT")
    BY <1>4, <2>1, <2>3, Arms DEF Step
  <2> QED  BY <1>2, <2>2, <2>3 DEF Arm
<1>8. CASE fd # g
  <2>1. SameObject(fd)  BY <1>1 DEF SameObject
  <2>2. \A v \in Worker : job'[v] = fd <=> job[v] = fd
    BY <1>2, <1>5, <1>8, Constants DEF Types
  <2>3. \A v \in Worker : job[v] = fd => at'[v] = at[v]  BY <1>2, <1>5, <1>8
  <2>4. SamePlaces(fd)  BY <1>1, <1>7, <1>8, <2>2, <2>3, SameList DEF SamePlaces
  <2> QED  BY <1>3, <2>1, <2>4, Untouched
<1>9. CASE fd = g /\ fd \in Open
  <2>1. fd \in Open' /\ m_sockfd'[fd] = fd /\ fd \notin refused'
    BY <1>1, <1>3, <1>4, <1>9 DEF Open, Good, Kept, Held
  <2>2. armed'[fd] = "IN" => Waits(fd)  BY <1>7, <1>9 DEF Waits
  <2>3. armed'[fd] = "OUT" => Answers(fd)  BY <1>7, <1>9 DEF Answers
  <2>4. Requests(fd)'
    BY <1>1, <1>3, <1>9, <2>2, <2>3, SameBuffer, Constants DEF Requests, Good, Stage
  <2> QED  BY <1>6, <1>7, <1>9, <2>1, <2>4, NowArmed
<1>10. CASE fd = g /\ fd \notin Open
  <2>1. fd \notin Open' /\ fd \notin refused'  BY <1>1, <1>3, <1>10 DEF Open, Good, Kept
  <2>2. ~Armed(fd)'  BY <1>4, <1>7, <1>10 DEF Armed
  <2>3. ~Held(fd)'  BY <1>6, <1>10, <2>2 DEF Held
  <2> QED  BY <2>1, <2>3, Gone
<1> QED  BY <1>8, <1>9, <1>10

LEMMA NextSound == ASSUME TypeOK, Types, Sound, [Next]_vars PROVE Sound'
<1>1. CASE UNCHANGED vars
  <2> SUFFICES ASSUME ~raced', NEW fd \in Fd PROVE Good(fd)'  BY DEF Sound
  <2>1. UNCHANGED <<sock, armed, objectVars, mainVars, poolVars, fin, historyVars>>
    BY <1>1 DEF vars, kernelVars, clientVars
  <2>2. Good(fd)  BY <2>1 DEF Sound, historyVars
  <2>3. SamePlaces(fd) /\ SameObject(fd)
    BY <2>1, SameList DEF SamePlaces, SameObject, objectVars, mainVars, poolVars, historyVars
  <2> QED  BY <2>2, <2>3, Untouched
<1> QED  BY <1>1, MainSound, ClientSound, TakeSound, ProcessSound, CloseSound, ArmSound DEF Next, process

LEMMA Invariant == Spec => []Inv
<1>1. Init => Inv  BY InitTypes, InitSound DEF Inv
<1>2. Inv /\ [Next]_vars => Inv'  BY NextTypes, NextSound DEF Inv
<1> QED  BY <1>1, <1>2, PTL DEF Spec

-----------------------------------------------------------------------------

(***************************************************************************)
(* The theorems.                                                           *)
(***************************************************************************)
\* Every variable has its type; no read buffer that is kept is full, and no
\* socket holds more than its buffer.
THEOREM TypeCorrect == Spec => []TypeOK
BY Invariant, PTL DEF Inv

LEMMA AtMostOne ==
    ASSUME NEW S, \A x, y \in S : x = y
    PROVE  Cardinality(S) = IF S = {} THEN 0 ELSE 1
<1>1. CASE S = {}  BY <1>1, FS_EmptySet
<1>2. CASE S # {}
  <2>1. PICK x : S = {x}  BY <1>2
  <2> QED  BY <2>1, FS_Singleton
<1> QED  BY <1>1, <1>2

LEMMA HoldersIs ==
    ASSUME NEW fd \in Fd, Alone(fd)
    PROVE  Holders(fd) = IF Held(fd) THEN 1 ELSE 0
<1> DEFINE es == {e \in {"HUP", "IN", "OUT"} : <<fd, e>> \in batch}
           is == {i \in DOMAIN m_workqueue : m_workqueue[i] = fd}
           ws == {w \in Worker : job[w] = fd}
<1>1. /\ \A x, y \in es : x = y
      /\ \A x, y \in is : x = y
      /\ \A x, y \in ws : x = y
  BY DEF Alone, OnceListed, Events
<1>2. /\ es = {} <=> ~Pending(fd)
      /\ is = {} <=> ~Listed(fd)
      /\ ws = {} <=> ~Worked(fd)
  BY DEF Pending, Listed, Worked, Events
<1>3. Holders(fd) = (IF armed[fd] # "off" THEN 1 ELSE 0) + (IF writing = fd THEN 1 ELSE 0)
                      + Cardinality(es) + Cardinality(is) + Cardinality(ws)
  BY DEF Holders
<1> HIDE DEF es, is, ws
<1>4. /\ Cardinality(es) = IF Pending(fd) THEN 1 ELSE 0
      /\ Cardinality(is) = IF Listed(fd) THEN 1 ELSE 0
      /\ Cardinality(ws) = IF Worked(fd) THEN 1 ELSE 0
  BY <1>1, <1>2, AtMostOne
<1>5. /\ Armed(fd) => ~Pending(fd) /\ writing # fd /\ ~Listed(fd) /\ ~Worked(fd)
      /\ Pending(fd) => writing # fd /\ ~Listed(fd) /\ ~Worked(fd)
      /\ writing = fd => ~Listed(fd) /\ ~Worked(fd)
      /\ Listed(fd) => ~Worked(fd)
  BY DEF Alone
<1> QED  BY <1>3, <1>4, <1>5 DEF Held, Armed

\* However main, the workers and the clients interleave, a connection is at
\* every moment in one place, so that one thread at most works on it and none
\* forgets it.
THEOREM OneHolderHolds == Spec => []OneHolder
<1>1. Inv => OneHolder
  <2> SUFFICES ASSUME Inv, ~raced, NEW fd \in Fd
               PROVE  /\ fd \in Open => Holders(fd) = IF fd \in refused THEN 0 ELSE 1
                      /\ fd \notin Open => /\ armed[fd] = "off"
                                           /\ ~\E e \in {"HUP", "IN", "OUT"} : <<fd, e>> \in batch
                                           /\ Holders(fd) <= 1
    BY DEF OneHolder
  <2>1. Good(fd)  BY DEF Inv, Sound
  <2>2. Holders(fd) = IF Held(fd) THEN 1 ELSE 0  BY <2>1, HoldersIs DEF Good
  <2> QED  BY <2>1, <2>2 DEF Good, Kept, Armed, Pending, Events
<1> QED  BY <1>1, Invariant, PTL

\* Nothing of an earlier request, or of an earlier client of the number, is in
\* the buffers of a connection when it waits for the next one.
THEOREM NoLeftoversHolds == Spec => []NoLeftovers
<1>1. Inv => NoLeftovers
  <2> SUFFICES ASSUME Inv, ~raced, NEW fd \in Open
               PROVE  /\ \A i \in DOMAIN m_read_buf[fd] : m_read_buf[fd][i].by = sock[fd]
                      /\ m_write_idx[fd] > 0 => process_read(fd) # NO_REQUEST
                      /\ armed[fd] = "IN" => m_write_idx[fd] = 0
                      /\ armed[fd] = "OUT" \/ writing = fd => m_write_idx[fd] = HdrLen
    BY DEF NoLeftovers
  <2>1. fd \in Fd /\ Stage(fd)  BY DEF Open, Inv, Sound, Good
  <2> QED  BY <2>1 DEF Stage, Waits, Answers
<1> QED  BY <1>1, Invariant, PTL

\* A step that closes a connection does so for a client that has stopped, or
\* after a request that does not ask for keep-alive or asks for an empty file.
LEMMA LingerStep ==
    ASSUME Inv, [Next]_vars, ~raced, NEW fd \in Open, sock[fd] \notin fin,
           KeepAlive(process_read(fd)), process_read(fd) # "empty"
    PROVE  sock'[fd] = sock[fd]
<1> USE DEF kernelVars, objectVars, mainVars, poolVars, clientVars, historyVars
<1>1. fd \in Fd /\ Good(fd) /\ TypeOK /\ Types  BY DEF Inv, Sound, Open
<1>2. process_read(fd) \notin {NO_REQUEST, "empty"}  BY DEF KeepAlive, NO_REQUEST
<1>3. ASSUME NEW g \in Fd, close_conn(g), g # fd
      PROVE  sock'[fd] = sock[fd]
  BY <1>1, <1>3 DEF close_conn, removefd, TypeOK
<1>4. ASSUME NEW g \in Fd, Hangup(g) PROVE sock'[fd] = sock[fd]
  <2>1. <<g, "HUP">> \in batch /\ close_conn(g)  BY <1>4 DEF Hangup, Event
  <2>2. g # fd  BY <1>1, <2>1 DEF Good, Stage
  <2> QED  BY <1>3, <2>1, <2>2
<1>5. ASSUME NEW g \in Fd, Read(g) PROVE sock'[fd] = sock[fd]
  <2>1. <<g, "IN">> \in batch /\ (UNCHANGED sock \/ close_conn(g))  BY <1>5 DEF Read, Event
  <2>2. g # fd  BY <1>1, <1>2, <2>1 DEF Good, Stage, Waits
  <2> QED  BY <1>3, <2>1, <2>2
<1>6. CASE WriteFails \/ WriteDone
  <2>1. PICK g \in Fd : writing = g  BY <1>1, <1>6 DEF WriteFails, WriteDone, TypeOK
  <2>2. CASE g # fd
    BY <1>3, <1>6, <2>1, <2>2 DEF WriteFails, WriteDone, Sent
  <2>3. CASE g = fd
    <3>1. /\ m_sockfd[fd] = fd /\ m_linger[fd] = KeepAlive(process_read(fd))
      BY <1>1, <2>1, <2>3, BeingWritten
    <3>2. CanWrite(fd)  BY <1>1, <3>1, Constants DEF CanWrite
    <3>3. WriteDone /\ Sent(fd)  BY <1>6, <2>1, <2>3, <3>2 DEF WriteFails, WriteDone
    <3> QED  BY <3>1, <3>3 DEF Sent
  <2> QED  BY <2>2, <2>3
<1>7. CASE Accept
  <2>1. PICK connfd \in Fd \ Open : sock' = [sock EXCEPT ![connfd] = Head(backlog)]
    BY <1>1, <1>7, AcceptTypes
  <2> QED  BY <1>1, <2>1 DEF TypeOK
<1>8. ASSUME NEW w \in Worker, Close(w) PROVE sock'[fd] = sock[fd]
  <2>1. PICK g \in Fd : job[w] = g  BY <1>1, <1>8 DEF Close, Step, TypeOK
  <2>2. at[w] = "close" /\ (removefd(g) \/ UNCHANGED sock)  BY <1>8, <2>1 DEF Close, Step
  <2>3. g # fd  BY <1>1, <1>2, <2>1, <2>2 DEF Good, Stage, Fails, WorkedAt
  <2> QED  BY <1>1, <2>2, <2>3 DEF removefd, TypeOK
<1>9. CASE EpollWait \/ AcceptFails \/ WriteBlocked \/ WriteOn  BY <1>9 DEF EpollWait, AcceptFails, WriteBlocked, WriteOn
<1>10. ASSUME NEW g \in Fd, WriteNothing(g) \/ Write(g) PROVE sock'[fd] = sock[fd]
  BY <1>10 DEF WriteNothing, Write
<1>11. ASSUME NEW w \in Worker, Take(w) \/ NeedsMore(w) \/ Answer(w) \/ Reset(w) \/ Arm(w)
       PROVE  sock'[fd] = sock[fd]
  BY <1>11 DEF Take, NeedsMore, Answer, Reset, Arm
<1>12. CASE Clients  BY <1>12 DEF Clients, Arrive, Say, Drain, Stop
<1>13. CASE UNCHANGED vars  BY <1>13 DEF vars
<1> QED  BY <1>4, <1>5, <1>6, <1>7, <1>8, <1>9, <1>10, <1>11, <1>12, <1>13 DEF Next, Main, process

\* A connection whose request asked for keep-alive, and not for a file without
\* bytes, stays open for as long as its client does.
THEOREM LingerHolds == Spec => LingerKept
<1>1. Inv /\ [Next]_vars
        => [\A fd \in Open :
               LET kind == process_read(fd)
               IN  ~raced /\ KeepAlive(kind) /\ kind # "empty" /\ sock[fd] \notin fin
                     => sock'[fd] = sock[fd]]_vars
  BY LingerStep
<1> QED  BY <1>1, Invariant, PTL DEF Spec, LingerKept

=============================================================================
