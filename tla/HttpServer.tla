------------------------------ MODULE HttpServer ------------------------------
(***************************************************************************)
(* The HTTP server of chapter 15: the event loop of main (15_6_2_main.cpp) *)
(* reads and writes, the workers of the thread pool parse a request and    *)
(* prepare its answer (15_6_1_http_conn.cpp).  A connection passes from    *)
(* one thread to another only through EPOLLONESHOT: whoever has done its   *)
(* part arms the socket again with modfd.                                  *)
(*                                                                         *)
(* The pool is taken at its interface, a list that refuses a request when  *)
(* it is too long and hands each one to one worker (see ThreadPool).  What *)
(* a client sends is a sequence of pieces: a part of a request, the rest   *)
(* of one, or a line that is none.  What it is sent is a number of bytes.  *)
(***************************************************************************)
EXTENDS Integers, Sequences, FiniteSets

CONSTANTS
    Client, Worker,
    NFd,           \* bound: descriptors 1..NFd, fewer than MAX_FD
    max_requests,  \* of the thread pool
    READ_BUFFER_SIZE,
    HdrLen,        \* length of the head of an answer, all of an error page
    FileLen,       \* length of a file
    SockBuf,       \* send buffer of a socket
    Says,          \* the pieces each client may send
    MaxPieces      \* bound: pieces the clients send, all together

ASSUME HttpAssumption ==
    /\ NFd \in Nat /\ max_requests \in Nat /\ READ_BUFFER_SIZE \in Nat \ {0}
    /\ HdrLen \in Nat \ {0} /\ FileLen \in Nat \ {0} /\ SockBuf \in Nat \ {0}
    /\ Says \in [Client -> SUBSET {"part", "keep", "close", "missing", "bad", "empty", "junk"}]
    /\ MaxPieces \in Nat /\ "nobody" \notin Client

Fd == 1..NFd
LISTEN == 0        \* listenfd
NONE == -1         \* m_sockfd after close_conn; no connection
NOBODY == "nobody"

VARIABLES
    backlog,       \* clients that wait to be accepted
    lready,        \* listenfd is on the ready list
    sock,          \* the client an open descriptor leads to
    armed,         \* what a descriptor is registered for: IN, OUT, off
    batch,         \* events of the last epoll_wait not handled yet
    writing,       \* the connection whose write loop main is in
    bytes_have_send,
    m_sockfd, m_read_buf, m_write_idx, m_linger,  \* of users[fd]
    m_workqueue,   \* connections in the list of the pool
    at, job,       \* where a worker is, and its connection
    arrived,       \* clients that have connected
    inbox,         \* pieces in the receive queue of a client's socket
    outbox,        \* bytes in the send buffer of a client's socket
    said,          \* pieces the clients have sent
    fin,           \* clients that have stopped
    begun,         \* history: connections that have taken part of their answer
    refused,       \* history: connections the pool refused
    raced          \* history: a number was given out while a worker closed it

kernelVars == <<backlog, lready, sock, armed>>
objectVars == <<m_sockfd, m_read_buf, m_write_idx, m_linger>>
mainVars == <<batch, writing, bytes_have_send>>
poolVars == <<m_workqueue, at, job>>
clientVars == <<arrived, inbox, outbox, said, fin>>
historyVars == <<begun, refused, raced>>
vars == <<kernelVars, objectVars, mainVars, poolVars, clientVars, historyVars>>

Smallest(S) == CHOOSE x \in S : \A y \in S : x <= y
Less(a, b) == IF a < b THEN a ELSE b
Open == {fd \in Fd : sock[fd] # NOBODY}
Room(fd) == SockBuf - outbox[sock[fd]]

(***************************************************************************)
(* http_conn::process_read: the first piece that ends a request decides.   *)
(* A line that is none stops the parser for good.                          *)
(***************************************************************************)
NO_REQUEST == "part"
process_read(fd) ==
    LET ends == {i \in DOMAIN m_read_buf[fd] : m_read_buf[fd][i].kind # "part"}
        kind == m_read_buf[fd][Smallest(ends)].kind
    IN  IF ends = {} \/ kind = "junk" THEN NO_REQUEST ELSE kind

\* The header Connection: keep-alive, which sets m_linger whatever is asked for;
\* "empty" asks for a file without bytes.
KeepAlive(kind) == kind \in {"keep", "missing", "empty"}
\* do_request finds a file, and process_write puts it behind the head.
IsFile(kind) == kind \in {"keep", "close"}

(***************************************************************************)
(* The environment: remote clients.                                        *)
(***************************************************************************)
Init ==
    /\ backlog = <<>> /\ lready = FALSE
    /\ sock = [fd \in Fd |-> NOBODY] /\ armed = [fd \in Fd |-> "off"]
    /\ batch = {} /\ writing = NONE /\ bytes_have_send = 0
    /\ m_sockfd = [fd \in Fd |-> NONE] /\ m_read_buf = [fd \in Fd |-> <<>>]
    /\ m_write_idx = [fd \in Fd |-> 0] /\ m_linger = [fd \in Fd |-> FALSE]
    /\ m_workqueue = <<>> /\ at = [w \in Worker |-> "run"] /\ job = [w \in Worker |-> NONE]
    /\ arrived = {} /\ inbox = [c \in Client |-> <<>>] /\ outbox = [c \in Client |-> 0]
    /\ said = 0 /\ fin = {}
    /\ begun = {} /\ refused = {} /\ raced = FALSE

Arrive(c) ==
    /\ c \notin arrived
    /\ arrived' = arrived \cup {c}
    /\ backlog' = Append(backlog, c) /\ lready' = TRUE
    /\ UNCHANGED <<sock, armed, objectVars, mainVars, poolVars, inbox, outbox, said, fin, historyVars>>

Connected(c) == c \notin fin /\ (\/ \E i \in DOMAIN backlog : backlog[i] = c
                                 \/ \E fd \in Open : sock[fd] = c)

Say(c) ==
    /\ Connected(c) /\ said < MaxPieces
    /\ said' = said + 1
    /\ \E k \in Says[c] : inbox' = [inbox EXCEPT ![c] = Append(@, [by |-> c, kind |-> k])]
    /\ UNCHANGED <<kernelVars, objectVars, mainVars, poolVars, arrived, outbox, fin, historyVars>>

\* A client reads all that has arrived.
Drain(c) ==
    /\ Connected(c) /\ outbox[c] > 0
    /\ outbox' = [outbox EXCEPT ![c] = 0]
    /\ UNCHANGED <<kernelVars, objectVars, mainVars, poolVars, arrived, inbox, said, fin, historyVars>>

Stop(c) ==     \* a client shuts down, closes or fails
    /\ Connected(c)
    /\ fin' = fin \cup {c}
    /\ UNCHANGED <<kernelVars, objectVars, mainVars, poolVars, arrived, inbox, outbox, said, historyVars>>

(***************************************************************************)
(* epoll.  EPOLLRDHUP is always registered, and main tests it first.  An   *)
(* EPOLLONESHOT item is disarmed by its report.                            *)
(***************************************************************************)
Fires(fd) ==
    IF armed[fd] = "off" THEN {}
    ELSE IF sock[fd] \in fin THEN {"HUP"}
    ELSE {e \in {armed[fd]} : \/ e = "IN" /\ inbox[sock[fd]] # <<>>
                              \/ e = "OUT" /\ Room(fd) > 0}

\* Variant: the sockets are registered without EPOLLONESHOT.
ReportedNoOneshot(fds) == armed
Reported(fds) == [fd \in Fd |-> IF fd \in fds THEN "off" ELSE armed[fd]]

EpollWait ==
    /\ batch = {} /\ writing = NONE
    /\ LET ready == {fd \in Fd : Fires(fd) # {}}
       IN  /\ batch' = {r \in ready \X {"HUP", "IN", "OUT"} : r[2] \in Fires(r[1])}
                         \cup (IF lready THEN {<<LISTEN, "IN">>} ELSE {})
           /\ batch' # {}
           /\ armed' = Reported(ready)
    /\ lready' = FALSE
    /\ UNCHANGED <<backlog, sock, objectVars, writing, bytes_have_send, poolVars, clientVars, historyVars>>

\* modfd on m_sockfd; epoll_ctl fails for a descriptor that is -1 or closed.
modfd(fd, ev) ==
    armed' = IF m_sockfd[fd] # NONE /\ fd \in Open THEN [armed EXCEPT ![fd] = ev] ELSE armed

(***************************************************************************)
(* http_conn::init and close_conn.                                         *)
(***************************************************************************)
\* Variant: m_read_idx is not reset.
InitKeepsInput(fd) ==
    /\ m_linger' = [m_linger EXCEPT ![fd] = FALSE]
    /\ m_write_idx' = [m_write_idx EXCEPT ![fd] = 0]
    /\ UNCHANGED m_read_buf
init(fd) ==
    /\ m_linger' = [m_linger EXCEPT ![fd] = FALSE]
    /\ m_write_idx' = [m_write_idx EXCEPT ![fd] = 0]
    /\ m_read_buf' = [m_read_buf EXCEPT ![fd] = <<>>]

\* removefd: what the socket still held is gone with it (SO_LINGER is 0).
removefd(fd) ==
    /\ sock' = [sock EXCEPT ![fd] = NOBODY] /\ armed' = [armed EXCEPT ![fd] = "off"]
    /\ inbox' = [c \in Client |-> IF c = sock[fd] THEN <<>> ELSE inbox[c]]
    /\ outbox' = [c \in Client |-> IF c = sock[fd] THEN 0 ELSE outbox[c]]

\* close_conn on the main thread, which is the one that accepts.
close_conn(fd) ==
    IF m_sockfd[fd] = NONE
    THEN UNCHANGED <<sock, armed, inbox, outbox, m_sockfd>>
    ELSE removefd(fd) /\ m_sockfd' = [m_sockfd EXCEPT ![fd] = NONE]

(***************************************************************************)
(* main: a connection on listenfd.  One accept per report of the           *)
(* edge-triggered listenfd.                                                *)
(***************************************************************************)
Event(fd, e) == writing = NONE /\ <<fd, e>> \in batch /\ batch' = batch \ {<<fd, e>>}

\* No descriptor or no memory: the client stays in the backlog.
AcceptFails ==
    /\ Event(LISTEN, "IN")
    /\ UNCHANGED <<kernelVars, objectVars, writing, bytes_have_send, poolVars, clientVars, historyVars>>

Accept ==
    /\ Event(LISTEN, "IN") /\ backlog # <<>> /\ Open # Fd
    /\ LET connfd == Smallest(Fd \ Open)
       IN  /\ sock' = [sock EXCEPT ![connfd] = Head(backlog)]
           /\ armed' = [armed EXCEPT ![connfd] = "IN"]
           /\ m_sockfd' = [m_sockfd EXCEPT ![connfd] = connfd]
           /\ init(connfd)
           /\ raced' = (raced \/ \E w \in Worker : job[w] = connfd)
    /\ backlog' = Tail(backlog)
    /\ UNCHANGED <<lready, writing, bytes_have_send, poolVars, clientVars, begun, refused>>

\* EPOLLRDHUP, EPOLLHUP or EPOLLERR.
Hangup(fd) ==
    /\ Event(fd, "HUP") /\ close_conn(fd)
    /\ UNCHANGED <<backlog, lready, m_read_buf, m_write_idx, m_linger>>
    /\ UNCHANGED <<writing, bytes_have_send, poolVars, arrived, said, fin, historyVars>>

(***************************************************************************)
(* main: EPOLLIN.  read takes all there is; more than the buffer holds, or *)
(* an end of stream behind the data, makes it fail.                              *)
(***************************************************************************)
\* Variant: recv is given the length of the whole buffer.
FitsUnchecked(fd) == Len(m_read_buf[fd]) < READ_BUFFER_SIZE

\* A full buffer is refused at line 143.  One that the loop fills is a close
\* when more is queued (recv of length 0 answers 0), and else EAGAIN.
Fits(fd) == /\ Len(m_read_buf[fd]) < READ_BUFFER_SIZE
            /\ Len(m_read_buf[fd]) + Len(inbox[sock[fd]]) <= READ_BUFFER_SIZE

CanRead(fd) == m_sockfd[fd] # NONE /\ fd \in Open /\ sock[fd] \notin fin /\ Fits(fd)

\* append, whose answer main does not look at.
append(fd) ==
    IF Len(m_workqueue) > max_requests
    THEN refused' = refused \cup {fd} /\ UNCHANGED m_workqueue
    ELSE m_workqueue' = Append(m_workqueue, fd) /\ UNCHANGED refused

Read(fd) ==
    /\ Event(fd, "IN") /\ fd \in Fd
    /\ \/ /\ CanRead(fd)
          /\ m_read_buf' = [m_read_buf EXCEPT ![fd] = @ \o inbox[sock[fd]]]
          /\ inbox' = [inbox EXCEPT ![sock[fd]] = <<>>]
          /\ append(fd)
          /\ UNCHANGED <<sock, armed, outbox, m_sockfd>>
       \/ /\ ~CanRead(fd) /\ close_conn(fd)
          /\ UNCHANGED <<m_read_buf, m_workqueue, refused>>
    /\ UNCHANGED <<backlog, lready, m_write_idx, m_linger, writing, bytes_have_send>>
    /\ UNCHANGED <<at, job, arrived, said, fin, begun, raced>>

(***************************************************************************)
(* main: EPOLLOUT, http_conn::write.  Each round of the loop hands both    *)
(* blocks of m_iv to writev from their first byte, and takes the answer    *)
(* for sent when half of the head is.                                      *)
(***************************************************************************)
WriteNothing(fd) ==
    /\ Event(fd, "OUT") /\ m_write_idx[fd] = 0
    /\ modfd(fd, "IN") /\ init(fd)
    /\ UNCHANGED <<backlog, lready, sock, m_sockfd, writing, bytes_have_send>>
    /\ UNCHANGED <<poolVars, clientVars, historyVars>>

Write(fd) ==
    /\ Event(fd, "OUT") /\ m_write_idx[fd] # 0
    /\ writing' = fd
    /\ UNCHANGED <<kernelVars, objectVars, bytes_have_send, poolVars, clientVars, historyVars>>

CanWrite(fd) == m_sockfd[fd] # NONE /\ fd \in Open /\ sock[fd] \notin fin
\* The blocks of m_iv: the head, and the file process_write put behind it.
m_iv(fd) == m_write_idx[fd] + IF IsFile(process_read(fd)) THEN FileLen ELSE 0
Taken(fd) == Less(Room(fd), m_iv(fd))      \* what writev answers
HaveSent(fd) == bytes_have_send + Taken(fd)
LeaveWrite == writing' = NONE /\ bytes_have_send' = 0

WriteFails ==
    /\ writing # NONE /\ ~CanWrite(writing)
    /\ LeaveWrite /\ close_conn(writing)
    /\ UNCHANGED <<backlog, lready, m_read_buf, m_write_idx, m_linger>>
    /\ UNCHANGED <<batch, poolVars, arrived, said, fin, historyVars>>

\* Variant: the socket is not armed again.
WriteBlockedForgotten ==
    /\ writing # NONE /\ CanWrite(writing) /\ Room(writing) = 0
    /\ LeaveWrite
    /\ UNCHANGED <<kernelVars, objectVars, batch, poolVars, clientVars, historyVars>>

WriteBlocked ==        \* EAGAIN
    /\ writing # NONE /\ CanWrite(writing) /\ Room(writing) = 0
    /\ LeaveWrite /\ modfd(writing, "OUT")
    /\ UNCHANGED <<backlog, lready, sock, objectVars>>
    /\ UNCHANGED <<batch, poolVars, clientVars, historyVars>>

WriteTakes(fd) == CanWrite(fd) /\ Room(fd) > 0

WriteOn ==
    /\ writing # NONE /\ WriteTakes(writing)
    /\ m_write_idx[writing] - HaveSent(writing) > HaveSent(writing)
    /\ outbox' = [outbox EXCEPT ![sock[writing]] = @ + Taken(writing)]
    /\ bytes_have_send' = HaveSent(writing) /\ begun' = begun \cup {writing}
    /\ UNCHANGED <<kernelVars, objectVars, batch, writing, poolVars>>
    /\ UNCHANGED <<arrived, inbox, said, fin, refused, raced>>

\* Variant: init before the test of m_linger.
SentInitFirst(fd) == init(fd) /\ close_conn(fd)

\* The answer is taken for sent; m_linger decides what is next.
Sent(fd) ==
    \/ /\ m_linger[fd] /\ init(fd) /\ modfd(fd, "IN")
       /\ outbox' = [outbox EXCEPT ![sock[fd]] = @ + Taken(fd)]
       /\ UNCHANGED <<sock, inbox, m_sockfd>>
    \/ /\ ~m_linger[fd] /\ close_conn(fd)
       /\ UNCHANGED <<m_read_buf, m_write_idx, m_linger>>

WriteDone ==
    /\ writing # NONE /\ WriteTakes(writing)
    /\ m_write_idx[writing] - HaveSent(writing) <= HaveSent(writing)
    /\ LeaveWrite /\ Sent(writing) /\ begun' = begun \ {writing}
    /\ UNCHANGED <<backlog, lready, batch, poolVars, arrived, said, fin, refused, raced>>

Main ==
    \/ EpollWait \/ AcceptFails \/ Accept
    \/ WriteFails \/ WriteBlocked \/ WriteOn \/ WriteDone
    \/ \E fd \in Fd : Hangup(fd) \/ Read(fd) \/ WriteNothing(fd) \/ Write(fd)

(***************************************************************************)
(* A worker: process, with the steps of close_conn apart, because main may *)
(* accept a client on the number in between.                               *)
(***************************************************************************)
Step(w, from, to) == at[w] = from /\ at' = [at EXCEPT ![w] = to]

Take(w) ==
    /\ Step(w, "run", "process") /\ m_workqueue # <<>>
    /\ job' = [job EXCEPT ![w] = Head(m_workqueue)]
    /\ m_workqueue' = Tail(m_workqueue)
    /\ UNCHANGED <<kernelVars, objectVars, mainVars, clientVars, historyVars>>

NeedsMore(w) ==
    /\ Step(w, "process", "armIn") /\ process_read(job[w]) = NO_REQUEST
    /\ UNCHANGED <<kernelVars, objectVars, mainVars, m_workqueue, job, clientVars, historyVars>>

\* process_write; the answer to a file without bytes falls through to default.
Answer(w) ==
    LET fd == job[w]
        kind == process_read(fd)
    IN  /\ at[w] = "process" /\ kind # NO_REQUEST
        /\ Step(w, "process", IF kind = "empty" THEN "close" ELSE "armOut")
        /\ m_linger' = [m_linger EXCEPT ![fd] = KeepAlive(kind)]
        /\ m_write_idx' = [m_write_idx EXCEPT ![fd] = @ + HdrLen]
        /\ UNCHANGED <<kernelVars, m_sockfd, m_read_buf, mainVars, m_workqueue, job>>
        /\ UNCHANGED <<clientVars, historyVars>>

Close(w) ==
    /\ Step(w, "close", "reset")
    /\ IF m_sockfd[job[w]] # NONE THEN removefd(job[w]) ELSE UNCHANGED <<sock, armed, inbox, outbox>>
    /\ UNCHANGED <<backlog, lready, objectVars, mainVars, m_workqueue, job>>
    /\ UNCHANGED <<arrived, said, fin, historyVars>>

Reset(w) ==
    /\ Step(w, "reset", "armOut")
    /\ m_sockfd' = [m_sockfd EXCEPT ![job[w]] = NONE]
    /\ UNCHANGED <<kernelVars, m_read_buf, m_write_idx, m_linger>>
    /\ UNCHANGED <<mainVars, m_workqueue, job, clientVars, historyVars>>

Arm(w) ==
    /\ \/ Step(w, "armIn", "run") /\ modfd(job[w], "IN")
       \/ Step(w, "armOut", "run") /\ modfd(job[w], "OUT")
    /\ job' = [job EXCEPT ![w] = NONE]
    /\ UNCHANGED <<backlog, lready, sock, objectVars, mainVars, m_workqueue, clientVars, historyVars>>

process(w) == NeedsMore(w) \/ Answer(w) \/ Close(w) \/ Reset(w) \/ Arm(w)

Clients == \E c \in Client : Arrive(c) \/ Say(c) \/ Drain(c) \/ Stop(c)

Next == Main \/ Clients \/ \E w \in Worker : Take(w) \/ process(w)

Spec == Init /\ [][Next]_vars

\* main's loop and the workers run, and a client that has not stopped reads;
\* nobody has to connect, to send or to stop.
FairSpec ==
    /\ Spec /\ WF_vars(Main)
    /\ \A w \in Worker : WF_vars(Take(w) \/ process(w))
    /\ \A c \in Client : WF_vars(Drain(c))

(***************************************************************************)
(* Properties.                                                             *)
(***************************************************************************)
\* Every variable has its type; no more is read than the read buffer holds.
TypeOK ==
    /\ \A i \in DOMAIN backlog : backlog[i] \in Client
    /\ lready \in BOOLEAN
    /\ sock \in [Fd -> Client \cup {NOBODY}] /\ armed \in [Fd -> {"IN", "OUT", "off"}]
    /\ batch \subseteq (Fd \X {"HUP", "IN", "OUT"}) \cup {<<LISTEN, "IN">>}
    /\ writing \in Fd \cup {NONE} /\ bytes_have_send \in Nat
    /\ \A fd \in Fd : m_sockfd[fd] \in {fd, NONE} /\ Len(m_read_buf[fd]) <= READ_BUFFER_SIZE
    /\ m_write_idx \in [Fd -> Nat] /\ m_linger \in [Fd -> BOOLEAN]
    /\ \A i \in DOMAIN m_workqueue : m_workqueue[i] \in Fd
    /\ at \in [Worker -> {"run", "process", "armIn", "armOut", "close", "reset"}]
    /\ \A w \in Worker : job[w] \in Fd \cup {NONE} /\ (job[w] = NONE <=> at[w] = "run")
    /\ outbox \in [Client -> 0..SockBuf] /\ said \in 0..MaxPieces
    /\ refused \subseteq Fd /\ raced \in BOOLEAN

Holders(fd) ==
    (IF armed[fd] # "off" THEN 1 ELSE 0) + (IF writing = fd THEN 1 ELSE 0)
      + Cardinality({e \in {"HUP", "IN", "OUT"} : <<fd, e>> \in batch})
      + Cardinality({i \in DOMAIN m_workqueue : m_workqueue[i] = fd})
      + Cardinality({w \in Worker : job[w] = fd})

\* An open connection is in exactly one place: armed in the epoll set, an event
\* main has not handled, main's write loop, the list of the pool, or one
\* worker.  So no two threads work on it, and none forgets it.  The exceptions
\* are a connection the pool refused, which nobody has (15_6_2_main.cpp:140),
\* and a number that main gave out again while a worker was in close_conn for it.
OneHolder ==
    ~raced => \A fd \in Fd :
        /\ fd \in Open => Holders(fd) = IF fd \in refused THEN 0 ELSE 1
        /\ fd \notin Open => /\ armed[fd] = "off" /\ ~\E e \in {"HUP", "IN", "OUT"} : <<fd, e>> \in batch
                             /\ Holders(fd) <= 1

\* What is in a connection's buffer comes from its present client, and an
\* answer is in its write buffer only for a request in its read buffer: nothing
\* is left of an earlier request or of an earlier client of the number.
NoLeftovers ==
    ~raced => \A fd \in Open :
        /\ \A i \in DOMAIN m_read_buf[fd] : m_read_buf[fd][i].by = sock[fd]
        /\ m_write_idx[fd] > 0 => process_read(fd) # NO_REQUEST
        /\ armed[fd] = "IN" => m_write_idx[fd] = 0
        /\ armed[fd] = "OUT" \/ writing = fd => m_write_idx[fd] = HdrLen

\* A connection whose request asked for keep-alive is never closed from under
\* a client that is still there, unless the request is for a file without bytes:
\* its answer falls through to default (15_6_1_http_conn.cpp:556), and the
\* connection is closed, against the comment on m_linger (15_6_1_http_conn.h:124).
LingerKept ==
    [][\A fd \in Open :
          LET kind == process_read(fd)
          IN  ~raced /\ KeepAlive(kind) /\ kind # "empty" /\ sock[fd] \notin fin
                => sock'[fd] = sock[fd]]_vars

\* A request that was read is answered, or its connection closed, unless the
\* pool refused it.
Asked(c) == \E fd \in Open : sock[fd] = c /\ fd \notin refused /\ process_read(fd) # NO_REQUEST
Answered == \A c \in Client : Asked(c) ~> ~Asked(c) \/ raced

\* When write takes an answer for sent, the socket has taken it from its first
\* byte to its last, once (comments in http_conn::write).
ResponseComplete ==
    [][WriteDone => writing \notin begun /\ Taken(writing) = m_iv(writing)]_vars

=============================================================================
