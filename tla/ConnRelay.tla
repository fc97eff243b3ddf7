------------------------------ MODULE ConnRelay ------------------------------
(***************************************************************************)
(* One client/server session of springsnail: a conn object (conn.cpp)      *)
(* driven by mgr::process (mgr.cpp) from the event loop of a child process.*)
(* The session owns two non-blocking sockets registered edge-triggered in  *)
(* the child's epoll set, and one buffer of BUF_SIZE bytes per direction:  *)
(* m_clt_buf holds what was read from the client and not yet written to    *)
(* the server, m_srv_buf the reverse.  An end "clt" or "srv" names the     *)
(* socket of that end and the buffer of the bytes read from it.            *)
(*                                                                         *)
(* A byte is abstracted to its serial number in its stream, so that the    *)
(* order, loss and duplication of bytes are visible.  A handler (one call  *)
(* of mgr::process) is one action: what a peer does in the middle of a     *)
(* read or write loop has the effect it has just before that handler.      *)
(***************************************************************************)
EXTENDS Integers, Sequences

CONSTANTS
    BUF_SIZE,    \* conn::BUF_SIZE, 2048 in the code
    SockBuf,     \* bytes a socket takes before send returns EAGAIN
    ReqLen,      \* bytes of one request
    RespLen,     \* bytes of one response
    Rounds,      \* bound: requests (and responses) of a session
    HalfDuplex   \* do the peers wait for each other's complete message?

ASSUME RelayAssumption ==
    /\ BUF_SIZE \in Nat \ {0} /\ SockBuf \in Nat \ {0}
    /\ ReqLen \in Nat \ {0} /\ RespLen \in Nat \ {0} /\ Rounds \in Nat
    /\ HalfDuplex \in BOOLEAN

VARIABLES
    readIdx,     \* m_clt_read_idx, m_srv_read_idx
    writeIdx,    \* m_clt_write_idx, m_srv_write_idx
    buf,         \* m_clt_buf, m_srv_buf
    srvClosed,   \* m_srv_closed
    bound,       \* the session is in m_used: free_conn has not been called
    interest,    \* events registered for each socket: EPOLLIN or EPOLLOUT
    ready,       \* the socket is on the ready list of the epoll set
    batch,       \* events epoll_wait returned that are not handled yet
    peer,        \* what the remote end has done: open, fin or rst
    sent,        \* bytes the remote end has sent
    rcvd,        \* bytes recv has returned from the socket
    delivered,   \* the bytes send has accepted for the socket
    drained      \* how many of those the remote end has taken

connVars == <<readIdx, writeIdx, buf, srvClosed, bound>>
epollVars == <<interest, ready, batch>>
netVars == <<peer, sent, rcvd, delivered, drained>>
vars == <<readIdx, writeIdx, buf, srvClosed, bound,
          interest, ready, batch, peer, sent, rcvd, delivered, drained>>

End == {"clt", "srv"}
Other(e) == IF e = "clt" THEN "srv" ELSE "clt"
Least(a, b) == IF a < b THEN a ELSE b

Cleared == [i \in 0..BUF_SIZE-1 |-> 0]

(***************************************************************************)
(* The kernel: sockets and the edge-triggered epoll set.                   *)
(***************************************************************************)
Avail(e) == sent[e] - rcvd[e]
Room(e) == SockBuf - (Len(delivered[e]) - drained[e])

Readable(e) == Avail(e) > 0 \/ peer[e] # "open"
Writable(e) == Room(e) > 0 \/ peer[e] = "rst"
Fires(e) == IF interest[e] = "IN" THEN Readable(e) ELSE Writable(e)

\* modfd of the sockets in ins to EPOLLIN and of those in outs to EPOLLOUT;
\* EPOLL_CTL_MOD puts a socket that is ready for its new mask on the list.
Modfd(ins, outs) ==
    /\ interest' = [e \in End |-> IF e \in ins THEN "IN"
                                  ELSE IF e \in outs THEN "OUT" ELSE interest[e]]
    /\ ready' = [e \in End |-> \/ ready[e]
                               \/ e \in ins /\ Readable(e)'
                               \/ e \in outs /\ Writable(e)']

EpollWait ==
    LET fired == {e \in End : ready[e] /\ Fires(e)}
    IN  /\ bound /\ batch = <<>> /\ \E e \in End : ready[e]
        /\ \E order \in {<<>>, <<"clt">>, <<"srv">>, <<"clt", "srv">>, <<"srv", "clt">>} :
              /\ {order[i] : i \in 1..Len(order)} = fired
              /\ batch' = [i \in 1..Len(order) |->
                              [end |-> order[i], type |-> interest[order[i]]]]
        /\ ready' = [e \in End |-> FALSE]
        /\ UNCHANGED <<interest, connVars, netVars>>

(***************************************************************************)
(* conn::read_clt, read_srv: recv until EAGAIN, end of stream, an error or *)
(* a full buffer.                                                          *)
(***************************************************************************)
\* Variant: recv is given BUF_SIZE, not what is left of the buffer.
ReadCountWholeBuffer(e) == Least(Avail(e), BUF_SIZE)

ReadCount(e) == Least(Avail(e), BUF_SIZE - readIdx[e])

\* Variant: without the test of the index, recv of length 0 returns 0.
ReadResultFullIsClosed(e) ==
    LET idx == readIdx[e] + ReadCount(e)
    IN  IF peer[e] = "rst" /\ idx < BUF_SIZE THEN "IOERR"
        ELSE IF peer[e] = "fin" \/ idx >= BUF_SIZE THEN "CLOSED"
        ELSE IF idx > writeIdx[e] THEN "OK" ELSE "NOTHING"

\* Variant: the difference of the indices is compared with 1.
ReadResultOffByOne(e) ==
    LET idx == readIdx[e] + ReadCount(e)
    IN  IF idx >= BUF_SIZE THEN "BUFFER_FULL"
        ELSE IF peer[e] = "rst" THEN "IOERR"
        ELSE IF peer[e] = "fin" THEN "CLOSED"
        ELSE IF idx > writeIdx[e] + 1 THEN "OK" ELSE "NOTHING"

ReadResult(e) ==
    LET idx == readIdx[e] + ReadCount(e)
    IN  IF idx >= BUF_SIZE THEN "BUFFER_FULL"
        ELSE IF peer[e] = "rst" THEN "IOERR"
        ELSE IF peer[e] = "fin" THEN "CLOSED"
        ELSE IF idx > writeIdx[e] THEN "OK" ELSE "NOTHING"

Recv(e) ==
    /\ rcvd' = [rcvd EXCEPT ![e] = @ + ReadCount(e)]
    /\ UNCHANGED <<peer, sent, delivered, drained>>

Store(e) ==
    /\ buf' = [buf EXCEPT ![e] = [i \in 0..BUF_SIZE-1 |->
                  IF i \in readIdx[e]..readIdx[e] + ReadCount(e) - 1
                  THEN rcvd[e] + (i - readIdx[e]) + 1 ELSE @[i]]]
    /\ readIdx' = [readIdx EXCEPT ![e] = @ + ReadCount(e)]
    /\ UNCHANGED writeIdx

(***************************************************************************)
(* conn::write_srv, write_clt: send the buffer of the bytes read from e to *)
(* the other end until it is empty, send returns EAGAIN, or fails.         *)
(***************************************************************************)
Pending(e) == readIdx[e] - writeIdx[e]
SendCount(e) ==
    IF peer[Other(e)] = "rst" THEN 0 ELSE Least(Pending(e), Room(Other(e)))

WriteResult(e) ==
    IF Pending(e) <= SendCount(e) THEN "BUFFER_EMPTY"
    ELSE IF peer[Other(e)] = "rst" THEN "IOERR" ELSE "TRY_AGAIN"

Send(e) ==
    /\ delivered' = [delivered EXCEPT ![Other(e)] =
                        @ \o [i \in 1..SendCount(e) |-> buf[e][writeIdx[e] + i - 1]]]
    /\ UNCHANGED <<peer, sent, rcvd, drained>>

\* Variant: a partial send does not move the write index.
AdvanceOnlyWhenEmpty(e) ==
    LET done == WriteResult(e) = "BUFFER_EMPTY"
    IN  /\ readIdx' = [readIdx EXCEPT ![e] = IF done THEN 0 ELSE @]
        /\ writeIdx' = [writeIdx EXCEPT ![e] = IF done THEN 0 ELSE @]
        /\ UNCHANGED buf

\* The indices return to 0 only when the buffer is found empty.
Advance(e) ==
    LET done == WriteResult(e) = "BUFFER_EMPTY"
    IN  /\ readIdx' = [readIdx EXCEPT ![e] = IF done THEN 0 ELSE @]
        /\ writeIdx' = [writeIdx EXCEPT ![e] = IF done THEN 0 ELSE @ + SendCount(e)]
        /\ UNCHANGED buf

(***************************************************************************)
(* mgr::free_conn and conn::reset for this session: both sockets leave the *)
(* epoll set and are closed, what the buffers still hold is discarded.     *)
(***************************************************************************)
\* Variant: m_used keeps the session.
FreeKeepsSession ==
    /\ bound' = bound /\ srvClosed' = FALSE
    /\ readIdx' = [e \in End |-> 0] /\ writeIdx' = [e \in End |-> 0]
    /\ buf' = [e \in End |-> Cleared]
    /\ interest' = [e \in End |-> "IN"] /\ ready' = [e \in End |-> FALSE]

Free ==
    /\ bound' = FALSE /\ srvClosed' = FALSE
    /\ readIdx' = [e \in End |-> 0] /\ writeIdx' = [e \in End |-> 0]
    /\ buf' = [e \in End |-> Cleared]
    /\ interest' = [e \in End |-> "IN"] /\ ready' = [e \in End |-> FALSE]

(***************************************************************************)
(* mgr::process, one action per socket and operation.                      *)
(***************************************************************************)
Event(e, type) ==
    /\ bound /\ batch # <<>> /\ Head(batch) = [end |-> e, type |-> type]
    /\ batch' = Tail(batch)

CltRead ==
    /\ Event("clt", "IN")
    /\ Recv("clt")
    /\ \/ /\ ReadResult("clt") \in {"IOERR", "CLOSED"} \/ srvClosed
          /\ Free
       \/ /\ ReadResult("clt") \in {"OK", "BUFFER_FULL"} /\ ~srvClosed
          /\ Store("clt") /\ Modfd({}, {"srv"})
          /\ UNCHANGED <<bound, srvClosed>>
       \/ /\ ReadResult("clt") = "NOTHING" /\ ~srvClosed
          /\ Store("clt")
          /\ UNCHANGED <<interest, ready, bound, srvClosed>>

CltWrite ==
    /\ Event("clt", "OUT")
    /\ Send("srv")
    /\ \/ /\ WriteResult("srv") = "IOERR" \/ srvClosed
          /\ Free
       \/ /\ WriteResult("srv") = "TRY_AGAIN" /\ ~srvClosed
          /\ Advance("srv") /\ Modfd({}, {"clt"})
          /\ UNCHANGED <<bound, srvClosed>>
       \/ /\ WriteResult("srv") = "BUFFER_EMPTY" /\ ~srvClosed
          /\ Advance("srv") /\ Modfd({"srv", "clt"}, {})
          /\ UNCHANGED <<bound, srvClosed>>

SrvRead ==
    /\ Event("srv", "IN")
    /\ Recv("srv") /\ Store("srv")
    /\ \/ /\ ReadResult("srv") \in {"OK", "BUFFER_FULL"}
          /\ Modfd({}, {"clt"}) /\ UNCHANGED srvClosed
       \/ /\ ReadResult("srv") \in {"IOERR", "CLOSED"}
          /\ Modfd({}, {"clt"}) /\ srvClosed' = TRUE
       \/ /\ ReadResult("srv") = "NOTHING"
          /\ UNCHANGED <<interest, ready, srvClosed>>
    /\ UNCHANGED bound

SrvWrite ==
    /\ Event("srv", "OUT")
    /\ Send("clt") /\ Advance("clt")
    /\ \/ /\ WriteResult("clt") = "TRY_AGAIN"
          /\ Modfd({}, {"srv"}) /\ UNCHANGED srvClosed
       \/ /\ WriteResult("clt") = "BUFFER_EMPTY"
          /\ Modfd({"clt", "srv"}, {}) /\ UNCHANGED srvClosed
       \/ /\ WriteResult("clt") = "IOERR"
          /\ Modfd({}, {"clt"}) /\ srvClosed' = TRUE
    /\ UNCHANGED bound

\* An event of the batch whose session was freed by an earlier one: m_used
\* has no conn for the socket and process returns NOTHING.
Stale ==
    /\ ~bound /\ batch # <<>>
    /\ batch' = Tail(batch)
    /\ UNCHANGED <<connVars, interest, ready, netVars>>

(***************************************************************************)
(* The remote ends.  With HalfDuplex a client sends a request only when it *)
(* has all of the previous response and a server answers complete          *)
(* requests only, the discipline of HTTP/1.1 without pipelining.           *)
(***************************************************************************)
MaySend(e) ==
    /\ peer[e] = "open"
    /\ IF e = "clt"
       THEN /\ sent[e] < ReqLen * Rounds
            /\ HalfDuplex => sent[e] < ReqLen * (1 + drained[e] \div RespLen)
       ELSE /\ sent[e] < RespLen * Rounds
            /\ HalfDuplex => sent[e] < RespLen * (drained[e] \div ReqLen)

\* Data that arrives wakes the epoll entry only if EPOLLIN is registered.
PeerSend(e) ==
    /\ bound /\ MaySend(e)
    /\ sent' = [sent EXCEPT ![e] = @ + 1]
    /\ ready' = [ready EXCEPT ![e] = @ \/ interest[e] = "IN"]
    /\ UNCHANGED <<connVars, interest, batch, peer, rcvd, delivered, drained>>

\* The write-space callback runs when a full socket gets room.
PeerDrain(e) ==
    /\ bound /\ peer[e] # "rst" /\ drained[e] < Len(delivered[e])
    /\ drained' = [drained EXCEPT ![e] = @ + 1]
    /\ ready' = [ready EXCEPT ![e] = @ \/ (interest[e] = "OUT" /\ Room(e) = 0)]
    /\ UNCHANGED <<connVars, interest, batch, peer, sent, rcvd, delivered>>

\* shutdown, close or a crash of the remote end; the state-change and error
\* callbacks wake the entry whatever is registered.
PeerStop(e) ==
    /\ bound
    /\ \/ peer[e] = "open" /\ peer' = [peer EXCEPT ![e] = "fin"]
       \/ peer[e] # "rst" /\ peer' = [peer EXCEPT ![e] = "rst"]
    /\ ready' = [ready EXCEPT ![e] = TRUE]
    /\ UNCHANGED <<connVars, interest, batch, sent, rcvd, delivered, drained>>

(***************************************************************************)
(* The session starts when pick_conn has bound the client to an idle       *)
(* server connection and registered both sockets for EPOLLIN.              *)
(***************************************************************************)
Init ==
    /\ readIdx = [e \in End |-> 0] /\ writeIdx = [e \in End |-> 0]
    /\ buf = [e \in End |-> Cleared]
    /\ srvClosed = FALSE /\ bound = TRUE
    /\ interest = [e \in End |-> "IN"] /\ ready = [e \in End |-> FALSE]
    /\ batch = <<>>
    /\ peer = [e \in End |-> "open"]
    /\ sent = [e \in End |-> 0] /\ rcvd = [e \in End |-> 0]
    /\ delivered = [e \in End |-> <<>>] /\ drained = [e \in End |-> 0]

Relay == EpollWait \/ CltRead \/ CltWrite \/ SrvRead \/ SrvWrite \/ Stale

Peers == \E e \in End : PeerSend(e) \/ PeerDrain(e) \/ PeerStop(e)

Next == Relay \/ Peers

Spec == Init /\ [][Next]_vars

\* The child's event loop never stops, and a remote end that is alive takes
\* the bytes it is sent.
FairSpec ==
    /\ Spec /\ WF_vars(Relay)
    /\ \A e \in End : WF_vars(PeerDrain(e))

(***************************************************************************)
(* Properties.                                                             *)
(***************************************************************************)
EventType == [end : End, type : {"IN", "OUT"}]

\* Every variable has its type: the indices stay inside the buffers.
TypeOK ==
    /\ readIdx \in [End -> 0..BUF_SIZE] /\ writeIdx \in [End -> 0..BUF_SIZE]
    /\ buf \in [End -> [0..BUF_SIZE-1 -> Nat]]
    /\ srvClosed \in BOOLEAN /\ bound \in BOOLEAN
    /\ interest \in [End -> {"IN", "OUT"}] /\ ready \in [End -> BOOLEAN]
    /\ batch \in Seq(EventType)
    /\ peer \in [End -> {"open", "fin", "rst"}]
    /\ sent \in [End -> Nat] /\ rcvd \in [End -> Nat]
    /\ delivered \in [End -> Seq(Nat)] /\ drained \in [End -> Nat]

InOrder(e) == \A i \in 1..Len(delivered[Other(e)]) : delivered[Other(e)][i] = i

Gap(e) ==
    /\ writeIdx[e] <= readIdx[e]
    /\ rcvd[e] = Len(delivered[Other(e)]) + Pending(e)
    /\ \A i \in 0..BUF_SIZE-1 : writeIdx[e] <= i /\ i < readIdx[e] =>
           buf[e][i] = Len(delivered[Other(e)]) + (i - writeIdx[e]) + 1

BufferIsGap == bound => \A e \in End : Gap(e)

\* The bytes written to an end are a prefix of the bytes the other end sent, and
\* while the session lives every byte read is either written or still in the
\* buffer, at the position the write index says: whatever the order of events
\* and the partial reads and writes, the two index pairs of a conn never lose,
\* repeat or reorder a byte.
StreamIntegrity ==
    /\ BufferIsGap
    /\ \A e \in End : Len(delivered[Other(e)]) <= sent[e] /\ InOrder(e)

\* recv takes only what was sent, send only what the socket has room for.
Flow(e) ==
    /\ rcvd[e] <= sent[e] /\ Len(delivered[Other(e)]) <= sent[e]
    /\ drained[e] <= Len(delivered[e])
    /\ Len(delivered[e]) - drained[e] <= SockBuf

\* When no event is being handled, bytes that wait in a buffer have the socket
\* they wait for registered for EPOLLOUT: the modfd calls of process never
\* take back a write interest that is still needed.
PendingIsArmed ==
    bound /\ batch = <<>> =>
        \A e \in End : Pending(e) > 0 => interest[Other(e)] = "OUT"

\* Every byte an end sends reaches the other end, unless one of them stops: no
\* session is freed, and no byte left in a buffer, between peers that are open.
Delivery ==
    \A e \in End : Len(delivered[Other(e)]) < sent[e] ~>
                      \/ Len(delivered[Other(e)]) = sent[e]
                      \/ \E d \in End : peer[d] # "open"

\* A session whose client or server stopped is freed in the end, so that its
\* conn can be recycled.
StopFrees == (\E e \in End : peer[e] # "open") ~> ~bound

=============================================================================
