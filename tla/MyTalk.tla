------------------------------- MODULE MyTalk -------------------------------
(***************************************************************************)
(* The chat server of chapter 9 (9.6_2_mytalk_server.cpp): one thread that *)
(* polls an array of descriptors and compacts it while it walks over it.   *)
(* What a client says is read into its own buffer, and every other user    *)
(* gets a pointer to that buffer and is polled for POLLOUT.  The walk goes *)
(* by the revents of the last poll while the sockets move on.              *)
(***************************************************************************)
EXTENDS Chat, Integers, Sequences, FiniteSets

CONSTANTS
    MaxConnects,   \* bound: clients that connect
    MaxWords,      \* bound: texts that clients send
    MaxLeaves      \* bound: times a client leaves or is reset

ASSUME MyTalkAssumption ==
    /\ USER_LIMIT \in Nat \ {0} /\ MaxConnects \in Nat
    /\ MaxWords \in Nat /\ MaxLeaves \in Nat

Fd == 1..USER_LIMIT     \* descriptors of users; one turned away is closed at once
NULL == 0               \* no descriptor, no client

VARIABLES
    sock,       \* the connection of a descriptor: up; fin: the client is gone;
                \* rst: reset while it was up, with ECONNRESET pending; epipe: reset
                \* after fin, with EPIPE pending; dead: the error has been fetched
    who,        \* the client on a descriptor
    fds,        \* fds[1..user_counter]: descriptor, POLLOUT asked for, revents
    lrev,       \* fds[0].revents: the listening socket is readable
    i,          \* where the walk is; beyond the last entry: at poll
    write_buf,  \* users[fd].write_buf, NULL or the descriptor whose buf it points to
    buf,        \* users[fd].buf: the client whose words it holds
    copied,     \* history: descriptors whose buf was overwritten by another's
    leaves,     \* environment counter
    killed      \* by SIGPIPE, which nobody handles

userVars == <<write_buf, buf, copied>>
rest == <<arrived, said, leaves, killed>>
vars == <<backlog, sock, inbox, who, fds, lrev, i, userVars, rest>>

user_counter == Len(fds)
pollfd(fd, out, rev) == [fd |-> fd, out |-> out, rev |-> rev]
Gone(f) == sock[f] \in {"fin", "rst", "epipe", "dead"}

\* users[] is not initialised: its first use of a descriptor is a write, and what
\* it holds before that is never sent.
Init ==
    /\ backlog = 0 /\ sock = [f \in Fd |-> "free"] /\ inbox = [f \in Fd |-> 0]
    /\ who = [f \in Fd |-> NULL] /\ fds = <<>> /\ lrev = FALSE /\ i = 1
    /\ write_buf = [f \in Fd |-> NULL] /\ buf = [f \in Fd |-> NULL] /\ copied = {}
    /\ arrived = 0 /\ said = 0 /\ leaves = 0 /\ killed = FALSE

(***************************************************************************)
(* The clients.                                                            *)
(***************************************************************************)
Connect ==
    /\ arrived < MaxConnects
    /\ arrived' = arrived + 1 /\ backlog' = backlog + 1
    /\ UNCHANGED <<sock, inbox, who, fds, lrev, i, userVars, said, leaves, killed>>

Speak(f) ==
    /\ sock[f] = "up" /\ said < MaxWords
    /\ said' = said + 1 /\ inbox' = [inbox EXCEPT ![f] = @ + 1]
    /\ UNCHANGED <<backlog, sock, who, fds, lrev, i, userVars, arrived, leaves, killed>>

\* A client closes its side, or its connection is reset.
Leave(f) ==
    /\ leaves < MaxLeaves /\ leaves' = leaves + 1
    /\ \/ sock[f] = "up" /\ sock' = [sock EXCEPT ![f] = "fin"]
       \/ sock[f] = "up" /\ sock' = [sock EXCEPT ![f] = "rst"]
       \/ sock[f] = "fin" /\ sock' = [sock EXCEPT ![f] = "epipe"]
    /\ UNCHANGED <<backlog, inbox, who, fds, lrev, i, userVars, arrived, said, killed>>

(***************************************************************************)
(* poll.                                                                   *)
(***************************************************************************)
\* Variant: POLLRDHUP is not asked for.
AskedNoRdhup == {"IN"}

\* The events of a new entry; POLLERR needs not be asked for.  When POLLOUT is
\* asked for later, so is everything (see ToTheOthers).
Asked == {"IN", "RDHUP"}

\* What poll reports of an entry when the sockets in room have room.
Revents(e, room) ==
    {c \in {"IN", "OUT", "RDHUP", "ERR"} :
        \/ c = "IN" /\ c \in Asked /\ (inbox[e.fd] > 0 \/ Gone(e.fd))
        \/ c = "OUT" /\ e.out /\ (e.fd \in room \/ sock[e.fd] \in {"rst", "epipe", "dead"})
        \/ c = "RDHUP" /\ (c \in Asked \/ e.out) /\ Gone(e.fd)
        \/ c = "ERR" /\ sock[e.fd] \in {"rst", "epipe"}}

Poll ==
    /\ i > user_counter
    /\ \E room \in SUBSET Fd :
          fds' = [j \in DOMAIN fds |-> pollfd(fds[j].fd, fds[j].out, Revents(fds[j], room))]
    /\ lrev' = (backlog > 0)
    /\ lrev' \/ \E j \in DOMAIN fds : fds'[j].rev # {}
    /\ i' = 0
    /\ UNCHANGED <<backlog, sock, inbox, who, userVars, rest>>

(***************************************************************************)
(* The walk: entry 0, the listening socket.                                *)
(***************************************************************************)
\* accept returns the lowest free descriptor; which one it is makes no difference.
NewFd == CHOOSE f \in Fd : sock[f] = "free"

Listen == i = 0 /\ i' = 1 /\ lrev' = FALSE

\* accept gives a user the next entry; users[connfd] keeps what it holds.
Accept ==
    /\ Listen /\ lrev /\ user_counter < USER_LIMIT
    /\ backlog' = backlog - 1
    /\ sock' = [sock EXCEPT ![NewFd] = "up"]
    /\ who' = [who EXCEPT ![NewFd] = arrived - backlog + 1]
    /\ fds' = Append(fds, pollfd(NewFd, FALSE, {}))
    /\ UNCHANGED <<inbox, userVars, rest>>

\* Too many users: the connection is closed at once.
TurnAway ==
    /\ Listen /\ lrev /\ user_counter >= USER_LIMIT
    /\ backlog' = backlog - 1
    /\ UNCHANGED <<sock, inbox, who, fds, userVars, rest>>

\* accept fails, or nobody waits.
NoClient ==
    /\ Listen
    /\ UNCHANGED <<backlog, sock, inbox, who, fds, userVars, rest>>

(***************************************************************************)
(* The walk: the entries of the users, by the first of POLLERR, POLLRDHUP, *)
(* POLLIN and POLLOUT that was reported.                                   *)
(***************************************************************************)
At(f) == i \in 1..user_counter /\ fds[i].fd = f
Rev == fds[i].rev

\* The walk goes on; the revents it leaves behind are not read again.
Step == i' = i + 1 /\ fds' = [fds EXCEPT ![i] = pollfd(@.fd, @.out, {})]

\* Variant: the error is not fetched.
ErrorKept(f) ==
    /\ At(f) /\ "ERR" \in Rev
    /\ Step
    /\ UNCHANGED <<backlog, sock, inbox, who, lrev, userVars, rest>>

\* getsockopt fetches the pending error; the entry stays.
Error(f) ==
    /\ At(f) /\ "ERR" \in Rev
    /\ sock' = [sock EXCEPT ![f] = IF @ \in {"rst", "epipe"} THEN "dead" ELSE @]
    /\ Step
    /\ UNCHANGED <<backlog, inbox, who, lrev, userVars, rest>>

\* Variant: the counter goes down before the last entry is moved.
CompactTooEarly(f) ==
    /\ fds' = [j \in 1..(user_counter - 1) |->
                 IF j = i /\ user_counter > 1 THEN fds[user_counter - 1] ELSE fds[j]]
    /\ UNCHANGED i

\* The last entry takes the place of entry i and is visited next.
Compact(f) ==
    /\ fds' = [j \in 1..(user_counter - 1) |-> IF j = i THEN fds[user_counter] ELSE fds[j]]
    /\ UNCHANGED i

\* The user of entry i is closed; its users[] is overwritten by the last one's.
Remove(f) ==
    LET last == fds[user_counter].fd
    IN  /\ sock' = [sock EXCEPT ![f] = "free"]
        /\ inbox' = [inbox EXCEPT ![f] = 0] /\ who' = [who EXCEPT ![f] = NULL]
        /\ write_buf' = [write_buf EXCEPT ![f] = write_buf[last]]
        /\ Compact(f)

Left(f) ==
    /\ At(f) /\ "ERR" \notin Rev /\ "RDHUP" \in Rev
    /\ Remove(f)
    /\ LET last == fds[user_counter].fd
       IN  /\ buf' = [buf EXCEPT ![f] = buf[last]]
           /\ copied' = IF last = f THEN copied ELSE copied \cup {f}
    /\ UNCHANGED <<backlog, lrev, rest>>

\* What recv may return: end is 0, which the code says does not happen.  Behind
\* a FIN it is 0 also when an error is pending.
RecvResults(f) ==
    {r \in {"data", "error", "again", "end"} :
        \/ r = "data" /\ inbox[f] > 0
        \/ r = "error" /\ sock[f] = "rst"
        \/ r = "again" /\ inbox[f] = 0 /\ sock[f] = "up"
        \/ r = "end" /\ inbox[f] = 0 /\ sock[f] \in {"fin", "epipe", "dead"}}

\* Variant: the speaker is not left out of the loop.
ToEveryone(f) ==
    /\ fds' = [j \in DOMAIN fds |-> pollfd(fds[j].fd, TRUE, IF j = i THEN {} ELSE fds[j].rev)]
    /\ write_buf' = [g \in Fd |->
          IF \E j \in DOMAIN fds : fds[j].fd = g THEN f ELSE write_buf[g]]

\* Every other user gets a pointer to the speaker's buffer.  events |= ~POLLIN
\* sets all the other bits, POLLOUT among them, and takes none away.
ToTheOthers(f) ==
    /\ fds' = [j \in DOMAIN fds |->
                 pollfd(fds[j].fd, fds[j].out \/ j # i, IF j = i THEN {} ELSE fds[j].rev)]
    /\ write_buf' = [g \in Fd |->
          IF g # f /\ \E j \in DOMAIN fds : fds[j].fd = g THEN f ELSE write_buf[g]]

Hear(f) ==
    /\ inbox' = [inbox EXCEPT ![f] = @ - 1]
    /\ buf' = [buf EXCEPT ![f] = who[f]] /\ copied' = copied \ {f}
    /\ ToTheOthers(f)
    /\ i' = i + 1 /\ UNCHANGED <<sock, who>>

\* The buffer is cleared before recv; on an error the user is removed.
Fail(f) ==
    LET last == fds[user_counter].fd
    IN  /\ Remove(f)
        /\ buf' = [buf EXCEPT ![f] = IF last = f THEN NULL ELSE buf[last]]
        /\ copied' = IF last = f THEN copied \ {f} ELSE copied \cup {f}

Nothing(f) ==
    /\ buf' = [buf EXCEPT ![f] = NULL] /\ copied' = copied \ {f}
    /\ Step /\ UNCHANGED <<sock, inbox, who, write_buf>>

Read(f) ==
    /\ At(f) /\ Rev \cap {"ERR", "RDHUP"} = {} /\ "IN" \in Rev
    /\ \E r \in RecvResults(f) :
          CASE r = "data" -> Hear(f)
            [] r = "error" -> Fail(f)
            [] OTHER -> Nothing(f)
    /\ UNCHANGED <<backlog, lrev, rest>>

\* send, whose result is not looked at, fetches a pending ECONNRESET.  On EPIPE,
\* and on a connection that is gone with no error pending, it raises SIGPIPE.
\* events |= ~POLLOUT leaves POLLOUT set.
Write(f) ==
    /\ At(f) /\ Rev = {"OUT"} /\ Step
    /\ IF write_buf[f] = NULL THEN UNCHANGED <<sock, killed>>
       ELSE /\ sock' = [sock EXCEPT ![f] = IF @ \in {"rst", "epipe"} THEN "dead" ELSE @]
            /\ IF sock[f] \in {"epipe", "dead"} THEN killed' = TRUE ELSE UNCHANGED killed
    /\ write_buf' = [write_buf EXCEPT ![f] = NULL]
    /\ UNCHANGED <<backlog, inbox, who, lrev, buf, copied, arrived, said, leaves>>

Quiet(f) ==
    /\ At(f) /\ Rev = {} /\ Step
    /\ UNCHANGED <<backlog, sock, inbox, who, lrev, userVars, rest>>

Visit(f) == Error(f) \/ Left(f) \/ Read(f) \/ Write(f) \/ Quiet(f)

Server == Poll \/ Accept \/ TurnAway \/ NoClient \/ \E f \in Fd : Visit(f)

Next == ~killed /\ (Server \/ Connect \/ \E f \in Fd : Speak(f) \/ Leave(f))

Spec == Init /\ [][Next]_vars

\* The thread of the server runs; clients need not do anything.
FairSpec == Spec /\ WF_vars(~killed /\ Server)

(***************************************************************************)
(* Properties.                                                             *)
(***************************************************************************)
TypeOK ==
    /\ backlog \in Nat /\ sock \in [Fd -> {"free", "up", "fin", "rst", "epipe", "dead"}]
    /\ inbox \in [Fd -> Nat] /\ who \in [Fd -> Nat]
    /\ fds \in Seq([fd : Fd, out : BOOLEAN, rev : SUBSET {"IN", "OUT", "RDHUP", "ERR"}])
    /\ lrev \in BOOLEAN /\ i \in 0..(USER_LIMIT + 1)
    /\ write_buf \in [Fd -> Fd \cup {NULL}] /\ buf \in [Fd -> Nat]
    /\ copied \subseteq Fd /\ arrived \in Nat /\ said \in Nat /\ leaves \in Nat
    /\ killed \in BOOLEAN

\* The first user_counter entries of fds are the open descriptors, each once,
\* and never more than USER_LIMIT: whatever the order in which users come and
\* leave, the compaction in the middle of the walk loses none and keeps none
\* that is closed.  Every variable has its type.
Slots ==
    /\ TypeOK
    /\ {fds[j].fd : j \in DOMAIN fds} = {f \in Fd : sock[f] # "free"}
    /\ \A j, k \in DOMAIN fds : fds[j].fd = fds[k].fd => j = k

\* The entries the walk has not reached may be read or written by their old
\* revents: recv finds a text or an error where POLLIN stands alone ("code
\* should not come to here" is right about a recv of 0), and no entry that has
\* only POLLOUT is a socket whose error has been fetched.  So the server dies
\* of SIGPIPE in one way only: it sends to a client that left and was reset
\* between the poll and its visit.
Usable ==
    \A j \in DOMAIN fds : i <= j =>
        /\ "IN" \in fds[j].rev /\ fds[j].rev \cap {"ERR", "RDHUP"} = {} =>
              inbox[fds[j].fd] > 0 \/ sock[fds[j].fd] = "rst"
        /\ fds[j].rev = {"OUT"} => sock[fds[j].fd] # "dead"

\* What a user is about to be sent are the words of someone else, through a
\* pointer into a buffer that is not its own - unless that buffer was
\* overwritten when its user left, which may bring a user its own old words.
Foreign ==
    \A j \in DOMAIN fds :
        LET f == fds[j].fd  g == write_buf[f]
        IN  fds[j].out /\ g # NULL =>
               g # f /\ (g \notin copied => buf[g] # who[f])

\* Whatever clients leave, and in whichever step of the walk, the server comes
\* again to a state in which every one that left is removed, unless SIGPIPE
\* kills it.
Removed == <>killed \/ []<>(\A f \in Fd : ~Gone(f))

=============================================================================
