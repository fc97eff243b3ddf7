----------------------------- MODULE CgiServer ------------------------------
(***************************************************************************)
(* The process pool of chapter 15 (15_3_1_process_pool.h) with the CGI     *)
(* server that uses it (15_4_1_cgi_server.cpp).  The parent passes clients *)
(* to its children in turn; a child accepts them, reads the name of a      *)
(* program up to CRLF and forks to run it on the connection.  A program    *)
(* inherits every connection its child has open.  All descriptors are      *)
(* edge-triggered.                                                         *)
(***************************************************************************)
EXTENDS Integers, Sequences, FiniteSets

CONSTANTS
    N,             \* m_process_number
    Clients,       \* bound: clients that connect
    Requests,      \* what each of them sends: x (any byte), r (CR), n (LF)
    Cuts,          \* bound: the lengths at which a piece of it may end
    BUFFER_SIZE,
    MaxStops       \* bound: children that exit on their own, and SIGTERM

ASSUME CgiServerAssumption ==
    /\ N \in Nat \ {0} /\ MaxStops \in Nat /\ BUFFER_SIZE \in Nat \ {0}
    /\ Clients \in Nat /\ Cuts \subseteq Nat /\ Requests \subseteq [1..Clients -> Seq({"x", "r", "n"})]

Child == 1..N
Client == 1..Clients
LISTEN == 0         \* m_listenfd and sig_pipefd[0] as events of the parent's
SIGNAL == N + 1     \* epoll set

VARIABLES
    pid,       \* running; exited (a zombie); reaped (m_pid = -1)
    sub_process_counter,
    jobs,      \* new_conn messages in the pipe to a child
    wake,      \* the child's end of that pipe is on its ready list
    sig,       \* the signals in a child's signal pipe
    busy,      \* the client whose process() a child is in, or 0
    state,     \* a client: out, queued (in the accept queue), open, closed
    home,      \* the child that accepted it
    ready,     \* its connection is on the child's ready list
    request,   \* what it sends, all in all
    sent,      \* bytes of it that are sent
    gone,      \* it has closed its side, or the connection failed
    m_read_idx,
    runs,      \* the lengths of the names of the programs run for it
    prog,      \* its program: none, runs, zombie, done
    held,      \* the connections that program has inherited
    pready,    \* ready list of the parent's epoll set
    pbatch,    \* events of the parent's last epoll_wait not handled yet
    sigs,      \* signals in the parent's signal pipe
    m_stop, done,   \* m_stop of the parent; run_parent has returned
    turns,     \* history: the clients passed to a child
    crashed, asked  \* environment counters

parentVars == <<sub_process_counter, turns, pready, pbatch, sigs, m_stop, done>>
childVars == <<pid, jobs, wake, sig, busy>>
clientVars == <<state, home, ready, request, sent, gone, m_read_idx>>
progVars == <<runs, prog, held>>
vars == <<parentVars, childVars, clientVars, progVars, crashed, asked>>

Running(i) == pid[i] = "running"
Queued == {c \in Client : state[c] = "queued"}
Open(i) == {c \in Client : state[c] = "open" /\ home[c] = i}
Readable(c) == m_read_idx[c] < sent[c] \/ gone[c]

Init ==
    /\ pid = [i \in Child |-> "running"] /\ sub_process_counter = 1
    /\ jobs = [i \in Child |-> 0] /\ wake = [i \in Child |-> FALSE]
    /\ sig = [i \in Child |-> {}] /\ busy = [i \in Child |-> 0]
    /\ state = [c \in Client |-> "out"] /\ home = [c \in Client |-> 0]
    /\ ready = [c \in Client |-> FALSE] /\ sent = [c \in Client |-> 0]
    /\ request \in Requests
    /\ gone = [c \in Client |-> FALSE] /\ m_read_idx = [c \in Client |-> 0]
    /\ runs = [c \in Client |-> <<>>] /\ prog = [c \in Client |-> "none"]
    /\ held = [c \in Client |-> {}]
    /\ pready = {} /\ pbatch = <<>> /\ sigs = {} /\ m_stop = FALSE /\ done = FALSE
    /\ turns = [i \in Child |-> 0] /\ crashed = 0 /\ asked = FALSE

(***************************************************************************)
(* The environment: clients connect in the order of their numbers, send    *)
(* their request in pieces and leave; programs end; an operator sends      *)
(* SIGTERM to the parent.                                                  *)
(***************************************************************************)
Connect(c) ==
    /\ ~done /\ state[c] = "out" /\ \A d \in Client : d < c => state[d] # "out"
    /\ state' = [state EXCEPT ![c] = "queued"]
    /\ pready' = pready \cup {LISTEN}
    /\ UNCHANGED <<sub_process_counter, turns, pbatch, sigs, m_stop, done, childVars,
                   home, ready, request, sent, gone, m_read_idx, progVars, crashed, asked>>

Send(c) ==
    /\ state[c] \in {"queued", "open"} /\ ~gone[c]
    /\ \/ /\ \E n \in Cuts \cap ((sent[c] + 1)..Len(request[c])) : sent' = [sent EXCEPT ![c] = n]
          /\ UNCHANGED gone
       \/ gone' = [gone EXCEPT ![c] = TRUE] /\ UNCHANGED sent
    /\ ready' = [ready EXCEPT ![c] = state[c] = "open"]
    /\ UNCHANGED <<parentVars, childVars, state, home, request, m_read_idx, progVars, crashed, asked>>

ProgramEnds(c) ==
    /\ prog[c] = "runs"
    /\ held' = [held EXCEPT ![c] = {}]
    /\ IF Running(home[c])
       THEN /\ prog' = [prog EXCEPT ![c] = "zombie"]
            /\ sig' = [sig EXCEPT ![home[c]] = @ \cup {"CHLD"}]
       ELSE prog' = [prog EXCEPT ![c] = "done"] /\ UNCHANGED sig
    /\ UNCHANGED <<parentVars, pid, jobs, wake, busy, clientVars, runs, crashed, asked>>

Within == crashed + (IF asked THEN 1 ELSE 0) < MaxStops

AskStop ==
    /\ Within /\ ~asked /\ ~done /\ asked' = TRUE
    /\ sigs' = sigs \cup {"TERM"} /\ pready' = pready \cup {SIGNAL}
    /\ UNCHANGED <<sub_process_counter, turns, pbatch, m_stop, done, childVars,
                   clientVars, progVars, crashed>>

(***************************************************************************)
(* A child: run_child.  One message is taken per edge of its pipe; the     *)
(* events of one epoll_wait are handled in any order.                      *)
(***************************************************************************)
Idle(i) == Running(i) /\ busy[i] = 0

TakeJob(i) ==
    /\ Idle(i) /\ wake[i] /\ jobs[i] > 0
    /\ jobs' = [jobs EXCEPT ![i] = @ - 1] /\ wake' = [wake EXCEPT ![i] = FALSE]
    /\ UNCHANGED <<parentVars, pid, sig, busy, request, sent, gone, progVars, crashed, asked>>

\* accept and cgi_conn::init; adding the connection reports what it has already.
Accept(i) ==
    /\ TakeJob(i) /\ Queued # {}
    /\ LET c == CHOOSE c \in Queued : \A d \in Queued : c <= d
       IN  /\ state' = [state EXCEPT ![c] = "open"] /\ home' = [home EXCEPT ![c] = i]
           /\ m_read_idx' = [m_read_idx EXCEPT ![c] = 0]
           /\ ready' = [ready EXCEPT ![c] = sent[c] > 0 \/ gone[c]]

\* accept fails, for want of descriptors or of a client.
AcceptFails(i) == TakeJob(i) /\ UNCHANGED <<state, home, ready, m_read_idx>>

(***************************************************************************)
(* cgi_conn::process, one recv at a time.                                  *)
(***************************************************************************)
Leave(i) == busy' = [busy EXCEPT ![i] = 0]
removefd(c) == state' = [state EXCEPT ![c] = "closed"]

\* Variant: recv is not told how much room there is.
CountOfAll(c) == sent[c] - m_read_idx[c]

Count(c) == LET room == BUFFER_SIZE - 1 - m_read_idx[c]
                left == sent[c] - m_read_idx[c]
            IN  IF left < room THEN left ELSE room

\* Variant: the search does not look at the byte before those just received.
LineEndsWithin(c) ==
    {p \in (m_read_idx[c] + 2)..(m_read_idx[c] + Count(c)) :
        request[c][p - 1] = "r" /\ request[c][p] = "n"}

\* Where a CRLF ends among the bytes just received, the CR perhaps before them.
LineEnds(c) ==
    {p \in (m_read_idx[c] + 1)..(m_read_idx[c] + Count(c)) :
        p > 1 /\ request[c][p - 1] = "r" /\ request[c][p] = "n"}

LineEnd(c) == CHOOSE p \in LineEnds(c) : \A q \in LineEnds(c) : p <= q

\* Nothing more now: EAGAIN, also where recv is asked for no bytes because the
\* buffer is full.
Again(i, c) ==
    /\ m_read_idx[c] = sent[c] /\ ~gone[c]
    /\ Leave(i) /\ UNCHANGED <<state, m_read_idx, progVars>>

\* recv returns 0, because the client is gone or because the buffer is full and
\* more has come, or an error.
EndOfInput(i, c) ==
    /\ Count(c) = 0 /\ (m_read_idx[c] < sent[c] \/ gone[c])
    /\ removefd(c) /\ Leave(i) /\ UNCHANGED <<m_read_idx, progVars>>

\* Variant: process returns to wait for the rest of the line.
MoreLater(i, c) ==
    /\ Count(c) > 0 /\ LineEnds(c) = {}
    /\ m_read_idx' = [m_read_idx EXCEPT ![c] = @ + Count(c)]
    /\ Leave(i) /\ UNCHANGED <<state, progVars>>

\* No CRLF yet: recv again.
More(i, c) ==
    /\ Count(c) > 0 /\ LineEnds(c) = {}
    /\ m_read_idx' = [m_read_idx EXCEPT ![c] = @ + Count(c)]
    /\ busy' = [busy EXCEPT ![i] = c] /\ UNCHANGED <<state, progVars>>

\* A line: the program is run with what the child has open, or there is no file
\* of that name or no process for it.  Either way the connection is closed.
Line(i, c) ==
    /\ Count(c) > 0 /\ LineEnds(c) # {}
    /\ m_read_idx' = [m_read_idx EXCEPT ![c] = @ + Count(c)]
    /\ \/ /\ LineEnd(c) > 2
          /\ runs' = [runs EXCEPT ![c] = Append(@, LineEnd(c) - 2)]
          /\ prog' = [prog EXCEPT ![c] = "runs"]
          /\ held' = [held EXCEPT ![c] = Open(i)]
       \/ UNCHANGED progVars
    /\ removefd(c) /\ Leave(i)

\* The next recv of the process() the child is in, or the first one for an event.
Process(i) ==
    /\ Running(i)
    /\ \E c \in Open(i) :
        /\ \/ busy[i] = c /\ UNCHANGED ready
           \/ /\ busy[i] = 0 /\ ready[c] /\ Readable(c)
              /\ ready' = [ready EXCEPT ![c] = FALSE]
        /\ Again(i, c) \/ EndOfInput(i, c) \/ More(i, c) \/ Line(i, c)
    /\ UNCHANGED <<parentVars, pid, jobs, wake, sig, home, request, sent, gone,
                   crashed, asked>>

(***************************************************************************)
(* Signals of a child, and its end.                                        *)
(***************************************************************************)
\* waitpid is called until it finds nobody.
ReapPrograms(i) ==
    prog' = [c \in Client |->
               IF prog[c] = "zombie" /\ home[c] = i THEN "done" ELSE prog[c]]

ChildReap(i) ==
    /\ Idle(i) /\ sig[i] = {"CHLD"} /\ sig' = [sig EXCEPT ![i] = {}]
    /\ ReapPrograms(i)
    /\ UNCHANGED <<parentVars, pid, jobs, wake, busy, clientVars, runs, held, crashed, asked>>

\* The process is gone: its connections are closed, its programs have another
\* parent, and SIGCHLD is raised.
Exit(i) ==
    /\ pid' = [pid EXCEPT ![i] = "exited"]
    /\ jobs' = [jobs EXCEPT ![i] = 0] /\ wake' = [wake EXCEPT ![i] = FALSE]
    /\ sig' = [sig EXCEPT ![i] = {}] /\ busy' = [busy EXCEPT ![i] = 0]
    /\ state' = [c \in Client |-> IF c \in Open(i) THEN "closed" ELSE state[c]]
    /\ ReapPrograms(i)
    /\ sigs' = sigs \cup {"CHLD"} /\ pready' = pready \cup {SIGNAL}
    /\ UNCHANGED <<sub_process_counter, turns, pbatch, m_stop, done, home, ready, request, sent,
                   gone, m_read_idx, runs, held, asked>>

\* SIGTERM sets m_stop and the loop ends.
ChildStop(i) == Idle(i) /\ "TERM" \in sig[i] /\ Exit(i) /\ UNCHANGED crashed

Crash(i) == Running(i) /\ Within /\ crashed' = crashed + 1 /\ Exit(i)

(***************************************************************************)
(* The parent: run_parent.                                                 *)
(***************************************************************************)
Orders(S) == {s \in [1..Cardinality(S) -> S] : \A i, j \in DOMAIN s : s[i] = s[j] => i = j}

EpollWait ==
    /\ ~done /\ ~m_stop /\ pbatch = <<>> /\ pready # {}
    /\ pbatch' \in Orders({ev \in pready : \/ ev = LISTEN /\ Queued # {}
                                           \/ ev = SIGNAL /\ sigs # {}})
    /\ pready' = {}
    /\ UNCHANGED <<sub_process_counter, turns, sigs, m_stop, done, childVars, clientVars,
                   progVars, crashed, asked>>

Handle(ev) == pbatch # <<>> /\ Head(pbatch) = ev /\ pbatch' = Tail(pbatch)

\* The child that is k places on.
Nth(k) == ((sub_process_counter - 1 + k) % N) + 1
Joined(i) == pid[i] = "reaped"

\* Variant: the counter goes on by one, not from the child that was chosen.
CountByOne(i) == sub_process_counter' = (sub_process_counter % N) + 1

CountFrom(i) == sub_process_counter' = (i % N) + 1

\* The next child that is not reaped is sent one message for the edge of the
\* listening socket; when it has exited the message is lost.  With no child
\* left the loops over the events and of the parent end.
Dispatch ==
    /\ Handle(LISTEN) /\ ~\A i \in Child : Joined(i)
    /\ LET k == CHOOSE k \in 0..(N - 1) : ~Joined(Nth(k)) /\ \A l \in 0..(k - 1) : Joined(Nth(l))
           i == Nth(k)
       IN  /\ CountFrom(i)
           /\ turns' = [turns EXCEPT ![i] = @ + 1]
           /\ jobs' = [jobs EXCEPT ![i] = IF Running(i) THEN @ + 1 ELSE @]
           /\ wake' = [wake EXCEPT ![i] = @ \/ Running(i)]
    /\ UNCHANGED <<pid, sig, busy, pready, sigs, m_stop, done, clientVars, progVars,
                   crashed, asked>>

NobodyLeft ==
    /\ pbatch # <<>> /\ Head(pbatch) = LISTEN /\ \A i \in Child : Joined(i)
    /\ m_stop' = TRUE /\ pbatch' = <<>>
    /\ UNCHANGED <<sub_process_counter, turns, pready, sigs, done, childVars, clientVars,
                   progVars, crashed, asked>>

\* SIGCHLD reaps the children that have exited, and the parent stops with the
\* last; SIGTERM is passed on to the others.
Signals ==
    /\ Handle(SIGNAL) /\ sigs' = {}
    /\ IF "CHLD" \in sigs
       THEN /\ pid' = [i \in Child |-> IF pid[i] = "exited" THEN "reaped" ELSE pid[i]]
            /\ m_stop' = \A i \in Child : pid'[i] = "reaped"
       ELSE UNCHANGED <<pid, m_stop>>
    /\ sig' = IF "TERM" \in sigs
              THEN [i \in Child |-> IF Running(i) THEN sig[i] \cup {"TERM"} ELSE sig[i]]
              ELSE sig
    /\ UNCHANGED <<sub_process_counter, turns, pready, done, jobs, wake, busy, clientVars,
                   progVars, crashed, asked>>

Return ==
    /\ m_stop /\ pbatch = <<>> /\ ~done /\ done' = TRUE
    /\ UNCHANGED <<sub_process_counter, turns, pready, pbatch, sigs, m_stop, childVars,
                   clientVars, progVars, crashed, asked>>

Parent == EpollWait \/ Dispatch \/ NobodyLeft \/ Signals \/ Return

ChildStep(i) ==
    \/ Accept(i) \/ AcceptFails(i) \/ Process(i) \/ ChildReap(i) \/ ChildStop(i)

Next ==
    \/ Parent
    \/ \E i \in Child : ChildStep(i) \/ Crash(i)
    \/ \E c \in Client : Connect(c) \/ Send(c) \/ ProgramEnds(c)
    \/ AskStop

Spec == Init /\ [][Next]_vars

\* The loops of the parent and of the children run and the programs end; nobody
\* has to connect, to send, to fail or to send a signal.
FairSpec ==
    /\ Spec /\ WF_vars(Parent) /\ \A i \in Child : WF_vars(ChildStep(i))
    /\ \A c \in Client : WF_vars(ProgramEnds(c))

(***************************************************************************)
(* Properties.                                                             *)
(***************************************************************************)
\* Every variable has its type; a child is in process() only for a connection
\* that is open and its own, and no byte is stored behind the buffer.
TypeOK ==
    /\ pid \in [Child -> {"running", "exited", "reaped"}]
    /\ sub_process_counter \in Child /\ turns \in [Child -> Nat]
    /\ jobs \in [Child -> Nat] /\ wake \in [Child -> BOOLEAN]
    /\ sig \in [Child -> SUBSET {"CHLD", "TERM"}] /\ busy \in [Child -> Client \cup {0}]
    /\ \A i \in Child : busy[i] # 0 => busy[i] \in Open(i)
    /\ state \in [Client -> {"out", "queued", "open", "closed"}]
    /\ request \in Requests /\ home \in [Client -> Child \cup {0}] /\ ready \in [Client -> BOOLEAN]
    /\ gone \in [Client -> BOOLEAN] /\ sent \in [Client -> Nat]
    /\ m_read_idx \in [Client -> 0..(BUFFER_SIZE - 1)]
    /\ \A c \in Client : m_read_idx[c] <= sent[c] /\ sent[c] <= Len(request[c])
    /\ runs \in [Client -> Seq(Nat)] /\ held \in [Client -> SUBSET Client]
    /\ prog \in [Client -> {"none", "runs", "zombie", "done"}]
    /\ pready \subseteq {LISTEN, SIGNAL} /\ pbatch \in Seq({LISTEN, SIGNAL})
    /\ sigs \subseteq {"CHLD", "TERM"} /\ m_stop \in BOOLEAN /\ done \in BOOLEAN
    /\ crashed \in Nat /\ asked \in BOOLEAN

\* Round robin: of the children that are not reaped none has been passed two
\* clients more than another, whoever was reaped and skipped in between.
InTurn ==
    \A i, j \in Child : ~Joined(i) /\ ~Joined(j) => turns[i] <= turns[j] + 1

\* A program is run at most once for a client, by the name before the first CRLF
\* of what the client sent, in however many pieces, and the connection is closed
\* then; and a program that has ended is a zombie only as long as the child
\* that forked it has a SIGCHLD to handle, though several are one byte.
Programs ==
    \A c \in Client :
        /\ runs[c] # <<>> =>
              LET ends == {p \in 2..sent[c] : request[c][p - 1] = "r" /\ request[c][p] = "n"}
              IN  /\ state[c] = "closed" /\ Len(runs[c]) = 1
                  /\ runs[c][1] + 2 \in ends /\ \A p \in ends : runs[c][1] + 2 <= p
        /\ prog[c] = "zombie" => Running(home[c]) /\ "CHLD" \in sig[home[c]]

\* Nothing more is needed from the client: a line, its end, or more than the
\* buffer takes (a client that fills it exactly is waited for).
Complete(c) ==
    \/ gone[c] \/ sent[c] >= BUFFER_SIZE
    \/ \E p \in 2..sent[c] : request[c][p - 1] = "r" /\ request[c][p] = "n"

\* The client sees the end of its connection: the child has closed it, and no
\* program still holds it.
Ended(c) ==
    state[c] = "closed" /\ \A d \in Client : prog[d] = "runs" => c \notin held[d]

Waits(c) == state[c] \in {"open", "closed"} /\ Complete(c) /\ ~Ended(c)

\* Accepted clients that have sent a line, or too much for one, or are gone,
\* are answered and see the end of their connections: there is always a later
\* state in which no such client waits.
Answered == []<>(\A c \in Client : ~Waits(c))

=============================================================================
