------------------------------ MODULE Balancer ------------------------------
(***************************************************************************)
(* The processes of springsnail: the parent (processpool::run_parent) and  *)
(* its children (processpool::run_child) with what connects them: one      *)
(* stream socket pair per child, the listening socket they share, and      *)
(* signals turned into bytes on a pipe.  All sockets are edge-triggered.   *)
(* The mgr of a child is reduced to the number of its sessions; whether it *)
(* finds an idle server connection (ConnMgr) is a nondeterministic choice. *)
(***************************************************************************)
EXTENDS Integers, Sequences, FiniteSets

CONSTANTS
    N,            \* m_process_number
    MaxConn,      \* m_conncnt: server connections of a child
    MaxClients,   \* bound: clients that connect
    MaxEnds,      \* bound: sessions that end
    MaxCrash,     \* bound: children that exit on their own
    MaxStale      \* bound: NULL entries of m_used, left by events of old sockets

ASSUME BalancerAssumption ==
    /\ N \in Nat \ {0} /\ MaxConn \in Nat
    /\ MaxClients \in Nat /\ MaxEnds \in Nat /\ MaxCrash \in Nat /\ MaxStale \in Nat

Child == 1..N
LISTEN == 0         \* m_listenfd, sig_pipefd[0] and m_pipefd[0] of the
SIGNAL == N + 1     \* children as events of the parent's epoll set

VARIABLES
    pid,       \* running; exited (a zombie); reaped (m_pid = -1)
    ratio,     \* m_busy_ratio
    jobs,      \* new_conn messages in the pipe to a child
    wake,      \* the child's end of that pipe is on its ready list
    term,      \* a SIGTERM byte waits in the child's signal pipe
    sessions,  \* sessions of a child, each two entries of m_used
    msgs,      \* bytes in the pipe from a child
    backlog,   \* clients in the accept queue
    pready,    \* ready list of the parent's epoll set
    pbatch,    \* events of the parent's last epoll_wait not handled yet
    sigs,      \* signals in the parent's signal pipe
    m_stop,    \* m_stop of the parent
    done,      \* run_parent has returned
    arrived, ended, crashed, asked   \* environment counters

childVars == <<jobs, wake, term, sessions>>
parentVars == <<ratio, pready, pbatch, m_stop, done>>
vars == <<pid, ratio, jobs, wake, term, sessions, msgs, backlog, pready, pbatch,
          sigs, m_stop, done, arrived, ended, crashed, asked>>

Events == Child \cup {LISTEN, SIGNAL}
Orders(S) == {s \in [1..Cardinality(S) -> S] : \A i, j \in DOMAIN s : s[i] = s[j] => i = j}
Running(i) == pid[i] = "running"

\* The size of m_used with n sessions: the lookup of process leaves a NULL entry
\* for every number it does not find, until a session of that number is freed.
get_used_conn_cnt(n) == {2 * n + stale : stale \in 0..MaxStale}

Init ==
    /\ pid = [i \in Child |-> "running"] /\ ratio = [i \in Child |-> 0]
    /\ jobs = [i \in Child |-> 0] /\ wake = [i \in Child |-> FALSE]
    /\ term = [i \in Child |-> FALSE] /\ sessions = [i \in Child |-> 0]
    /\ msgs = [i \in Child |-> <<>>] /\ backlog = 0
    /\ pready = {} /\ pbatch = <<>> /\ sigs = {}
    /\ m_stop = FALSE /\ done = FALSE
    /\ arrived = 0 /\ ended = 0 /\ crashed = 0 /\ asked = FALSE

(***************************************************************************)
(* The environment: clients connect, an operator sends SIGTERM to the      *)
(* parent.                                                                 *)
(***************************************************************************)
Arrive ==
    /\ arrived < MaxClients /\ ~done
    /\ arrived' = arrived + 1 /\ backlog' = backlog + 1
    /\ pready' = pready \cup {LISTEN}
    /\ UNCHANGED <<pid, ratio, childVars, msgs, pbatch, sigs, m_stop, done,
                   ended, crashed, asked>>

AskStop ==
    /\ ~asked /\ ~done /\ asked' = TRUE
    /\ sigs' = sigs \cup {"TERM"} /\ pready' = pready \cup {SIGNAL}
    /\ UNCHANGED <<pid, ratio, childVars, msgs, backlog, pbatch, m_stop, done,
                   arrived, ended, crashed>>

(***************************************************************************)
(* A child.  It takes one message per edge of its pipe, whatever the       *)
(* number that arrived.                                                    *)
(***************************************************************************)
\* notify_parent_busy_ratio after the number of sessions became n: one byte.
NotifyParent(i, n) ==
    /\ sessions' = [sessions EXCEPT ![i] = n]
    /\ \E count \in get_used_conn_cnt(n) :
          msgs' = [msgs EXCEPT ![i] = Append(@, count % 256)]
    /\ pready' = pready \cup {i}

TakeJob(i) ==
    /\ Running(i) /\ wake[i] /\ jobs[i] > 0
    /\ jobs' = [jobs EXCEPT ![i] = @ - 1] /\ wake' = [wake EXCEPT ![i] = FALSE]

\* Variant: pick_conn does not test whether m_conns is empty.
ChildAcceptUntested(i) ==
    /\ TakeJob(i) /\ backlog > 0
    /\ backlog' = backlog - 1
    /\ NotifyParent(i, sessions[i] + 1)
    /\ UNCHANGED <<pid, ratio, term, pbatch, sigs, m_stop, done,
                   arrived, ended, crashed, asked>>

\* accept, pick_conn succeeds.
ChildAccept(i) ==
    /\ TakeJob(i) /\ backlog > 0 /\ sessions[i] < MaxConn
    /\ backlog' = backlog - 1
    /\ NotifyParent(i, sessions[i] + 1)
    /\ UNCHANGED <<pid, ratio, term, pbatch, sigs, m_stop, done,
                   arrived, ended, crashed, asked>>

\* accept, pick_conn finds no idle connection: the client is closed and the
\* parent is not told.
ChildReject(i) ==
    /\ TakeJob(i) /\ backlog > 0
    /\ backlog' = backlog - 1
    /\ UNCHANGED <<pid, term, sessions, msgs, parentVars, sigs,
                   arrived, ended, crashed, asked>>

\* accept fails, for want of descriptors or of a client: the message is used
\* up and the client stays in the accept queue.
ChildAcceptFails(i) ==
    /\ TakeJob(i)
    /\ UNCHANGED <<pid, term, sessions, msgs, backlog, parentVars, sigs,
                   arrived, ended, crashed, asked>>

\* process returned CLOSED for one of the sessions.
EndSession(i) ==
    /\ Running(i) /\ sessions[i] > 0 /\ ended < MaxEnds
    /\ ended' = ended + 1
    /\ NotifyParent(i, sessions[i] - 1)
    /\ UNCHANGED <<pid, ratio, jobs, wake, term, backlog, pbatch, sigs, m_stop, done,
                   arrived, crashed, asked>>

\* The process is gone: its end of the pipe is closed, which the parent sees as
\* an event on the pipe, and SIGCHLD is raised.
Exit(i) ==
    /\ pid' = [pid EXCEPT ![i] = "exited"]
    /\ jobs' = [jobs EXCEPT ![i] = 0] /\ wake' = [wake EXCEPT ![i] = FALSE]
    /\ term' = [term EXCEPT ![i] = FALSE] /\ sessions' = [sessions EXCEPT ![i] = 0]
    /\ sigs' = sigs \cup {"CHLD"}
    /\ pready' = pready \cup {i, SIGNAL}
    /\ UNCHANGED <<ratio, msgs, backlog, pbatch, m_stop, done, arrived, ended, asked>>

\* The SIGTERM byte sets m_stop and the loop ends.
ChildStop(i) == Running(i) /\ term[i] /\ Exit(i) /\ UNCHANGED crashed

Crash(i) == Running(i) /\ crashed < MaxCrash /\ crashed' = crashed + 1 /\ Exit(i)

(***************************************************************************)
(* The parent.                                                             *)
(***************************************************************************)
\* epoll_wait reports what is on the ready list and still readable.
Readable(ev) ==
    \/ ev = LISTEN /\ backlog > 0
    \/ ev = SIGNAL /\ sigs # {}
    \/ ev \in Child /\ (~Running(ev) \/ msgs[ev] # <<>>)

EpollWait ==
    /\ ~done /\ ~m_stop /\ pbatch = <<>> /\ pready # {}
    /\ pbatch' \in Orders({ev \in pready : Readable(ev)}) /\ pready' = {}
    /\ UNCHANGED <<pid, ratio, childVars, msgs, backlog, sigs, m_stop, done,
                   arrived, ended, crashed, asked>>

Handle(ev) == pbatch # <<>> /\ Head(pbatch) = ev /\ pbatch' = Tail(pbatch)

\* The first child of the least ratio; a child that is gone keeps its last one.
get_most_free_srv ==
    CHOOSE i \in Child : \A j \in Child :
        ratio[i] < ratio[j] \/ (ratio[i] = ratio[j] /\ i <= j)

\* Variant: every child is told of the client.
DispatchToAll ==
    /\ Handle(LISTEN)
    /\ jobs' = [i \in Child |-> IF Running(i) THEN jobs[i] + 1 ELSE jobs[i]]
    /\ wake' = [i \in Child |-> wake[i] \/ Running(i)]
    /\ UNCHANGED <<pid, ratio, term, sessions, msgs, backlog, pready, sigs, m_stop, done,
                   arrived, ended, crashed, asked>>

\* One message for the edge of the listening socket; send fails when the child
\* is gone, and its result is not looked at.
Dispatch ==
    /\ Handle(LISTEN)
    /\ LET i == get_most_free_srv
       IN  /\ jobs' = [jobs EXCEPT ![i] = IF Running(i) THEN @ + 1 ELSE @]
           /\ wake' = [wake EXCEPT ![i] = @ \/ Running(i)]
    /\ UNCHANGED <<pid, ratio, term, sessions, msgs, backlog, pready, sigs, m_stop, done,
                   arrived, ended, crashed, asked>>

\* recv of up to four bytes into an int that was 0: the bytes that have arrived
\* become its low-order bytes, what does not fit waits for the next edge.
IntOf(s) ==
    LET b(k) == IF k <= Len(s) THEN s[k] ELSE 0
    IN  b(1) + 256 * b(2) + 65536 * b(3) + 16777216 * (IF b(4) > 127 THEN b(4) - 256 ELSE b(4))

Received(i) == Running(i) \/ (pid[i] = "exited" /\ msgs[i] # <<>>)

\* Nothing is received at the end of the stream, nor on the descriptor of a
\* reaped child, which is closed.  A recv that finds no byte would set 0.
ReadRatio(i) ==
    /\ Handle(i)
    /\ \/ /\ Received(i)
          /\ ratio' = [ratio EXCEPT ![i] = IntOf(msgs[i])]
          /\ msgs' = [msgs EXCEPT ![i] = SubSeq(@, 5, Len(@))]
       \/ ~Received(i) /\ UNCHANGED <<ratio, msgs>>
    /\ UNCHANGED <<pid, childVars, backlog, pready, sigs, m_stop, done,
                   arrived, ended, crashed, asked>>

\* Variant: m_stop is not taken back when a child is left.
ReapAndStop ==
    /\ pid' = [i \in Child |-> IF pid[i] = "exited" THEN "reaped" ELSE pid[i]]
    /\ m_stop' = TRUE

\* SIGCHLD reaps every child that has exited and stops the parent when none is
\* left.
Reap ==
    /\ pid' = [i \in Child |-> IF pid[i] = "exited" THEN "reaped" ELSE pid[i]]
    /\ m_stop' = \A i \in Child : pid'[i] = "reaped"

\* Variant: the loop over the children ends after the first.
ForwardToFirst == term' = [term EXCEPT ![1] = @ \/ Running(1)]

\* SIGTERM is passed on to every child that is not reaped.
Forward == term' = [i \in Child |-> term[i] \/ Running(i)]

\* All bytes of the signal pipe, the order of which makes no difference.
Signals ==
    /\ Handle(SIGNAL)
    /\ sigs' = {}
    /\ IF "CHLD" \in sigs THEN Reap ELSE UNCHANGED <<pid, m_stop>>
    /\ IF "TERM" \in sigs THEN Forward ELSE UNCHANGED term
    /\ UNCHANGED <<ratio, jobs, wake, sessions, msgs, backlog, pready, done,
                   arrived, ended, crashed, asked>>

\* The loop ends: run_parent closes its descriptors and returns.
Return ==
    /\ m_stop /\ pbatch = <<>> /\ ~done /\ done' = TRUE
    /\ UNCHANGED <<pid, ratio, childVars, msgs, backlog, pready, pbatch, sigs, m_stop,
                   arrived, ended, crashed, asked>>

Parent == EpollWait \/ Dispatch \/ (\E i \in Child : ReadRatio(i)) \/ Signals \/ Return

ChildJob(i) == ChildAccept(i) \/ ChildReject(i) \/ ChildAcceptFails(i)

Next ==
    \/ Parent
    \/ \E i \in Child : ChildJob(i) \/ EndSession(i) \/ ChildStop(i) \/ Crash(i)
    \/ Arrive \/ AskStop

Spec == Init /\ [][Next]_vars

\* The loops of the parent and of the children run; nobody has to connect, to
\* leave, to fail or to send a signal.
FairSpec ==
    /\ Spec /\ WF_vars(Parent)
    /\ \A i \in Child : WF_vars(ChildJob(i)) /\ WF_vars(ChildStop(i))

(***************************************************************************)
(* Properties.                                                             *)
(***************************************************************************)
\* Every variable has its type; a child never has more sessions than server
\* connections, and what it sends fits the byte notify_parent_busy_ratio sends.
TypeOK ==
    /\ pid \in [Child -> {"running", "exited", "reaped"}]
    /\ ratio \in [Child -> Int] /\ jobs \in [Child -> Nat]
    /\ wake \in [Child -> BOOLEAN] /\ term \in [Child -> BOOLEAN]
    /\ sessions \in [Child -> 0..MaxConn] /\ msgs \in [Child -> Seq(0..255)]
    /\ backlog \in Nat /\ pready \subseteq Events /\ pbatch \in Seq(Events)
    /\ sigs \subseteq {"CHLD", "TERM"} /\ m_stop \in BOOLEAN /\ done \in BOOLEAN
    /\ arrived \in Nat /\ ended \in Nat /\ crashed \in Nat /\ asked \in BOOLEAN

\* The messages on their way to children and the edge of the listening socket
\* are together no more than the clients that wait: a child that is told of a
\* client finds one in the shared accept queue, though any sibling may accept
\* it and edges and messages coalesce.
JobsBacked ==
    Cardinality({p \in Child \X (1..MaxClients) : p[2] <= jobs[p[1]]})
      + (IF LISTEN \in pready THEN 1 ELSE 0)
      + Cardinality({k \in DOMAIN pbatch : pbatch[k] = LISTEN}) <= backlog

\* The parent stops only when it has reaped every child, and no child that is
\* reaped has a session or a message: it never leaves one running behind.  A
\* child that has exited is announced by a SIGCHLD still to be handled, however
\* many of them became one byte: none keeps the parent from stopping.
StopsLast ==
    /\ \A i \in Child : pid[i] = "exited" => "CHLD" \in sigs
    /\ sigs # {} => SIGNAL \in pready \cup {pbatch[k] : k \in DOMAIN pbatch}
    /\ m_stop => \A i \in Child : pid[i] = "reaped"
    /\ \A i \in Child : pid[i] = "reaped" => sessions[i] = 0 /\ jobs[i] = 0 /\ ~term[i]

\* SIGTERM brings the whole pool down, whatever the children are doing.
Shutdown == asked ~> done

=============================================================================
