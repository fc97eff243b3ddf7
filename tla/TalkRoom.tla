------------------------------ MODULE TalkRoom ------------------------------
(***************************************************************************)
(* The talk room of chapter 13 (13_6_1_shm_talk_room.cpp): a parent that   *)
(* accepts clients and forks one child for each, and children that read    *)
(* what their client says into a segment of shared memory.  A child tells  *)
(* the parent its number, the parent passes the number on to the others,   *)
(* and they send that segment to their clients.  All sockets and pipes are *)
(* edge-triggered, and every edge is answered by one recv.                 *)
(*                                                                         *)
(* A process, its connection and its client go by the order of the forks.  *)
(* Numbers of users start at 1.  Of a text only its author is kept.        *)
(***************************************************************************)
EXTENDS Chat, Integers, Sequences, FiniteSets

CONSTANTS
    MaxClients,   \* bound: clients that connect
    MaxTexts,     \* bound: texts the clients say, all together
    MaxInputs     \* bound: clients, texts and SIGTERM, all together

ASSUME RoomAssumption ==
    /\ USER_LIMIT \in Nat \ {0}
    /\ MaxClients \in Nat /\ MaxTexts \in Nat /\ MaxInputs \in Nat

Pid == 1..MaxClients
LISTEN == 0                   \* listenfd and sig_pipefd[0] as events of
SIGNAL == MaxClients + 1      \* the parent, beside the pipes of children
NOTEXT == 0                   \* a segment of zeros

VARIABLES
    users,        \* users[1..user_count]: the children, by their number
    sub_process,  \* the number of a child, -1
    share_mem,    \* the text in each segment
    terminate, stop_server, done,   \* done: main has returned
    pready, pbatch,  \* ready list and last events of the parent
    sigs,         \* signals in the parent's signal pipe
    phase,        \* where a child is
    idx,          \* the number it was forked with
    stop_child,
    cready, cbatch,  \* ready list and last events of a child
    up, down,     \* numbers in the pipe of a child, each way
    fin,          \* clients that have left
    heard,        \* the authors of what was sent to a client
    asked,
    unreached     \* history: children the parent sent SIGTERM to in vain, or forked too late for it

parentVars == <<users, sub_process, terminate, stop_server, done, backlog, pready, pbatch>>
childVars == <<phase, idx, stop_child, cready, cbatch>>
clientVars == <<inbox, fin, heard, arrived, said>>
roomVars == <<parentVars, share_mem, sigs, childVars, up, down, clientVars, asked, unreached>>

user_count == Len(users)
Users == {users[k] : k \in DOMAIN users}
Running == {p \in Pid : phase[p] \in {"starting", "wait", "handle", "recv", "stopping"}}
Orders(S) == {s \in [1..Cardinality(S) -> S] : \A j, k \in DOMAIN s : s[j] = s[k] => j = k}

RoomInit ==
    /\ users = <<>> /\ sub_process = [p \in Pid |-> -1]
    /\ share_mem = [k \in 1..USER_LIMIT |-> NOTEXT]
    /\ terminate = FALSE /\ stop_server = FALSE /\ done = FALSE
    /\ backlog = 0 /\ pready = {} /\ pbatch = <<>> /\ sigs = {}
    /\ phase = [p \in Pid |-> "new"] /\ idx = [p \in Pid |-> 1]
    /\ stop_child = [p \in Pid |-> FALSE]
    /\ cready = [p \in Pid |-> {}] /\ cbatch = [p \in Pid |-> <<>>]
    /\ up = [p \in Pid |-> <<>>] /\ down = [p \in Pid |-> <<>>]
    /\ inbox = [p \in Pid |-> 0] /\ fin = {} /\ heard = [p \in Pid |-> {}]
    /\ arrived = 0 /\ said = 0 /\ asked = FALSE /\ unreached = {}

(***************************************************************************)
(* Clients connect, talk and leave; an operator sends SIGTERM or SIGINT.   *)
(***************************************************************************)
Within == arrived + said + (IF asked THEN 1 ELSE 0) < MaxInputs

Arrive ==
    /\ Within /\ arrived < MaxClients /\ arrived' = arrived + 1
    /\ backlog' = backlog + 1 /\ pready' = pready \cup {LISTEN}
    /\ UNCHANGED <<users, sub_process, terminate, stop_server, done, pbatch>>
    /\ UNCHANGED <<share_mem, sigs, childVars, up, down, inbox, fin, heard, said, asked, unreached>>

Say(p) ==
    /\ Within /\ p \in Running \ fin /\ said < MaxTexts /\ said' = said + 1
    /\ inbox' = [inbox EXCEPT ![p] = @ + 1]
    /\ cready' = [cready EXCEPT ![p] = @ \cup {"conn"}]
    /\ UNCHANGED <<parentVars, share_mem, sigs, phase, idx, stop_child, cbatch>>
    /\ UNCHANGED <<up, down, fin, heard, arrived, asked, unreached>>

RoomLeave(p) ==
    /\ p \in Running \ fin /\ fin' = fin \cup {p}
    /\ cready' = [cready EXCEPT ![p] = @ \cup {"conn"}]
    /\ UNCHANGED <<parentVars, share_mem, sigs, phase, idx, stop_child, cbatch>>
    /\ UNCHANGED <<up, down, inbox, heard, arrived, said, asked, unreached>>

AskStop ==
    /\ Within /\ ~asked /\ asked' = TRUE
    /\ sigs' = sigs \cup {"TERM"} /\ pready' = pready \cup {SIGNAL}
    /\ UNCHANGED <<users, sub_process, terminate, stop_server, done, backlog, pbatch>>
    /\ UNCHANGED <<share_mem, childVars, up, down, clientVars, unreached>>

(***************************************************************************)
(* A child.                                                                *)
(***************************************************************************)
Goto(p, from, to) == phase[p] = from /\ phase' = [phase EXCEPT ![p] = to]

\* Until now a signal runs the handler that was the parent's.
ChildStart(p) ==
    /\ Goto(p, "starting", "wait")
    /\ UNCHANGED <<parentVars, share_mem, sigs, idx, stop_child, cready, cbatch>>
    /\ UNCHANGED <<up, down, clientVars, asked, unreached>>

\* The process is gone; what its client or the parent still sends is lost.
ChildExit(p) ==
    /\ Goto(p, "stopping", "exited")
    /\ cready' = [cready EXCEPT ![p] = {}]
    /\ inbox' = [inbox EXCEPT ![p] = 0] /\ down' = [down EXCEPT ![p] = <<>>]
    /\ sigs' = sigs \cup {"CHLD"} /\ pready' = pready \cup {p, SIGNAL}
    /\ UNCHANGED <<users, sub_process, terminate, stop_server, done, backlog, pbatch>>
    /\ UNCHANGED <<share_mem, idx, stop_child, cbatch, up, fin, heard, arrived, said, asked, unreached>>

Incoming(p, ev) == IF ev = "conn" THEN inbox[p] > 0 \/ p \in fin ELSE down[p] # <<>>

ChildWait(p) ==
    LET events == {ev \in cready[p] : Incoming(p, ev)}
    IN  /\ phase[p] = "wait" /\ cready[p] # {}
        /\ cbatch' \in {[cbatch EXCEPT ![p] = order] : order \in Orders(events)}
        /\ cready' = [cready EXCEPT ![p] = {}]
        /\ phase' = [phase EXCEPT ![p] = IF events = {} THEN "wait" ELSE "handle"]
        /\ UNCHANGED <<parentVars, share_mem, sigs, idx, stop_child, up, down, clientVars, asked, unreached>>

\* After one of its events, a child handles the next, or tests stop_child (as
\* it is then) and leaves its loop or calls epoll_wait.
Handled(p, stop) ==
    /\ cbatch' = [cbatch EXCEPT ![p] = Tail(@)]
    /\ phase' = [phase EXCEPT ![p] = IF Len(cbatch[p]) > 1 THEN "handle"
                                     ELSE IF stop THEN "stopping" ELSE "wait"]

\* memset, whatever recv will answer.
ChildClear(p) ==
    /\ phase[p] = "handle" /\ Head(cbatch[p]) = "conn"
    /\ Goto(p, "handle", "recv")
    /\ share_mem' = [share_mem EXCEPT ![idx[p]] = NOTEXT]
    /\ UNCHANGED <<parentVars, sigs, idx, stop_child, cready, cbatch, up, down, clientVars, asked, unreached>>

ChildRecv(p) ==
    /\ phase[p] = "recv"
    /\ \/ /\ inbox[p] > 0
          /\ inbox' = [inbox EXCEPT ![p] = @ - 1]
          /\ share_mem' = [share_mem EXCEPT ![idx[p]] = p]
          /\ up' = [up EXCEPT ![p] = Append(@, idx[p])] /\ pready' = pready \cup {p}
          /\ Handled(p, stop_child[p]) /\ UNCHANGED stop_child
       \/ /\ inbox[p] = 0
          /\ stop_child' = [stop_child EXCEPT ![p] = @ \/ p \in fin]
          /\ Handled(p, stop_child'[p]) /\ UNCHANGED <<inbox, share_mem, up, pready>>
    /\ UNCHANGED <<users, sub_process, terminate, stop_server, done, backlog, pbatch>>
    /\ UNCHANGED <<sigs, idx, cready, down, fin, heard, arrived, said, asked, unreached>>

ChildSend(p) ==
    /\ phase[p] = "handle" /\ Head(cbatch[p]) = "pipe" /\ Handled(p, stop_child[p])
    /\ down' = [down EXCEPT ![p] = Tail(@)]
    /\ heard' = [heard EXCEPT ![p] = @ \cup {share_mem[Head(down[p])]}]
    /\ UNCHANGED <<parentVars, share_mem, sigs, idx, stop_child, cready>>
    /\ UNCHANGED <<up, inbox, fin, arrived, said, asked, unreached>>

run_child(p) ==
    \/ ChildStart(p) \/ ChildWait(p) \/ ChildClear(p) \/ ChildRecv(p)
    \/ ChildSend(p) \/ ChildExit(p)

(***************************************************************************)
(* The parent.                                                             *)
(***************************************************************************)
Readable(ev) ==
    \/ ev = LISTEN /\ backlog > 0
    \/ ev = SIGNAL /\ sigs # {}
    \/ ev \in Users /\ (up[ev] # <<>> \/ ev \notin Running)

EpollWait ==
    /\ ~stop_server /\ pbatch = <<>> /\ pready # {}
    /\ pbatch' \in Orders({ev \in pready : Readable(ev)}) /\ pready' = {}
    /\ UNCHANGED <<users, sub_process, terminate, stop_server, done, backlog>>
    /\ UNCHANGED <<share_mem, sigs, childVars, up, down, clientVars, asked, unreached>>

Handle(ev) == pbatch # <<>> /\ Head(pbatch) = ev /\ pbatch' = Tail(pbatch)

TooMany == user_count >= USER_LIMIT

\* The client is turned away, or fork fails.
Refuse ==
    /\ Handle(LISTEN) /\ backlog > 0 /\ backlog' = backlog - 1
    /\ UNCHANGED <<users, sub_process, terminate, stop_server, done, pready>>
    /\ UNCHANGED <<share_mem, sigs, childVars, up, down, clientVars, asked, unreached>>

RoomAccept ==
    LET pid == Cardinality({p \in Pid : phase[p] # "new"}) + 1
    IN  /\ Handle(LISTEN) /\ backlog > 0 /\ backlog' = backlog - 1 /\ ~TooMany
        /\ Goto(pid, "new", "starting")
        /\ users' = Append(users, pid)
        /\ sub_process' = [sub_process EXCEPT ![pid] = user_count + 1]
        /\ idx' = [idx EXCEPT ![pid] = user_count + 1]
        /\ UNCHANGED <<terminate, stop_server, done, pready, share_mem, sigs>>
        /\ unreached' = IF terminate THEN unreached \cup {pid} ELSE unreached
        /\ UNCHANGED <<stop_child, cready, cbatch, up, down, clientVars, asked>>

\* Variant: the pid of the last user keeps its old number.
RemovedOnly(u, m, pid) ==
    LET del_user == m[pid]
    IN  [users |-> [k \in 1..Len(u)-1 |-> IF k = del_user THEN u[Len(u)] ELSE u[k]],
         sub_process |-> [m EXCEPT ![pid] = -1]]

\* The last user gets the number of the one that is gone (also when they are
\* the same, and a reaped child has a number again).
RemovedUser(u, m, pid) ==
    LET del_user == m[pid]
    IN  [users |-> [k \in 1..Len(u)-1 |-> IF k = del_user THEN u[Len(u)] ELSE u[k]],
         sub_process |-> [m EXCEPT ![pid] = -1, ![u[Len(u)]] = del_user]]

\* waitpid until nobody is left, in the order of the children's exits, which
\* may be any.
Reaped(order) ==
    LET after[n \in 0..Len(order)] ==
            IF n = 0 THEN [users |-> users, sub_process |-> sub_process]
            ELSE LET r == after[n - 1]
                 IN  IF r.sub_process[order[n]] < 0 THEN r
                     ELSE RemovedUser(r.users, r.sub_process, order[n])
    IN  after[Len(order)]

Zombies == {p \in Pid : phase[p] = "exited"}

\* kill(pid, SIGTERM) for those in targets.  The handler only sets stop_child:
\* of the children in epoll_wait those in woken return with EINTR, the others
\* have not gone to sleep yet, and will.  A child that has not installed the
\* handler runs its parent's, which writes to the pipe unless it is closed.
Kill(targets, reaped) ==
    LET asleep == {p \in targets : phase[p] = "wait"}
        starting == {p \in targets : phase[p] = "starting"}
    IN  /\ stop_child' = [p \in Pid |-> \/ stop_child[p]
                                        \/ p \in (targets \cap Running) \ starting]
        /\ \E woken \in SUBSET asleep :
              /\ phase' = [p \in Pid |-> IF p \in reaped THEN "reaped"
                                         ELSE IF p \in woken THEN "stopping" ELSE phase[p]]
              /\ unreached' = (unreached \ targets) \cup starting \cup (asleep \ woken)
        /\ \/ sigs' = {} /\ pready' = pready \ reaped
           \/ starting # {} /\ sigs' = {"TERM"} /\ pready' = (pready \ reaped) \cup {SIGNAL}

\* Variant: the loop ends one user early.
TargetsButLast(u) == {u[k] : k \in 1..Len(u)-1}
Targets(u) == {u[k] : k \in DOMAIN u}

\* Variant: the server stops as soon as it is told to.
StopsAtOnce(count) == "TERM" \in sigs \/ (terminate /\ count = 0)
Stops(count) == count = 0 /\ ("TERM" \in sigs \/ terminate)

\* All bytes of the signal pipe; whether SIGCHLD or SIGTERM comes first makes
\* no difference.
Signals ==
    LET reaped == IF "CHLD" \in sigs THEN Zombies ELSE {}
        term == "TERM" \in sigs
    IN  /\ Handle(SIGNAL)
        /\ \E order \in Orders(reaped) :
              /\ users' = Reaped(order).users /\ sub_process' = Reaped(order).sub_process
              /\ stop_server' = (stop_server \/ Stops(Len(users')))
              /\ terminate' = (terminate \/ (term /\ users' # <<>>))
              /\ Kill(IF term THEN Targets(users') ELSE {}, reaped)
        /\ up' = [p \in Pid |-> IF p \in reaped THEN <<>> ELSE up[p]]
        /\ UNCHANGED <<done, backlog, share_mem, idx, cready, cbatch, down, clientVars, asked>>

\* Variant: the sender is not left out.
OthersAll(p) == Users \cap Running
Others(p) == (Users \ {p}) \cap Running

\* One number from the pipe of child p to the pipes of the others.  Nothing is
\* read at the end of the stream, or after an earlier event closed the pipe.
Relay(p) ==
    /\ Handle(p)
    /\ \/ /\ up[p] # <<>>
          /\ up' = [up EXCEPT ![p] = Tail(@)]
          /\ down' = [q \in Pid |-> IF q \in Others(p) THEN Append(down[q], Head(up[p])) ELSE down[q]]
          /\ cready' = [q \in Pid |-> IF q \in Others(p) THEN cready[q] \cup {"pipe"} ELSE cready[q]]
       \/ up[p] = <<>> /\ UNCHANGED <<up, down, cready>>
    /\ UNCHANGED <<users, sub_process, terminate, stop_server, done, backlog, pready>>
    /\ UNCHANGED <<share_mem, sigs, phase, idx, stop_child, cbatch, clientVars, asked, unreached>>

\* The loop ends and main returns.
Return ==
    /\ stop_server /\ pbatch = <<>> /\ done' = TRUE
    /\ UNCHANGED <<users, sub_process, terminate, stop_server, backlog, pready, pbatch>>
    /\ UNCHANGED <<share_mem, sigs, childVars, up, down, clientVars, asked, unreached>>

Parent == EpollWait \/ Refuse \/ RoomAccept \/ Signals \/ (\E p \in Pid : Relay(p)) \/ Return

\* What children do that outlive main is not modelled.
RoomNext ==
    /\ ~done
    /\ \/ Parent
       \/ \E p \in Pid : run_child(p) \/ Say(p) \/ RoomLeave(p)
       \/ Arrive \/ AskStop

RoomSpec == RoomInit /\ [][RoomNext]_roomVars

\* The loops of the processes run; nobody has to come, to talk or to leave.
RoomFairSpec == RoomSpec /\ WF_roomVars(~done /\ Parent) /\ \A p \in Pid : WF_roomVars(~done /\ run_child(p))

(***************************************************************************)
(* Properties.                                                             *)
(***************************************************************************)
\* Every variable has its type: every child has a segment.
RoomTypeOK ==
    /\ users \in Seq(Pid) /\ sub_process \in [Pid -> Nat \cup {-1}]
    /\ share_mem \in [1..USER_LIMIT -> Pid \cup {NOTEXT}]
    /\ terminate \in BOOLEAN /\ stop_server \in BOOLEAN /\ done \in BOOLEAN
    /\ backlog \in Nat /\ pready \subseteq Pid \cup {LISTEN, SIGNAL}
    /\ sigs \subseteq {"CHLD", "TERM"}
    /\ phase \in [Pid -> {"new", "starting", "wait", "handle", "recv", "stopping",
                        "exited", "reaped"}]
    /\ idx \in [Pid -> 1..USER_LIMIT] /\ stop_child \in [Pid -> BOOLEAN]
    /\ cready \in [Pid -> SUBSET {"conn", "pipe"}]
    /\ inbox \in [Pid -> Nat] /\ fin \subseteq Pid
    /\ heard \in [Pid -> SUBSET (Pid \cup {NOTEXT})] /\ unreached \subseteq Pid

\* The users are the children that are not reaped, each once, and the pid of
\* each leads to its place, whichever children leave in whichever order.  One
\* that has exited is announced by a SIGCHLD still to be handled, however many
\* of them became one byte: no user is left behind without child.  Every
\* variable has its type.
Registered ==
    /\ RoomTypeOK
    /\ \A p \in Pid : phase[p] = "exited" => "CHLD" \in sigs
    /\ sigs # {} => SIGNAL \in pready \cup {pbatch[k] : k \in DOMAIN pbatch}
    /\ Users = {p \in Pid : phase[p] \notin {"new", "reaped"}}
    /\ \A k \in DOMAIN users : sub_process[users[k]] = k

\* As long as nobody has left, and so no two children have the same segment,
\* no client is sent its own words.
NoEcho == (\A p \in Pid : phase[p] # "reaped") => \A p \in Pid : p \notin heard[p]

\* The server decides to stop only when it has reaped every child.
StopsLast == [][stop_server' # stop_server => \A p \in Pid : phase'[p] \in {"new", "reaped"}]_roomVars

\* SIGTERM ends the server, or there is a child left of one of these kinds:
\* forked after the parent sent the signal on, without its handler when the
\* signal came, or found by it between the test of stop_child and epoll_wait.
\* A child that is none of these is stopped, whoever else leaves or is reaped.
Shutdown == <>asked => <>done \/ []<>(unreached \cap Running # {})

=============================================================================
