------------------------------ MODULE TaskQueue ------------------------------
(***************************************************************************)
(* What a thread pool promises its user: a request is refused, or it waits *)
(* in arrival order, is given to one worker, and is processed once.        *)
(***************************************************************************)
EXTENDS Integers, Sequences

CONSTANTS Request, Worker, Idle,
          Capacity    \* at most this many requests wait

VARIABLES
    waiting,     \* requests in the order they were accepted
    serving,     \* what each worker processes
    finished     \* requests that were processed

vars == <<waiting, serving, finished>>

Init == waiting = <<>> /\ serving = [w \in Worker |-> Idle] /\ finished = {}

Accepted == {waiting[i] : i \in DOMAIN waiting}
              \cup {serving[w] : w \in Worker} \cup finished

Put(r) ==
    /\ r \notin Accepted /\ Len(waiting) < Capacity
    /\ waiting' = Append(waiting, r)
    /\ UNCHANGED <<serving, finished>>

Take(w) ==
    /\ waiting # <<>> /\ serving[w] = Idle
    /\ serving' = [serving EXCEPT ![w] = Head(waiting)]
    /\ waiting' = Tail(waiting)
    /\ UNCHANGED finished

Finish(w) ==
    /\ serving[w] # Idle
    /\ finished' = finished \cup {serving[w]}
    /\ serving' = [serving EXCEPT ![w] = Idle]
    /\ UNCHANGED waiting

Next ==
    \/ \E r \in Request : Put(r)
    \/ \E w \in Worker : Take(w) \/ Finish(w)

Spec == Init /\ [][Next]_vars

=============================================================================
