----------------------------- MODULE ThreadPool -----------------------------
(***************************************************************************)
(* chapter15 threadpool (15_5_1_thread_pool.h) with the mutex and the      *)
(* semaphore of 14_7_1_locker.h: append and run, one step per operation on *)
(* an object the threads share.  A request is the object whose process()   *)
(* a worker calls; the results of sem::wait and of locker::lock are        *)
(* ignored by the code, so a sem_wait that a signal interrupts lets its    *)
(* worker go on without having taken anything from the semaphore.  m_stop  *)
(* stays false: only the destructor sets it, after it has freed m_threads, *)
(* and the detached workers may then touch freed members.                  *)
(***************************************************************************)
EXTENDS Integers, Sequences, FiniteSets

CONSTANTS
    Worker,       \* the m_thread_number detached threads
    Producer,     \* threads that call append: main, in 15_6_2_main.cpp
    Request,      \* requests, each appended once
    Idle,         \* no request
    max_requests, \* m_max_requests
    MaxEintr      \* bound: interrupted sem_wait calls

ASSUME PoolAssumption ==
    /\ Idle \notin Request /\ Worker \cap Producer = {}
    /\ IsFiniteSet(Worker) /\ Worker # {} /\ IsFiniteSet(Producer)
    /\ max_requests \in Nat \ {0} /\ MaxEintr \in Nat

Thread == Worker \cup Producer
NOBODY == "nobody"

ASSUME NobodyAssumption == NOBODY \notin Thread

VARIABLES
    pc,            \* where each thread is
    request,       \* the local variable request of run, the argument of append
    m_workqueue,
    m_queuelocker, \* holder of the mutex
    m_queuestat,   \* value of the semaphore
    finished,      \* requests whose process() has returned
    refused,       \* requests append returned false for
    eintrs

vars == <<pc, request, m_workqueue, m_queuelocker, m_queuestat,
          finished, refused, eintrs>>

Goto(t, from, to) == pc[t] = from /\ pc' = [pc EXCEPT ![t] = to]

Lock(t) == m_queuelocker = NOBODY /\ m_queuelocker' = t
Unlock(t) == m_queuelocker = t /\ m_queuelocker' = NOBODY

Queued == {m_workqueue[i] : i \in DOMAIN m_workqueue}
Fresh == Request \ (Queued \cup finished \cup refused \cup {request[t] : t \in Thread})

Init ==
    /\ pc = [t \in Thread |-> IF t \in Worker THEN "loop" ELSE "idle"]
    /\ request = [t \in Thread |-> Idle]
    /\ m_workqueue = <<>> /\ m_queuelocker = NOBODY /\ m_queuestat = 0
    /\ finished = {} /\ refused = {} /\ eintrs = 0

(***************************************************************************)
(* append                                                                  *)
(***************************************************************************)
AppendCall(p) ==
    /\ Goto(p, "idle", "lock")
    /\ \E r \in Fresh : request' = [request EXCEPT ![p] = r]
    /\ UNCHANGED <<m_workqueue, m_queuelocker, m_queuestat, finished, refused, eintrs>>

AppendLock(p) ==
    /\ Goto(p, "lock", "check") /\ Lock(p)
    /\ UNCHANGED <<request, m_workqueue, m_queuestat, finished, refused, eintrs>>

AppendFull(p) ==    \* size() > m_max_requests: unlock, return false
    /\ Goto(p, "check", "idle") /\ Len(m_workqueue) > max_requests
    /\ Unlock(p)
    /\ refused' = refused \cup {request[p]}
    /\ request' = [request EXCEPT ![p] = Idle]
    /\ UNCHANGED <<m_workqueue, m_queuestat, finished, eintrs>>

AppendPush(p) ==
    /\ Goto(p, "check", "unlock") /\ Len(m_workqueue) <= max_requests
    /\ m_workqueue' = Append(m_workqueue, request[p])
    /\ request' = [request EXCEPT ![p] = Idle]
    /\ UNCHANGED <<m_queuelocker, m_queuestat, finished, refused, eintrs>>

AppendUnlock(p) ==
    /\ Goto(p, "unlock", "post") /\ Unlock(p)
    /\ UNCHANGED <<request, m_workqueue, m_queuestat, finished, refused, eintrs>>

\* Variant: the semaphore only remembers that there is work.
AppendPostFlag(p) ==
    /\ Goto(p, "post", "idle")
    /\ m_queuestat' = 1
    /\ UNCHANGED <<request, m_workqueue, m_queuelocker, finished, refused, eintrs>>

AppendPost(p) ==
    /\ Goto(p, "post", "idle")
    /\ m_queuestat' = m_queuestat + 1
    /\ UNCHANGED <<request, m_workqueue, m_queuelocker, finished, refused, eintrs>>

(***************************************************************************)
(* run                                                                     *)
(***************************************************************************)
RunLoop(w) ==
    /\ Goto(w, "loop", "wait")
    /\ UNCHANGED <<request, m_workqueue, m_queuelocker, m_queuestat, finished, refused, eintrs>>

\* Variant: wait does not block at 0.
RunWaitNonblocking(w) ==
    /\ Goto(w, "wait", "lock")
    /\ m_queuestat' = m_queuestat - 1 /\ m_queuestat >= 0
    /\ UNCHANGED <<request, m_workqueue, m_queuelocker, finished, refused, eintrs>>

\* Variant: one worker takes all that was posted.
RunWaitDrains(w) ==
    /\ Goto(w, "wait", "lock")
    /\ m_queuestat > 0 /\ m_queuestat' = 0
    /\ UNCHANGED <<request, m_workqueue, m_queuelocker, finished, refused, eintrs>>

RunWait(w) ==
    /\ Goto(w, "wait", "lock")
    /\ m_queuestat > 0 /\ m_queuestat' = m_queuestat - 1
    /\ UNCHANGED <<request, m_workqueue, m_queuelocker, finished, refused, eintrs>>

RunInterrupted(w) ==
    /\ Goto(w, "wait", "lock")
    /\ eintrs < MaxEintr /\ eintrs' = eintrs + 1
    /\ UNCHANGED <<request, m_workqueue, m_queuelocker, m_queuestat, finished, refused>>

RunLock(w) ==
    /\ Goto(w, "lock", "take") /\ Lock(w)
    /\ UNCHANGED <<request, m_workqueue, m_queuestat, finished, refused, eintrs>>

RunEmpty(w) ==
    /\ Goto(w, "take", "loop") /\ m_workqueue = <<>>
    /\ Unlock(w)
    /\ UNCHANGED <<request, m_workqueue, m_queuestat, finished, refused, eintrs>>

\* Variant: the back of the list is taken.
RunTakeBack(w) ==
    /\ Goto(w, "take", "taken") /\ m_workqueue # <<>>
    /\ request' = [request EXCEPT ![w] = m_workqueue[Len(m_workqueue)]]
    /\ m_workqueue' = SubSeq(m_workqueue, 1, Len(m_workqueue) - 1)
    /\ UNCHANGED <<m_queuelocker, m_queuestat, finished, refused, eintrs>>

RunTake(w) ==
    /\ Goto(w, "take", "taken") /\ m_workqueue # <<>>
    /\ request' = [request EXCEPT ![w] = Head(m_workqueue)]
    /\ m_workqueue' = Tail(m_workqueue)
    /\ UNCHANGED <<m_queuelocker, m_queuestat, finished, refused, eintrs>>

RunUnlock(w) ==
    /\ Goto(w, "taken", "process") /\ Unlock(w)
    /\ UNCHANGED <<request, m_workqueue, m_queuestat, finished, refused, eintrs>>

RunProcess(w) ==
    /\ Goto(w, "process", "loop")
    /\ finished' = finished \cup {request[w]}
    /\ request' = [request EXCEPT ![w] = Idle]
    /\ UNCHANGED <<m_workqueue, m_queuelocker, m_queuestat, refused, eintrs>>

append(p) == AppendLock(p) \/ AppendFull(p) \/ AppendPush(p) \/ AppendUnlock(p) \/ AppendPost(p)

run(w) == \/ RunLoop(w) \/ RunWait(w) \/ RunLock(w) \/ RunEmpty(w)
          \/ RunTake(w) \/ RunUnlock(w) \/ RunProcess(w)

Next ==
    \/ \E p \in Producer : AppendCall(p) \/ append(p)
    \/ \E w \in Worker : run(w) \/ RunInterrupted(w)

Spec == Init /\ [][Next]_vars

\* Threads are scheduled; nobody has to call append or to send a signal.
FairSpec ==
    /\ Spec
    /\ \A p \in Producer : WF_vars(append(p))
    /\ \A w \in Worker : WF_vars(run(w))

(***************************************************************************)
(* Properties.                                                             *)
(***************************************************************************)
\* Every variable has its type; a thread is at a place of its own function.
TypeOK ==
    /\ pc \in [Thread -> {"idle", "lock", "check", "unlock", "post",
                          "loop", "wait", "take", "taken", "process"}]
    /\ \A p \in Producer : pc[p] \in {"idle", "lock", "check", "unlock", "post"}
    /\ \A w \in Worker : pc[w] \in {"loop", "wait", "lock", "take", "taken", "process"}
    /\ request \in [Thread -> Request \cup {Idle}]
    /\ m_workqueue \in Seq(Request)
    /\ m_queuelocker \in Thread \cup {NOBODY}
    /\ m_queuestat \in Nat
    /\ finished \subseteq Request /\ refused \subseteq Request /\ eintrs \in Nat

Critical == {"check", "unlock", "take", "taken"}

\* Inside the critical sections of append and run there is only the holder of
\* the mutex, so the list is never touched by two threads.
MutualExclusion == \A t \in Thread : pc[t] \in Critical => m_queuelocker = t

Posting == {p \in Producer : pc[p] \in {"unlock", "post"}}
Awake == {w \in Worker : pc[w] \in {"lock", "take"}}

\* The semaphore never undercounts: every request in the list has a count in
\* the semaphore, a producer that is about to post it or a worker that is on
\* its way to take one.  A request is never stranded while all workers sleep.
NoStrandedRequest ==
    Len(m_workqueue) <= m_queuestat + Cardinality(Posting) + Cardinality(Awake)

\* No two of: a place in the list, a worker, the finished and the refused ones
\* hold the same request.
Once ==
    /\ \A i, j \in DOMAIN m_workqueue : m_workqueue[i] = m_workqueue[j] => i = j
    /\ \A t, u \in Thread : request[t] = request[u] /\ t # u => request[t] = Idle
    /\ Queued \cap ({request[t] : t \in Thread} \cup finished \cup refused) = {}
    /\ {request[t] : t \in Thread} \cap (finished \cup refused) = {}
    /\ finished \cap refused = {}

\* append tests size() > m_max_requests before it adds: one more request than
\* m_max_requests fits.
Pool == INSTANCE TaskQueue WITH
            Capacity <- max_requests + 1,
            waiting <- m_workqueue,
            serving <- [w \in Worker |-> request[w]]

\* The pool hands requests to its workers as TaskQueue says, step by step, with
\* at most max_requests + 1 of them waiting.
ImplementsTaskQueue == Pool!Spec

Documented == INSTANCE TaskQueue WITH
            Capacity <- max_requests,
            waiting <- m_workqueue,
            serving <- [w \in Worker |-> request[w]]

\* What the comments at lines 16 and 29 say: the queue holds no more than
\* max_requests waiting requests.
ImplementsDocumentedQueue == Documented!Spec

\* A request in the list is processed in the end.
EveryRequestServed ==
    \A r \in Request : r \in Queued ~> r \in finished

=============================================================================
