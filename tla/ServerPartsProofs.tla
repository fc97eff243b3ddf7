------------------------- MODULE ServerPartsProofs -------------------------
(***************************************************************************)
(* Theorems about two parts of the server of chapter 15: ThreadPool for    *)
(* any number of workers, producers, requests and interrupted waits, and   *)
(* HttpParser (with the parser of chapter 8 it was made from) for any      *)
(* messages, any length of the body and any size of the buffer.            *)
(***************************************************************************)
EXTENDS ThreadPool, HttpParser, TLAPS, FiniteSetTheorems, SequenceTheorems, WellFoundedInduction

(***************************************************************************)
(* The thread pool.  The inductive invariant is TypeOK, Holds (which       *)
(* places of the code hold a request), MutualExclusion, NoStrandedRequest  *)
(* and Once.                                                               *)
(***************************************************************************)
\* A producer holds a request from the call to the decision on it, a worker
\* from taking it to the end of process().
Holds ==
    /\ \A p \in Producer : request[p] # Idle <=> pc[p] \in {"lock", "check"}
    /\ \A w \in Worker : request[w] # Idle <=> pc[w] \in {"taken", "process"}

\* The semaphore is at 0 at the start and only wait takes from it, so the
\* types and Holds are kept by every step of append.
LEMMA AppendType ==
    ASSUME TypeOK, Holds, NEW p \in Producer, AppendCall(p) \/ append(p)
    PROVE  TypeOK' /\ Holds'
<1> USE PoolAssumption, NobodyAssumption DEF TypeOK, Holds, Goto, Lock, Unlock, Thread
<1>1. CASE AppendCall(p)
  BY <1>1 DEF AppendCall, Fresh
<1>2. CASE AppendLock(p)
  BY <1>2 DEF AppendLock
<1>3. CASE AppendFull(p)
  BY <1>3 DEF AppendFull
<1>4. CASE AppendPush(p)
  BY <1>4 DEF AppendPush
<1>5. CASE AppendUnlock(p)
  BY <1>5 DEF AppendUnlock
<1>6. CASE AppendPost(p)
  BY <1>6 DEF AppendPost
<1> QED
  BY <1>1, <1>2, <1>3, <1>4, <1>5, <1>6 DEF append

\* The types and Holds are kept by every step of run, interrupted or not.
LEMMA RunType ==
    ASSUME TypeOK, Holds, NEW w \in Worker, run(w) \/ RunInterrupted(w)
    PROVE  TypeOK' /\ Holds'
<1> USE PoolAssumption, NobodyAssumption DEF TypeOK, Holds, Goto, Lock, Unlock, Thread
<1>1. CASE RunLoop(w)
  BY <1>1 DEF RunLoop
<1>2. CASE RunWait(w)
  BY <1>2 DEF RunWait
<1>3. CASE RunInterrupted(w)
  BY <1>3 DEF RunInterrupted
<1>4. CASE RunLock(w)
  BY <1>4 DEF RunLock
<1>5. CASE RunEmpty(w)
  BY <1>5 DEF RunEmpty
<1>6. CASE RunTake(w)
  <2>1. /\ Head(m_workqueue) \in Request
        /\ Tail(m_workqueue) \in Seq(Request)
    BY <1>6 DEF RunTake
  <2> QED
    BY <1>6, <2>1 DEF RunTake
<1>7. CASE RunUnlock(w)
  BY <1>7 DEF RunUnlock
<1>8. CASE RunProcess(w)
  BY <1>8 DEF RunProcess
<1> QED
  BY <1>1, <1>2, <1>3, <1>4, <1>5, <1>6, <1>7, <1>8 DEF run

\* Types and Holds together are inductive.
LEMMA TypeNext ==
    ASSUME TypeOK, Holds, [Next]_vars
    PROVE  TypeOK' /\ Holds'
<1>1. CASE UNCHANGED vars
  BY <1>1 DEF TypeOK, Holds, vars
<1>2. CASE Next
  BY <1>2, AppendType, RunType DEF Next
<1> QED
  BY <1>1, <1>2

\* The pool starts with its workers at the loop and nobody in append.
LEMMA TypeInit == ASSUME Init PROVE TypeOK /\ Holds
  BY PoolAssumption, NobodyAssumption DEF Init, TypeOK, Holds, Thread

\* Every reachable state of the pool has its types.
THEOREM TypeCorrect == Spec => []TypeOK
<1>1. Spec => [](TypeOK /\ Holds)
  BY TypeInit, TypeNext, PTL DEF Spec
<1> QED
  BY <1>1, PTL

-----------------------------------------------------------------------------

\* The mutex is passed on only by the thread that leaves its critical section.
LEMMA MutexNext ==
    ASSUME TypeOK, MutualExclusion, [Next]_vars
    PROVE  MutualExclusion'
<1> USE PoolAssumption, NobodyAssumption DEF TypeOK, MutualExclusion, Critical, Goto,
        Lock, Unlock, Thread
<1>1. CASE UNCHANGED vars
  BY <1>1 DEF vars
<1>2. ASSUME NEW p \in Producer, AppendCall(p) \/ append(p)
      PROVE  MutualExclusion'
  BY <1>2 DEF AppendCall, append, AppendLock, AppendFull, AppendPush, AppendUnlock, AppendPost
<1>3. ASSUME NEW w \in Worker, run(w) \/ RunInterrupted(w)
      PROVE  MutualExclusion'
  BY <1>3 DEF run, RunInterrupted, RunLoop, RunWait, RunLock, RunEmpty, RunTake, RunUnlock,
     RunProcess
<1> QED
  BY <1>1, <1>2, <1>3 DEF Next

\* At most one thread is inside the critical sections of append and run.
THEOREM MutexHolds == Spec => []MutualExclusion
<1>1. Init => MutualExclusion
  BY PoolAssumption DEF Init, MutualExclusion, Critical, Thread
<1>2. TypeOK /\ MutualExclusion /\ [Next]_vars => MutualExclusion'
  BY MutexNext
<1> QED
  BY <1>1, <1>2, TypeCorrect, PTL DEF Spec

-----------------------------------------------------------------------------

\* Posting and Awake are finite, so that their sizes are numbers.
LEMMA CountsFinite ==
    /\ IsFiniteSet(Posting) /\ Cardinality(Posting) \in Nat
    /\ IsFiniteSet(Awake) /\ Cardinality(Awake) \in Nat
<1>1. Posting \subseteq Producer /\ Awake \subseteq Worker
  BY DEF Posting, Awake
<1> QED
  BY <1>1, PoolAssumption, FS_Subset, FS_CardinalityType

\* The same in the next state.
LEMMA CountsFiniteNext ==
    /\ IsFiniteSet(Posting') /\ Cardinality(Posting') \in Nat
    /\ IsFiniteSet(Awake') /\ Cardinality(Awake') \in Nat
<1>1. Posting' \subseteq Producer /\ Awake' \subseteq Worker
  BY DEF Posting, Awake
<1> QED
  BY <1>1, PoolAssumption, FS_Subset, FS_CardinalityType

\* A set that gains or loses one member changes its size by one.
LEMMA OneMore ==
    ASSUME NEW S, IsFiniteSet(S), NEW x, x \notin S
    PROVE  Cardinality(S \cup {x}) = Cardinality(S) + 1
  BY FS_AddElement

\* The converse: a set that loses a member.
LEMMA OneLess ==
    ASSUME NEW S, IsFiniteSet(S), NEW x, x \in S
    PROVE  Cardinality(S \ {x}) = Cardinality(S) - 1
  BY FS_RemoveElement

\* append puts a request into the list and the producer into Posting in one
\* step, and leaves Posting in the step that adds to the semaphore.
LEMMA AppendStranded ==
    ASSUME TypeOK, NoStrandedRequest, NEW p \in Producer, AppendCall(p) \/ append(p)
    PROVE  NoStrandedRequest'
<1> USE PoolAssumption DEF TypeOK, Thread, Goto
<1>a. /\ Len(m_workqueue) \in Nat
      /\ Len(m_workqueue) <= m_queuestat + Cardinality(Posting) + Cardinality(Awake)
  BY DEF NoStrandedRequest
<1>b. Awake' = Awake
  BY DEF Awake, AppendCall, append, AppendLock, AppendFull, AppendPush, AppendUnlock, AppendPost
<1>1. CASE AppendCall(p) \/ AppendLock(p) \/ AppendFull(p) \/ AppendUnlock(p)
  <2>1. Posting' = Posting
    BY <1>1 DEF Posting, AppendCall, AppendLock, AppendFull, AppendUnlock
  <2>2. m_workqueue' = m_workqueue /\ m_queuestat' = m_queuestat
    BY <1>1 DEF AppendCall, AppendLock, AppendFull, AppendUnlock
  <2> QED
    BY <1>a, <1>b, <2>1, <2>2 DEF NoStrandedRequest
<1>2. CASE AppendPush(p)
  <2>1. Posting' = Posting \cup {p} /\ p \notin Posting
    BY <1>2 DEF Posting, AppendPush
  <2>2. Cardinality(Posting') = Cardinality(Posting) + 1
    BY <2>1, OneMore, CountsFinite
  <2>3. Len(m_workqueue') = Len(m_workqueue) + 1 /\ m_queuestat' = m_queuestat
    BY <1>2 DEF AppendPush
  <2> QED
    BY <1>a, <1>b, <2>2, <2>3, CountsFinite DEF NoStrandedRequest
<1>3. CASE AppendPost(p)
  <2>1. Posting' = Posting \ {p} /\ p \in Posting
    BY <1>3 DEF Posting, AppendPost
  <2>2. Cardinality(Posting') = Cardinality(Posting) - 1
    BY <2>1, OneLess, CountsFinite
  <2>3. m_workqueue' = m_workqueue /\ m_queuestat' = m_queuestat + 1
    BY <1>3 DEF AppendPost
  <2> QED
    BY <1>a, <1>b, <2>2, <2>3, CountsFinite DEF NoStrandedRequest
<1> QED
  BY <1>1, <1>2, <1>3 DEF append

\* A worker is Awake from the step that takes from the semaphore, or that is
\* interrupted, to the step that takes a request or finds the list empty.
LEMMA RunStranded ==
    ASSUME TypeOK, NoStrandedRequest, NEW w \in Worker, run(w) \/ RunInterrupted(w)
    PROVE  NoStrandedRequest'
<1> USE PoolAssumption DEF TypeOK, Thread, Goto
<1>a. /\ Len(m_workqueue) \in Nat
      /\ Len(m_workqueue) <= m_queuestat + Cardinality(Posting) + Cardinality(Awake)
  BY DEF NoStrandedRequest
<1>b. Posting' = Posting
  BY DEF Posting, RunInterrupted, run, RunLoop, RunWait, RunLock, RunEmpty, RunTake, RunUnlock,
     RunProcess
<1>1. CASE RunLoop(w) \/ RunLock(w) \/ RunUnlock(w) \/ RunProcess(w)
  <2>1. Awake' = Awake
    BY <1>1 DEF Awake, RunLoop, RunLock, RunUnlock, RunProcess
  <2>2. m_workqueue' = m_workqueue /\ m_queuestat' = m_queuestat
    BY <1>1 DEF RunLoop, RunLock, RunUnlock, RunProcess
  <2> QED
    BY <1>a, <1>b, <2>1, <2>2 DEF NoStrandedRequest
<1>2. CASE RunWait(w) \/ RunInterrupted(w)
  <2>1. Awake' = Awake \cup {w} /\ w \notin Awake
    BY <1>2 DEF Awake, RunWait, RunInterrupted
  <2>2. Cardinality(Awake') = Cardinality(Awake) + 1
    BY <2>1, OneMore, CountsFinite
  <2>3. m_workqueue' = m_workqueue /\ m_queuestat' \in {m_queuestat, m_queuestat - 1}
    BY <1>2 DEF RunWait, RunInterrupted
  <2> QED
    BY <1>a, <1>b, <2>2, <2>3, CountsFinite DEF NoStrandedRequest
<1>3. CASE RunEmpty(w)
  <2>1. m_workqueue' = <<>> /\ m_queuestat' \in Nat
    BY <1>3 DEF RunEmpty
  <2>2. Len(m_workqueue') = 0
    BY <2>1
  <2> QED
    BY <2>1, <2>2, CountsFiniteNext DEF NoStrandedRequest
<1>4. CASE RunTake(w)
  <2>1. Awake' = Awake \ {w} /\ w \in Awake
    BY <1>4 DEF Awake, RunTake
  <2>2. Cardinality(Awake') = Cardinality(Awake) - 1
    BY <2>1, OneLess, CountsFinite
  <2>3. Len(m_workqueue') = Len(m_workqueue) - 1 /\ m_queuestat' = m_queuestat
    BY <1>4 DEF RunTake
  <2> QED
    BY <1>a, <1>b, <2>2, <2>3, CountsFinite DEF NoStrandedRequest
<1> QED
  BY <1>1, <1>2, <1>3, <1>4 DEF run

\* However the threads interleave and however often sem_wait is interrupted,
\* every request in the list has a post, a coming post or a woken worker.
THEOREM NoneStranded == Spec => []NoStrandedRequest
<1>1. Init => NoStrandedRequest
  BY CountsFinite DEF Init, NoStrandedRequest
<1>2. TypeOK /\ NoStrandedRequest /\ [Next]_vars => NoStrandedRequest'
  <2> SUFFICES ASSUME TypeOK, NoStrandedRequest, [Next]_vars PROVE NoStrandedRequest'
    OBVIOUS
  <2>1. CASE UNCHANGED vars
    BY <2>1 DEF vars, NoStrandedRequest, Posting, Awake
  <2>2. CASE Next
    BY <2>2, AppendStranded, RunStranded DEF Next
  <2> QED
    BY <2>1, <2>2
<1> QED
  BY <1>1, <1>2, TypeCorrect, PTL DEF Spec

-----------------------------------------------------------------------------

\* The places of a list that an element is appended to.
LEMMA Appended ==
    ASSUME NEW S, NEW q \in Seq(S), NEW x \in S
    PROVE  \A i \in DOMAIN Append(q, x) :
              \/ i \in DOMAIN q /\ Append(q, x)[i] = q[i]
              \/ i = Len(q) + 1 /\ Append(q, x)[i] = x
  OBVIOUS

\* The places of a list whose head is taken.
LEMMA HeadTaken ==
    ASSUME NEW S, NEW q \in Seq(S), q # <<>>
    PROVE  /\ 1 \in DOMAIN q /\ Head(q) = q[1] /\ Head(q) \in S
           /\ \A i \in DOMAIN Tail(q) :
                 i \in Nat \ {0} /\ i + 1 \in DOMAIN q /\ Tail(q)[i] = q[i + 1]
  OBVIOUS

\* append moves its request, which is nowhere else, into the list or among
\* the refused ones.
LEMMA AppendOnce ==
    ASSUME TypeOK, Holds, Once, NEW p \in Producer, AppendCall(p) \/ append(p)
    PROVE  Once'
<1> USE PoolAssumption DEF TypeOK, Thread, Goto
<1>1. CASE AppendCall(p)
  BY <1>1 DEF AppendCall, Fresh, Once, Queued
<1>2. CASE AppendLock(p) \/ AppendUnlock(p) \/ AppendPost(p)
  <2>1. UNCHANGED <<request, m_workqueue, finished, refused>>
    BY <1>2 DEF AppendLock, AppendUnlock, AppendPost
  <2> QED
    BY <2>1 DEF Once, Queued
<1>3. CASE AppendFull(p)
  <2>1. request[p] \in Request /\ request[p] # Idle
    BY <1>3 DEF AppendFull, Holds
  <2>2. /\ request' = [request EXCEPT ![p] = Idle]
        /\ refused' = refused \cup {request[p]}
        /\ UNCHANGED <<m_workqueue, finished>>
    BY <1>3 DEF AppendFull
  <2>3. request[p] \notin Queued \cup finished /\ \A t \in Thread \ {p} : request[t] # request[p]
    BY <2>1 DEF Once
  <2>4. Idle \notin Queued \cup finished \cup refused
    BY DEF Queued
  <2> QED
    BY <2>1, <2>2, <2>3, <2>4 DEF Once, Queued
<1>4. CASE AppendPush(p)
  <2>1. request[p] \in Request /\ request[p] # Idle
    BY <1>4 DEF AppendPush, Holds
  <2>2. request[p] \notin Queued \cup finished \cup refused
    BY <2>1 DEF Once
  <2>3. \A i \in DOMAIN m_workqueue' :
           \/ i \in DOMAIN m_workqueue /\ m_workqueue'[i] = m_workqueue[i]
           \/ i = Len(m_workqueue) + 1 /\ m_workqueue'[i] = request[p]
    BY <1>4, <2>1, Appended DEF AppendPush
  <2>4. Queued' \subseteq Queued \cup {request[p]}
    BY <2>3 DEF Queued
  <2>5. \A i, j \in DOMAIN m_workqueue' : m_workqueue'[i] = m_workqueue'[j] => i = j
    BY <2>2, <2>3 DEF Once, Queued
  <2>6. request' = [request EXCEPT ![p] = Idle] /\ UNCHANGED <<finished, refused>>
    BY <1>4 DEF AppendPush
  <2>7. {request'[t] : t \in Thread} \subseteq {request[t] : t \in Thread} \cup {Idle}
    BY <2>6
  <2>8. \A t \in Thread : request'[t] # request[p]
    BY <2>1, <2>6 DEF Once
  <2>9. Idle \notin Queued \cup finished \cup refused \cup {request[p]}
    BY <2>1 DEF Queued
  <2> QED
    BY <2>1, <2>2, <2>4, <2>5, <2>6, <2>7, <2>8, <2>9 DEF Once
<1> QED
  BY <1>1, <1>2, <1>3, <1>4 DEF append

\* run moves the head of the list to its worker, and from there to finished.
LEMMA RunOnce ==
    ASSUME TypeOK, Holds, Once, NEW w \in Worker, run(w) \/ RunInterrupted(w)
    PROVE  Once'
<1> USE PoolAssumption DEF TypeOK, Thread, Goto
<1>1. CASE \/ RunLoop(w) \/ RunWait(w) \/ RunInterrupted(w) \/ RunLock(w)
           \/ RunEmpty(w) \/ RunUnlock(w)
  BY <1>1 DEF RunLoop, RunWait, RunInterrupted, RunLock, RunEmpty, RunUnlock, Once, Queued
<1>2. CASE RunTake(w)
  <2> DEFINE r == Head(m_workqueue)
  <2>1. /\ 1 \in DOMAIN m_workqueue /\ r = m_workqueue[1] /\ r \in Request
        /\ \A i \in DOMAIN m_workqueue' :
              i \in Nat \ {0} /\ i + 1 \in DOMAIN m_workqueue
              /\ m_workqueue'[i] = m_workqueue[i + 1]
    BY <1>2, HeadTaken DEF RunTake
  <2>2. request' = [request EXCEPT ![w] = r] /\ UNCHANGED <<finished, refused>>
    BY <1>2 DEF RunTake
  <2> HIDE DEF r
  <2>3. r \in Queued /\ r # Idle
    BY <2>1 DEF Queued
  <2>4. \A t \in Thread : request[t] # r
    BY <2>3 DEF Once
  <2>5. Queued' \subseteq Queued \ {r}
    <3> SUFFICES ASSUME NEW i \in DOMAIN m_workqueue'
                 PROVE  m_workqueue'[i] \in Queued \ {r}
      BY DEF Queued
    <3>1. i + 1 \in DOMAIN m_workqueue /\ i + 1 # 1 /\ m_workqueue'[i] = m_workqueue[i + 1]
      BY <2>1
    <3>2. m_workqueue[i + 1] # m_workqueue[1]
      BY <3>1, <2>1 DEF Once
    <3> QED
      BY <3>1, <3>2, <2>1 DEF Queued
  <2>6. \A i, j \in DOMAIN m_workqueue' : m_workqueue'[i] = m_workqueue'[j] => i = j
    <3> SUFFICES ASSUME NEW i \in DOMAIN m_workqueue', NEW j \in DOMAIN m_workqueue',
                        m_workqueue'[i] = m_workqueue'[j]
                 PROVE  i = j
      OBVIOUS
    <3>1. i + 1 = j + 1
      BY <2>1 DEF Once
    <3> QED
      BY <3>1, <2>1
  <2>7. {request'[t] : t \in Thread} \subseteq {request[t] : t \in Thread} \cup {r}
    BY <2>2
  <2>8. r \notin finished \cup refused
    BY <2>3 DEF Once
  <2>9. \A t, u \in Thread : request'[t] = request'[u] /\ t # u => request'[t] = Idle
    BY <2>2, <2>4 DEF Once
  <2> QED
    BY <2>2, <2>5, <2>6, <2>7, <2>8, <2>9 DEF Once
<1>3. CASE RunProcess(w)
  <2>1. request[w] \in Request /\ request[w] # Idle
    BY <1>3 DEF RunProcess, Holds
  <2>2. /\ request' = [request EXCEPT ![w] = Idle]
        /\ finished' = finished \cup {request[w]}
        /\ UNCHANGED <<m_workqueue, refused>>
    BY <1>3 DEF RunProcess
  <2>3. request[w] \notin Queued \cup refused /\ \A t \in Thread \ {w} : request[t] # request[w]
    BY <2>1 DEF Once
  <2>4. Idle \notin Queued \cup finished \cup refused
    BY DEF Queued
  <2> QED
    BY <2>1, <2>2, <2>3, <2>4 DEF Once, Queued
<1> QED
  BY <1>1, <1>2, <1>3 DEF run

\* A request is never in two places, so it is never processed twice nor
\* processed after append refused it.
THEOREM ServedOnce == Spec => []Once
<1>1. Init => Once
  BY DEF Init, Once, Queued
<1>2. TypeOK /\ Holds /\ Once /\ [Next]_vars => Once'
  <2> SUFFICES ASSUME TypeOK, Holds, Once, [Next]_vars PROVE Once'
    OBVIOUS
  <2>1. CASE UNCHANGED vars
    BY <2>1 DEF vars, Once, Queued
  <2>2. CASE Next
    BY <2>2, AppendOnce, RunOnce DEF Next
  <2> QED
    BY <2>1, <2>2
<1>3. Spec => [](TypeOK /\ Holds)
  BY TypeInit, TypeNext, PTL DEF Spec
<1> QED
  BY <1>1, <1>2, <1>3, PTL DEF Spec

-----------------------------------------------------------------------------

\* The steps of append are steps of the abstract queue: one of them is Put,
\* the others change nothing its user can see.
LEMMA AppendRefines ==
    ASSUME TypeOK, Holds, Once, NEW p \in Producer, AppendCall(p) \/ append(p)
    PROVE  [Pool!Next]_Pool!vars
<1> USE PoolAssumption DEF TypeOK, Thread, Goto
<1>1. \A w \in Worker : request'[w] = request[w]
  BY DEF append, AppendCall, AppendLock, AppendFull, AppendPush, AppendUnlock, AppendPost
<1>2. [w \in Worker |-> request[w]]' = [w \in Worker |-> request[w]]
  BY <1>1
<1>3. CASE \/ AppendCall(p) \/ AppendLock(p) \/ AppendFull(p)
           \/ AppendUnlock(p) \/ AppendPost(p)
  <2>1. m_workqueue' = m_workqueue /\ finished' = finished
    BY <1>3 DEF AppendCall, AppendLock, AppendFull, AppendUnlock, AppendPost
  <2> QED
    BY <1>2, <2>1 DEF Pool!vars
<1>4. CASE AppendPush(p)
  <2>1. request[p] \in Request /\ request[p] # Idle
    BY <1>4 DEF AppendPush, Holds
  <2>2. request[p] \notin Queued \cup finished
    BY <2>1 DEF Once
  <2>3. \A w \in Worker : request[w] # request[p]
    BY <2>1 DEF Once
  <2>4. request[p] \notin Pool!Accepted
    BY <2>2, <2>3 DEF Pool!Accepted, Queued
  <2>5. Len(m_workqueue) < max_requests + 1 /\ finished' = finished
        /\ m_workqueue' = Append(m_workqueue, request[p])
    <3>1. Len(m_workqueue) \in Nat  OBVIOUS
    <3>2. Len(m_workqueue) <= max_requests  BY <1>4 DEF AppendPush
    <3> QED  BY <1>4, <3>1, <3>2 DEF AppendPush
  <2>6. Pool!Put(request[p])
    BY <1>2, <2>4, <2>5 DEF Pool!Put
  <2> QED
    BY <2>1, <2>6 DEF Pool!Next
<1> QED
  BY <1>3, <1>4 DEF append

\* The steps of run are steps of the abstract queue: taking a request is Take,
\* the return of process() is Finish.
LEMMA RunRefines ==
    ASSUME TypeOK, Holds, NEW w \in Worker, run(w) \/ RunInterrupted(w)
    PROVE  [Pool!Next]_Pool!vars
<1> USE PoolAssumption DEF TypeOK, Thread, Goto
<1>1. CASE \/ RunLoop(w) \/ RunWait(w) \/ RunInterrupted(w) \/ RunLock(w)
           \/ RunEmpty(w) \/ RunUnlock(w)
  <2>1. UNCHANGED <<m_workqueue, request, finished>>
    BY <1>1 DEF RunLoop, RunWait, RunInterrupted, RunLock, RunEmpty, RunUnlock
  <2> QED
    BY <2>1 DEF Pool!vars
<1>2. CASE RunTake(w)
  <2>1. /\ m_workqueue # <<>> /\ m_workqueue' = Tail(m_workqueue)
        /\ request' = [request EXCEPT ![w] = Head(m_workqueue)]
        /\ finished' = finished
    BY <1>2 DEF RunTake
  <2>2. request[w] = Idle
    BY <1>2 DEF RunTake, Holds
  <2>3. [u \in Worker |-> request[u]]'
           = [[u \in Worker |-> request[u]] EXCEPT ![w] = Head(m_workqueue)]
    BY <2>1
  <2>4. Pool!Take(w)
    BY <2>1, <2>2, <2>3 DEF Pool!Take
  <2> QED
    BY <2>4 DEF Pool!Next
<1>3. CASE RunProcess(w)
  <2>1. /\ request' = [request EXCEPT ![w] = Idle]
        /\ finished' = finished \cup {request[w]} /\ m_workqueue' = m_workqueue
    BY <1>3 DEF RunProcess
  <2>2. request[w] # Idle
    BY <1>3 DEF RunProcess, Holds
  <2>3. [u \in Worker |-> request[u]]' = [[u \in Worker |-> request[u]] EXCEPT ![w] = Idle]
    BY <2>1
  <2>4. Pool!Finish(w)
    BY <2>1, <2>2, <2>3 DEF Pool!Finish
  <2> QED
    BY <2>4 DEF Pool!Next
<1> QED
  BY <1>1, <1>2, <1>3 DEF run

\* The pool implements the abstract queue with room for max_requests + 1, one
\* more than its comments say: accepted requests are given out in arrival
\* order, each to one worker.
THEOREM Implements == Spec => ImplementsTaskQueue
<1>1. Init => Pool!Init
  BY PoolAssumption DEF Init, Pool!Init, Thread
<1>2. TypeOK /\ Holds /\ Once /\ [Next]_vars => [Pool!Next]_Pool!vars
  <2> SUFFICES ASSUME TypeOK, Holds, Once, [Next]_vars PROVE [Pool!Next]_Pool!vars
    OBVIOUS
  <2>1. CASE UNCHANGED vars
    BY <2>1 DEF vars, Pool!vars
  <2>2. CASE Next
    BY <2>2, AppendRefines, RunRefines DEF Next
  <2> QED
    BY <2>1, <2>2
<1>3. Spec => [](TypeOK /\ Holds)
  BY TypeInit, TypeNext, PTL DEF Spec
<1> QED
  BY <1>1, <1>2, <1>3, ServedOnce, PTL DEF Spec, Pool!Spec, ImplementsTaskQueue

-----------------------------------------------------------------------------

LEMMA LeastOf ==
    ASSUME NEW S \in SUBSET Nat, S # {}
    PROVE  \E x \in S : \A y \in S : x <= y
<1>1. PICK x \in S : \A y \in S : ~(<<y, x>> \in OpToRel(<, Nat))
  BY NatLessThanWellFounded, WFMin
<1>2. \A y \in S : x <= y
  <2> SUFFICES ASSUME NEW y \in S PROVE x <= y  OBVIOUS
  <2>1. ~(<<y, x>> \in OpToRel(<, Nat))  BY <1>1
  <2>2. ~(y < x)  BY <2>1 DEF OpToRel
  <2> QED  BY <2>2
<1> QED  BY <1>2

LEMMA SetInduction ==
    ASSUME NEW S \in SUBSET Nat, 0 \in S, \A n \in S : n + 1 \in S
    PROVE  S = Nat
<1> SUFFICES ASSUME Nat \ S # {} PROVE FALSE  OBVIOUS
<1>1. PICK m \in Nat \ S : \A y \in Nat \ S : m <= y  BY LeastOf
<1>2. m # 0 /\ m - 1 \in Nat  OBVIOUS
<1>3. m - 1 \in S  BY <1>1, <1>2
<1> QED  BY <1>2, <1>3

-----------------------------------------------------------------------------

(***************************************************************************)
(* The parser.                                                             *)
(***************************************************************************)
LEMMA SmallestIs ==
    ASSUME NEW S \in SUBSET Nat
    PROVE  /\ S # {} => Smallest(S) \in S /\ \A y \in S : Smallest(S) <= y
           /\ \A x \in S : (\A y \in S : x <= y) => Smallest(S) = x
<1>1. ASSUME S # {} PROVE Smallest(S) \in S /\ \A y \in S : Smallest(S) <= y
  BY <1>1, LeastOf DEF Smallest
<1>2. ASSUME NEW x \in S, \A y \in S : x <= y PROVE Smallest(S) = x
  <2>1. PICK z \in S : z = Smallest(S) /\ \A y \in S : z <= y  BY <1>1
  <2>2. x <= z /\ z <= x  BY <1>2, <2>1
  <2> QED  BY <2>1, <2>2
<1> QED  BY <1>1, <1>2

LEMMA SameText ==
    ASSUME NEW b, NEW c, NEW m \in Int, NEW n \in Int, \A k \in m..n : b[k] = c[k]
    PROVE  SubSeq(b, m, n) = SubSeq(c, m, n)
<1> DEFINE S == {b[k] : k \in m..n}
<1>1. \A k \in m..n : b[k] \in S /\ c[k] \in S  OBVIOUS
<1> HIDE DEF S
<1>2. /\ SubSeq(b, m, n) \in Seq(S) /\ Len(SubSeq(b, m, n)) = IF m <= n THEN n - m + 1 ELSE 0
      /\ \A j \in 1..n-m+1 : SubSeq(b, m, n)[j] = b[m + j - 1]
  BY <1>1, SubSeqProperties
<1>3. /\ SubSeq(c, m, n) \in Seq(S) /\ Len(SubSeq(c, m, n)) = IF m <= n THEN n - m + 1 ELSE 0
      /\ \A j \in 1..n-m+1 : SubSeq(c, m, n)[j] = c[m + j - 1]
  BY <1>1, SubSeqProperties
<1>4. \A j \in 1..(IF m <= n THEN n - m + 1 ELSE 0) : j \in 1..n-m+1 /\ m + j - 1 \in m..n
  OBVIOUS
<1> QED  BY <1>1, <1>2, <1>3, <1>4, SeqEqual

(***************************************************************************)
(* What the bytes up to place s tell of the whole.                         *)
(***************************************************************************)
Text == Seq(Byte)
Prefix(b, c) ==
    /\ b \in Text /\ c \in Text /\ Len(b) <= Len(c)
    /\ \A k \in 1..Len(b) : c[k] = b[k]

\* Place s ends the line at which parser and reference agree that all is well.
LineEnd(b, s) ==
    /\ s \in 0..Len(b) /\ (s # 0 => s - 1 \in Breaks(b))
    /\ \A m \in Misplaced(b) : m > s

LEMMA BreakIs ==
    ASSUME NEW b \in Text
    PROVE  /\ Len(b) \in Nat /\ Breaks(b) \in SUBSET Nat
           /\ HeadEnds(b) \in SUBSET Nat /\ Misplaced(b) \in SUBSET Nat
           /\ \A k \in Breaks(b) : /\ k \in 1..(Len(b) - 1) /\ k + 1 \in 1..Len(b)
                                   /\ b[k] = "CR" /\ b[k + 1] = "LF"
           /\ \A k \in 1..(Len(b) - 1) : b[k] = "CR" /\ b[k + 1] = "LF" => k \in Breaks(b)
           /\ \A k \in HeadEnds(b) : k \in Nat /\ k - 1 \in Breaks(b)
<1>1. Len(b) \in Nat  BY LenProperties DEF Text
<1>2. Breaks(b) \in SUBSET Nat /\ Misplaced(b) \in SUBSET Nat
  BY DEF Breaks, Misplaced
<1>3. \A k \in Breaks(b) : /\ k \in 1..(Len(b) - 1) /\ k + 1 \in 1..Len(b)
                           /\ b[k] = "CR" /\ b[k + 1] = "LF"
  BY <1>1 DEF Breaks
<1>4. \A k \in HeadEnds(b) : k \in Nat /\ k - 1 \in Breaks(b)
  <2> SUFFICES ASSUME NEW k \in HeadEnds(b) PROVE k \in Nat /\ k - 1 \in Breaks(b)  OBVIOUS
  <2>1. PICK j \in Breaks(b) : k = j + 1  BY DEF HeadEnds
  <2>2. j \in Nat  BY <1>2
  <2> QED  BY <2>1, <2>2
<1>5. HeadEnds(b) \in SUBSET Nat  BY <1>4
<1> QED  BY <1>1, <1>2, <1>3, <1>4, <1>5 DEF Breaks

LEMMA HeadEndIs ==
    ASSUME NEW b \in Text, NEW j \in Breaks(b)
    PROVE  j + 1 \in HeadEnds(b) <=>
               (j = 1 \/ j - 2 \in Breaks(b)) /\ \A m \in Misplaced(b) : m > j
<1>1. j \in Nat  BY BreakIs
<1>2. ASSUME j + 1 \in HeadEnds(b)
      PROVE  (j = 1 \/ j - 2 \in Breaks(b)) /\ \A m \in Misplaced(b) : m > j
  <2>1. PICK k \in Breaks(b) : /\ k + 1 = j + 1 /\ (k = 1 \/ k - 2 \in Breaks(b))
                               /\ \A m \in Misplaced(b) : m > k
    BY <1>2 DEF HeadEnds
  <2>2. k \in Nat  BY BreakIs
  <2>3. k = j  BY <1>1, <2>1, <2>2
  <2> QED  BY <2>1, <2>3
<1> QED  BY <1>2 DEF HeadEnds

LEMMA MisplacedIs ==
    ASSUME NEW b \in Text, NEW m
    PROVE  m \in Misplaced(b) <=>
               m \in 1..Len(b) /\ \/ b[m] = "CR" /\ m < Len(b) /\ b[m + 1] # "LF"
                                  \/ b[m] = "LF" /\ (m = 1 \/ b[m - 1] # "CR")
BY DEF Misplaced

\* What each parser makes of the bytes as a whole; it differs from Expected
\* where a request line has blanks and where a CR or LF is out of place.
Wrong(b) == IF chapter = 8 /\ Misplaced(b) # {} THEN "BAD_REQUEST" ELSE "NO_REQUEST"
Accepted(text) == text = <<"tabs">> \/ (chapter = 15 /\ text = <<"spaces">>)
Computed(b) ==
    IF Breaks(b) = {} \/ \E m \in Misplaced(b) : m < Smallest(Breaks(b)) THEN Wrong(b)
    ELSE IF ~Accepted(FirstLine(b)) THEN "BAD_REQUEST"
    ELSE IF HeadEnds(b) = {} THEN Wrong(b)
    ELSE IF Len(b) >= Smallest(HeadEnds(b)) + BodyLength(b, Smallest(HeadEnds(b)))
         THEN "GET_REQUEST" ELSE "NO_REQUEST"

\* More bytes change nothing of that.
LEMMA Extended ==
    ASSUME NEW b, NEW c, Prefix(b, c), NEW s, LineEnd(b, s)
    PROVE  /\ LineEnd(c, s)
           /\ \A k \in Nat : k < s => (k \in Breaks(c) <=> k \in Breaks(b))
           /\ \A k \in Nat : k <= s => (k \in HeadEnds(c) <=> k \in HeadEnds(b))
           /\ s # 0 => FirstLine(c) = FirstLine(b)
           /\ Lines(c, s) = Lines(b, s) /\ BodyLength(c, s) = BodyLength(b, s)
<1>1. PICK n \in Nat, r \in Nat :
         /\ n = Len(b) /\ r = Len(c) /\ n <= r /\ b \in Text /\ c \in Text
         /\ \A k \in 1..n : c[k] = b[k]
  BY BreakIs DEF Prefix
<1>2. s \in 0..n /\ s \in Nat /\ (s # 0 => s - 1 \in Breaks(b)) /\ \A m \in Misplaced(b) : m > s
  BY <1>1 DEF LineEnd
<1>3. \A k \in Nat : k < s => (k \in Breaks(c) <=> k \in Breaks(b))
  <2> SUFFICES ASSUME NEW k \in Nat, k < s PROVE k \in Breaks(c) <=> k \in Breaks(b)
    OBVIOUS
  <2>1. k + 1 \in 1..n /\ k <= n - 1 /\ k <= r - 1  BY <1>1, <1>2
  <2>2. k # 0 => k \in 1..n /\ c[k] = b[k] /\ c[k + 1] = b[k + 1]  BY <1>1, <2>1
  <2> QED  BY <1>1, <2>1, <2>2 DEF Breaks
<1>4. s # 0 => s >= 2 /\ b[s - 1] = "CR" /\ b[s] = "LF" /\ s - 1 \in 1..n /\ s \in 1..n
  <2>1. s # 0 => s - 1 \in 1..(n - 1) /\ b[s - 1] = "CR" /\ b[(s - 1) + 1] = "LF"
    BY <1>1, <1>2, BreakIs
  <2>2. (s - 1) + 1 = s  BY <1>2
  <2> QED  BY <2>1, <2>2, <1>1, <1>2
<1>5. \A m \in Misplaced(c) : m > s
  <2> SUFFICES ASSUME NEW m \in 1..r, m <= s, m \in Misplaced(c) PROVE FALSE
    BY <1>1, <1>2, MisplacedIs
  <2>1. m \in 1..n /\ s # 0 /\ c[m] = b[m]  BY <1>1, <1>2
  <2>2. CASE c[m] = "LF"
    <3>1. m = 1 \/ c[m - 1] # "CR"  BY <2>2, <1>1, MisplacedIs
    <3>2. m # 1 => m - 1 \in 1..n  BY <2>1
    <3>3. m \in Misplaced(b)  BY <2>1, <2>2, <3>1, <3>2, <1>1, MisplacedIs
    <3> QED  BY <3>3, <1>2
  <2>3. CASE c[m] # "LF"
    <3>1. c[m] = "CR" /\ c[m + 1] # "LF"  BY <2>3, <1>1, MisplacedIs
    <3>2. m # s  BY <2>1, <2>3, <1>4
    <3>3. m < n /\ m + 1 \in 1..n  BY <3>2, <1>2
    <3>4. m \in Misplaced(b)  BY <2>1, <3>1, <3>3, <1>1, MisplacedIs
    <3> QED  BY <3>4, <1>2
  <2> QED  BY <2>2, <2>3
<1>6. LineEnd(c, s)
  <2>1. s # 0 => s - 1 \in Nat /\ s - 1 < s  BY <1>2
  <2> QED  BY <2>1, <1>1, <1>2, <1>3, <1>5 DEF LineEnd
<1>7. \A k \in Nat : k <= s => (k \in HeadEnds(c) <=> k \in HeadEnds(b))
  <2> SUFFICES ASSUME NEW k \in Nat, k <= s PROVE k \in HeadEnds(c) <=> k \in HeadEnds(b)
    OBVIOUS
  <2>1. CASE k = 0
    <3>1. k \notin HeadEnds(c) /\ k \notin HeadEnds(b)
      <4>1. -1 \notin Breaks(c) /\ -1 \notin Breaks(b)  BY <1>1, BreakIs
      <4> QED  BY <2>1, <4>1, <1>1, BreakIs
    <3> QED  BY <3>1
  <2>2. CASE k # 0
    <3>1. PICK j \in Nat : k = j + 1 /\ j < s /\ k - 1 = j
      <4>1. k - 1 \in Nat /\ k = (k - 1) + 1 /\ k - 1 < s  BY <2>2, <1>2
      <4> QED  BY <4>1
    <3>2. j \in Breaks(c) <=> j \in Breaks(b)  BY <3>1, <1>3
    <3>3. j \notin Breaks(b) => k \notin HeadEnds(c) /\ k \notin HeadEnds(b)
      BY <3>1, <3>2, <1>1, BreakIs
    <3>4. ASSUME j \in Breaks(b) PROVE k \in HeadEnds(c) <=> k \in HeadEnds(b)
      <4>1. j - 2 \in Breaks(c) <=> j - 2 \in Breaks(b)
        <5>1. CASE j - 2 \in Nat
          <6>1. j - 2 < s  BY <3>1, <1>2
          <6> QED  BY <5>1, <6>1, <1>3
        <5>2. CASE j - 2 \notin Nat  BY <5>2, <1>1, BreakIs
        <5> QED  BY <5>1, <5>2
      <4>2. (\A m \in Misplaced(c) : m > j) /\ (\A m \in Misplaced(b) : m > j)
        BY <1>1, <1>2, <1>5, <3>1, BreakIs
      <4> QED  BY <3>1, <3>2, <3>4, <4>1, <4>2, <1>1, HeadEndIs
    <3> QED  BY <3>3, <3>4
  <2> QED  BY <2>1, <2>2
<1>8. ASSUME s # 0
      PROVE  FirstLine(c) = FirstLine(b)
  <2>1. PICK x \in Breaks(b) : x = Smallest(Breaks(b)) /\ \A y \in Breaks(b) : x <= y
    BY <1>1, <1>2, <1>8, BreakIs, SmallestIs
  <2>2. x \in 1..(n - 1) /\ x <= s - 1 /\ x < s /\ x \in Nat  BY <2>1, <1>1, <1>2, <1>8, BreakIs
  <2>3. x \in Breaks(c)  BY <2>1, <2>2, <1>3
  <2>4. ASSUME NEW y \in Breaks(c) PROVE x <= y
    <3>1. y \in Nat  BY <1>1, BreakIs
    <3>2. CASE y < s  BY <3>1, <3>2, <1>3, <2>1
    <3>3. CASE ~(y < s)  BY <3>1, <3>3, <2>2, <1>2
    <3> QED  BY <3>2, <3>3
  <2>5. Smallest(Breaks(c)) = x  BY <2>3, <2>4, <1>1, BreakIs, SmallestIs
  <2>6. \A k \in 1..(x - 1) : c[k] = b[k]  BY <2>2, <1>1
  <2>7. SubSeq(c, 1, x - 1) = SubSeq(b, 1, x - 1)  BY <2>2, <2>6, SameText
  <2> QED  BY <2>1, <2>5, <2>7 DEF FirstLine
<1>9. Lines(c, s) = Lines(b, s)
  <2> DEFINE P(d) == {p \in (1..s) \X Breaks(d) :
                         /\ p[1] <= p[2] /\ p[2] < s /\ (p[1] = 1 \/ p[1] - 2 \in Breaks(d))
                         /\ \A j \in Breaks(d) : ~(p[1] <= j /\ j < p[2])}
  <2>1. ASSUME NEW p \in (1..s) \X Nat, p[1] <= p[2], p[2] < s
        PROVE  /\ p[2] \in Breaks(c) <=> p[2] \in Breaks(b)
               /\ p[1] - 2 \in Breaks(c) <=> p[1] - 2 \in Breaks(b)
               /\ (\A j \in Breaks(c) : ~(p[1] <= j /\ j < p[2])) <=>
                  (\A j \in Breaks(b) : ~(p[1] <= j /\ j < p[2]))
    <3>1. PICK x \in 1..s, y \in Nat : x = p[1] /\ y = p[2] /\ x <= y /\ y < s  BY <2>1
    <3>2. y \in Breaks(c) <=> y \in Breaks(b)  BY <3>1, <1>3
    <3>3. x - 2 \in Breaks(c) <=> x - 2 \in Breaks(b)
      <4>1. CASE x - 2 \in Nat
        <5>1. x - 2 < s  BY <3>1, <1>2
        <5> QED  BY <4>1, <5>1, <1>3
      <4>2. CASE x - 2 \notin Nat  BY <4>2, <1>1, BreakIs
      <4> QED  BY <4>1, <4>2
    <3>4. \A j \in Nat : j < y => (j \in Breaks(c) <=> j \in Breaks(b))
      <4>1. \A j \in Nat : j < y => j < s  BY <3>1, <1>2
      <4> QED  BY <4>1, <1>3
    <3>5. Breaks(c) \subseteq Nat /\ Breaks(b) \subseteq Nat  BY <1>1, BreakIs
    <3> QED  BY <3>1, <3>2, <3>3, <3>4, <3>5
  <2>2. Breaks(c) \subseteq Nat /\ Breaks(b) \subseteq Nat  BY <1>1, BreakIs
  <2>3. P(c) = P(b)
    <3>1. \A p \in P(c) : p \in (1..s) \X Nat /\ p[1] <= p[2] /\ p[2] < s  BY <2>2
    <3>2. \A p \in P(b) : p \in (1..s) \X Nat /\ p[1] <= p[2] /\ p[2] < s  BY <2>2
    <3>3. P(c) \subseteq P(b)  BY <2>1, <3>1
    <3>4. P(b) \subseteq P(c)  BY <2>1, <3>2
    <3> QED  BY <3>3, <3>4
  <2>4. \A p \in P(b) : SubSeq(c, p[1], p[2] - 1) = SubSeq(b, p[1], p[2] - 1)
    <3> SUFFICES ASSUME NEW p \in P(b)
                 PROVE  SubSeq(c, p[1], p[2] - 1) = SubSeq(b, p[1], p[2] - 1)
      OBVIOUS
    <3>1. PICK x \in 1..s, y \in Nat : x = p[1] /\ y = p[2] /\ x <= y /\ y < s  BY <2>2
    <3>2. \A k \in x..(y - 1) : c[k] = b[k]
      <4>1. \A k \in x..(y - 1) : k \in 1..n  BY <3>1, <1>2
      <4> QED  BY <4>1, <1>1
    <3>3. x \in Int /\ y - 1 \in Int  BY <3>1, <1>2
    <3>4. SubSeq(c, x, y - 1) = SubSeq(b, x, y - 1)
      <4> HIDE DEF P
      <4> QED  BY <3>2, <3>3, SameText
    <3> QED  BY <3>1, <3>4
  <2>5. \A d : Lines(d, s) = {SubSeq(d, p[1], p[2] - 1) : p \in P(d)}  BY DEF Lines
  <2> HIDE DEF P
  <2>6. {SubSeq(c, p[1], p[2] - 1) : p \in P(b)} = {SubSeq(b, p[1], p[2] - 1) : p \in P(b)}
    BY <2>4
  <2> QED  BY <2>3, <2>5, <2>6
<1>10. BodyLength(c, s) = BodyLength(b, s)  BY <1>9 DEF BodyLength
<1> QED  BY <1>3, <1>6, <1>7, <1>8, <1>9, <1>10

\* One line more: the next break is at place k.
NextLine(b, s, k) ==
    /\ LineEnd(b, s) /\ k \in Breaks(b) /\ k > s
    /\ (\A j \in Breaks(b) : j < s \/ j >= k) /\ \A m \in Misplaced(b) : m > k + 1

\* It adds what is between the breaks to the lines, and ends the head if that is nothing.
LEMMA OneLineMore ==
    ASSUME NEW b \in Text, NEW s, NEW k, NextLine(b, s, k)
    PROVE  /\ LineEnd(b, k + 1)
           /\ Lines(b, k + 1) = Lines(b, s) \cup {SubSeq(b, s + 1, k - 1)}
           /\ k = s + 1 <=> SubSeq(b, s + 1, k - 1) = <<>>
           /\ k = s + 1 => k + 1 \in HeadEnds(b)
           /\ k # s + 1 => k + 1 \notin HeadEnds(b)
           /\ \A e \in HeadEnds(b) : e > s => e >= k + 1
           /\ s = 0 => Smallest(Breaks(b)) = k /\ Lines(b, s) = {}
<1>1. PICK n \in Nat : n = Len(b)  BY BreakIs
<1>2. /\ s \in 0..n /\ s \in Nat /\ (s # 0 => s - 1 \in Breaks(b))
      /\ \A m \in Misplaced(b) : m > k + 1
  BY <1>1 DEF LineEnd, NextLine
<1>3. /\ k \in Breaks(b) /\ k \in 1..(n - 1) /\ k > s /\ k \in Nat
      /\ \A j \in Breaks(b) : j < s \/ j >= k
      /\ b[k] = "CR" /\ b[k + 1] = "LF"
  BY <1>1, BreakIs DEF NextLine
<1>4. s # 0 => s >= 2 /\ b[s - 1] = "CR" /\ b[s] = "LF"
  <2>1. s # 0 => s - 1 \in 1..(n - 1) /\ b[s - 1] = "CR" /\ b[(s - 1) + 1] = "LF"
    BY <1>1, <1>2, BreakIs
  <2>2. (s - 1) + 1 = s  BY <1>2
  <2> QED  BY <2>1, <2>2, <1>1, <1>2
<1>5. LineEnd(b, k + 1)
  <2>1. k + 1 \in 0..n /\ (k + 1) - 1 = k  BY <1>1, <1>3
  <2> QED  BY <2>1, <1>1, <1>2, <1>3 DEF LineEnd
<1>6. k = s + 1 <=> SubSeq(b, s + 1, k - 1) = <<>>
  <2>1. \A j \in (s + 1)..(k - 1) : b[j] \in Byte
    <3>1. \A j \in (s + 1)..(k - 1) : j \in 1..n  BY <1>2, <1>3
    <3> QED  BY <3>1, <1>1, ElementOfSeq DEF Text
  <2>2. SubSeq(b, s + 1, k - 1) \in Seq(Byte) /\
        Len(SubSeq(b, s + 1, k - 1)) = IF s + 1 <= k - 1 THEN (k - 1) - (s + 1) + 1 ELSE 0
    BY <2>1, <1>2, <1>3, SubSeqProperties
  <2>3. Len(SubSeq(b, s + 1, k - 1)) = 0 <=> SubSeq(b, s + 1, k - 1) = <<>>
    BY <2>2, EmptySeq
  <2> QED  BY <2>2, <2>3, <1>2, <1>3
<1>7. k = s + 1 => k + 1 \in HeadEnds(b)
  <2>1. k = s + 1 => k = 1 \/ k - 2 \in Breaks(b)
    <3>1. k = s + 1 => k - 2 = s - 1 /\ (s = 0 => k = 1)  BY <1>2, <1>3
    <3> QED  BY <3>1, <1>2
  <2>2. \A m \in Misplaced(b) : m > k  BY <1>2, <1>3, BreakIs
  <2> QED  BY <2>1, <2>2, <1>3, HeadEndIs
<1>8. k # s + 1 => k + 1 \notin HeadEnds(b)
  <2> SUFFICES ASSUME k # s + 1, k + 1 \in HeadEnds(b) PROVE FALSE  OBVIOUS
  <2>1. k = 1 \/ k - 2 \in Breaks(b)  BY <1>3, HeadEndIs
  <2>2. k # 1  BY <1>2, <1>3
  <2>3. k - 2 \in Breaks(b) /\ b[k - 2] = "CR" /\ k - 2 \in Nat /\ k - 2 # 0
    BY <2>1, <2>2, BreakIs
  <2>4. k - 2 < s  BY <2>3, <1>2, <1>3
  <2>5. k - 2 >= s  BY <1>2, <1>3
  <2> QED  BY <2>3, <2>4, <2>5, <1>2
<1>9. \A e \in HeadEnds(b) : e > s => e >= k + 1
  <2> SUFFICES ASSUME NEW e \in HeadEnds(b), e > s PROVE e >= k + 1  OBVIOUS
  <2>1. e \in Nat /\ e - 1 \in Breaks(b)  BY BreakIs
  <2>2. e - 1 < s \/ e - 1 >= k  BY <2>1, <1>3
  <2> QED  BY <2>1, <2>2, <1>2, <1>3
<1>10. ASSUME s = 0 PROVE Smallest(Breaks(b)) = k /\ Lines(b, s) = {}
  <2>1. \A j \in Breaks(b) : k <= j  BY <1>3, <1>10, BreakIs
  <2>2. Smallest(Breaks(b)) = k  BY <2>1, <1>3, BreakIs, SmallestIs
  <2>3. (1..s) \X Breaks(b) = {}  BY <1>10
  <2> QED  BY <2>2, <2>3 DEF Lines
<1>11. Lines(b, k + 1) = Lines(b, s) \cup {SubSeq(b, s + 1, k - 1)}
  <2> DEFINE Q(e) == {p \in (1..e) \X Breaks(b) :
                         /\ p[1] <= p[2] /\ p[2] < e /\ (p[1] = 1 \/ p[1] - 2 \in Breaks(b))
                         /\ \A j \in Breaks(b) : ~(p[1] <= j /\ j < p[2])}
  <2>1. Q(k + 1) = Q(s) \cup {<<s + 1, k>>}
    <3>1. <<s + 1, k>> \in Q(k + 1)
      <4>1. s + 1 \in 1..(k + 1) /\ s + 1 <= k /\ k < k + 1  BY <1>2, <1>3
      <4>2. s + 1 = 1 \/ (s + 1) - 2 \in Breaks(b)
        <5>1. (s + 1) - 2 = s - 1  BY <1>2
        <5> QED  BY <5>1, <1>2
      <4>3. \A j \in Breaks(b) : ~(s + 1 <= j /\ j < k)  BY <1>2, <1>3, BreakIs
      <4> QED  BY <4>1, <4>2, <4>3, <1>3
    <3>2. ASSUME NEW p \in Q(s) PROVE p \in Q(k + 1)
      <4>1. PICK x \in 1..s, y \in Breaks(b) : p = <<x, y>> /\ y < s  OBVIOUS
      <4>2. y \in Nat  BY BreakIs
      <4>3. x \in 1..(k + 1) /\ y < k + 1  BY <4>1, <4>2, <1>2, <1>3
      <4> QED  BY <4>1, <4>3
    <3>3. ASSUME NEW p \in Q(k + 1) PROVE p \in Q(s) \/ p = <<s + 1, k>>
      <4>1. PICK x \in 1..(k + 1), y \in Breaks(b) :
               /\ p = <<x, y>> /\ x <= y /\ y < k + 1 /\ (x = 1 \/ x - 2 \in Breaks(b))
               /\ \A j \in Breaks(b) : ~(x <= j /\ j < y)
        OBVIOUS
      <4>2. y \in Nat /\ x \in Nat  BY BreakIs
      <4>3. CASE y < s
        <5>1. x \in 1..s  BY <4>1, <4>2, <4>3, <1>2
        <5> QED  BY <4>1, <4>3, <5>1
      <4>4. CASE ~(y < s)
        <5>1. y = k  BY <4>1, <4>2, <4>4, <1>2, <1>3
        <5>2. CASE x <= s
          <6>1. (s # 0 /\ x <= s - 1) \/ x = s  BY <5>2, <4>2, <1>2
          <6>2. x # s
            <7> SUFFICES ASSUME x = s PROVE FALSE  OBVIOUS
            <7>1. s # 0 /\ s # 1  BY <1>4, <4>1
            <7>2. s - 2 \in Breaks(b)  BY <4>1, <7>1
            <7>3. b[(s - 2) + 1] = "LF"  BY <7>2, BreakIs
            <7>4. (s - 2) + 1 = s - 1  BY <1>2
            <7> QED  BY <7>1, <7>3, <7>4, <1>4
          <6>3. s - 1 \in Breaks(b) /\ x <= s - 1  BY <6>1, <6>2, <1>2
          <6>4. s - 1 < k  BY <1>2, <1>3
          <6> QED  BY <6>3, <6>4, <4>1, <5>1
        <5>3. CASE ~(x <= s)
          <6>1. x # s + 1 => FALSE
            <7> SUFFICES ASSUME x # s + 1 PROVE FALSE  OBVIOUS
            <7>1. x # 1 /\ x - 2 \in Nat /\ x - 2 >= s  BY <5>3, <4>2, <1>2
            <7>2. x - 2 \in Breaks(b)  BY <7>1, <4>1
            <7>3. x - 2 >= k  BY <7>1, <7>2, <1>2, <1>3
            <7> QED  BY <7>1, <7>3, <4>1, <5>1, <4>2, <1>3
          <6> QED  BY <6>1, <4>1, <5>1
        <5> QED  BY <5>2, <5>3
      <4> QED  BY <4>3, <4>4
    <3> HIDE DEF Q
    <3> QED  BY <3>1, <3>2, <3>3
  <2>2. \A e : Lines(b, e) = {SubSeq(b, p[1], p[2] - 1) : p \in Q(e)}  BY DEF Lines
  <2> HIDE DEF Q
  <2>3. Lines(b, k + 1) = {SubSeq(b, p[1], p[2] - 1) : p \in Q(s)} \cup {SubSeq(b, s + 1, k - 1)}
    <3> DEFINE Piece(p) == SubSeq(b, p[1], p[2] - 1)
    <3>1. Piece(<<s + 1, k>>) = SubSeq(b, s + 1, k - 1)  OBVIOUS
    <3>2. Lines(b, k + 1) = {Piece(p) : p \in Q(k + 1)}  BY <2>2
    <3> HIDE DEF Piece
    <3>3. Lines(b, k + 1) = {Piece(p) : p \in Q(s)} \cup {Piece(<<s + 1, k>>)}
      BY <2>1, <3>2
    <3> QED  BY <3>1, <3>3 DEF Piece
  <2> QED  BY <2>2, <2>3
<1> QED  BY <1>5, <1>6, <1>7, <1>8, <1>9, <1>10, <1>11

\* The parser's buffer and indices; parse_line writes zeros.
Cell == Byte \cup {"NUL"}
Parsers ==
    [read_buf : Seq(Cell), checked_idx : Nat, start_line : Nat,
     state : {"REQUESTLINE", "HEADER", "CONTENT"},
     content_length : {0, ContentLength}, linger : BOOLEAN, last : Nat]

\* The indices are in order and inside the buffer, and only chapter 15 waits
\* for a body.
Shape(p) ==
    /\ p \in Parsers /\ p.start_line <= p.checked_idx /\ p.checked_idx <= Len(p.read_buf)
    /\ p.content_length # 0 => chapter = 15
    /\ p.state = "CONTENT" => p.content_length # 0

\* The parser after parse_line.
Moved(p, buf, c) == [p EXCEPT !.read_buf = buf, !.checked_idx = c]

LEMMA ZerosWritten ==
    ASSUME NEW buf \in Seq(Cell), NEW i \in Nat, i + 2 <= Len(buf), NEW new,
           new = [buf EXCEPT ![i + 1] = "NUL", ![i + 2] = "NUL"]
    PROVE  /\ new \in Seq(Cell) /\ Len(new) = Len(buf)
           /\ new[i + 1] = "NUL" /\ new[i + 2] = "NUL"
           /\ \A j \in 1..Len(buf) : j # i + 1 /\ j # i + 2 => new[j] = buf[j]
<1>1. PICK n \in Nat : n = Len(buf)  BY LenProperties
<1>2. i + 1 \in 1..n /\ i + 2 \in 1..n /\ i + 1 # i + 2  BY <1>1
<1>3. "NUL" \in Cell  BY DEF Cell
<1> DEFINE half == [buf EXCEPT ![i + 1] = "NUL"]
<1>4. half \in Seq(Cell) /\ Len(half) = n /\ \A j \in 1..n : half[j] = IF j = i + 1 THEN "NUL" ELSE buf[j]
  <2>1. i + 1 \in 1..Len(buf)  BY <1>1, <1>2
  <2>2. /\ half \in Seq(Cell) /\ Len(half) = Len(buf)
        /\ \A j \in 1..Len(buf) : half[j] = IF j = i + 1 THEN "NUL" ELSE buf[j]
    BY <2>1, <1>3, ExceptSeq
  <2> QED  BY <2>2, <1>1
<1>5. new = [half EXCEPT ![i + 2] = "NUL"]
  OBVIOUS
<1> HIDE DEF half
<1>6. /\ new \in Seq(Cell) /\ Len(new) = n
      /\ \A j \in 1..n : new[j] = IF j = i + 2 THEN "NUL" ELSE half[j]
  <2>1. i + 2 \in 1..Len(half)  BY <1>4, <1>2
  <2> QED  BY <2>1, <1>3, <1>4, <1>5, ExceptSeq
<1> QED  BY <1>1, <1>2, <1>4, <1>6

\* What parse_line leaves: whether or not there is a line, the indices stay
\* inside the buffer, and a line takes a byte at least.
LEMMA ParseLineKeeps ==
    ASSUME NEW p, Shape(p)
    PROVE  \E buf \in Seq(Cell), c \in Nat, status \in {"OK", "OPEN", "BAD"} :
              /\ parse_line(p) = [p |-> Moved(p, buf, c), status |-> status]
              /\ Len(buf) = Len(p.read_buf) /\ p.checked_idx <= c /\ c <= Len(buf)
              /\ status = "OK" => p.checked_idx < c
              /\ p.checked_idx = Len(p.read_buf) => status = "OPEN"
<1>1. PICK n \in Nat, s \in Nat, old \in Seq(Cell) :
         n = Len(p.read_buf) /\ s = p.checked_idx /\ s <= n /\ old = p.read_buf
  BY LenProperties DEF Shape, Parsers
<1>2. p \in Parsers  BY DEF Shape
<1>3. \A c : [p EXCEPT !.checked_idx = c] = Moved(p, old, c)
  BY <1>1, <1>2 DEF Moved, Parsers
<1>4. \A i \in Nat : i + 2 <= n =>
         LineOk(p, i) = [p |-> Moved(p, [old EXCEPT ![i + 1] = "NUL", ![i + 2] = "NUL"], i + 2),
                         status |-> "OK"]
  BY <1>1, <1>2 DEF LineOk, Line, Moved, Parsers
<1>5. \A status, c : Line(p, status, c) = [p |-> Moved(p, old, c), status |-> status]
  BY <1>3 DEF Line
<1>6. \A i \in Nat : i + 2 <= n =>
         /\ [old EXCEPT ![i + 1] = "NUL", ![i + 2] = "NUL"] \in Seq(Cell)
         /\ Len([old EXCEPT ![i + 1] = "NUL", ![i + 2] = "NUL"]) = n
  BY <1>1, ZerosWritten
<1> DEFINE Kept ==
       \E buf \in Seq(Cell), c \in Nat, status \in {"OK", "OPEN", "BAD"} :
          /\ parse_line(p) = [p |-> Moved(p, buf, c), status |-> status]
          /\ Len(buf) = Len(p.read_buf) /\ p.checked_idx <= c /\ c <= Len(buf)
          /\ status = "OK" => p.checked_idx < c
          /\ p.checked_idx = Len(p.read_buf) => status = "OPEN"
<1>7. \A i \in Nat : i + 2 <= n /\ s < i + 2 /\ parse_line(p) = LineOk(p, i) => Kept
  <2> SUFFICES ASSUME NEW i \in Nat, i + 2 <= n, s < i + 2, parse_line(p) = LineOk(p, i)
               PROVE  Kept
    OBVIOUS
  <2>1. PICK buf \in Seq(Cell) :
           /\ Len(buf) = n
           /\ LineOk(p, i) = [p |-> Moved(p, buf, i + 2), status |-> "OK"]
    BY <1>4, <1>6
  <2>2. PICK c \in Nat : c = i + 2 /\ s < c /\ s <= c /\ c <= n /\ s # n  OBVIOUS
  <2> QED  BY <2>1, <2>2, <1>1
<1>8. SUFFICES Kept
  OBVIOUS
<1> HIDE DEF Kept
<1>9. CASE Ends(p) = {}
  <2>1. parse_line(p) = [p |-> Moved(p, old, n), status |-> "OPEN"]
    BY <1>1, <1>5, <1>9 DEF parse_line, read_idx
  <2> QED  BY <2>1, <1>1 DEF Kept
<1>10. CASE Ends(p) # {}
  <2>1. Ends(p) \in SUBSET Nat /\ \A i \in Ends(p) : i \in s..(n - 1)
    BY <1>1 DEF Ends, read_idx
  <2>2. PICK i \in Ends(p) : i = Smallest(Ends(p))  BY <2>1, <1>10, SmallestIs
  <2>3. i \in Nat /\ s <= i /\ i + 1 <= n /\ i + 1 > s /\ s # n  BY <2>1, <1>1
  <2>4. parse_line(p) = IF At(p, i) = "CR" THEN CarriageReturn(p, i) ELSE LineFeed(p, i)
    BY <2>2, <1>10 DEF parse_line
  <2>5. \/ i + 2 <= n /\ parse_line(p) = LineOk(p, i)
        \/ i >= 1 /\ i - 1 \in Nat /\ (i - 1) + 2 = i + 1 /\ parse_line(p) = LineOk(p, i - 1)
        \/ \E status \in {"OPEN", "BAD"} : parse_line(p) = Line(p, status, i)
    <3>1. CASE At(p, i) = "CR"
      <4>1. i + 1 = read_idx(p) \/ i + 2 <= n  BY <2>3, <1>1 DEF read_idx
      <4> QED  BY <4>1, <3>1, <2>4 DEF CarriageReturn
    <3>2. CASE At(p, i) # "CR"
      <4>1. i > 1 => i >= 1 /\ i - 1 \in Nat /\ (i - 1) + 2 = i + 1  BY <2>3
      <4> QED  BY <4>1, <3>2, <2>4 DEF LineFeed
    <3> QED  BY <3>1, <3>2
  <2>6. CASE i + 2 <= n /\ parse_line(p) = LineOk(p, i)
    <3>1. s < i + 2 /\ s <= i + 2 /\ i + 2 \in Nat  BY <2>3
    <3> QED  BY <3>1, <2>3, <2>6, <1>7
  <2>7. CASE i >= 1 /\ i - 1 \in Nat /\ (i - 1) + 2 = i + 1 /\ parse_line(p) = LineOk(p, i - 1)
    <3>1. PICK k \in Nat : k = i - 1 /\ k + 2 <= n /\ s < k + 2  BY <2>3, <2>7
    <3>2. parse_line(p) = LineOk(p, k)  BY <3>1, <2>7
    <3> QED  BY <3>1, <3>2, <1>7
  <2>8. CASE \E status \in {"OPEN", "BAD"} : parse_line(p) = Line(p, status, i)
    <3>1. i <= n  BY <2>3
    <3> QED  BY <3>1, <2>3, <2>8, <1>1, <1>5 DEF Kept
  <2> QED  BY <2>5, <2>6, <2>7, <2>8
<1> QED  BY <1>9, <1>10

\* No end of a line, nor half of one, from s to c.
Clean(b, s, c) == \A j \in (s + 1)..c : b[j] # "CR" /\ b[j] # "LF"

\* The buffer of p holds the bytes of b from the line p is at, and there is no
\* end of a line up to the place it has looked at.
Place(p, b) ==
    /\ Shape(p) /\ b \in Text /\ Len(p.read_buf) = Len(b)
    /\ \A j \in 1..Len(b) : j > p.start_line => p.read_buf[j] = b[j]
    /\ p.start_line # 0 => p.read_buf[p.start_line] = "NUL"
    /\ LineEnd(b, p.start_line) /\ Clean(b, p.start_line, p.checked_idx)

\* The three answers of parse_line at such a place.
LineOpen(p, b) ==
    \E c \in Nat :
        /\ parse_line(p) = [p |-> Moved(p, p.read_buf, c), status |-> "OPEN"]
        /\ p.checked_idx <= c /\ c <= Len(b) /\ Clean(b, p.start_line, c)
        /\ Misplaced(b) = {} /\ \A j \in Breaks(b) : j < p.start_line
LineBad(p, b) ==
    \E c \in Nat, m \in Misplaced(b) :
        /\ parse_line(p) = [p |-> Moved(p, p.read_buf, c), status |-> "BAD"]
        /\ p.checked_idx <= c /\ c <= Len(b) /\ Clean(b, p.start_line, c)
        /\ \A j \in Breaks(b) : j < p.start_line \/ j > m
LineThere(p, b) ==
    \E k \in Nat, buf \in Seq(Cell) :
        /\ parse_line(p) = [p |-> Moved(p, buf, k + 1), status |-> "OK"]
        /\ NextLine(b, p.start_line, k)
        /\ Len(buf) = Len(b) /\ buf[k + 1] = "NUL"
        /\ \A j \in 1..Len(b) : j > k + 1 => buf[j] = b[j]
        /\ get_line(Moved(p, buf, k + 1)) = SubSeq(b, p.start_line + 1, k - 1)

\* get_line finds the zero that took the place of the break.
LEMMA GetLine ==
    ASSUME NEW p, NEW b \in Text, NEW k \in Nat, NEW s \in Nat, p.start_line = s, s < k,
           k <= Len(b), Len(p.read_buf) = Len(b), p.read_buf[k] = "NUL",
           \A j \in (s + 1)..(k - 1) : p.read_buf[j] = b[j]
    PROVE  get_line(p) = SubSeq(b, s + 1, k - 1)
<1>1. PICK n \in Nat : n = Len(b)  BY BreakIs
<1> DEFINE zeros == {i \in s..(n - 1) : p.read_buf[i + 1] = "NUL"}
<1>2. k - 1 \in zeros
  <2>1. k - 1 \in s..(n - 1) /\ (k - 1) + 1 = k  BY <1>1
  <2> QED  BY <2>1
<1>3. ASSUME NEW i \in zeros PROVE k - 1 <= i
  <2> SUFFICES ASSUME i < k - 1 PROVE FALSE  BY <1>2, <1>3
  <2>1. i + 1 \in (s + 1)..(k - 1) /\ i + 1 \in 1..n  BY <1>1
  <2>2. b[i + 1] \in Byte  BY <1>1, <2>1, ElementOfSeq DEF Text
  <2>3. p.read_buf[i + 1] = b[i + 1]  BY <2>1
  <2> QED  BY <2>2, <2>3 DEF Byte
<1>4. get_line(p) = SubSeq(p.read_buf, s + 1, IF zeros = {} THEN n ELSE Smallest(zeros))
  BY <1>1 DEF get_line, read_idx, At
<1>5. zeros \in SUBSET Nat  OBVIOUS
<1> HIDE DEF zeros
<1>6. Smallest(zeros) = k - 1 /\ zeros # {}  BY <1>2, <1>3, <1>5, SmallestIs
<1>7. SubSeq(p.read_buf, s + 1, k - 1) = SubSeq(b, s + 1, k - 1)  BY SameText
<1> QED  BY <1>4, <1>6, <1>7

LEMMA ParseLineRight ==
    ASSUME NEW p, NEW b, Place(p, b)
    PROVE  LineOpen(p, b) \/ LineBad(p, b) \/ LineThere(p, b)
<1>1. PICK n \in Nat, s \in Nat, c \in Nat, old \in Seq(Cell) :
         /\ n = Len(b) /\ n = Len(p.read_buf) /\ s = p.start_line /\ c = p.checked_idx
         /\ s <= c /\ c <= n /\ old = p.read_buf /\ p \in Parsers /\ b \in Text
  BY BreakIs DEF Place, Shape, Parsers
<1>2. /\ \A j \in 1..n : j > s => old[j] = b[j]
      /\ (s # 0 => old[s] = "NUL") /\ (s # 0 => s - 1 \in Breaks(b))
      /\ \A m \in Misplaced(b) : m > s
      /\ \A j \in (s + 1)..c : b[j] # "CR" /\ b[j] # "LF"
  BY <1>1 DEF Place, LineEnd, Clean
<1>3. s # 0 => b[s] = "LF" /\ s \in 1..n
  <2>1. s # 0 => b[(s - 1) + 1] = "LF" /\ (s - 1) + 1 \in 1..n
    BY <1>1, <1>2, BreakIs
  <2>2. (s - 1) + 1 = s  BY <1>1
  <2> QED  BY <2>1, <2>2
<1>4. ASSUME NEW j \in Breaks(b) PROVE (j < s \/ (j > s /\ b[j] = "CR")) /\ j \in 1..(n - 1)
  <2>1. j \in 1..(n - 1) /\ b[j] = "CR"  BY <1>1, BreakIs
  <2>2. j # s  BY <2>1, <1>3
  <2> QED  BY <2>1, <2>2
<1>5. \A q, x : Line(p, q, x) = [p |-> Moved(p, old, x), status |-> q]
  BY <1>1 DEF Line, Moved, Parsers
<1>6. Ends(p) = {i \in c..(n - 1) : b[i + 1] \in {"CR", "LF"}}
  <2>1. \A i \in c..(n - 1) : i + 1 \in 1..n /\ i + 1 > s  BY <1>1
  <2> QED  BY <2>1, <1>1, <1>2 DEF Ends, At, read_idx
<1>7. CASE Ends(p) = {}
  <2>1. \A j \in (s + 1)..n : b[j] # "CR" /\ b[j] # "LF"
    <3> SUFFICES ASSUME NEW j \in (s + 1)..n PROVE b[j] # "CR" /\ b[j] # "LF"  OBVIOUS
    <3>1. CASE j <= c
      <4>1. j \in (s + 1)..c  BY <3>1, <1>1
      <4> QED  BY <4>1, <1>2
    <3>2. CASE ~(j <= c)
      <4>1. j - 1 \in c..(n - 1) /\ (j - 1) + 1 = j  BY <3>2, <1>1
      <4> QED  BY <4>1, <1>6, <1>7
    <3> QED  BY <3>1, <3>2
  <2>2. Misplaced(b) = {}
    <3> SUFFICES ASSUME NEW m \in Misplaced(b) PROVE FALSE  OBVIOUS
    <3>1. m \in 1..n /\ (b[m] = "CR" \/ b[m] = "LF")  BY <1>1, MisplacedIs
    <3>2. m \in (s + 1)..n  BY <3>1, <1>1, <1>2
    <3> QED  BY <3>1, <3>2, <2>1
  <2>3. \A j \in Breaks(b) : j < s
    <3> SUFFICES ASSUME NEW j \in Breaks(b), ~(j < s) PROVE FALSE  BY <1>1, BreakIs
    <3>1. j \in (s + 1)..n /\ b[j] = "CR"  BY <1>4, <1>1
    <3> QED  BY <3>1, <2>1
  <2>4. parse_line(p) = [p |-> Moved(p, old, n), status |-> "OPEN"]
    BY <1>1, <1>5, <1>7 DEF parse_line, read_idx
  <2>5. LineOpen(p, b)  BY <2>1, <2>2, <2>3, <2>4, <1>1 DEF LineOpen, Clean
  <2> QED  BY <2>5
<1>8. CASE Ends(p) # {}
  <2>1. Ends(p) \in SUBSET Nat  BY <1>1, <1>6
  <2>2. PICK i \in Ends(p) : i = Smallest(Ends(p)) /\ \A y \in Ends(p) : i <= y
    BY <2>1, <1>8, SmallestIs
  <2>3. /\ i \in Nat /\ c <= i /\ i + 1 <= n /\ i + 1 > s /\ i + 1 \in 1..n
        /\ b[i + 1] \in {"CR", "LF"} /\ old[i + 1] = b[i + 1]
    <3>1. i \in c..(n - 1) /\ b[i + 1] \in {"CR", "LF"}  BY <1>6
    <3>2. i \in Nat /\ c <= i /\ i + 1 <= n /\ i + 1 > s /\ i + 1 \in 1..n  BY <3>1, <1>1
    <3> QED  BY <3>1, <3>2, <1>2
  <2>4. \A j \in (s + 1)..i : b[j] # "CR" /\ b[j] # "LF"
    <3> SUFFICES ASSUME NEW j \in (s + 1)..i PROVE b[j] # "CR" /\ b[j] # "LF"  OBVIOUS
    <3>1. CASE j <= c
      <4>1. j \in (s + 1)..c  BY <3>1, <1>1
      <4> QED  BY <4>1, <1>2
    <3>2. CASE ~(j <= c)
      <4>1. j - 1 \in c..(n - 1) /\ (j - 1) + 1 = j /\ ~(i <= j - 1)  BY <3>2, <2>3, <1>1
      <4> QED  BY <4>1, <1>6, <2>2
    <3> QED  BY <3>1, <3>2
  <2>5. ASSUME NEW j \in Breaks(b) PROVE j < s \/ j >= i + 1
    <3> SUFFICES ASSUME ~(j < s), ~(j >= i + 1) PROVE FALSE  OBVIOUS
    <3>1. j > s /\ b[j] = "CR" /\ j \in Nat  BY <1>4
    <3>2. j \in (s + 1)..i  BY <3>1, <2>3, <1>1
    <3> QED  BY <3>1, <3>2, <2>4
  <2>6. ASSUME NEW m \in Misplaced(b) PROVE m >= i + 1
    <3> SUFFICES ASSUME ~(m >= i + 1) PROVE FALSE  OBVIOUS
    <3>1. m \in 1..n /\ (b[m] = "CR" \/ b[m] = "LF")  BY <1>1, MisplacedIs
    <3>2. m \in (s + 1)..i  BY <3>1, <2>3, <1>1, <1>2
    <3> QED  BY <3>1, <3>2, <2>4
  <2>7. parse_line(p) = IF b[i + 1] = "CR" THEN CarriageReturn(p, i) ELSE LineFeed(p, i)
    BY <2>2, <2>3, <1>1, <1>8 DEF parse_line, At
  <2>8. CASE b[i + 1] = "CR" /\ i + 1 = n
    <3>1. parse_line(p) = [p |-> Moved(p, old, i), status |-> "OPEN"]
      BY <2>7, <2>8, <1>1, <1>5 DEF CarriageReturn, read_idx
    <3>2. Misplaced(b) = {}
      <4> SUFFICES ASSUME NEW m \in Misplaced(b) PROVE FALSE  OBVIOUS
      <4>1. m \in 1..n /\ ((b[m] = "CR" /\ m < n) \/ b[m] = "LF")  BY <1>1, MisplacedIs
      <4>2. m = i + 1  BY <4>1, <2>6, <2>8, <2>3
      <4> QED  BY <4>1, <4>2, <2>8
    <3>3. \A j \in Breaks(b) : j < s
      <4> SUFFICES ASSUME NEW j \in Breaks(b), ~(j < s) PROVE FALSE  BY <1>1, BreakIs
      <4>1. j >= i + 1 /\ j \in 1..(n - 1)  BY <2>5, <1>4
      <4> QED  BY <4>1, <2>8, <2>3, <1>1
    <3>4. i <= Len(b)  BY <2>3, <1>1
    <3>5. LineOpen(p, b)  BY <3>1, <3>2, <3>3, <3>4, <2>3, <2>4, <1>1 DEF LineOpen, Clean
    <3> QED  BY <3>5
  <2>9. CASE b[i + 1] = "CR" /\ i + 1 # n /\ b[i + 2] = "LF"
    <3>1. i + 2 <= n /\ (i + 1) + 1 = i + 2 /\ i + 1 \in 1..(n - 1) /\ i + 2 \in 1..n /\ i + 2 > s
      BY <2>3, <2>9, <1>1
    <3> DEFINE new == [old EXCEPT ![i + 1] = "NUL", ![i + 2] = "NUL"]
    <3>2. parse_line(p) = [p |-> Moved(p, new, i + 2), status |-> "OK"]
      <4>1. At(p, i + 1) = "LF"  BY <3>1, <2>9, <1>1, <1>2 DEF At
      <4>2. parse_line(p) = LineOk(p, i)
        BY <4>1, <2>7, <2>9, <1>1 DEF CarriageReturn, read_idx
      <4> QED  BY <4>2, <1>1 DEF LineOk, Line, Moved, Parsers
    <3>3. /\ new \in Seq(Cell) /\ Len(new) = n /\ new[i + 1] = "NUL" /\ new[i + 2] = "NUL"
          /\ \A j \in 1..n : j # i + 1 /\ j # i + 2 => new[j] = old[j]
      <4>1. new = [old EXCEPT ![i + 1] = "NUL", ![i + 2] = "NUL"] /\ i + 2 <= Len(old)
        BY <3>1, <1>1
      <4> HIDE DEF new
      <4>2. /\ new \in Seq(Cell) /\ Len(new) = Len(old) /\ new[i + 1] = "NUL" /\ new[i + 2] = "NUL"
            /\ \A j \in 1..Len(old) : j # i + 1 /\ j # i + 2 => new[j] = old[j]
        BY <4>1, <2>3, ZerosWritten
      <4> QED  BY <4>2, <1>1
    <3> HIDE DEF new
    <3>4. NextLine(b, s, i + 1)
      <4>1. i + 1 \in Breaks(b)  BY <3>1, <2>9, <1>1, BreakIs
      <4>2. ASSUME NEW m \in Misplaced(b) PROVE m > (i + 1) + 1
        <5>1. /\ m \in 1..n /\ m >= i + 1
              /\ \/ b[m] = "CR" /\ m < n /\ b[m + 1] # "LF"
                 \/ b[m] = "LF" /\ (m = 1 \/ b[m - 1] # "CR")
          BY <2>6, <1>1, MisplacedIs
        <5>2. m # i + 1  BY <5>1, <3>1, <2>9
        <5>3. m # i + 2
          <6> SUFFICES ASSUME m = i + 2 PROVE FALSE  OBVIOUS
          <6>1. m - 1 = i + 1 /\ m # 1  BY <2>3
          <6> QED  BY <6>1, <5>1, <2>9
        <5> QED  BY <5>1, <5>2, <5>3, <2>3
      <4>3. LineEnd(b, s)  BY <1>1 DEF Place
      <4> QED  BY <4>1, <4>2, <4>3, <2>3, <2>5 DEF NextLine
    <3>5. get_line(Moved(p, new, i + 2)) = SubSeq(b, s + 1, (i + 1) - 1)
      <4> DEFINE q == Moved(p, new, i + 2)
      <4>1. q.start_line = s /\ q.read_buf = new  BY <1>1 DEF Moved, Parsers
      <4>2. \A j \in (s + 1)..((i + 1) - 1) : new[j] = b[j]
        <5>1. \A j \in (s + 1)..((i + 1) - 1) :
                 j \in 1..n /\ j > s /\ j # i + 1 /\ j # i + 2
          BY <2>3, <1>1
        <5> QED  BY <5>1, <3>3, <1>2
      <4>3. s < i + 1 /\ i + 1 <= n /\ i + 1 \in Nat  BY <2>3
      <4> HIDE DEF q
      <4>4. get_line(q) = SubSeq(b, s + 1, (i + 1) - 1)
        <5>1. /\ Len(q.read_buf) = Len(b) /\ q.read_buf[i + 1] = "NUL" /\ i + 1 <= Len(b)
              /\ \A j \in (s + 1)..((i + 1) - 1) : q.read_buf[j] = b[j]
          BY <4>1, <4>2, <4>3, <3>3, <1>1
        <5> QED  BY <5>1, <4>1, <4>3, <1>1, GetLine
      <4> QED  BY <4>4 DEF q
    <3>6. \A j \in 1..n : j > i + 2 => new[j] = b[j]
      <4>1. \A j \in 1..n : j > i + 2 => j > s /\ j # i + 1 /\ j # i + 2  BY <2>3, <1>1
      <4> QED  BY <4>1, <3>3, <1>2
    <3>7. i + 1 \in Nat  BY <2>3
    <3>8. LineThere(p, b)
      BY <3>1, <3>2, <3>3, <3>4, <3>5, <3>6, <3>7, <1>1 DEF LineThere
    <3> QED  BY <3>8
  <2>10. CASE b[i + 1] = "CR" /\ i + 1 # n /\ b[i + 2] # "LF"
    <3>1. i + 2 <= n /\ (i + 1) + 1 = i + 2 /\ i + 2 \in 1..n /\ i + 1 < n /\ i + 2 > s
      BY <2>3, <2>10, <1>1
    <3>2. parse_line(p) = [p |-> Moved(p, old, i), status |-> "BAD"]
      <4>1. At(p, i + 1) # "LF"  BY <3>1, <2>10, <1>1, <1>2 DEF At
      <4> QED  BY <4>1, <2>7, <2>10, <1>1, <1>5 DEF CarriageReturn, read_idx
    <3>3. i + 1 \in Misplaced(b)  BY <3>1, <2>3, <2>10, <1>1, MisplacedIs
    <3>4. ASSUME NEW j \in Breaks(b) PROVE j < s \/ j > i + 1
      <4>1. j # i + 1  BY <3>1, <2>10, <1>1, BreakIs
      <4>2. j \in Nat  BY <1>1, BreakIs
      <4> QED  BY <4>1, <4>2, <2>5, <2>3
    <3>5. i <= Len(b)  BY <2>3, <1>1
    <3>6. LineBad(p, b)  BY <3>2, <3>3, <3>4, <3>5, <2>3, <2>4, <1>1 DEF LineBad, Clean
    <3> QED  BY <3>6
  <2>11. CASE b[i + 1] = "LF"
    <3>1. i = 0 \/ (old[i] # "CR" /\ b[i] # "CR")
      <4>1. CASE i > s
        <5>1. i \in (s + 1)..i /\ i \in 1..n  BY <4>1, <2>3, <1>1
        <5> QED  BY <5>1, <4>1, <2>4, <1>2
      <4>2. CASE i = s  BY <4>2, <1>2, <1>3
      <4> QED  BY <4>1, <4>2, <2>3, <1>1
    <3>2. LineFeed(p, i) = Line(p, "BAD", i)
      <4>1. i > 1 => (i - 1) + 1 = i /\ i # 0  BY <2>3
      <4>2. i > 1 => At(p, i - 1) # "CR"  BY <4>1, <3>1, <1>1 DEF At
      <4> QED  BY <4>2 DEF LineFeed
    <3>3. parse_line(p) = [p |-> Moved(p, old, i), status |-> "BAD"]
      BY <3>2, <2>7, <2>11, <1>5
    <3>4. i + 1 \in Misplaced(b)
      <4>1. i + 1 = 1 \/ b[(i + 1) - 1] # "CR"
        <5>1. (i + 1) - 1 = i /\ (i = 0 => i + 1 = 1)  BY <2>3
        <5> QED  BY <5>1, <3>1
      <4> QED  BY <4>1, <2>3, <2>11, <1>1, MisplacedIs
    <3>5. ASSUME NEW j \in Breaks(b) PROVE j < s \/ j > i + 1
      <4>1. b[j] = "CR" /\ j \in Nat  BY <1>1, BreakIs
      <4>2. j # i + 1  BY <4>1, <2>11
      <4> QED  BY <4>1, <4>2, <2>5, <2>3
    <3>6. i <= Len(b)  BY <2>3, <1>1
    <3>7. LineBad(p, b)  BY <3>3, <3>4, <3>5, <3>6, <2>3, <2>4, <1>1 DEF LineBad, Clean
    <3> QED  BY <3>7
  <2> QED  BY <2>3, <2>8, <2>9, <2>10, <2>11
<1> QED  BY <1>7, <1>8

\* What a round comes to, by the state of the parser.
LEMMA RoundIs ==
    ASSUME NEW p, NEW status, NEW q \in Parsers, NEW found, chapter \in {8, 15},
           Found(p, status) = [p |-> q, status |-> found]
    PROVE  /\ found # "OK" => Round(p, status) = Answer(q, NoLine(found))
           /\ found = "OK" =>
                /\ q.state = "REQUESTLINE" /\ Accepted(get_line(q)) =>
                      Round(p, status) = Goes([Started(q) EXCEPT !.state = "HEADER"], "OK")
                /\ q.state = "REQUESTLINE" /\ ~Accepted(get_line(q)) =>
                      Round(p, status) = Answer(Started(q), "BAD_REQUEST")
                /\ q.state = "HEADER" /\ get_line(q) # <<>> =>
                      Round(p, status) = Goes(parse_headers(Started(q), get_line(q)), "OK")
                /\ q.state = "HEADER" /\ get_line(q) = <<>> /\ q.content_length = 0 =>
                      Round(p, status) = Answer(Started(q), "GET_REQUEST")
                /\ q.state = "HEADER" /\ get_line(q) = <<>> /\ q.content_length # 0 =>
                      Round(p, status) = Goes([Started(q) EXCEPT !.state = "CONTENT"], "OK")
                /\ q.state = "CONTENT" /\ parse_content(Started(q)) =>
                      Round(p, status) =
                         Answer([Started(q) EXCEPT !.last = p.start_line + q.content_length],
                                "GET_REQUEST")
                /\ q.state = "CONTENT" /\ ~parse_content(Started(q)) =>
                      Round(p, status) = Goes(Started(q), "OPEN")
<1> DEFINE text == get_line(q)
<1>1. \/ text = <<"tabs">> /\ (parse_requestline(text) \/ parse_request_line(text)) /\ Accepted(text)
      \/ text # <<"tabs">> /\ ((parse_requestline(text) \/ parse_request_line(text)) <=> Accepted(text))
  BY DEF parse_requestline, parse_request_line, Accepted
<1>2. (parse_requestline(text) \/ parse_request_line(text)) <=> Accepted(text)
  BY <1>1
<1>3. /\ Started(q).state = q.state /\ Started(q).content_length = q.content_length
  BY DEF Started, Parsers
<1>4. /\ found # "OK" => Round(p, status) = Answer(q, NoLine(found))
      /\ found = "OK" => Round(p, status) = Handle(p, Started(q), text)
  BY DEF Round
<1> HIDE DEF text
<1>5. CASE found # "OK"  BY <1>4, <1>5
<1>6. CASE found = "OK"
  <2>1. q.state = "REQUESTLINE" =>
           Round(p, status) = IF Accepted(text) THEN Goes([Started(q) EXCEPT !.state = "HEADER"], "OK")
                              ELSE Answer(Started(q), "BAD_REQUEST")
    BY <1>2, <1>3, <1>4, <1>6 DEF Handle
  <2>2. q.state = "HEADER" =>
           Round(p, status) = IF text # <<>> THEN Goes(parse_headers(Started(q), text), "OK")
                              ELSE IF q.content_length = 0 THEN Answer(Started(q), "GET_REQUEST")
                              ELSE Goes([Started(q) EXCEPT !.state = "CONTENT"], "OK")
    BY <1>3, <1>4, <1>6 DEF Handle
  <2>3. q.state = "CONTENT" =>
           Round(p, status) =
              IF parse_content(Started(q))
              THEN Answer([Started(q) EXCEPT !.last = p.start_line + q.content_length], "GET_REQUEST")
              ELSE Goes(Started(q), "OPEN")
    BY <1>3, <1>4, <1>6 DEF Handle
  <2> QED  BY <1>6, <2>1, <2>2, <2>3 DEF text
<1> QED  BY <1>5, <1>6

\* What grows with every round of process_read.
Measure(p, status) == p.checked_idx + IF status = "OPEN" THEN 1 ELSE 0

\* A round keeps the parser in shape, and a round without an answer goes over a
\* byte or is the one in which the body is found to be incomplete.
Kept(p, status, q, next, answer) ==
    /\ Round(p, status) = [p |-> q, line_status |-> next, answer |-> answer]
    /\ next \in {"OK", "OPEN"} /\ answer \in {"NONE", "NO_REQUEST", "GET_REQUEST", "BAD_REQUEST"}
    /\ Shape(q) /\ Len(q.read_buf) = Len(p.read_buf)
    /\ q.last = p.last \/ (chapter = 15 /\ q.last <= Len(p.read_buf))
    /\ next = "OPEN" => q.state = "CONTENT"
    /\ answer = "NONE" => Measure(q, next) > Measure(p, status)

LEMMA RoundKeeps ==
    ASSUME NEW p, Shape(p), chapter \in {8, 15}, NEW status \in {"OK", "OPEN"},
           status = "OPEN" => p.state = "CONTENT"
    PROVE  \E q, next, answer : Kept(p, status, q, next, answer)
<1>1. PICK n \in Nat, s \in Nat, c \in Nat :
         /\ p \in Parsers /\ n = Len(p.read_buf) /\ s = p.start_line /\ c = p.checked_idx
         /\ s <= c /\ c <= n
  BY LenProperties DEF Shape, Parsers
<1>2. PICK buf \in Seq(Cell), d \in Nat, found \in {"OK", "OPEN", "BAD"} :
         /\ Found(p, status) = [p |-> Moved(p, buf, d), status |-> found]
         /\ Len(buf) = n /\ c <= d /\ d <= n
         /\ found = "OK" => c < d \/ (d = c /\ status = "OK" /\ p.state = "CONTENT")
  <2>1. CASE p.state = "CONTENT" /\ status = "OK"
    <3>1. Line(p, "OK", p.checked_idx) = [p |-> Moved(p, p.read_buf, c), status |-> "OK"]
      BY <1>1 DEF Line, Moved, Parsers
    <3>2. p.read_buf \in Seq(Cell)  BY <1>1 DEF Parsers
    <3>3. Found(p, status) = [p |-> Moved(p, p.read_buf, c), status |-> "OK"]  BY <2>1, <3>1 DEF Found
    <3> QED  BY <2>1, <3>2, <3>3, <1>1
  <2>2. CASE ~(p.state = "CONTENT" /\ status = "OK")
    <3>1. \E buf \in Seq(Cell), d \in Nat, found \in {"OK", "OPEN", "BAD"} :
              /\ parse_line(p) = [p |-> Moved(p, buf, d), status |-> found]
              /\ Len(buf) = Len(p.read_buf) /\ p.checked_idx <= d /\ d <= Len(buf)
              /\ found = "OK" => p.checked_idx < d
      BY ParseLineKeeps
    <3>2. Found(p, status) = parse_line(p)  BY <2>2 DEF Found
    <3> QED  BY <3>1, <3>2, <1>1
  <2> QED  BY <2>1, <2>2
<1> DEFINE q == Moved(p, buf, d)
<1>3. /\ q \in Parsers /\ q.read_buf = buf /\ q.checked_idx = d /\ q.start_line = s
      /\ q.state = p.state /\ q.content_length = p.content_length /\ q.last = p.last
      /\ q.linger = p.linger
  BY <1>1 DEF Moved, Parsers
<1>4. Found(p, status) = [p |-> q, status |-> found]
  BY <1>2
<1> HIDE DEF q
<1> DEFINE t == Started(q)
<1>5. /\ t \in Parsers /\ t.read_buf = buf /\ t.checked_idx = d /\ t.start_line = d
      /\ t.state = p.state /\ t.content_length = p.content_length /\ t.last = p.last
      /\ t.linger = p.linger
  BY <1>3 DEF Started, Parsers
<1>6. p.content_length # 0 => chapter = 15  BY DEF Shape
<1>7. p.state = "CONTENT" => p.content_length # 0  BY DEF Shape
<1>8. Shape(q) /\ Shape(t)  BY <1>1, <1>2, <1>3, <1>5, <1>6, <1>7 DEF Shape
<1>9. ContentLength \in Nat /\ ContentLength # 0  BY ParserAssumption
<1>10. CASE found # "OK"
  <2>1. Round(p, status) = [p |-> q, line_status |-> "OK", answer |-> NoLine(found)]
    <3>1. Round(p, status) = Answer(q, NoLine(found))  BY <1>4, <1>10 DEF Round
    <3> QED  BY <3>1 DEF Answer
  <2>2. NoLine(found) \in {"BAD_REQUEST", "NO_REQUEST"}  BY DEF NoLine
  <2>3. Kept(p, status, q, "OK", NoLine(found))
    BY <2>1, <2>2, <1>1, <1>2, <1>3, <1>8 DEF Kept
  <2> QED  BY <2>3
<1>11. CASE found = "OK" /\ p.state = "REQUESTLINE"
  <2> DEFINE h == [t EXCEPT !.state = "HEADER"]
  <2>1. /\ h \in Parsers /\ h.read_buf = buf /\ h.checked_idx = d /\ h.start_line = d
        /\ h.state = "HEADER" /\ h.content_length = p.content_length /\ h.last = p.last
    BY <1>5 DEF Parsers
  <2>2. \/ Round(p, status) = [p |-> h, line_status |-> "OK", answer |-> "NONE"]
        \/ Round(p, status) = [p |-> t, line_status |-> "OK", answer |-> "BAD_REQUEST"]
    BY <1>3, <1>4, <1>11, RoundIs DEF Answer, Goes
  <2> HIDE DEF h, t
  <2>3. Shape(h)  BY <2>1, <1>2, <1>6 DEF Shape
  <2>4. status = "OK" /\ c < d  BY <1>2, <1>11
  <2>5. Measure(h, "OK") > Measure(p, status)  BY <2>1, <2>4, <1>1 DEF Measure
  <2>6. \/ Kept(p, status, h, "OK", "NONE")
        \/ Kept(p, status, t, "OK", "BAD_REQUEST")
    BY <2>1, <2>2, <2>3, <2>5, <1>1, <1>2, <1>5, <1>8 DEF Kept
  <2> QED  BY <2>6
<1>12. CASE found = "OK" /\ p.state = "HEADER"
  <2> DEFINE h == parse_headers(t, get_line(q))
  <2> DEFINE o == [t EXCEPT !.state = "CONTENT"]
  <2>1. /\ h \in Parsers /\ h.read_buf = buf /\ h.checked_idx = d /\ h.start_line = d
        /\ h.state = "HEADER" /\ h.last = p.last /\ (h.content_length # 0 => chapter = 15)
    <3>1. CASE chapter = 8  BY <3>1, <1>5, <1>6, <1>12 DEF parse_headers
    <3>2. CASE chapter # 8
      <4> DEFINE l == t.linger \/ get_line(q) = <<"linger">>
                 k == IF Head(get_line(q)) = "length" THEN ContentLength ELSE t.content_length
      <4>1. h = [t EXCEPT !.linger = l, !.content_length = k]
        BY <3>2 DEF parse_headers
      <4>2. l \in BOOLEAN  OBVIOUS
      <4>3. k \in {0, ContentLength}  BY <1>5 DEF Parsers
      <4> HIDE DEF l, k
      <4>4. h \in Parsers /\ h.read_buf = t.read_buf /\ h.checked_idx = t.checked_idx
             /\ h.start_line = t.start_line /\ h.state = t.state /\ h.last = t.last
        BY <4>1, <4>2, <4>3, <1>5 DEF Parsers
      <4> QED  BY <4>4, <3>2, <1>5, <1>12
    <3> QED  BY <3>1, <3>2
  <2>2. /\ o \in Parsers /\ o.read_buf = buf /\ o.checked_idx = d /\ o.start_line = d
        /\ o.state = "CONTENT" /\ o.content_length = p.content_length /\ o.last = p.last
    BY <1>5 DEF Parsers
  <2>3. \/ Round(p, status) = [p |-> h, line_status |-> "OK", answer |-> "NONE"]
        \/ Round(p, status) = [p |-> t, line_status |-> "OK", answer |-> "GET_REQUEST"]
        \/ /\ Round(p, status) = [p |-> o, line_status |-> "OK", answer |-> "NONE"]
           /\ p.content_length # 0
    BY <1>3, <1>4, <1>12, RoundIs DEF Answer, Goes
  <2> HIDE DEF h, o, t
  <2>4. Shape(h)  BY <2>1, <1>2 DEF Shape
  <2>5. p.content_length # 0 => Shape(o)  BY <2>2, <1>2, <1>6 DEF Shape
  <2>6. status = "OK" /\ c < d  BY <1>2, <1>12
  <2>7. Measure(h, "OK") > Measure(p, status) /\ Measure(o, "OK") > Measure(p, status)
    BY <2>1, <2>2, <2>6, <1>1 DEF Measure
  <2>8. \/ Kept(p, status, h, "OK", "NONE")
        \/ Kept(p, status, t, "OK", "GET_REQUEST")
        \/ Kept(p, status, o, "OK", "NONE")
    BY <2>1, <2>2, <2>3, <2>4, <2>5, <2>7, <1>1, <1>2, <1>5, <1>8 DEF Kept
  <2> QED  BY <2>8
<1>13. CASE found = "OK" /\ p.state = "CONTENT"
  <2> DEFINE e == [t EXCEPT !.last = s + q.content_length]
  <2>1. p.content_length \in Nat  BY <1>1, <1>9 DEF Parsers
  <2>2. /\ e \in Parsers /\ e.read_buf = buf /\ e.checked_idx = d /\ e.start_line = d
        /\ e.state = "CONTENT" /\ e.content_length = p.content_length
        /\ e.last = s + p.content_length
    <3>1. s + q.content_length \in Nat /\ q.content_length = p.content_length  BY <2>1, <1>1, <1>3
    <3> QED  BY <3>1, <1>5, <1>13 DEF Parsers
  <2>3. parse_content(t) <=> n >= p.content_length + d  BY <1>2, <1>5 DEF parse_content, read_idx
  <2>4. \/ /\ Round(p, status) = [p |-> e, line_status |-> "OK", answer |-> "GET_REQUEST"]
           /\ parse_content(t)
        \/ Round(p, status) = [p |-> t, line_status |-> "OPEN", answer |-> "NONE"]
    BY <1>1, <1>3, <1>4, <1>13, RoundIs DEF Answer, Goes
  <2> HIDE DEF e, t
  <2>5. Shape(e)  BY <2>2, <1>2, <1>6, <1>7, <1>13 DEF Shape
  <2>6. parse_content(t) => e.last <= n  BY <2>1, <2>2, <2>3, <1>1, <1>2
  <2>7. Measure(t, "OPEN") > Measure(p, status)
    <3>1. Measure(t, "OPEN") = d + 1  BY <1>5 DEF Measure
    <3>2. status = "OK" => Measure(p, status) = c  BY <1>1 DEF Measure
    <3>3. status = "OPEN" => Measure(p, status) = c + 1  BY <1>1 DEF Measure
    <3>4. status = "OPEN" => c < d  BY <1>2, <1>13
    <3> QED  BY <3>1, <3>2, <3>3, <3>4, <1>1, <1>2
  <2>8. \/ Kept(p, status, e, "OK", "GET_REQUEST")
        \/ Kept(p, status, t, "OPEN", "NONE")
    BY <2>2, <2>4, <2>5, <2>6, <2>7, <1>1, <1>2, <1>5, <1>6, <1>7, <1>8, <1>13 DEF Kept
  <2> QED  BY <2>8
<1>14. p.state \in {"REQUESTLINE", "HEADER", "CONTENT"}  BY <1>1 DEF Parsers
<1> QED  BY <1>10, <1>11, <1>12, <1>13, <1>14

\* One step of the recursion in process_read.
Turn(r) == IF r.answer = "NONE" THEN Round(r.p, r.line_status) ELSE r

\* The rounds of process_read, one after the other.
LEMMA Rounds ==
    ASSUME NEW p, NEW rounds \in Nat, rounds = read_idx(p) + 2
    PROVE  \E f : /\ process_read(p) = f[rounds] /\ f[0] = Goes(p, "OK")
                  /\ \A n \in 1..rounds : f[n] = Turn(f[n - 1])
<1> DEFINE Is(f, m) == f = [n \in 0..m |-> IF n = 0 THEN Goes(p, "OK") ELSE Turn(f[n - 1])]
           S == {m \in Nat : \E f : Is(f, m)}
<1>1. 0 \in S
  <2> DEFINE g == [n \in 0..0 |-> Goes(p, "OK")]
  <2>1. Is(g, 0)  OBVIOUS
  <2> QED  BY <2>1
<1>2. ASSUME NEW m \in S PROVE m + 1 \in S
  <2>1. m \in Nat /\ m + 1 \in Nat  OBVIOUS
  <2>2. PICK f : Is(f, m)  OBVIOUS
  <2> DEFINE g == [n \in 0..(m + 1) |-> IF n <= m THEN f[n] ELSE Turn(f[m])]
  <2>3. \A n \in 0..m : f[n] = IF n = 0 THEN Goes(p, "OK") ELSE Turn(f[n - 1])
    BY <2>2
  <2>4. \A n \in 0..m : g[n] = f[n]  BY <2>1
  <2>5. g[m + 1] = Turn(f[m])  BY <2>1
  <2>6. \A n \in 0..(m + 1) : g[n] = IF n = 0 THEN Goes(p, "OK") ELSE Turn(g[n - 1])
    <3> SUFFICES ASSUME NEW n \in 0..(m + 1)
                 PROVE  g[n] = IF n = 0 THEN Goes(p, "OK") ELSE Turn(g[n - 1])
      OBVIOUS
    <3> HIDE DEF g
    <3>1. CASE n = m + 1
      <4>1. n # 0 /\ n - 1 = m /\ m \in 0..m  BY <2>1, <3>1
      <4> QED  BY <4>1, <3>1, <2>4, <2>5
    <3>2. CASE n # m + 1
      <4>1. n \in 0..m /\ (n # 0 => n - 1 \in 0..m)  BY <2>1, <3>2
      <4> QED  BY <4>1, <2>3, <2>4
    <3> QED  BY <3>1, <3>2
  <2>7. g = [n \in 0..(m + 1) |-> g[n]]  OBVIOUS
  <2> HIDE DEF g
  <2>8. Is(g, m + 1)  BY <2>6, <2>7
  <2> QED  BY <2>1, <2>8
<1>3. S \in SUBSET Nat  OBVIOUS
<1> HIDE DEF S
<1>4. S = Nat  BY <1>1, <1>2, <1>3, SetInduction
<1> DEFINE loop == CHOOSE f : Is(f, rounds)
<1>5. Is(loop, rounds)
  <2>1. \E f : Is(f, rounds)  BY <1>4 DEF S
  <2> HIDE DEF Is
  <2> QED  BY <2>1
<1>6. process_read(p) = loop[rounds]
  BY DEF process_read, Turn
<1> HIDE DEF loop
<1>7. \A n \in 0..rounds : loop[n] = IF n = 0 THEN Goes(p, "OK") ELSE Turn(loop[n - 1])
  BY <1>5
<1>8. loop[0] = Goes(p, "OK")  BY <1>7
<1>9. \A n \in 1..rounds : loop[n] = Turn(loop[n - 1])  BY <1>7
<1> QED  BY <1>6, <1>8, <1>9

\* The head asks for the connection to be kept.
Asked(b, end) == chapter = 15 /\ <<"linger">> \in Lines(b, end)

\* The head is being read: nothing up to the line p is at ends it.
Scan(p, b) ==
    /\ Place(p, b)
    /\ p.state = IF p.start_line = 0 THEN "REQUESTLINE" ELSE "HEADER"
    /\ p.start_line # 0 => Accepted(FirstLine(b))
    /\ \A e \in HeadEnds(b) : e > p.start_line
    /\ p.content_length = BodyLength(b, p.start_line)
    /\ p.linger <=> Asked(b, p.start_line)

\* The head has been read, and the parser stands at its end.
Ended(p, b, end) ==
    /\ end \in HeadEnds(b) /\ (\A e \in HeadEnds(b) : end <= e)
    /\ LineEnd(b, end) /\ Accepted(FirstLine(b))
    /\ p.content_length = BodyLength(b, end)
    /\ p.linger <=> Asked(b, end)
Body(p, b) ==
    /\ Shape(p) /\ b \in Text /\ Len(p.read_buf) = Len(b) /\ p.state = "CONTENT"
    /\ Ended(p, b, p.checked_idx) /\ p.start_line = p.checked_idx

\* A byte of the body is there, and more are wanted.
Cut(b) == \E end \in HeadEnds(b) : end < Len(b)
Stuck(p, b) ==
    /\ Shape(p) /\ Len(p.read_buf) = Len(b) /\ p.state = "CONTENT"
    /\ Len(b) < p.content_length + p.checked_idx
    /\ Computed(b) = "NO_REQUEST"
    /\ Cut(b) \/ (Body(p, b) /\ p.checked_idx = Len(b))

\* What is known between two rounds, and when there is an answer.
Going(p, status, b) ==
    \/ status = "OK" /\ (Scan(p, b) \/ Body(p, b))
    \/ status = "OPEN" /\ Stuck(p, b)
Told(p, answer, b) ==
    /\ answer = Computed(b)
    /\ answer = "GET_REQUEST" => (p.linger <=> Asked(b, Smallest(HeadEnds(b))))
    /\ answer = "NO_REQUEST" => Scan(p, b) \/ Body(p, b) \/ (p.state = "CONTENT" /\ Cut(b))

\* What the bytes are once a line has ended well.
LEMMA ComputedAt ==
    ASSUME NEW b \in Text, NEW s, LineEnd(b, s), s # 0
    PROVE  Computed(b) =
             IF ~Accepted(FirstLine(b)) THEN "BAD_REQUEST"
             ELSE IF HeadEnds(b) = {} THEN Wrong(b)
             ELSE IF Len(b) >= Smallest(HeadEnds(b)) + BodyLength(b, Smallest(HeadEnds(b)))
                  THEN "GET_REQUEST" ELSE "NO_REQUEST"
<1>1. s \in Nat /\ s - 1 \in Breaks(b) /\ \A m \in Misplaced(b) : m > s
  BY BreakIs DEF LineEnd
<1>2. PICK x \in Breaks(b) : x = Smallest(Breaks(b)) /\ \A y \in Breaks(b) : x <= y
  BY <1>1, BreakIs, SmallestIs
<1>3. ~(\E m \in Misplaced(b) : m < Smallest(Breaks(b)))
  <2>1. x <= s - 1 /\ x \in Nat  BY <1>1, <1>2, BreakIs
  <2>2. \A m \in Misplaced(b) : m \in Nat /\ ~(m < x)  BY <1>1, <2>1, BreakIs
  <2> QED  BY <1>2, <2>2
<1> QED  BY <1>1, <1>3 DEF Computed, FirstLine

LEMMA ComputedOpen ==
    ASSUME NEW p, NEW b, Scan(p, b), LineOpen(p, b)
    PROVE  Computed(b) = "NO_REQUEST"
<1>1. PICK s \in Nat : s = p.start_line /\ b \in Text /\ LineEnd(b, s)
  BY DEF Scan, Place, Shape, Parsers
<1>2. Misplaced(b) = {} /\ \A j \in Breaks(b) : j < s
  BY <1>1 DEF LineOpen
<1>3. Wrong(b) = "NO_REQUEST"  BY <1>2 DEF Wrong
<1>4. CASE s = 0
  <2>1. Breaks(b) = {}  BY <1>1, <1>2, <1>4, BreakIs
  <2> QED  BY <2>1, <1>3 DEF Computed
<1>5. CASE s # 0
  <2>1. HeadEnds(b) = {}
    <3> SUFFICES ASSUME NEW e \in HeadEnds(b) PROVE FALSE  OBVIOUS
    <3>1. e > s  BY <1>1 DEF Scan
    <3>2. e \in Nat /\ e - 1 \in Breaks(b)  BY <1>1, BreakIs
    <3> QED  BY <3>1, <3>2, <1>2, <1>1
  <2>2. Accepted(FirstLine(b))  BY <1>1, <1>5 DEF Scan
  <2> QED  BY <2>1, <2>2, <1>1, <1>3, <1>5, ComputedAt
<1> QED  BY <1>4, <1>5

LEMMA ComputedBad ==
    ASSUME NEW p, NEW b, Scan(p, b), LineBad(p, b)
    PROVE  Computed(b) = NoLine("BAD")
<1>1. PICK s \in Nat : s = p.start_line /\ b \in Text /\ LineEnd(b, s)
  BY DEF Scan, Place, Shape, Parsers
<1>2. PICK m \in Misplaced(b) : \A j \in Breaks(b) : j < s \/ j > m
  BY <1>1 DEF LineBad
<1>3. Wrong(b) = NoLine("BAD")  BY <1>2 DEF Wrong, NoLine
<1>4. m > s /\ m \in Nat  BY <1>1, BreakIs DEF LineEnd
<1>5. CASE s = 0
  <2>1. Breaks(b) = {} \/ m < Smallest(Breaks(b))
    <3> SUFFICES ASSUME Breaks(b) # {} PROVE m < Smallest(Breaks(b))  OBVIOUS
    <3>1. Smallest(Breaks(b)) \in Breaks(b)  BY <1>1, BreakIs, SmallestIs
    <3>2. PICK x \in Breaks(b) : x = Smallest(Breaks(b))  BY <3>1
    <3>3. x \in Nat  BY <1>1, BreakIs
    <3> QED  BY <3>2, <3>3, <1>2, <1>4, <1>5
  <2> QED  BY <2>1, <1>3 DEF Computed
<1>6. CASE s # 0
  <2>1. HeadEnds(b) = {}
    <3> SUFFICES ASSUME NEW e \in HeadEnds(b) PROVE FALSE  OBVIOUS
    <3>1. e > s  BY <1>1 DEF Scan
    <3>2. PICK j \in Breaks(b) : e = j + 1 /\ \A x \in Misplaced(b) : x > j
      BY DEF HeadEnds
    <3>3. j \in Nat  BY <1>1, BreakIs
    <3>4. m > j /\ ~(j < s)  BY <3>1, <3>2, <3>3
    <3>5. j > m  BY <3>4, <1>2
    <3> QED  BY <3>3, <3>4, <3>5, <1>4
  <2>2. Accepted(FirstLine(b))  BY <1>1, <1>6 DEF Scan
  <2> QED  BY <2>1, <2>2, <1>1, <1>3, <1>6, ComputedAt
<1> QED  BY <1>5, <1>6

\* The next line is one of the lines.
LEMMA LinesMore ==
    ASSUME NEW b \in Text, NEW s, NEW k, NextLine(b, s, k), NEW line
    PROVE  line \in Lines(b, k + 1) <=> line \in Lines(b, s) \/ line = SubSeq(b, s + 1, k - 1)
BY OneLineMore

\* What the next line adds to the length of the body.
LEMMA HeaderMore ==
    ASSUME NEW b \in Text, NEW s, NEW k, NextLine(b, s, k), NEW text,
           text = SubSeq(b, s + 1, k - 1)
    PROVE  BodyLength(b, k + 1) =
              IF chapter = 15 /\ text # <<>> /\ text[1] = "length" THEN ContentLength
              ELSE BodyLength(b, s)
<1>1. Lines(b, k + 1) = Lines(b, s) \cup {text}  BY OneLineMore
<1>2. (\E line \in Lines(b, k + 1) : line # <<>> /\ line[1] = "length")
         <=> (\E line \in Lines(b, s) : line # <<>> /\ line[1] = "length")
             \/ (text # <<>> /\ text[1] = "length")
  BY <1>1
<1> QED  BY <1>2 DEF BodyLength

\* What is known after one round.
After(p, status, b) ==
    \E q, next, answer :
        /\ Round(p, status) = [p |-> q, line_status |-> next, answer |-> answer]
        /\ answer = "NONE" => Going(q, next, b)
        /\ answer # "NONE" => Told(q, answer, b)

\* A place looked at without a line changes nothing of what is known.
LEMMA ScanStays ==
    ASSUME NEW p, NEW b, Scan(p, b), NEW c \in Nat, p.checked_idx <= c, c <= Len(b),
           Clean(b, p.start_line, c)
    PROVE  Scan(Moved(p, p.read_buf, c), b)
<1> DEFINE q == Moved(p, p.read_buf, c)
<1>1. PICK s \in Nat, d \in Nat : /\ s = p.start_line /\ d = p.checked_idx /\ s <= d
                                  /\ p \in Parsers /\ Len(p.read_buf) = Len(b)
  BY DEF Scan, Place, Shape, Parsers
<1>2. /\ q \in Parsers /\ q.read_buf = p.read_buf /\ q.checked_idx = c /\ q.start_line = s
      /\ q.state = p.state /\ q.content_length = p.content_length /\ q.linger = p.linger
  BY <1>1 DEF Moved, Parsers
<1> HIDE DEF q
<1>3. s <= c  BY <1>1
<1>4. Shape(q)
  <2>1. Shape(p)  BY DEF Scan, Place
  <2> QED  BY <2>1, <1>1, <1>2, <1>3 DEF Shape
<1>5. Place(q, b)
  <2>1. Place(p, b)  BY DEF Scan
  <2> QED  BY <2>1, <1>1, <1>2, <1>4 DEF Place
<1>6. Scan(q, b)  BY <1>1, <1>2, <1>5 DEF Scan
<1> QED  BY <1>6 DEF q

LEMMA ScanRound ==
    ASSUME NEW p, NEW b, Scan(p, b), chapter \in {8, 15}
    PROVE  After(p, "OK", b)
<1>1. PICK n \in Nat, s \in Nat, c \in Nat :
         /\ n = Len(b) /\ s = p.start_line /\ c = p.checked_idx /\ s <= c /\ c <= n
         /\ p \in Parsers /\ Len(p.read_buf) = n /\ b \in Text
  BY BreakIs DEF Scan, Place, Shape, Parsers
<1>2. /\ p.state = IF s = 0 THEN "REQUESTLINE" ELSE "HEADER"
      /\ s # 0 => Accepted(FirstLine(b))
      /\ \A e \in HeadEnds(b) : e > s
      /\ p.content_length = BodyLength(b, s)
      /\ p.linger <=> Asked(b, s)
  BY <1>1 DEF Scan
<1>3. Found(p, "OK") = parse_line(p)
  <2>1. p.state # "CONTENT"  BY <1>2
  <2> QED  BY <2>1 DEF Found
<1>4. Shape(p) /\ Place(p, b)  BY DEF Scan, Place
<1>5. CASE LineOpen(p, b)
  <2>1. PICK d \in Nat : /\ parse_line(p) = [p |-> Moved(p, p.read_buf, d), status |-> "OPEN"]
                         /\ p.checked_idx <= d /\ d <= Len(b) /\ Clean(b, p.start_line, d)
    BY <1>5 DEF LineOpen
  <2> DEFINE q == Moved(p, p.read_buf, d)
  <2>2. Scan(q, b)  BY <2>1, ScanStays
  <2>3. Found(p, "OK") = [p |-> q, status |-> "OPEN"]  BY <2>1, <1>3
  <2> HIDE DEF q
  <2>4. Round(p, "OK") = Answer(q, NoLine("OPEN"))  BY <2>3 DEF Round
  <2>5. Round(p, "OK") = [p |-> q, line_status |-> "OK", answer |-> "NO_REQUEST"]
    BY <2>4 DEF Answer, NoLine
  <2>6. Told(q, "NO_REQUEST", b)  BY <2>2, <1>5, ComputedOpen DEF Told
  <2> QED  BY <2>5, <2>6 DEF After
<1>6. CASE LineBad(p, b)
  <2>1. PICK d \in Nat : /\ parse_line(p) = [p |-> Moved(p, p.read_buf, d), status |-> "BAD"]
                         /\ p.checked_idx <= d /\ d <= Len(b) /\ Clean(b, p.start_line, d)
    BY <1>6 DEF LineBad
  <2> DEFINE q == Moved(p, p.read_buf, d)
  <2>2. Scan(q, b)  BY <2>1, ScanStays
  <2>3. Found(p, "OK") = [p |-> q, status |-> "BAD"]  BY <2>1, <1>3
  <2> HIDE DEF q
  <2>4. Round(p, "OK") = Answer(q, NoLine("BAD"))  BY <2>3 DEF Round
  <2>5. Round(p, "OK") = [p |-> q, line_status |-> "OK", answer |-> NoLine("BAD")]
    BY <2>4 DEF Answer
  <2>6. NoLine("BAD") \in {"BAD_REQUEST", "NO_REQUEST"}  BY DEF NoLine
  <2>7. Told(q, NoLine("BAD"), b)  BY <2>2, <2>6, <1>6, ComputedBad DEF Told
  <2> QED  BY <2>5, <2>6, <2>7 DEF After
<1>7. CASE LineThere(p, b)
  <2>1. PICK k \in Nat, buf \in Seq(Cell) :
           /\ parse_line(p) = [p |-> Moved(p, buf, k + 1), status |-> "OK"]
           /\ NextLine(b, s, k) /\ Len(buf) = n /\ buf[k + 1] = "NUL"
           /\ \A j \in 1..n : j > k + 1 => buf[j] = b[j]
           /\ get_line(Moved(p, buf, k + 1)) = SubSeq(b, s + 1, k - 1)
    BY <1>1, <1>7 DEF LineThere
  <2> DEFINE q == Moved(p, buf, k + 1)
             text == SubSeq(b, s + 1, k - 1)
  <2>2. text = SubSeq(b, s + 1, k - 1)  OBVIOUS
  <2>3. Found(p, "OK") = [p |-> q, status |-> "OK"] /\ get_line(q) = text  BY <2>1, <1>3
  <2>4. /\ q \in Parsers /\ q.read_buf = buf /\ q.checked_idx = k + 1 /\ q.start_line = s
        /\ q.state = p.state /\ q.content_length = p.content_length /\ q.linger = p.linger
    <3>1. k + 1 \in Nat  OBVIOUS
    <3> QED  BY <3>1, <1>1 DEF Moved, Parsers
  <2> HIDE DEF q, text
  <2> DEFINE t == Started(q)
  <2>5. /\ t \in Parsers /\ t.read_buf = buf /\ t.checked_idx = k + 1 /\ t.start_line = k + 1
        /\ t.state = p.state /\ t.content_length = p.content_length /\ t.linger = p.linger
        /\ Round(p, "OK") = Handle(p, t, text)
    <3>1. Round(p, "OK") = Handle(p, t, text)  BY <2>3 DEF Round
    <3> QED  BY <3>1, <2>4 DEF Started, Parsers
  <2> HIDE DEF t
  <2>6. /\ LineEnd(b, k + 1) /\ (k = s + 1 <=> text = <<>>)
        /\ k = s + 1 => k + 1 \in HeadEnds(b)
        /\ k # s + 1 => k + 1 \notin HeadEnds(b)
        /\ \A e \in HeadEnds(b) : e > s => e >= k + 1
        /\ s = 0 => Smallest(Breaks(b)) = k /\ Lines(b, s) = {}
    BY <2>1, <2>2, <1>1, OneLineMore
  <2>7. /\ BodyLength(b, k + 1) = IF chapter = 15 /\ text # <<>> /\ text[1] = "length"
                                  THEN ContentLength ELSE BodyLength(b, s)
        /\ Asked(b, k + 1) <=> Asked(b, s) \/ (chapter = 15 /\ text = <<"linger">>)
    <3>1. NextLine(b, s, k) /\ b \in Text  BY <2>1, <1>1
    <3>2. BodyLength(b, k + 1) = IF chapter = 15 /\ text # <<>> /\ text[1] = "length"
                                 THEN ContentLength ELSE BodyLength(b, s)
      BY <3>1, <2>2, HeaderMore
    <3>3. Asked(b, k + 1) <=> Asked(b, s) \/ (chapter = 15 /\ text = <<"linger">>)
      <4> DEFINE wish == <<"linger">>
      <4> HIDE DEF wish
      <4>1. wish \in Lines(b, k + 1) <=> wish \in Lines(b, s) \/ wish = text
        BY <3>1, <2>2, LinesMore
      <4> QED  BY <4>1 DEF Asked, wish
    <3> QED  BY <3>2, <3>3
  <2>8. k > s /\ k + 1 <= n /\ k + 1 # 0 /\ k + 1 \in Nat  BY <2>1, <1>1, BreakIs DEF NextLine
  <2>9. s = 0 => FirstLine(b) = text
    <3>1. s = 0 => s + 1 = 1  OBVIOUS
    <3> QED  BY <3>1, <2>2, <2>6 DEF FirstLine
  <2>10. Clean(b, k + 1, k + 1)  BY <2>8 DEF Clean
  <2>11. ASSUME NEW h \in Parsers, h.read_buf = buf, h.checked_idx = k + 1,
                h.start_line = k + 1, h.state = "HEADER", text # <<>>,
                Accepted(FirstLine(b)), h.content_length = BodyLength(b, k + 1),
                h.linger <=> Asked(b, k + 1)
         PROVE  Scan(h, b)
    <3>1. h.content_length # 0 => chapter = 15  BY <2>11 DEF BodyLength
    <3>2. Shape(h)  BY <3>1, <2>11, <2>1, <2>8 DEF Shape
    <3>3. Place(h, b)  BY <3>2, <2>11, <2>1, <2>6, <2>8, <2>10, <1>1 DEF Place
    <3>4. \A e \in HeadEnds(b) : e > k + 1
      <4> SUFFICES ASSUME NEW e \in HeadEnds(b) PROVE e > k + 1  OBVIOUS
      <4>1. e >= k + 1 /\ e # k + 1  BY <2>6, <2>11, <1>2
      <4>2. e \in Nat  BY <1>1, BreakIs
      <4> QED  BY <4>1, <4>2, <2>8
    <3> QED  BY <3>3, <3>4, <2>11, <2>8 DEF Scan
  <2>12. CASE s = 0
    <3>1. t.state = "REQUESTLINE"  BY <2>5, <2>12, <1>2
    <3>2. Round(p, "OK") = IF Accepted(text) THEN Goes([t EXCEPT !.state = "HEADER"], "OK")
                           ELSE Answer(t, "BAD_REQUEST")
      <4>1. parse_requestline(text) \/ parse_request_line(text) <=> Accepted(text)
        <5>1. CASE text = <<"tabs">>
          BY <5>1 DEF parse_requestline, parse_request_line, Accepted
        <5>2. CASE text # <<"tabs">>
          BY <5>2 DEF parse_requestline, parse_request_line, Accepted
        <5> QED  BY <5>1, <5>2
      <4> QED  BY <4>1, <3>1, <2>5 DEF Handle
    <3>3. CASE Accepted(text)
      <4> DEFINE h == [t EXCEPT !.state = "HEADER"]
      <4>1. /\ h \in Parsers /\ h.read_buf = buf /\ h.checked_idx = k + 1 /\ h.start_line = k + 1
            /\ h.state = "HEADER" /\ h.content_length = p.content_length /\ h.linger = p.linger
        BY <2>5 DEF Parsers
      <4>2. Round(p, "OK") = [p |-> h, line_status |-> "OK", answer |-> "NONE"]
        BY <3>2, <3>3 DEF Goes
      <4> HIDE DEF h
      <4>3. text # <<>> /\ text[1] # "length" /\ text # <<"linger">>
        BY <3>3 DEF Accepted
      <4>4. BodyLength(b, k + 1) = BodyLength(b, s) /\ (Asked(b, k + 1) <=> Asked(b, s))
        BY <4>3, <2>7
      <4>5. Scan(h, b)  BY <4>1, <4>3, <4>4, <3>3, <2>9, <2>11, <2>12, <1>2
      <4> QED  BY <4>2, <4>5 DEF After, Going
    <3>4. CASE ~Accepted(text)
      <4>1. Round(p, "OK") = [p |-> t, line_status |-> "OK", answer |-> "BAD_REQUEST"]
        BY <3>2, <3>4 DEF Answer
      <4>2. Computed(b) = "BAD_REQUEST"
        BY <3>4, <2>6, <2>8, <2>9, <2>12, <1>1, ComputedAt
      <4> QED  BY <4>1, <4>2 DEF After, Told
    <3> QED  BY <3>3, <3>4
  <2>13. CASE s # 0 /\ text # <<>>
    <3> DEFINE h == parse_headers(t, text)
    <3>1. t.state = "HEADER"  BY <2>5, <2>13, <1>2
    <3>2. Round(p, "OK") = [p |-> h, line_status |-> "OK", answer |-> "NONE"]
      BY <3>1, <2>5, <2>13 DEF Handle, Goes
    <3>3. /\ h \in Parsers /\ h.read_buf = buf /\ h.checked_idx = k + 1 /\ h.start_line = k + 1
          /\ h.state = "HEADER" /\ h.content_length = BodyLength(b, k + 1)
          /\ h.linger <=> Asked(b, k + 1)
      <4>1. CASE chapter = 8
        <5>1. h = t  BY <4>1 DEF parse_headers
        <5>2. BodyLength(b, k + 1) = BodyLength(b, s) /\ (Asked(b, k + 1) <=> Asked(b, s))
          BY <4>1, <2>7
        <5> QED  BY <5>1, <5>2, <3>1, <2>5, <1>2
      <4>2. CASE chapter = 15
        <5> DEFINE l == t.linger \/ text = <<"linger">>
                   y == IF Head(text) = "length" THEN ContentLength ELSE t.content_length
        <5>1. h = [t EXCEPT !.linger = l, !.content_length = y]
          BY <4>2 DEF parse_headers
        <5>2. l \in BOOLEAN  OBVIOUS
        <5>3. y \in {0, ContentLength}  BY <2>5 DEF Parsers
        <5>4. Head(text) = text[1]  OBVIOUS
        <5>5. y = BodyLength(b, k + 1)  BY <5>4, <4>2, <2>5, <2>7, <2>13, <1>2
        <5>6. l <=> Asked(b, k + 1)  BY <4>2, <2>5, <2>7, <1>2
        <5> HIDE DEF l, y
        <5>7. /\ h \in Parsers /\ h.read_buf = t.read_buf /\ h.checked_idx = t.checked_idx
              /\ h.start_line = t.start_line /\ h.state = t.state
              /\ h.content_length = y /\ h.linger = l
          BY <5>1, <5>2, <5>3, <2>5 DEF Parsers
        <5> QED  BY <5>5, <5>6, <5>7, <3>1, <2>5
      <4> QED  BY <4>1, <4>2
    <3> HIDE DEF h
    <3>4. Scan(h, b)  BY <3>3, <2>11, <2>13, <1>2
    <3> QED  BY <3>2, <3>4 DEF After, Going
  <2>14. CASE s # 0 /\ text = <<>>
    <3>1. t.state = "HEADER"  BY <2>5, <2>14, <1>2
    <3>2. BodyLength(b, k + 1) = BodyLength(b, s) /\ (Asked(b, k + 1) <=> Asked(b, s))
      <4>1. text # <<"linger">>  BY <2>14
      <4> QED  BY <4>1, <2>7, <2>14
    <3>3. k + 1 \in HeadEnds(b) /\ \A e \in HeadEnds(b) : k + 1 <= e
      <4>1. k + 1 \in HeadEnds(b) /\ \A e \in HeadEnds(b) : e >= k + 1
        BY <2>6, <2>14, <1>2
      <4>2. \A e \in HeadEnds(b) : e \in Nat  BY <1>1, BreakIs
      <4> QED  BY <4>1, <4>2, <2>8
    <3>4. Smallest(HeadEnds(b)) = k + 1  BY <3>3, <1>1, BreakIs, SmallestIs
    <3>5. CASE p.content_length = 0
      <4>1. Round(p, "OK") = [p |-> t, line_status |-> "OK", answer |-> "GET_REQUEST"]
        BY <3>1, <3>5, <2>5, <2>14 DEF Handle, Answer
      <4>2. BodyLength(b, k + 1) = 0 /\ n >= (k + 1) + 0  BY <3>2, <3>5, <2>8, <1>2
      <4>3. Computed(b) = "GET_REQUEST"
        BY <4>2, <3>3, <3>4, <2>6, <2>8, <2>14, <1>1, <1>2, ComputedAt
      <4>4. t.linger <=> Asked(b, Smallest(HeadEnds(b)))  BY <3>2, <3>4, <2>5, <1>2
      <4>5. Told(t, "GET_REQUEST", b)  BY <4>3, <4>4 DEF Told
      <4> QED  BY <4>1, <4>5 DEF After
    <3>6. CASE p.content_length # 0
      <4> DEFINE o == [t EXCEPT !.state = "CONTENT"]
      <4>1. /\ o \in Parsers /\ o.read_buf = buf /\ o.checked_idx = k + 1 /\ o.start_line = k + 1
            /\ o.state = "CONTENT" /\ o.content_length = p.content_length /\ o.linger = p.linger
        BY <2>5 DEF Parsers
      <4>2. Round(p, "OK") = [p |-> o, line_status |-> "OK", answer |-> "NONE"]
        BY <3>1, <3>6, <2>5, <2>14 DEF Handle, Goes
      <4> HIDE DEF o
      <4>3. Shape(o)
        <5>1. p.content_length # 0 => chapter = 15  BY <1>4 DEF Shape
        <5> QED  BY <5>1, <4>1, <3>6, <2>1, <2>8 DEF Shape
      <4>4. Ended(o, b, k + 1)
        BY <4>1, <3>2, <3>3, <2>6, <2>14, <1>2 DEF Ended
      <4>5. Body(o, b)  BY <4>1, <4>3, <4>4, <2>1, <1>1 DEF Body
      <4> QED  BY <4>2, <4>5 DEF After, Going
    <3> QED  BY <3>5, <3>6
  <2> QED  BY <2>12, <2>13, <2>14
<1> QED  BY <1>4, <1>5, <1>6, <1>7, ParseLineRight

LEMMA BodyRound ==
    ASSUME NEW p, NEW b, Body(p, b), chapter \in {8, 15}
    PROVE  After(p, "OK", b)
<1>1. PICK n \in Nat, c \in Nat, k \in Nat :
         /\ n = Len(b) /\ p.start_line = c /\ p.checked_idx = c /\ c <= n
         /\ k = p.content_length /\ k # 0 /\ chapter = 15
         /\ p \in Parsers /\ Len(p.read_buf) = n /\ p.state = "CONTENT" /\ b \in Text
  BY BreakIs, ParserAssumption DEF Body, Shape, Parsers
<1>2. /\ c \in HeadEnds(b) /\ (\A e \in HeadEnds(b) : c <= e)
      /\ LineEnd(b, c) /\ Accepted(FirstLine(b))
      /\ k = BodyLength(b, c)
      /\ p.linger <=> Asked(b, c)
  BY <1>1 DEF Body, Ended
<1>3. Smallest(HeadEnds(b)) = c  BY <1>1, <1>2, BreakIs, SmallestIs
<1>4. c # 0
  <2>1. c - 1 \in 1..(n - 1)  BY <1>1, <1>2, BreakIs
  <2> QED  BY <2>1
<1>5. Computed(b) = IF n >= c + k THEN "GET_REQUEST" ELSE "NO_REQUEST"
  <2>1. HeadEnds(b) # {}  BY <1>2
  <2> QED  BY <2>1, <1>1, <1>2, <1>3, <1>4, ComputedAt
<1>6. Found(p, "OK") = [p |-> p, status |-> "OK"]
  <2>1. [p EXCEPT !.checked_idx = c] = p  BY <1>1 DEF Parsers
  <2> QED  BY <2>1, <1>1 DEF Found, Line
<1>7. Started(p) = p  BY <1>1 DEF Started, Parsers
<1>8. Round(p, "OK") = Handle(p, p, get_line(p))  BY <1>6, <1>7 DEF Round
<1>9. parse_content(p) <=> n >= c + k
  BY <1>1 DEF parse_content, read_idx
<1>10. CASE n >= c + k
  <2> DEFINE e == [p EXCEPT !.last = p.start_line + p.content_length]
  <2>1. Round(p, "OK") = [p |-> e, line_status |-> "OK", answer |-> "GET_REQUEST"]
    BY <1>1, <1>8, <1>9, <1>10 DEF Handle, Answer
  <2>2. e.linger = p.linger  BY <1>1 DEF Parsers
  <2> HIDE DEF e
  <2>3. Told(e, "GET_REQUEST", b)  BY <2>2, <1>2, <1>3, <1>5, <1>10 DEF Told
  <2> QED  BY <2>1, <2>3 DEF After
<1>11. CASE ~(n >= c + k)
  <2>1. Round(p, "OK") = [p |-> p, line_status |-> "OPEN", answer |-> "NONE"]
    BY <1>1, <1>8, <1>9, <1>11 DEF Handle, Goes
  <2>2. Cut(b) \/ c = n  BY <1>1, <1>2 DEF Cut
  <2>3. n < k + c  BY <1>1, <1>11
  <2>4. Shape(p)  BY DEF Body
  <2>5. Stuck(p, b)  BY <2>2, <2>3, <2>4, <1>1, <1>5, <1>11 DEF Stuck
  <2> QED  BY <2>1, <2>5 DEF After, Going
<1> QED  BY <1>10, <1>11

LEMMA StuckRound ==
    ASSUME NEW p, NEW b, Stuck(p, b), chapter \in {8, 15}
    PROVE  After(p, "OPEN", b)
<1>1. PICK n \in Nat, s \in Nat, c \in Nat, k \in Nat :
         /\ n = Len(b) /\ p.start_line = s /\ p.checked_idx = c /\ s <= c /\ c <= n
         /\ k = p.content_length /\ k # 0 /\ chapter = 15 /\ n < k + c
         /\ p \in Parsers /\ Len(p.read_buf) = n /\ p.state = "CONTENT" /\ Shape(p)
  BY LenProperties, ParserAssumption DEF Stuck, Shape, Parsers
<1>2. Computed(b) = "NO_REQUEST" /\ (Cut(b) \/ (Body(p, b) /\ c = n))
  BY <1>1 DEF Stuck
<1>3. PICK buf \in Seq(Cell), d \in Nat, found \in {"OK", "OPEN", "BAD"} :
         /\ parse_line(p) = [p |-> Moved(p, buf, d), status |-> found]
         /\ Len(buf) = Len(p.read_buf) /\ p.checked_idx <= d /\ d <= Len(buf)
         /\ found = "OK" => p.checked_idx < d
         /\ p.checked_idx = Len(p.read_buf) => found = "OPEN"
  BY <1>1, ParseLineKeeps
<1> DEFINE q == Moved(p, buf, d)
<1>4. /\ q \in Parsers /\ q.read_buf = buf /\ q.checked_idx = d /\ q.start_line = s
      /\ q.state = "CONTENT" /\ q.content_length = k /\ q.linger = p.linger
  BY <1>1 DEF Moved, Parsers
<1>5. Found(p, "OPEN") = [p |-> q, status |-> found]  BY <1>3 DEF Found
<1> HIDE DEF q
<1>6. s <= d /\ c <= d /\ d <= n  BY <1>1, <1>3
<1>7. CASE found # "OK"
  <2>1. Round(p, "OPEN") = Answer(q, NoLine(found))  BY <1>5, <1>7 DEF Round
  <2>2. NoLine(found) = "NO_REQUEST"  BY <1>1 DEF NoLine
  <2>3. Round(p, "OPEN") = [p |-> q, line_status |-> "OK", answer |-> "NO_REQUEST"]
    BY <2>1, <2>2 DEF Answer
  <2>4. Cut(b) \/ Body(q, b)
    <3> SUFFICES ASSUME ~Cut(b) PROVE Body(q, b)  OBVIOUS
    <3>1. Body(p, b) /\ c = n /\ d = c  BY <1>2, <1>6
    <3>2. Shape(q)  BY <1>1, <1>3, <1>4, <1>6 DEF Shape
    <3>3. Ended(q, b, c)  BY <3>1, <1>1, <1>4 DEF Body, Ended
    <3> QED  BY <3>1, <3>2, <3>3, <1>1, <1>3, <1>4 DEF Body
  <2>5. Told(q, "NO_REQUEST", b)  BY <2>4, <1>2, <1>4 DEF Told
  <2> QED  BY <2>3, <2>5 DEF After
<1>8. CASE found = "OK"
  <2> DEFINE t == Started(q)
  <2>1. /\ t \in Parsers /\ t.read_buf = buf /\ t.checked_idx = d /\ t.start_line = d
        /\ t.state = "CONTENT" /\ t.content_length = k
    BY <1>4 DEF Started, Parsers
  <2>2. Round(p, "OPEN") = Handle(p, t, get_line(q))  BY <1>5, <1>8 DEF Round
  <2> HIDE DEF t
  <2>3. ~parse_content(t)
    <3>1. ~(n >= k + d)  BY <1>1, <1>6
    <3> QED  BY <3>1, <2>1, <1>1, <1>3 DEF parse_content, read_idx
  <2>4. Round(p, "OPEN") = [p |-> t, line_status |-> "OPEN", answer |-> "NONE"]
    BY <2>1, <2>2, <2>3 DEF Handle, Goes
  <2>5. Shape(t)  BY <2>1, <1>1, <1>3, <1>6 DEF Shape
  <2>6. Cut(b)  BY <1>1, <1>2, <1>3, <1>8
  <2>7. n < k + d  BY <1>1, <1>6
  <2>8. Stuck(t, b)  BY <2>1, <2>5, <2>6, <2>7, <1>1, <1>2, <1>3 DEF Stuck
  <2> QED  BY <2>4, <2>8 DEF After, Going
<1> QED  BY <1>7, <1>8

\* The result of a round, in its parts.
Result(q, next, answer) == [p |-> q, line_status |-> next, answer |-> answer]

\* After m rounds: without an answer, the measure has grown by m.
Sound(r, p, m) ==
    \E q, next, answer :
        /\ r = Result(q, next, answer)
        /\ next \in {"OK", "OPEN"} /\ answer \in {"NONE", "NO_REQUEST", "GET_REQUEST", "BAD_REQUEST"}
        /\ Shape(q) /\ Len(q.read_buf) = Len(p.read_buf)
        /\ q.last = p.last \/ (chapter = 15 /\ q.last <= Len(p.read_buf))
        /\ next = "OPEN" => q.state = "CONTENT"
        /\ answer = "NONE" => Measure(q, next) >= m

LEMMA TurnSound ==
    ASSUME NEW p, NEW r, NEW m \in Nat, Sound(r, p, m), chapter \in {8, 15}
    PROVE  Sound(Turn(r), p, m + 1)
<1>1. PICK q, next, answer :
        /\ r = Result(q, next, answer)
        /\ next \in {"OK", "OPEN"} /\ answer \in {"NONE", "NO_REQUEST", "GET_REQUEST", "BAD_REQUEST"}
        /\ Shape(q) /\ Len(q.read_buf) = Len(p.read_buf)
        /\ q.last = p.last \/ (chapter = 15 /\ q.last <= Len(p.read_buf))
        /\ next = "OPEN" => q.state = "CONTENT"
        /\ answer = "NONE" => Measure(q, next) >= m
  BY DEF Sound
<1>2. CASE answer # "NONE"
  <2>1. Turn(r) = r  BY <1>1, <1>2 DEF Turn, Result
  <2> QED  BY <2>1, <1>1, <1>2 DEF Sound
<1>3. CASE answer = "NONE"
  <2>1. Turn(r) = Round(q, next)  BY <1>1, <1>3 DEF Turn, Result
  <2>2. PICK q2, next2, answer2 : Kept(q, next, q2, next2, answer2)
    BY <1>1, RoundKeeps
  <2>3. /\ Turn(r) = Result(q2, next2, answer2)
        /\ next2 \in {"OK", "OPEN"} /\ answer2 \in {"NONE", "NO_REQUEST", "GET_REQUEST", "BAD_REQUEST"}
        /\ Shape(q2) /\ Len(q2.read_buf) = Len(p.read_buf)
        /\ q2.last = q.last \/ (chapter = 15 /\ q2.last <= Len(p.read_buf))
        /\ next2 = "OPEN" => q2.state = "CONTENT"
        /\ answer2 = "NONE" => Measure(q2, next2) > Measure(q, next)
    BY <2>1, <2>2, <1>1 DEF Kept, Result
  <2>4. answer2 = "NONE" => Measure(q2, next2) >= m + 1
    <3>1. PICK x \in Nat, y \in Nat : x = Measure(q, next) /\ y = Measure(q2, next2)
      BY <1>1, <2>3 DEF Measure, Shape, Parsers
    <3> QED  BY <3>1, <1>1, <1>3, <2>3
  <2>5. q2.last = p.last \/ (chapter = 15 /\ q2.last <= Len(p.read_buf))  BY <2>3, <1>1
  <2> QED  BY <2>3, <2>4, <2>5 DEF Sound
<1> QED  BY <1>2, <1>3

\* process_read ends with an answer, and the parser keeps its shape.
LEMMA ReadKeeps ==
    ASSUME NEW p, Shape(p), chapter \in {8, 15}
    PROVE  \E q, next, answer :
              /\ answer \in {"NO_REQUEST", "GET_REQUEST", "BAD_REQUEST"}
              /\ process_read(p) = Result(q, next, answer)
              /\ Shape(q) /\ Len(q.read_buf) = Len(p.read_buf)
              /\ q.last = p.last \/ (chapter = 15 /\ q.last <= Len(p.read_buf))
<1>1. PICK n \in Nat : n = Len(p.read_buf)  BY LenProperties DEF Shape, Parsers
<1>2. n + 2 = read_idx(p) + 2 /\ n + 2 \in Nat  BY <1>1 DEF read_idx
<1>3. PICK f : /\ process_read(p) = f[n + 2] /\ f[0] = Goes(p, "OK")
               /\ \A m \in 1..(n + 2) : f[m] = Turn(f[m - 1])
  BY <1>2, Rounds
<1> DEFINE S == {m \in Nat : m <= n + 2 => Sound(f[m], p, m)}
<1>4. 0 \in S
  <2>1. f[0] = Result(p, "OK", "NONE")  BY <1>3 DEF Goes, Result
  <2>2. Measure(p, "OK") >= 0  BY DEF Measure, Shape, Parsers
  <2>3. Sound(f[0], p, 0)  BY <2>1, <2>2 DEF Sound
  <2> QED  BY <2>3
<1>5. ASSUME NEW m \in S PROVE m + 1 \in S
  <2>1. m \in Nat /\ m + 1 \in Nat  OBVIOUS
  <2>2. CASE m + 1 <= n + 2
    <3>1. m + 1 \in 1..(n + 2) /\ (m + 1) - 1 = m /\ m <= n + 2  BY <2>1, <2>2
    <3>2. f[m + 1] = Turn(f[m])  BY <3>1, <1>3
    <3>3. Sound(f[m], p, m)  BY <3>1
    <3>4. Sound(Turn(f[m]), p, m + 1)  BY <3>3, <2>1, TurnSound
    <3> QED  BY <3>2, <3>4, <2>1
  <2>3. CASE ~(m + 1 <= n + 2)  BY <2>1, <2>3
  <2> QED  BY <2>2, <2>3
<1>6. S \in SUBSET Nat  OBVIOUS
<1> HIDE DEF S
<1>7. S = Nat  BY <1>4, <1>5, <1>6, SetInduction
<1>8. n + 2 \in S /\ n + 2 <= n + 2  BY <1>7, <1>2
<1>9. Sound(process_read(p), p, n + 2)  BY <1>3, <1>8 DEF S
<1>10. PICK q, next, answer :
        /\ process_read(p) = Result(q, next, answer)
        /\ answer \in {"NONE", "NO_REQUEST", "GET_REQUEST", "BAD_REQUEST"}
        /\ Shape(q) /\ Len(q.read_buf) = Len(p.read_buf)
        /\ q.last = p.last \/ (chapter = 15 /\ q.last <= Len(p.read_buf))
        /\ answer = "NONE" => Measure(q, next) >= n + 2
  BY <1>9 DEF Sound
<1>11. answer # "NONE"
  <2>1. PICK c \in Nat : c = q.checked_idx /\ c <= n  BY <1>1, <1>10 DEF Shape, Parsers
  <2>2. PICK x \in Nat : x = Measure(q, next) /\ x <= c + 1  BY <2>1 DEF Measure
  <2>3. ~(x >= n + 2)  BY <2>1, <2>2
  <2> QED  BY <2>2, <2>3, <1>10
<1> QED  BY <1>10, <1>11

\* As long as no body came in pieces, the answer is the one for the whole.
Tracked(r, b) ==
    \E q, next, answer :
        /\ r = Result(q, next, answer)
        /\ answer = "NONE" => Going(q, next, b)
        /\ answer # "NONE" => Told(q, answer, b)

LEMMA TurnTracked ==
    ASSUME NEW r, NEW b, Tracked(r, b), chapter \in {8, 15}
    PROVE  Tracked(Turn(r), b)
<1>1. PICK q, next, answer :
        /\ r = Result(q, next, answer)
        /\ answer = "NONE" => Going(q, next, b)
        /\ answer # "NONE" => Told(q, answer, b)
  BY DEF Tracked
<1>2. CASE answer # "NONE"
  <2>1. Turn(r) = r  BY <1>1, <1>2 DEF Turn, Result
  <2> QED  BY <2>1
<1>3. CASE answer = "NONE"
  <2>1. Turn(r) = Round(q, next)  BY <1>1, <1>3 DEF Turn, Result
  <2>2. After(q, next, b)
    <3>1. Going(q, next, b)  BY <1>1, <1>3
    <3>2. CASE next = "OK" /\ Scan(q, b)  BY <3>2, ScanRound
    <3>3. CASE next = "OK" /\ Body(q, b)  BY <3>3, BodyRound
    <3>4. CASE next = "OPEN" /\ Stuck(q, b)  BY <3>4, StuckRound
    <3> QED  BY <3>1, <3>2, <3>3, <3>4 DEF Going
  <2> QED  BY <2>1, <2>2 DEF After, Tracked, Result
<1> QED  BY <1>2, <1>3

LEMMA ReadRight ==
    ASSUME NEW p, NEW b, Scan(p, b) \/ Body(p, b), chapter \in {8, 15}
    PROVE  Tracked(process_read(p), b)
<1>1. Shape(p)  BY DEF Scan, Place, Body
<1>2. PICK n \in Nat : n = Len(p.read_buf)  BY <1>1, LenProperties DEF Shape, Parsers
<1>3. n + 2 = read_idx(p) + 2 /\ n + 2 \in Nat  BY <1>2 DEF read_idx
<1>4. PICK f : /\ process_read(p) = f[n + 2] /\ f[0] = Goes(p, "OK")
               /\ \A m \in 1..(n + 2) : f[m] = Turn(f[m - 1])
  BY <1>3, Rounds
<1> DEFINE S == {m \in Nat : m <= n + 2 => Tracked(f[m], b)}
<1>5. 0 \in S
  <2>1. f[0] = Result(p, "OK", "NONE")  BY <1>4 DEF Goes, Result
  <2>2. Going(p, "OK", b)  BY DEF Going
  <2>3. Tracked(f[0], b)  BY <2>1, <2>2 DEF Tracked
  <2> QED  BY <2>3
<1>6. ASSUME NEW m \in S PROVE m + 1 \in S
  <2>1. m \in Nat /\ m + 1 \in Nat  OBVIOUS
  <2>2. CASE m + 1 <= n + 2
    <3>1. m + 1 \in 1..(n + 2) /\ (m + 1) - 1 = m /\ m <= n + 2  BY <2>1, <2>2
    <3>2. f[m + 1] = Turn(f[m])  BY <3>1, <1>4
    <3>3. Tracked(f[m], b)  BY <3>1
    <3>4. Tracked(Turn(f[m]), b)  BY <3>3, TurnTracked
    <3> QED  BY <3>2, <3>4, <2>1
  <2>3. CASE ~(m + 1 <= n + 2)  BY <2>1, <2>3
  <2> QED  BY <2>2, <2>3
<1>7. S \in SUBSET Nat  OBVIOUS
<1> HIDE DEF S
<1>8. S = Nat  BY <1>5, <1>6, <1>7, SetInduction
<1>9. n + 2 \in S /\ n + 2 <= n + 2  BY <1>8, <1>3
<1> QED  BY <1>4, <1>9 DEF S

\* The chapter does not change, and nothing else of the state is part of these.
LEMMA SameChapter ==
    ASSUME chapter' = chapter, NEW p, NEW b, NEW e
    PROVE  /\ Shape(p)' <=> Shape(p)
           /\ Scan(p, b)' <=> Scan(p, b)
           /\ Body(p, b)' <=> Body(p, b)
           /\ Computed(b)' = Computed(b)
           /\ Asked(b, e)' <=> Asked(b, e)
<1>1. Breaks(b)' = Breaks(b) /\ Misplaced(b)' = Misplaced(b)
  BY DEF Breaks, Misplaced
<1>2. HeadEnds(b)' = HeadEnds(b)
  BY DEF HeadEnds, Breaks, Misplaced
<1>3. \A x : Lines(b, x)' = Lines(b, x)
  BY DEF Lines, Breaks
<1>4. Parsers' = Parsers
  BY DEF Parsers, Cell, Byte
<1>5. LineEnd(b, e)' <=> LineEnd(b, e)
  BY DEF LineEnd, Breaks, Misplaced
<1>6. Asked(b, e)' <=> Asked(b, e)
  BY DEF Asked, Lines, Breaks
<1>7. BodyLength(b, e)' = BodyLength(b, e)
  BY DEF BodyLength, Lines, Breaks
<1>8. Accepted(e)' <=> Accepted(e)
  BY DEF Accepted
<1>9. Shape(p)' <=> Shape(p)
  BY DEF Shape, Parsers, Cell, Byte
<1>10. Wrong(b)' = Wrong(b)
  BY DEF Wrong, Misplaced
<1>11. FirstLine(b)' = FirstLine(b) /\ (Accepted(FirstLine(b))' <=> Accepted(FirstLine(b)))
  BY DEF FirstLine, Accepted, Breaks, Smallest
<1>12. Place(p, b)' <=> Place(p, b)
  BY <1>9 DEF Place, LineEnd, Clean, Breaks, Misplaced, Text, Byte
<1>13. Scan(p, b)' <=> Scan(p, b)
  BY <1>11, <1>12 DEF Scan, Place, BodyLength, Asked, HeadEnds, Lines, Breaks, Misplaced
<1>14. Body(p, b)' <=> Body(p, b)
  BY <1>9, <1>11 DEF Body, Ended, BodyLength, Asked, HeadEnds, Lines, Breaks, Misplaced, LineEnd, Text, Byte
<1>15. Computed(b)' = Computed(b)
  BY DEF Computed, Wrong, BodyLength, Accepted, HeadEnds, Lines, Breaks, Misplaced, Smallest
<1> QED  BY <1>6, <1>9, <1>13, <1>14, <1>15

Fed(p, more) == [p EXCEPT !.read_buf = @ \o more]

\* The bytes that arrive go behind what the buffer holds.
LEMMA FedShape ==
    ASSUME NEW p, Shape(p), NEW more \in Text
    PROVE  /\ Shape(Fed(p, more))
           /\ Len(Fed(p, more).read_buf) = Len(p.read_buf) + Len(more)
           /\ \A j \in 1..Len(p.read_buf) : Fed(p, more).read_buf[j] = p.read_buf[j]
           /\ \A j \in 1..Len(more) : Fed(p, more).read_buf[Len(p.read_buf) + j] = more[j]
           /\ Fed(p, more).checked_idx = p.checked_idx /\ Fed(p, more).start_line = p.start_line
           /\ Fed(p, more).state = p.state /\ Fed(p, more).content_length = p.content_length
           /\ Fed(p, more).linger = p.linger /\ Fed(p, more).last = p.last
<1>1. PICK old \in Seq(Cell) : old = p.read_buf /\ p \in Parsers  BY DEF Shape, Parsers
<1>2. more \in Seq(Cell)
  <2>1. \A j \in 1..Len(more) : more[j] \in Cell  BY ElementOfSeq DEF Text, Cell
  <2>2. more = [j \in 1..Len(more) |-> more[j]] /\ Len(more) \in Nat
    BY SeqDef, LenProperties DEF Text
  <2> QED  BY <2>1, <2>2, IsASeq
<1>3. /\ old \o more \in Seq(Cell) /\ Len(old \o more) = Len(old) + Len(more)
      /\ \A j \in 1..(Len(old) + Len(more)) :
            (old \o more)[j] = IF j <= Len(old) THEN old[j] ELSE more[j - Len(old)]
  BY <1>2, ConcatProperties
<1> DEFINE q == Fed(p, more)
<1>4. /\ q \in Parsers /\ q.read_buf = old \o more
      /\ q.checked_idx = p.checked_idx /\ q.start_line = p.start_line
      /\ q.state = p.state /\ q.content_length = p.content_length
      /\ q.linger = p.linger /\ q.last = p.last
  BY <1>1, <1>3 DEF Fed, Parsers
<1> HIDE DEF q
<1>5. PICK m \in Nat, n \in Nat : m = Len(old) /\ n = Len(more)
  BY LenProperties DEF Text
<1>6. \A j \in 1..m : q.read_buf[j] = old[j]
  <2>1. \A j \in 1..m : j \in 1..(m + n) /\ j <= m  BY <1>5
  <2> QED  BY <2>1, <1>3, <1>4, <1>5
<1>7. \A j \in 1..n : q.read_buf[m + j] = more[j]
  <2>1. \A j \in 1..n : m + j \in 1..(m + n) /\ ~(m + j <= m) /\ (m + j) - m = j  BY <1>5
  <2> QED  BY <2>1, <1>3, <1>4, <1>5
<1>8. Shape(q)
  <2>1. PICK c \in Nat : c = p.checked_idx /\ c <= m  BY <1>1, <1>5 DEF Shape, Parsers
  <2>2. c <= m + n  BY <2>1
  <2> QED  BY <2>1, <2>2, <1>1, <1>3, <1>4, <1>5 DEF Shape
<1> QED  BY <1>1, <1>3, <1>4, <1>5, <1>6, <1>7, <1>8 DEF q

FedWith(p, more, q) ==
    /\ Shape(q) /\ Len(q.read_buf) = Len(p.read_buf) + Len(more)
    /\ \A j \in 1..Len(p.read_buf) : q.read_buf[j] = p.read_buf[j]
    /\ \A j \in 1..Len(more) : q.read_buf[Len(p.read_buf) + j] = more[j]
    /\ q.checked_idx = p.checked_idx /\ q.start_line = p.start_line
    /\ q.state = p.state /\ q.content_length = p.content_length /\ q.linger = p.linger

LEMMA Appends ==
    ASSUME NEW p, Shape(p), NEW more \in Text
    PROVE  FedWith(p, more, Fed(p, more))
BY FedShape DEF FedWith

\* What is known of the bytes so far is known of them with more behind.
LEMMA FedKnown ==
    ASSUME NEW p, NEW b \in Text, NEW more \in Text, NEW c, Prefix(b, c),
           Shape(p), Len(p.read_buf) = Len(b), Len(c) = Len(b) + Len(more),
           \A j \in 1..Len(more) : c[Len(b) + j] = more[j],
           Scan(p, b) \/ Body(p, b)
    PROVE  Scan(Fed(p, more), c) \/ Body(Fed(p, more), c)
<1> DEFINE q == Fed(p, more)
<1>1. PICK m \in Nat, n \in Nat, s \in Nat, d \in Nat :
         /\ m = Len(b) /\ n = Len(more) /\ m + n = Len(c) /\ m = Len(p.read_buf)
         /\ s = p.start_line /\ d = p.checked_idx /\ s <= d /\ d <= m
  BY BreakIs DEF Shape, Parsers
<1>2. c \in Text /\ \A j \in 1..m : c[j] = b[j]  BY <1>1 DEF Prefix
<1>3. /\ Shape(q) /\ Len(q.read_buf) = m + n
      /\ \A j \in 1..m : q.read_buf[j] = p.read_buf[j]
      /\ \A j \in 1..n : q.read_buf[m + j] = more[j]
      /\ q.checked_idx = d /\ q.start_line = s
      /\ q.state = p.state /\ q.content_length = p.content_length /\ q.linger = p.linger
  <2>1. FedWith(p, more, q)  BY Appends
  <2> HIDE DEF q
  <2> QED  BY <2>1, <1>1 DEF FedWith
<1> HIDE DEF q
<1>4. CASE Scan(p, b)
  <2>1. Place(p, b) /\ LineEnd(b, s)  BY <1>1, <1>4 DEF Scan, Place
  <2>2. /\ LineEnd(c, s)
        /\ \A k \in Nat : k <= s => (k \in HeadEnds(c) <=> k \in HeadEnds(b))
        /\ s # 0 => FirstLine(c) = FirstLine(b)
        /\ Lines(c, s) = Lines(b, s) /\ BodyLength(c, s) = BodyLength(b, s)
    <3>1. LineEnd(c, s)  BY <2>1, Extended
    <3>2. \A k \in Nat : k <= s => (k \in HeadEnds(c) <=> k \in HeadEnds(b))
      BY <2>1, Extended
    <3>3. s # 0 => FirstLine(c) = FirstLine(b)  BY <2>1, Extended
    <3>4. Lines(c, s) = Lines(b, s)  BY <2>1, Extended
    <3>5. BodyLength(c, s) = BodyLength(b, s)  BY <2>1, Extended
    <3> QED  BY <3>1, <3>2, <3>3, <3>4, <3>5
  <2>3. Asked(c, s) <=> Asked(b, s)  BY <2>2 DEF Asked
  <2>4. s # 0 => Accepted(FirstLine(c))
    <3>1. s # 0 => Accepted(FirstLine(b))  BY <1>1, <1>4 DEF Scan
    <3> QED  BY <3>1, <2>2
  <2>5. \A e \in HeadEnds(c) : e > s
    <3> SUFFICES ASSUME NEW e \in HeadEnds(c), ~(e > s) PROVE FALSE  OBVIOUS
    <3>1. e \in Nat /\ e <= s  BY <1>1, <1>2, BreakIs
    <3>2. e \in HeadEnds(b)  BY <3>1, <2>2
    <3>3. e > s  BY <3>2, <1>1, <1>4 DEF Scan
    <3> QED  BY <3>3
  <2>6. \A j \in 1..(m + n) : j > s => q.read_buf[j] = c[j]
    <3> SUFFICES ASSUME NEW j \in 1..(m + n), j > s PROVE q.read_buf[j] = c[j]  OBVIOUS
    <3>1. CASE j <= m
      <4>1. j \in 1..m  BY <3>1
      <4>2. p.read_buf[j] = b[j]  BY <4>1, <2>1, <1>1 DEF Place
      <4> QED  BY <4>1, <4>2, <1>2, <1>3
    <3>2. CASE ~(j <= m)
      <4>1. PICK i \in 1..n : j = m + i
        <5>1. j - m \in 1..n /\ j = m + (j - m)  BY <3>2
        <5> QED  BY <5>1
      <4> QED  BY <4>1, <1>1, <1>3
    <3> QED  BY <3>1, <3>2
  <2>7. s # 0 => q.read_buf[s] = "NUL"
    <3>1. s # 0 => s \in 1..m  BY <1>1
    <3> QED  BY <3>1, <2>1, <1>1, <1>3 DEF Place
  <2>8. Clean(c, s, d)
    <3>1. \A j \in (s + 1)..d : j \in 1..m  BY <1>1
    <3> QED  BY <3>1, <2>1, <1>1, <1>2 DEF Place, Clean
  <2>9. Place(q, c)  BY <2>2, <2>6, <2>7, <2>8, <1>1, <1>2, <1>3 DEF Place
  <2>10. Scan(q, c)
    <3>1. /\ q.state = IF s = 0 THEN "REQUESTLINE" ELSE "HEADER"
          /\ q.content_length = BodyLength(b, s) /\ (q.linger <=> Asked(b, s))
      BY <1>1, <1>3, <1>4 DEF Scan
    <3> QED  BY <3>1, <2>2, <2>3, <2>4, <2>5, <2>9, <1>3 DEF Scan
  <2> QED  BY <2>10 DEF q
<1>5. CASE Body(p, b)
  <2>1. /\ s = d /\ Ended(p, b, d) /\ p.state = "CONTENT" /\ LineEnd(b, d)
        /\ d \in HeadEnds(b) /\ \A e \in HeadEnds(b) : d <= e
    BY <1>1, <1>5 DEF Body, Ended
  <2>2. /\ LineEnd(c, d)
        /\ \A k \in Nat : k <= d => (k \in HeadEnds(c) <=> k \in HeadEnds(b))
        /\ d # 0 => FirstLine(c) = FirstLine(b)
        /\ Lines(c, d) = Lines(b, d) /\ BodyLength(c, d) = BodyLength(b, d)
    <3>1. LineEnd(c, d)  BY <2>1, Extended
    <3>2. \A k \in Nat : k <= d => (k \in HeadEnds(c) <=> k \in HeadEnds(b))
      BY <2>1, Extended
    <3>3. d # 0 => FirstLine(c) = FirstLine(b)  BY <2>1, Extended
    <3>4. Lines(c, d) = Lines(b, d)  BY <2>1, Extended
    <3>5. BodyLength(c, d) = BodyLength(b, d)  BY <2>1, Extended
    <3> QED  BY <3>1, <3>2, <3>3, <3>4, <3>5
  <2>3. d # 0
    <3>1. d - 1 \in 1..(m - 1)  BY <2>1, <1>1, BreakIs
    <3> QED  BY <3>1
  <2>4. Asked(c, d) <=> Asked(b, d)  BY <2>2 DEF Asked
  <2>5. Accepted(FirstLine(c))
    <3>1. FirstLine(c) = FirstLine(b)  BY <2>2, <2>3
    <3> QED  BY <3>1, <2>1 DEF Ended
  <2>6. d \in HeadEnds(c) /\ \A e \in HeadEnds(c) : d <= e
    <3>1. d \in HeadEnds(c)  BY <2>1, <2>2
    <3>2. ASSUME NEW e \in HeadEnds(c), ~(d <= e) PROVE FALSE
      <4>1. e \in Nat /\ e <= d  BY <1>1, <1>2, <3>2, BreakIs
      <4>2. e \in HeadEnds(b)  BY <4>1, <2>2
      <4> QED  BY <4>2, <3>2, <2>1
    <3> QED  BY <3>1, <3>2
  <2>7. Ended(q, c, d)
    BY <2>1, <2>2, <2>4, <2>5, <2>6, <1>3 DEF Ended
  <2>8. Body(q, c)  BY <2>1, <2>7, <1>1, <1>2, <1>3 DEF Body
  <2> QED  BY <2>8 DEF q
<1> QED  BY <1>4, <1>5

-----------------------------------------------------------------------------

\* What is known of the parser p and the bytes b received.
Fits(p, b) ==
    /\ result = Computed(b)
    /\ result = "GET_REQUEST" => (p.linger <=> Asked(b, Smallest(HeadEnds(b))))
Known(p, b) ==
    /\ Shape(p) /\ Len(p.read_buf) = sent /\ Len(b) = sent /\ b \in Text
    /\ p.last <= READ_BUFFER_SIZE
    /\ result = "NO_REQUEST" /\ ~cut => Scan(p, b) \/ Body(p, b)
    /\ result # "CLOSED" /\ ~cut => Fits(p, b)
ParserInv ==
    /\ chapter \in {8, 15} /\ message \in Messages /\ sent \in 0..Len(message)
    /\ sent <= READ_BUFFER_SIZE
    /\ result \in {"NO_REQUEST", "GET_REQUEST", "BAD_REQUEST", "CLOSED"} /\ cut \in BOOLEAN
    /\ \A p, b : p = parser /\ b = SubSeq(message, 1, sent) => Known(p, b)

LEMMA NoBytes ==
    ASSUME NEW b \in Text, Len(b) = 0
    PROVE  /\ Breaks(b) = {} /\ Misplaced(b) = {} /\ HeadEnds(b) = {} /\ LineEnd(b, 0)
           /\ \A j : j \notin 1..Len(b)
<1>1. \A k : k \notin 1..Len(b)  OBVIOUS
<1>2. Breaks(b) = {}
  <2> SUFFICES ASSUME NEW k \in Breaks(b) PROVE FALSE  OBVIOUS
  <2>1. k + 1 \in 1..Len(b)  BY BreakIs
  <2> QED  BY <2>1, <1>1
<1>3. Misplaced(b) = {}  BY <1>1, MisplacedIs
<1>4. HeadEnds(b) = {}  BY <1>2 DEF HeadEnds
<1>5. LineEnd(b, 0)  BY <1>3 DEF LineEnd
<1> QED  BY <1>1, <1>2, <1>3, <1>4, <1>5

LEMMA ParserStart == ParserInit => ParserInv
<1> SUFFICES ASSUME ParserInit PROVE ParserInv  OBVIOUS
<1>1. /\ chapter \in {8, 15} /\ message \in Messages /\ sent = 0
      /\ result = "NO_REQUEST" /\ cut = FALSE
  BY DEF ParserInit
<1>2. message \in Text /\ READ_BUFFER_SIZE \in Nat /\ READ_BUFFER_SIZE > 0 /\ ContentLength \in Nat
  BY <1>1, ParserAssumption DEF Text
<1>3. Len(message) \in Nat  BY <1>2, BreakIs
<1> SUFFICES ASSUME NEW p, NEW b, p = parser, b = SubSeq(message, 1, sent) PROVE Known(p, b)
  <2>1. sent \in 0..Len(message) /\ sent <= READ_BUFFER_SIZE  BY <1>1, <1>2, <1>3
  <2>2. message \in Messages  BY DEF ParserInit
  <2> QED  BY <2>1, <2>2, <1>1 DEF ParserInv
<1>4. b \in Text /\ Len(b) = 0
  <2>1. \A j \in 1..sent : message[j] \in Byte  BY <1>1
  <2>2. b \in Seq(Byte) /\ Len(b) = IF 1 <= sent THEN sent - 1 + 1 ELSE 0
    BY <2>1, <1>1, SubSeqProperties
  <2> QED  BY <2>2, <1>1 DEF Text
<1>5. /\ Breaks(b) = {} /\ Misplaced(b) = {} /\ HeadEnds(b) = {} /\ LineEnd(b, 0)
      /\ \A j : j \notin 1..Len(b)
  BY <1>4, NoBytes
<1>6. /\ p \in Parsers /\ p.read_buf = <<>> /\ p.checked_idx = 0 /\ p.start_line = 0
      /\ p.state = "REQUESTLINE" /\ p.content_length = 0 /\ p.linger = FALSE /\ p.last = 0
  <2>1. <<>> \in Seq(Cell)  OBVIOUS
  <2> QED  BY <2>1 DEF ParserInit, Parsers
<1>7. Len(p.read_buf) = 0  BY <1>6
<1>8. Shape(p)  BY <1>6, <1>7 DEF Shape
<1>9. Lines(b, 0) = {}
  <2>1. (1..0) \X Breaks(b) = {}  OBVIOUS
  <2> QED  BY <2>1 DEF Lines
<1>10. BodyLength(b, 0) = 0 /\ ~Asked(b, 0)  BY <1>9 DEF BodyLength, Asked
<1>11. Place(p, b)
  <2>1. Clean(b, 0, 0)  BY DEF Clean
  <2> QED  BY <2>1, <1>4, <1>5, <1>6, <1>7, <1>8 DEF Place
<1>12. Scan(p, b)  BY <1>5, <1>6, <1>10, <1>11 DEF Scan
<1>13. Fits(p, b)  BY <1>1, <1>5 DEF Fits, Computed, Wrong
<1> QED  BY <1>1, <1>2, <1>4, <1>6, <1>7, <1>8, <1>12, <1>13 DEF Known

LEMMA TakeKeeps ==
    ASSUME ParserInv, result = "NO_REQUEST", NEW n \in 1..(Len(message) - sent), Take(n),
           sent + n <= READ_BUFFER_SIZE
    PROVE  ParserInv'
<1>1. PICK p, b : p = parser /\ b = SubSeq(message, 1, sent)  OBVIOUS
<1>2. PICK mess \in Text, k \in Nat, len \in Nat :
         /\ mess = message /\ k = sent /\ len = Len(mess) /\ n \in 1..(len - k)
         /\ k <= len /\ chapter \in {8, 15} /\ message \in Messages
  <2>1. message \in Text /\ sent \in 0..Len(message) /\ chapter \in {8, 15} /\ message \in Messages
    BY ParserAssumption DEF ParserInv, Text
  <2>2. Len(message) \in Nat  BY <2>1, BreakIs
  <2>3. PICK mess \in Text, k \in Nat, len \in Nat : mess = message /\ k = sent /\ len = Len(mess)
    <3>1. PICK mess \in Text : mess = message  BY <2>1
    <3>2. PICK len \in Nat : len = Len(message)  BY <2>2
    <3>3. sent \in Nat  BY <2>1, <3>2
    <3> QED  BY <3>1, <3>2, <3>3
  <2>4. k <= len /\ n \in 1..(len - k)  BY <2>1, <2>3
  <2> QED  BY <2>1, <2>3, <2>4
<1>3. Known(p, b)  BY <1>1 DEF ParserInv
<1>4. PICK c, more : c = SubSeq(mess, 1, k + n) /\ more = SubSeq(mess, k + 1, k + n)  OBVIOUS
<1>5. k + n \in Nat /\ k + n <= len /\ n \in Nat /\ n >= 1  BY <1>2
<1>6. \A j \in 1..len : mess[j] \in Byte  BY <1>2, ElementOfSeq DEF Text
<1>7. c \in Text /\ Len(c) = k + n /\ \A j \in 1..(k + n) : c[j] = mess[j]
  <2>1. \A j \in 1..(k + n) : mess[j] \in Byte
    <3>1. \A j \in 1..(k + n) : j \in 1..len  BY <1>5, <1>2
    <3> QED  BY <3>1, <1>6
  <2>2. /\ c \in Seq(Byte) /\ Len(c) = (IF 1 <= k + n THEN k + n - 1 + 1 ELSE 0)
        /\ \A j \in 1..(k + n - 1 + 1) : c[j] = mess[1 + j - 1]
    BY <2>1, <1>4, <1>5, SubSeqProperties
  <2>3. k + n - 1 + 1 = k + n /\ 1 <= k + n /\ \A j \in 1..(k + n) : 1 + j - 1 = j  BY <1>2, <1>5
  <2> QED  BY <2>2, <2>3 DEF Text
<1>8. more \in Text /\ Len(more) = n /\ \A j \in 1..n : more[j] = mess[k + j]
  <2>1. \A j \in (k + 1)..(k + n) : mess[j] \in Byte
    <3>1. \A j \in (k + 1)..(k + n) : j \in 1..len  BY <1>5, <1>2
    <3> QED  BY <3>1, <1>6
  <2>2. /\ more \in Seq(Byte) /\ Len(more) = (IF k + 1 <= k + n THEN (k + n) - (k + 1) + 1 ELSE 0)
        /\ \A j \in 1..((k + n) - (k + 1) + 1) : more[j] = mess[(k + 1) + j - 1]
    BY <2>1, <1>4, <1>5, SubSeqProperties
  <2>3. /\ (k + n) - (k + 1) + 1 = n /\ k + 1 <= k + n
        /\ \A j \in 1..n : (k + 1) + j - 1 = k + j
    BY <1>2, <1>5
  <2> QED  BY <2>2, <2>3 DEF Text
<1>9. b \in Text /\ Len(b) = k /\ \A j \in 1..k : b[j] = mess[j]
  <2>1. b = SubSeq(mess, 1, k)  BY <1>1, <1>2
  <2>2. \A j \in 1..k : mess[j] \in Byte
    <3>1. \A j \in 1..k : j \in 1..len  BY <1>2
    <3> QED  BY <3>1, <1>6
  <2>3. \A j \in 1..(k - 1 + 1) : b[j] = mess[1 + j - 1]
    BY <2>1, <2>2, <1>2, SubSeqProperties
  <2>4. k - 1 + 1 = k /\ \A j \in 1..k : 1 + j - 1 = j  BY <1>2
  <2>5. b \in Text /\ Len(b) = k  BY <1>2, <1>3 DEF Known
  <2> QED  BY <2>3, <2>4, <2>5
<1>10. Prefix(b, c)
  <2>1. k <= k + n /\ \A j \in 1..k : j \in 1..(k + n)  BY <1>2, <1>5
  <2> QED  BY <2>1, <1>7, <1>9 DEF Prefix
<1>11. \A j \in 1..n : c[k + j] = more[j]
  <2>1. \A j \in 1..n : k + j \in 1..(k + n)  BY <1>2, <1>5
  <2> QED  BY <2>1, <1>7, <1>8
<1>12. PICK fed : fed = Fed(p, more)  OBVIOUS
<1>13. /\ Shape(p) /\ Len(p.read_buf) = k /\ p.last <= READ_BUFFER_SIZE
       /\ ~cut => Scan(p, b) \/ Body(p, b)
  BY <1>2, <1>3 DEF Known
<1>14. Shape(fed) /\ Len(fed.read_buf) = k + n /\ fed.last = p.last
  BY <1>8, <1>12, <1>13, FedShape
<1>15. ~cut => Scan(fed, c) \/ Body(fed, c)
  <2>1. /\ Len(p.read_buf) = Len(b) /\ Len(c) = Len(b) + Len(more)
        /\ \A j \in 1..Len(more) : c[Len(b) + j] = more[j]
    BY <1>7, <1>8, <1>9, <1>11, <1>13
  <2>2. b \in Text /\ more \in Text /\ Shape(p)  BY <1>8, <1>9, <1>13
  <2> SUFFICES ASSUME ~cut  PROVE Scan(fed, c) \/ Body(fed, c)
    OBVIOUS
  <2>3. Scan(p, b) \/ Body(p, b)  BY <1>13
  <2>4. Scan(Fed(p, more), c) \/ Body(Fed(p, more), c)  BY <2>1, <2>2, <2>3, <1>10, FedKnown
  <2> QED  BY <2>4, <1>12
<1>16. PICK q, next, answer :
          /\ answer \in {"NO_REQUEST", "GET_REQUEST", "BAD_REQUEST"}
          /\ process_read(fed) = Result(q, next, answer)
          /\ Shape(q) /\ Len(q.read_buf) = Len(fed.read_buf)
          /\ q.last = fed.last \/ (chapter = 15 /\ q.last <= Len(fed.read_buf))
  BY <1>2, <1>14, ReadKeeps
<1>17. q.last <= READ_BUFFER_SIZE
  <2>1. q.last \in Nat  BY <1>16 DEF Shape, Parsers
  <2>2. READ_BUFFER_SIZE \in Nat  BY ParserAssumption
  <2>3. k + n <= READ_BUFFER_SIZE  BY <1>2
  <2> QED  BY <2>1, <2>2, <2>3, <1>5, <1>13, <1>14, <1>16
<1>18. /\ sent' = k + n /\ parser' = q /\ result' = answer
       /\ cut' = (cut \/ (answer = "NO_REQUEST" /\ q.state = "CONTENT" /\ Cut(c)))
       /\ chapter' = chapter /\ message' = mess
  <2>1. fed = [parser EXCEPT !.read_buf = @ \o SubSeq(message, sent + 1, sent + n)]
    BY <1>1, <1>2, <1>4, <1>12 DEF Fed
  <2>2. c = SubSeq(message, 1, sent + n)  BY <1>2, <1>4
  <2>3. process_read(fed).p = q /\ process_read(fed).answer = answer  BY <1>16 DEF Result
  <2> QED  BY <2>1, <2>2, <2>3, <1>2, <1>7 DEF Take, Cut
<1>19. ASSUME ~cut'
       PROVE  /\ answer = Computed(c)
              /\ answer = "GET_REQUEST" => (q.linger <=> Asked(c, Smallest(HeadEnds(c))))
              /\ answer = "NO_REQUEST" => Scan(q, c) \/ Body(q, c)
  <2>1. ~cut /\ ~(answer = "NO_REQUEST" /\ q.state = "CONTENT" /\ Cut(c))  BY <1>18, <1>19
  <2>2. Tracked(process_read(fed), c)  BY <2>1, <1>2, <1>15, ReadRight
  <2>3. PICK q2, next2, answer2 :
          /\ process_read(fed) = Result(q2, next2, answer2)
          /\ answer2 # "NONE" => Told(q2, answer2, c)
    BY <2>2 DEF Tracked
  <2>4. q2 = q /\ answer2 = answer
    <3>1. /\ Result(q, next, answer).p = q /\ Result(q, next, answer).answer = answer
          /\ Result(q2, next2, answer2).p = q2 /\ Result(q2, next2, answer2).answer = answer2
      BY DEF Result
    <3>2. Result(q, next, answer) = Result(q2, next2, answer2)  BY <2>3, <1>16
    <3> QED  BY <3>1, <3>2
  <2>5. Told(q, answer, c)  BY <2>3, <2>4, <1>16
  <2> QED  BY <2>1, <2>5 DEF Told
<1>20. Known(q, c)'
  <2>1. Shape(q)'  BY <1>16, <1>18, SameChapter
  <2>2. Computed(c)' = Computed(c)  BY <1>18, SameChapter
  <2>3. \A e : Asked(c, e)' <=> Asked(c, e)  BY <1>18, SameChapter
  <2>4. (Scan(q, c)' <=> Scan(q, c)) /\ (Body(q, c)' <=> Body(q, c))  BY <1>18, SameChapter
  <2>5. ~cut' => Fits(q, c)'
    BY <2>2, <2>3, <1>18, <1>19 DEF Fits
  <2>6. result' = "NO_REQUEST" /\ ~cut' => Scan(q, c)' \/ Body(q, c)'
    BY <2>4, <1>18, <1>19
  <2> QED  BY <2>1, <2>5, <2>6, <1>7, <1>14, <1>16, <1>17, <1>18 DEF Known, Text, Byte
<1>21. cut' \in BOOLEAN
  <2>1. cut \in BOOLEAN  BY DEF ParserInv
  <2> QED  BY <2>1, <1>18
<1>22. sent' \in 0..Len(message') /\ sent' <= READ_BUFFER_SIZE
  BY <1>2, <1>5, <1>18
<1>23. SubSeq(message', 1, sent') = c  BY <1>4, <1>18
<1>24. \A x, y : x = parser' /\ y = SubSeq(message', 1, sent') => Known(x, y)'
  BY <1>18, <1>20, <1>23
<1> QED  BY <1>2, <1>16, <1>18, <1>21, <1>22, <1>24 DEF ParserInv

LEMMA CloseKeeps ==
    ASSUME ParserInv, Close \/ UNCHANGED parserVars
    PROVE  ParserInv'
<1>1. /\ UNCHANGED <<chapter, message, sent, parser, cut>>
      /\ result' = "CLOSED" \/ result' = result
  BY DEF Close, parserVars
<1>2. PICK p, b : p = parser /\ b = SubSeq(message, 1, sent) /\ Known(p, b)
  BY DEF ParserInv
<1>3. Known(p, b)'
  <2>1. Shape(p)' /\ (Scan(p, b)' <=> Scan(p, b)) /\ (Body(p, b)' <=> Body(p, b))
    BY <1>1, <1>2, SameChapter DEF Known
  <2>2. ASSUME result' = result, Fits(p, b) PROVE Fits(p, b)'
    <3>1. Computed(b)' = Computed(b)  BY <1>1, SameChapter
    <3>2. \A e : Asked(b, e)' <=> Asked(b, e)  BY <1>1, SameChapter
    <3> QED  BY <2>2, <3>1, <3>2 DEF Fits
  <2> QED  BY <2>1, <2>2, <1>1, <1>2 DEF Known, Text, Byte
<1>4. \A x, y : x = parser' /\ y = SubSeq(message', 1, sent') => Known(x, y)'
  <2>1. parser' = p /\ SubSeq(message', 1, sent') = b  BY <1>1, <1>2
  <2> QED  BY <2>1, <1>3
<1>5. /\ chapter' \in {8, 15} /\ message' \in Messages /\ sent' \in 0..Len(message')
      /\ sent' <= READ_BUFFER_SIZE
      /\ result' \in {"NO_REQUEST", "GET_REQUEST", "BAD_REQUEST", "CLOSED"} /\ cut' \in BOOLEAN
  BY <1>1 DEF ParserInv
<1> QED  BY <1>4, <1>5 DEF ParserInv

LEMMA ParserStep == ParserInv /\ [ParserNext]_parserVars => ParserInv'
<1> SUFFICES ASSUME ParserInv, [ParserNext]_parserVars PROVE ParserInv'  OBVIOUS
<1>1. CASE UNCHANGED parserVars  BY <1>1, CloseKeeps
<1>2. CASE Close  BY <1>2, CloseKeeps
<1>3. ASSUME result = "NO_REQUEST", NEW n \in 1..(Len(message) - sent),
             ReadHttpConn(n) \/ ReadStateMachine(n), ~Close
      PROVE  ParserInv'
  <2>1. PICK k \in Nat, len \in Nat, size \in Nat :
           /\ k = sent /\ len = Len(message) /\ size = READ_BUFFER_SIZE
           /\ k = read_idx(parser) /\ n \in 1..(len - k) /\ k <= size
    <3>1. PICK p, b : p = parser /\ b = SubSeq(message, 1, sent)  OBVIOUS
    <3>2. Known(p, b)  BY <3>1 DEF ParserInv
    <3>3. Len(parser.read_buf) = sent  BY <3>1, <3>2 DEF Known
    <3>4. message \in Text /\ sent \in 0..Len(message) /\ sent <= READ_BUFFER_SIZE
      BY ParserAssumption DEF ParserInv, Text
    <3>5. Len(message) \in Nat /\ READ_BUFFER_SIZE \in Nat  BY <3>4, BreakIs, ParserAssumption
    <3> QED  BY <3>3, <3>4, <3>5 DEF read_idx
  <2>2. CASE ReadHttpConn(n)
    <3>1. chapter = 15 /\ Take(n) /\ ~(k + n > size)
      BY <2>1, <2>2, <1>3 DEF ReadHttpConn, Full
    <3>2. k + n <= size  BY <3>1, <2>1
    <3> QED  BY <3>1, <3>2, <2>1, <1>3, TakeKeeps
  <2>3. CASE ReadStateMachine(n)
    <3>1. PICK room \in Int : room = size - k  OBVIOUS
    <3>2. chapter = 8 /\ room # 0 /\ Take(Smallest({n, room}))
      BY <2>1, <2>3, <3>1, <1>3 DEF ReadStateMachine
    <3>3. n \in Nat /\ room \in Nat /\ n >= 1 /\ room >= 1 /\ k + room = size
      BY <2>1, <3>1, <3>2
    <3>4. PICK m \in {n, room} : m = Smallest({n, room}) /\ m <= n /\ m <= room
      <4>1. {n, room} \in SUBSET Nat /\ {n, room} # {}  BY <3>3
      <4>2. Smallest({n, room}) \in {n, room} /\ \A y \in {n, room} : Smallest({n, room}) <= y
        BY <4>1, SmallestIs
      <4> QED  BY <4>2
    <3>5. m \in 1..(len - k) /\ k + m <= size  BY <3>3, <3>4, <2>1
    <3>6. m \in 1..(Len(message) - sent) /\ sent + m <= READ_BUFFER_SIZE  BY <3>5, <2>1
    <3>7. Take(m)  BY <3>2, <3>4
    <3> QED  BY <3>2, <3>6, <3>7, <1>3, TakeKeeps
  <2> QED  BY <2>2, <2>3, <1>3
<1> QED  BY <1>1, <1>2, <1>3 DEF ParserNext

\* What a parser makes of the bytes is what they are, or one of the two cases.
LEMMA ComputedExpected ==
    ASSUME NEW b \in Text, chapter \in {8, 15}
    PROVE  \/ Computed(b) = Expected(b)
           \/ /\ chapter = 8 /\ Computed(b) = "BAD_REQUEST"
              /\ Breaks(b) # {} /\ FirstLine(b) = <<"spaces">>
           \/ /\ chapter = 15 /\ Computed(b) = "NO_REQUEST"
              /\ Misplaced(b) # {} /\ HeadEnds(b) = {}
<1>1. Wrong(b) = Bad(b) \/ (chapter = 15 /\ Wrong(b) = "NO_REQUEST" /\ Misplaced(b) # {})
  BY DEF Wrong, Bad
<1>2. CASE Breaks(b) = {} \/ \E m \in Misplaced(b) : m < Smallest(Breaks(b))
  <2>1. Computed(b) = Wrong(b) /\ Expected(b) = Bad(b)
    BY <1>2 DEF Computed, Expected
  <2>2. HeadEnds(b) = {}
    <3> SUFFICES ASSUME NEW e \in HeadEnds(b) PROVE FALSE  OBVIOUS
    <3>1. PICK j \in Breaks(b) : \A m \in Misplaced(b) : m > j
      BY DEF HeadEnds
    <3>2. PICK m \in Misplaced(b) : m < Smallest(Breaks(b))  BY <1>2, <3>1
    <3>3. PICK x \in Breaks(b) : x = Smallest(Breaks(b)) /\ x <= j
      BY <3>1, BreakIs, SmallestIs
    <3>4. j \in Nat /\ x \in Nat /\ m \in Nat  BY BreakIs
    <3> QED  BY <3>1, <3>2, <3>3, <3>4
  <2> QED  BY <2>1, <2>2, <1>1
<1>3. CASE ~(Breaks(b) = {} \/ \E m \in Misplaced(b) : m < Smallest(Breaks(b)))
  <2> DEFINE line == FirstLine(b)
  <2>1. Accepted(line) <=> RequestLine(line) /\ ~(chapter = 8 /\ line = <<"spaces">>)
    <3>1. <<"tabs">> # <<"spaces">>
      <4>1. <<"tabs">>[1] = "tabs" /\ <<"spaces">>[1] = "spaces"  OBVIOUS
      <4> QED  BY <4>1
    <3> HIDE DEF line
    <3> QED  BY <3>1 DEF Accepted, RequestLine
  <2>2. /\ Computed(b) = IF ~Accepted(line) THEN "BAD_REQUEST"
                         ELSE IF HeadEnds(b) = {} THEN Wrong(b)
                         ELSE IF Len(b) >= Smallest(HeadEnds(b)) + BodyLength(b, Smallest(HeadEnds(b)))
                              THEN "GET_REQUEST" ELSE "NO_REQUEST"
        /\ Expected(b) = IF ~RequestLine(line) THEN "BAD_REQUEST"
                         ELSE IF HeadEnds(b) = {} THEN Bad(b)
                         ELSE IF Len(b) >= Smallest(HeadEnds(b)) + BodyLength(b, Smallest(HeadEnds(b)))
                              THEN "GET_REQUEST" ELSE "NO_REQUEST"
    BY <1>3 DEF Computed, Expected
  <2>3. Breaks(b) # {}  BY <1>3
  <2>4. line = FirstLine(b)  OBVIOUS
  <2> HIDE DEF line
  <2> QED  BY <2>1, <2>2, <2>3, <2>4, <1>1
<1> QED  BY <1>2, <1>3

\* The invariant and the reference say the same.
LEMMA ParserAgrees == ParserInv => Agrees
<1> SUFFICES ASSUME ParserInv PROVE Agrees  OBVIOUS
<1>1. PICK p, b : p = parser /\ b = SubSeq(message, 1, sent) /\ Known(p, b)
  BY DEF ParserInv
<1>2. PICK n \in Nat, s \in Nat, c \in Nat :
         /\ n = Len(p.read_buf) /\ n = sent /\ s = p.start_line /\ c = p.checked_idx
         /\ s <= c /\ c <= n /\ p \in Parsers
  BY <1>1, LenProperties DEF Known, Shape, Parsers
<1>3. ParserTypeOK
  <2>1. /\ parser.state \in {"REQUESTLINE", "HEADER", "CONTENT"}
        /\ parser.content_length \in {0, ContentLength} /\ parser.linger \in BOOLEAN
    BY <1>1, <1>2 DEF Parsers
  <2>2. parser.start_line \in 0..parser.checked_idx /\ parser.checked_idx \in 0..read_idx(parser)
    BY <1>1, <1>2 DEF read_idx
  <2>3. read_idx(parser) <= READ_BUFFER_SIZE /\ parser.last <= READ_BUFFER_SIZE
    BY <1>1, <1>2 DEF read_idx, ParserInv, Known
  <2>4. /\ chapter \in {8, 15} /\ message \in Messages /\ sent \in 0..Len(message)
        /\ result \in {"NO_REQUEST", "GET_REQUEST", "BAD_REQUEST", "CLOSED"} /\ cut \in BOOLEAN
    BY DEF ParserInv
  <2> QED  BY <2>1, <2>2, <2>3, <2>4 DEF ParserTypeOK
<1>4. ASSUME result # "CLOSED", ~cut
      PROVE  /\ result = Computed(Received)
             /\ result = "GET_REQUEST" =>
                   parser.linger = (chapter = 15 /\ <<"linger">> \in Lines(Received, Smallest(HeadEnds(Received))))
  <2>1. Received = b  BY <1>1 DEF Received
  <2>2. Fits(p, b)  BY <1>1, <1>4 DEF Known
  <2>3. result = Computed(b)  BY <2>2 DEF Fits
  <2>4. ASSUME result = "GET_REQUEST"
        PROVE  parser.linger = (chapter = 15 /\ <<"linger">> \in Lines(b, Smallest(HeadEnds(b))))
    <3>1. parser.linger <=> (chapter = 15 /\ <<"linger">> \in Lines(b, Smallest(HeadEnds(b))))
      BY <2>2, <2>4, <1>1 DEF Fits, Asked
    <3>2. parser.linger \in BOOLEAN  BY <1>1, <1>2 DEF Parsers
    <3> QED  BY <3>1, <3>2
  <2> QED  BY <2>1, <2>3, <2>4
<1>5. ASSUME result # "CLOSED", ~cut
      PROVE  SpacesRefused \/ ErrorMissed \/ result = Expected(Received)
  <2>1. result = Computed(Received)  BY <1>4, <1>5
  <2>2. Received \in Text  BY <1>1 DEF Received, Known
  <2> QED  BY <2>1, <2>2, <1>3, ComputedExpected DEF SpacesRefused, ErrorMissed, ParserTypeOK
<1> QED  BY <1>3, <1>4, <1>5 DEF Agrees

\* Whatever a client sends, however long the body and the buffer are, and in
\* however many pieces the bytes of the head arrive, also between CR and LF:
\* both parsers give the answer that the bytes as a whole deserve, but for
\* blanks in chapter 8 and errors of lines in chapter 15, the server of chapter
\* 15 knows whether to keep the connection, and no index leaves the buffer.
THEOREM ParserAlwaysAgrees == ParserSpec => []Agrees
<1>1. ParserSpec => []ParserInv
  BY ParserStart, ParserStep, PTL DEF ParserSpec
<1> QED  BY <1>1, ParserAgrees, PTL

=============================================================================
