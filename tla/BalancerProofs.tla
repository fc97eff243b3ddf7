---------------------------- MODULE BalancerProofs ----------------------------
(***************************************************************************)
(* Theorems about Balancer for any number of children, of connections of a *)
(* child, of clients, and of children that exit on their own.              *)
(***************************************************************************)
EXTENDS Balancer, TLAPS, FiniteSetTheorems, SequenceTheorems

InBatch(ev) == \E k \in DOMAIN pbatch : pbatch[k] = ev
Told == {p \in Child \X (1..MaxClients) : p[2] <= jobs[p[1]]}
Edges == (IF LISTEN \in pready THEN 1 ELSE 0) + (IF InBatch(LISTEN) THEN 1 ELSE 0)

\* epoll_wait reports an event once.
Once == \A j, k \in DOMAIN pbatch : pbatch[j] = pbatch[k] => j = k

\* The process of a child takes all that is its own with it.
Gone == \A i \in Child : ~Running(i) => sessions[i] = 0 /\ jobs[i] = 0 /\ ~term[i]

\* Clients are counted: those that wait have arrived, and no child has more
\* messages than clients can have arrived.
Counted ==
    /\ backlog <= arrived /\ arrived <= MaxClients
    /\ \A i \in Child : jobs[i] <= MaxClients
    /\ Cardinality(Told) + Edges <= backlog

Heard ==
    /\ \A i \in Child : pid[i] = "exited" => "CHLD" \in sigs
    /\ sigs # {} => SIGNAL \in pready \/ InBatch(SIGNAL)
    /\ m_stop => \A i \in Child : pid[i] = "reaped"

Inv == TypeOK /\ Once /\ Gone /\ Counted /\ Heard

-----------------------------------------------------------------------------

LEMMA Constants ==
    /\ Child \subseteq Nat /\ LISTEN \notin Child /\ SIGNAL \notin Child /\ LISTEN # SIGNAL
    /\ LISTEN \in Events /\ SIGNAL \in Events /\ Child \subseteq Events
    /\ IsFiniteSet(Child) /\ MaxConn \in Nat /\ MaxClients \in Nat
<1>1. N \in Nat /\ N > 0 /\ MaxConn \in Nat /\ MaxClients \in Nat
  BY BalancerAssumption DEF BalancerAssumption
<1> QED  BY <1>1, FS_Interval DEF Child, LISTEN, SIGNAL, Events

(***************************************************************************)
(* Batches of events.                                                      *)
(***************************************************************************)
LEMMA OrderIs ==
    ASSUME NEW S, IsFiniteSet(S), NEW s \in Orders(S)
    PROVE  /\ s \in Seq(S) /\ \A x \in S : \E k \in DOMAIN s : s[k] = x
           /\ \A j, k \in DOMAIN s : s[j] = s[k] => j = k
<1> DEFINE n == Cardinality(S)
<1>1. n \in Nat /\ IsFiniteSet(1..n) /\ Cardinality(1..n) = n
  BY FS_CardinalityType, FS_Interval
<1>2. s \in [1..n -> S] /\ \A j, k \in DOMAIN s : s[j] = s[k] => j = k  BY DEF Orders
<1>3. s \in Injection(1..n, S)  BY <1>2 DEF Injection, IsInjective
<1>4. s \in Surjection(1..n, S)  BY <1>1, <1>3, FS_Injection
<1>5. \A x \in S : \E k \in 1..n : s[k] = x  BY <1>4 DEF Surjection
<1>6. s \in Seq(S)  BY <1>1, <1>2
<1> QED  BY <1>2, <1>5, <1>6

LEMMA Handled ==
    ASSUME TypeOK, Once, NEW ev, Handle(ev)
    PROVE  /\ pbatch' \in Seq(Events) /\ Once' /\ InBatch(ev) /\ ~InBatch(ev)'
           /\ \A e : e # ev => (InBatch(e)' <=> InBatch(e))
<1> DEFINE n == Len(pbatch)
<1>1. /\ pbatch \in Seq(Events) /\ n \in Nat /\ n > 0 /\ DOMAIN pbatch = 1..n
      /\ ev = pbatch[1] /\ pbatch' = Tail(pbatch)
  BY DEF Handle, TypeOK
<1>2. /\ DOMAIN pbatch' = 1..(n - 1) /\ pbatch' \in Seq(Events)
      /\ \A i \in 1..(n - 1) : pbatch'[i] = pbatch[i + 1]
  BY <1>1
<1> HIDE DEF n
<1>3. /\ \A i \in 1..(n - 1) : i + 1 \in 1..n /\ i + 1 # 1
      /\ \A i \in 1..n : i = 1 \/ \E j \in 1..(n - 1) : j + 1 = i
      /\ 1 \in 1..n /\ \A i, j \in 1..(n - 1) : i + 1 = j + 1 => i = j
  <2>1. \A i \in 1..n : i = 1 \/ (i - 1 \in 1..(n - 1) /\ (i - 1) + 1 = i)  BY <1>1
  <2> QED  BY <1>1, <2>1
<1>4. ASSUME NEW e, e # ev
      PROVE  InBatch(e)' <=> InBatch(e)
  <2>1. ASSUME NEW i \in 1..n, pbatch[i] = e
        PROVE  \E j \in 1..(n - 1) : pbatch'[j] = e
    <3>1. PICK j \in 1..(n - 1) : j + 1 = i  BY <1>1, <1>3, <1>4, <2>1
    <3> QED  BY <1>2, <2>1, <3>1
  <2>2. ASSUME NEW j \in 1..(n - 1), pbatch'[j] = e
        PROVE  \E i \in 1..n : pbatch[i] = e
    BY <1>2, <1>3, <2>2
  <2> QED  BY <1>1, <1>2, <2>1, <2>2 DEF InBatch
<1>5. Once'  BY <1>1, <1>2, <1>3 DEF Once
<1>6. InBatch(ev)  BY <1>1, <1>3 DEF InBatch
<1>7. ~InBatch(ev)'
  <2> SUFFICES ASSUME NEW j \in 1..(n - 1), pbatch'[j] = ev
               PROVE  FALSE
    BY <1>2 DEF InBatch
  <2>1. j + 1 \in 1..n /\ pbatch[j + 1] = ev /\ j + 1 # 1  BY <1>2, <1>3
  <2> QED  BY <1>1, <1>3, <2>1 DEF Once
<1> QED  BY <1>2, <1>4, <1>5, <1>6, <1>7

LEMMA SameBatch ==
    ASSUME pbatch' = pbatch
    PROVE  (Once' <=> Once) /\ \A e : InBatch(e)' <=> InBatch(e)
BY DEF Once, InBatch

LEMMA Reported ==
    ASSUME TypeOK, EpollWait
    PROVE  /\ pbatch' \in Seq(Events) /\ Once' /\ pready' = {} /\ pbatch = <<>>
           /\ \A e : InBatch(e)' <=> e \in pready /\ Readable(e)
<1> DEFINE S == {ev \in pready : Readable(ev)}
<1>1. pbatch' \in Orders(S) /\ pready' = {} /\ pbatch = <<>>  BY DEF EpollWait
<1>2. S \subseteq Events  BY DEF TypeOK
<1>3. IsFiniteSet(S)
  <2>1. IsFiniteSet(Events)
    <3>1. Events = (Child \cup {LISTEN}) \cup {SIGNAL}  BY DEF Events
    <3> QED  BY <3>1, Constants, FS_AddElement
  <2> QED  BY <1>2, <2>1, FS_Subset
<1>4. /\ pbatch' \in Seq(S) /\ \A x \in S : \E k \in DOMAIN pbatch' : pbatch'[k] = x
      /\ \A j, k \in DOMAIN pbatch' : pbatch'[j] = pbatch'[k] => j = k
  BY <1>1, <1>3, OrderIs
<1> HIDE DEF S
<1>5. pbatch' \in Seq(Events)
  <2>1. DOMAIN pbatch' = 1..Len(pbatch') /\ Len(pbatch') \in Nat
        /\ \A k \in DOMAIN pbatch' : pbatch'[k] \in S
    BY <1>4
  <2>2. pbatch' \in [1..Len(pbatch') -> Events]  BY <1>2, <1>4, <2>1
  <2> QED  BY <2>1, <2>2
<1>6. \A k \in DOMAIN pbatch' : pbatch'[k] \in S  BY <1>4
<1>7. \A e : InBatch(e)' <=> e \in S  BY <1>4, <1>6 DEF InBatch
<1> QED  BY <1>1, <1>4, <1>5, <1>7 DEF Once, S

(***************************************************************************)
(* The messages on their way.                                              *)
(***************************************************************************)
LEMMA ToldType ==
    /\ IsFiniteSet(Told) /\ Cardinality(Told) \in Nat
    /\ IsFiniteSet(Told') /\ Cardinality(Told') \in Nat
<1>1. IsFiniteSet(Child) /\ IsFiniteSet(1..MaxClients)  BY Constants, FS_Interval
<1>2. IsFiniteSet(Child \X (1..MaxClients))  BY <1>1, FS_Product
<1>3. IsFiniteSet(Told) /\ IsFiniteSet(Told')  BY <1>2, FS_Subset DEF Told
<1> QED  BY <1>3, FS_CardinalityType

\* Messages that are read, or lost with their child.
LEMMA ToldLess ==
    ASSUME TypeOK, TypeOK', \A i \in Child : jobs'[i] <= jobs[i]
    PROVE  Cardinality(Told') <= Cardinality(Told)
<1>1. Told' \subseteq Told
  <2> SUFFICES ASSUME NEW i \in Child, NEW k \in 1..MaxClients, k <= jobs'[i]
               PROVE  k <= jobs[i]
    BY DEF Told
  <2>1. k \in Nat /\ jobs[i] \in Nat /\ jobs'[i] \in Nat  BY Constants DEF TypeOK
  <2> QED  BY <2>1
<1> QED  BY <1>1, ToldType, FS_Subset

LEMMA ToldOneLess ==
    ASSUME TypeOK, NEW i \in Child, jobs[i] > 0, jobs[i] <= MaxClients,
           jobs' = [jobs EXCEPT ![i] = @ - 1]
    PROVE  Cardinality(Told') = Cardinality(Told) - 1
<1> DEFINE p == <<i, jobs[i]>>
<1>1. jobs \in [Child -> Nat] /\ jobs[i] \in 1..MaxClients  BY Constants DEF TypeOK
<1>2. p \in Told  BY <1>1 DEF Told
<1>3. \A k \in 1..MaxClients : k <= jobs'[i] <=> k <= jobs[i] /\ k # jobs[i]
  BY <1>1, Constants
<1>4. \A j \in Child \ {i} : jobs'[j] = jobs[j]  BY <1>1
<1>5. Told' = Told \ {p}
  <2>1. ASSUME NEW j \in Child, NEW k \in 1..MaxClients
        PROVE  k <= jobs'[j] <=> k <= jobs[j] /\ <<j, k>> # p
    BY <1>3, <1>4
  <2> QED  BY <2>1 DEF Told
<1> HIDE DEF p
<1> QED  BY <1>2, <1>5, ToldType, FS_RemoveElement

LEMMA ToldOneMore ==
    ASSUME TypeOK, NEW i, jobs' = [jobs EXCEPT ![i] = IF Running(i) THEN @ + 1 ELSE @]
    PROVE  Cardinality(Told') <= Cardinality(Told) + 1
<1>1. PICK p : p = <<i, jobs[i] + 1>>  OBVIOUS
<1>2. Told' \subseteq Told \cup {p}
  <2> SUFFICES ASSUME NEW j \in Child, NEW k \in 1..MaxClients, k <= jobs'[j]
               PROVE  k <= jobs[j] \/ <<j, k>> = p
    BY DEF Told
  <2>1. k \in Nat /\ jobs[j] \in Nat  BY Constants DEF TypeOK
  <2>2. CASE j # i  BY <2>2 DEF TypeOK
  <2>3. CASE j = i
    <3>1. jobs'[j] = jobs[j] \/ jobs'[j] = jobs[j] + 1  BY <2>3 DEF TypeOK
    <3> QED  BY <1>1, <2>1, <2>3, <3>1
  <2> QED  BY <2>2, <2>3
<1>3. IsFiniteSet(Told \cup {p}) /\ Cardinality(Told \cup {p}) <= Cardinality(Told) + 1
  <2>1. IsFiniteSet(Told) /\ Cardinality(Told) \in Nat  BY ToldType
  <2>2. /\ IsFiniteSet(Told \cup {p})
        /\ Cardinality(Told \cup {p}) = IF p \in Told THEN Cardinality(Told) ELSE Cardinality(Told) + 1
    BY <2>1, FS_AddElement
  <2> QED  BY <2>1, <2>2
<1>4. Cardinality(Told') <= Cardinality(Told \cup {p}) /\ Cardinality(Told \cup {p}) \in Nat
  BY <1>2, <1>3, FS_Subset, FS_CardinalityType
<1> QED  BY <1>3, <1>4, ToldType

\* A child has no more messages than are on their way to all of them.
LEMMA ToldCovers ==
    ASSUME TypeOK, NEW i \in Child, jobs[i] <= MaxClients
    PROVE  jobs[i] <= Cardinality(Told)
<1>1. jobs[i] \in Nat  BY DEF TypeOK
<1> DEFINE n == jobs[i]
           f == [k \in 1..n |-> <<i, k>>]
<1>2. IsFiniteSet(1..n) /\ Cardinality(1..n) = n
  <2>1. PICK m \in Nat : m = n  BY <1>1
  <2>2. IsFiniteSet(1..m) /\ Cardinality(1..m) = IF 1 > m THEN 0 ELSE m - 1 + 1
    <3>1. 1 \in Int /\ m \in Int  OBVIOUS
    <3> QED  BY ONLY <3>1, FS_Interval
  <2>3. m - 1 + 1 = m /\ (1 > m => m = 0)  BY <2>1
  <2>4. Cardinality(1..m) = m  BY <2>2, <2>3
  <2> QED  BY <2>1, <2>2, <2>4
<1>3. f \in Injection(1..n, Told)
  <2>1. \A k \in 1..n : k \in 1..MaxClients /\ k <= jobs[i]  BY <1>1, Constants
  <2>2. \A k \in 1..n : f[k] \in Told  BY <2>1 DEF Told
  <2> QED  BY <2>2 DEF Injection, IsInjective
<1> HIDE DEF f, n
<1>4. n <= Cardinality(Told)  BY <1>2, <1>3, ToldType, FS_Injection
<1> QED  BY <1>4 DEF n

-----------------------------------------------------------------------------

(***************************************************************************)
(* The types.                                                              *)
(***************************************************************************)
LEMMA InitInv == Init => Inv
<1> SUFFICES ASSUME Init PROVE Inv  OBVIOUS
<1>1. TypeOK
  <2>1. /\ pid \in [Child -> {"running", "exited", "reaped"}]
        /\ ratio \in [Child -> Int] /\ jobs \in [Child -> Nat]
        /\ wake \in [Child -> BOOLEAN] /\ term \in [Child -> BOOLEAN]
    BY DEF Init
  <2>2. sessions \in [Child -> 0..MaxConn]  BY Constants DEF Init
  <2>3. msgs \in [Child -> Seq(0..255)]  BY DEF Init
  <2>4. /\ backlog \in Nat /\ pready \subseteq Events /\ pbatch \in Seq(Events)
        /\ sigs \subseteq {"CHLD", "TERM"} /\ arrived \in Nat /\ ended \in Nat /\ crashed \in Nat
    BY DEF Init
  <2>5. m_stop \in BOOLEAN /\ done \in BOOLEAN /\ asked \in BOOLEAN  BY DEF Init
  <2> QED  BY <2>1, <2>2, <2>3, <2>4, <2>5 DEF TypeOK
<1>2. Once /\ \A e : ~InBatch(e)
  <2>1. DOMAIN pbatch = {}  BY DEF Init
  <2> QED  BY <2>1 DEF Once, InBatch
<1>3. Gone  BY DEF Gone, Init, Running
<1>4. Cardinality(Told) = 0
  <2>1. Told = {}
    <3> SUFFICES ASSUME NEW i \in Child, NEW k \in 1..MaxClients PROVE ~(k <= jobs[i])
      BY DEF Told
    <3>1. k \in Nat /\ k > 0  BY Constants
    <3> QED  BY <3>1 DEF Init
  <2> QED  BY <2>1, FS_EmptySet
<1>5. Edges = 0  BY <1>2 DEF Init, Edges
<1>6. Counted  BY <1>4, <1>5, Constants DEF Init, Counted
<1>7. Heard
  <2>1. \A i \in Child : pid[i] # "exited"  BY DEF Init
  <2>2. sigs = {} /\ ~m_stop  BY DEF Init
  <2> QED  BY <2>1, <2>2 DEF Heard
<1> QED  BY <1>1, <1>2, <1>3, <1>6, <1>7 DEF Inv

LEMMA NotifyTypes ==
    ASSUME TypeOK, NEW i \in Child, NEW n \in 0..MaxConn, NotifyParent(i, n)
    PROVE  /\ sessions' \in [Child -> 0..MaxConn] /\ msgs' \in [Child -> Seq(0..255)]
           /\ pready' \subseteq Events /\ pready' = pready \cup {i}
<1>1. n \in Nat  BY Constants
<1>2. PICK count \in get_used_conn_cnt(n) :
         msgs' = [msgs EXCEPT ![i] = Append(@, count % 256)]
  BY DEF NotifyParent
<1>3. PICK byte \in 0..255 : byte = count % 256
  <2>1. count \in Nat  BY <1>1, <1>2, Constants DEF get_used_conn_cnt
  <2>2. count % 256 \in 0..255  BY <2>1
  <2> QED  BY <2>2
<1>4. msgs' = [msgs EXCEPT ![i] = Append(@, byte)]  BY <1>2, <1>3
<1>5. Append(msgs[i], byte) \in Seq(0..255)  BY <1>3 DEF TypeOK
<1>6. msgs' \in [Child -> Seq(0..255)]  BY <1>4, <1>5 DEF TypeOK
<1> QED  BY <1>6, Constants DEF NotifyParent, TypeOK

LEMMA JobTypes ==
    ASSUME TypeOK, NEW i \in Child, TakeJob(i)
    PROVE  jobs' \in [Child -> Nat] /\ wake' \in [Child -> BOOLEAN]
<1>1. jobs[i] - 1 \in Nat  BY DEF TakeJob, TypeOK
<1> QED  BY <1>1 DEF TakeJob, TypeOK

LEMMA ExitTypes ==
    ASSUME TypeOK, NEW i \in Child, Exit(i)
    PROVE  /\ pid' \in [Child -> {"running", "exited", "reaped"}]
           /\ jobs' \in [Child -> Nat] /\ sessions' \in [Child -> 0..MaxConn]
           /\ wake' \in [Child -> BOOLEAN] /\ term' \in [Child -> BOOLEAN]
           /\ sigs' \subseteq {"CHLD", "TERM"} /\ pready' \subseteq Events
           /\ UNCHANGED <<ratio, msgs, backlog, pbatch, m_stop, done, arrived, ended, asked>>
<1>1. 0 \in 0..MaxConn  BY Constants
<1>2. pready' \subseteq Events  BY Constants DEF Exit, TypeOK
<1> QED  BY <1>1, <1>2 DEF Exit, TypeOK

LEMMA IntOfType ==
    ASSUME NEW s \in Seq(0..255)
    PROVE  IntOf(s) \in Int
<1> DEFINE b(k) == IF k <= Len(s) THEN s[k] ELSE 0
<1>1. ASSUME NEW k \in 1..4 PROVE b(k) \in Int
  <2>1. Len(s) \in Nat  BY LenProperties
  <2>2. CASE k <= Len(s)
    <3>1. k \in 1..Len(s)  BY <2>1, <2>2
    <3>2. s[k] \in 0..255  BY <3>1, ElementOfSeq
    <3>3. 0..255 \subseteq Int  OBVIOUS
    <3> QED  BY <2>2, <3>2, <3>3
  <2>3. CASE ~(k <= Len(s))  BY <2>3
  <2> QED  BY <2>2, <2>3
<1>2. IntOf(s) = b(1) + 256 * b(2) + 65536 * b(3)
                   + 16777216 * (IF b(4) > 127 THEN b(4) - 256 ELSE b(4))
  BY DEF IntOf
<1>3. b(1) \in Int /\ b(2) \in Int /\ b(3) \in Int /\ b(4) \in Int
  <2>1. 1 \in 1..4 /\ 2 \in 1..4 /\ 3 \in 1..4 /\ 4 \in 1..4  OBVIOUS
  <2> QED  BY ONLY <1>1, <2>1
<1> HIDE DEF b
<1>4. PICK w \in Int, x \in Int, y \in Int, z \in Int :
         w = b(1) /\ x = b(2) /\ y = b(3) /\ z = b(4)
  BY <1>3
<1>5. w + 256 * x + 65536 * y + 16777216 * (IF z > 127 THEN z - 256 ELSE z) \in Int
  <2>1. PICK v \in Int : v = IF z > 127 THEN z - 256 ELSE z  OBVIOUS
  <2>2. 256 * x \in Int /\ 65536 * y \in Int /\ 16777216 * v \in Int  OBVIOUS
  <2> QED  BY <2>1, <2>2
<1> QED  BY ONLY <1>2, <1>4, <1>5

LEMMA ParentTypes == ASSUME TypeOK, Once, Parent PROVE TypeOK'
<1> USE DEF childVars
<1>1. CASE EpollWait
  <2>1. pbatch' \in Seq(Events) /\ pready' = {}  BY <1>1, Reported
  <2> QED  BY <1>1, <2>1 DEF EpollWait, TypeOK
<1>2. CASE Dispatch
  <2>1. PICK i : /\ jobs' = [jobs EXCEPT ![i] = IF Running(i) THEN @ + 1 ELSE @]
                 /\ wake' = [wake EXCEPT ![i] = @ \/ Running(i)]
    BY <1>2 DEF Dispatch
  <2>2. jobs' \in [Child -> Nat]
    <3>1. jobs' = [jobs EXCEPT ![i] = @ + 1] \/ jobs' = [jobs EXCEPT ![i] = @]
      BY <2>1 DEF Running
    <3>2. \A j \in Child : jobs[j] \in Nat /\ jobs[j] + 1 \in Nat  BY DEF TypeOK
    <3>3. \A j \in Child : jobs'[j] \in {jobs[j], jobs[j] + 1}  BY <3>1 DEF TypeOK
    <3>4. jobs' = [j \in Child |-> jobs'[j]]  BY <3>1 DEF TypeOK
    <3> QED  BY <3>2, <3>3, <3>4
  <2>3. wake' \in [Child -> BOOLEAN]  BY <2>1 DEF TypeOK, Running
  <2>4. pbatch' \in Seq(Events)  BY <1>2, Handled DEF Dispatch
  <2> QED  BY <1>2, <2>2, <2>3, <2>4 DEF Dispatch, TypeOK
<1>3. ASSUME NEW i \in Child, ReadRatio(i)
      PROVE  TypeOK'
  <2>1. pbatch' \in Seq(Events)  BY <1>3, Handled DEF ReadRatio
  <2>2. ratio' \in [Child -> Int] /\ msgs' \in [Child -> Seq(0..255)]
    <3> PICK s : s = msgs[i]  OBVIOUS
    <3>1. s \in Seq(0..255)  BY DEF TypeOK
    <3>2. Len(s) \in Nat  BY <3>1, LenProperties
    <3>3. SubSeq(s, 5, Len(s)) \in Seq(0..255)
      <4>1. \A k \in 5..Len(s) : k \in 1..Len(s)  BY <3>2
      <4>2. \A k \in 5..Len(s) : s[k] \in 0..255  BY <3>1, <4>1, ElementOfSeq
      <4> QED  BY <3>2, <4>2, SubSeqProperties
    <3>4. IntOf(s) \in Int  BY <3>1, IntOfType
    <3>5. \/ ratio' = [ratio EXCEPT ![i] = IntOf(s)] /\ msgs' = [msgs EXCEPT ![i] = SubSeq(s, 5, Len(s))]
          \/ UNCHANGED <<ratio, msgs>>
      BY <1>3 DEF ReadRatio
    <3>6. ratio' \in [Child -> Int]  BY <3>4, <3>5 DEF TypeOK
    <3>7. msgs' \in [Child -> Seq(0..255)]
      <4> PICK q \in Seq(0..255) : q = SubSeq(s, 5, Len(s))  BY <3>3
      <4>1. msgs \in [Child -> Seq(0..255)]  BY DEF TypeOK
      <4>2. msgs' = [msgs EXCEPT ![i] = q] \/ msgs' = msgs  BY <3>5
      <4> QED  BY <4>1, <4>2
    <3> QED  BY <3>6, <3>7
  <2> QED  BY <1>3, <2>1, <2>2 DEF ReadRatio, TypeOK
<1>4. CASE Signals
  <2>1. pbatch' \in Seq(Events)  BY <1>4, Handled DEF Signals
  <2>2. pid' \in [Child -> {"running", "exited", "reaped"}] /\ m_stop' \in BOOLEAN
    <3>1. Reap \/ UNCHANGED <<pid, m_stop>>  BY <1>4 DEF Signals
    <3>2. CASE Reap
      <4>1. pid' = [j \in Child |-> IF pid[j] = "exited" THEN "reaped" ELSE pid[j]]
            /\ m_stop' = \A j \in Child : pid'[j] = "reaped"
        BY <3>2 DEF Reap
      <4>2. \A j \in Child : pid[j] \in {"running", "exited", "reaped"}  BY DEF TypeOK
      <4>3. m_stop' \in BOOLEAN  BY <4>1
      <4> QED  BY <4>1, <4>2, <4>3
    <3>3. CASE UNCHANGED <<pid, m_stop>>  BY <3>3 DEF TypeOK
    <3> QED  BY <3>1, <3>2, <3>3
  <2>3. term' \in [Child -> BOOLEAN]
    <3>1. CASE "TERM" \in sigs
      <4>1. term' = [j \in Child |-> term[j] \/ Running(j)]  BY <1>4, <3>1 DEF Signals, Forward
      <4>2. \A j \in Child : (term[j] \/ Running(j)) \in BOOLEAN  OBVIOUS
      <4> QED  BY <4>1, <4>2
    <3>2. CASE "TERM" \notin sigs  BY <1>4, <3>2 DEF Signals, TypeOK
    <3> QED  BY <3>1, <3>2
  <2> QED  BY <1>4, <2>1, <2>2, <2>3 DEF Signals, TypeOK
<1>5. CASE Return  BY <1>5 DEF Return, TypeOK
<1> QED  BY <1>1, <1>2, <1>3, <1>4, <1>5 DEF Parent

LEMMA ChildTypes ==
    ASSUME TypeOK, NEW i \in Child, ChildJob(i) \/ EndSession(i) \/ ChildStop(i) \/ Crash(i)
    PROVE  TypeOK'
<1> USE DEF childVars, parentVars
<1>1. sessions[i] \in 0..MaxConn /\ MaxConn \in Nat  BY Constants DEF TypeOK
<1>2. CASE ChildAccept(i)
  <2>1. sessions[i] + 1 \in 0..MaxConn  BY <1>1, <1>2 DEF ChildAccept
  <2>2. /\ sessions' \in [Child -> 0..MaxConn] /\ msgs' \in [Child -> Seq(0..255)]
        /\ pready' \subseteq Events
    BY <1>2, <2>1, NotifyTypes DEF ChildAccept
  <2>3. jobs' \in [Child -> Nat] /\ wake' \in [Child -> BOOLEAN]
    BY <1>2, JobTypes DEF ChildAccept
  <2>4. backlog' \in Nat  BY <1>2 DEF ChildAccept, TypeOK
  <2> QED  BY <1>2, <2>2, <2>3, <2>4 DEF ChildAccept, TypeOK
<1>3. CASE ChildReject(i)
  <2>1. jobs' \in [Child -> Nat] /\ wake' \in [Child -> BOOLEAN]
    BY <1>3, JobTypes DEF ChildReject
  <2>2. backlog' \in Nat  BY <1>3 DEF ChildReject, TypeOK
  <2> QED  BY <1>3, <2>1, <2>2 DEF ChildReject, TypeOK
<1>4. CASE ChildAcceptFails(i)
  <2>1. jobs' \in [Child -> Nat] /\ wake' \in [Child -> BOOLEAN]
    BY <1>4, JobTypes DEF ChildAcceptFails
  <2> QED  BY <1>4, <2>1 DEF ChildAcceptFails, TypeOK
<1>5. CASE EndSession(i)
  <2>1. sessions[i] - 1 \in 0..MaxConn  BY <1>1, <1>5 DEF EndSession
  <2>2. /\ sessions' \in [Child -> 0..MaxConn] /\ msgs' \in [Child -> Seq(0..255)]
        /\ pready' \subseteq Events
    BY <1>5, <2>1, NotifyTypes DEF EndSession
  <2> QED  BY <1>5, <2>2 DEF EndSession, TypeOK
<1>8. ASSUME Exit(i), crashed' \in Nat
      PROVE  TypeOK'
  <2>1. /\ pid' \in [Child -> {"running", "exited", "reaped"}]
        /\ jobs' \in [Child -> Nat] /\ sessions' \in [Child -> 0..MaxConn]
        /\ wake' \in [Child -> BOOLEAN] /\ term' \in [Child -> BOOLEAN]
        /\ sigs' \subseteq {"CHLD", "TERM"} /\ pready' \subseteq Events
    BY <1>8, ExitTypes
  <2>2. UNCHANGED <<ratio, msgs, backlog, pbatch, m_stop, done, arrived, ended, asked>>
    BY <1>8 DEF Exit
  <2> QED  BY <1>8, <2>1, <2>2 DEF TypeOK
<1>6. CASE ChildStop(i)
  <2>1. Exit(i) /\ crashed' \in Nat  BY <1>6 DEF ChildStop, TypeOK
  <2> QED  BY <1>8, <2>1
<1>7. CASE Crash(i)
  <2>1. Exit(i) /\ crashed' \in Nat  BY <1>7 DEF Crash, TypeOK
  <2> QED  BY <1>8, <2>1
<1> QED  BY <1>2, <1>3, <1>4, <1>5, <1>6, <1>7 DEF ChildJob

LEMMA NextTypes == ASSUME TypeOK, Once, [Next]_vars PROVE TypeOK'
<1> USE DEF childVars
<1>1. CASE Arrive
  <2>1. pready' \subseteq Events  BY <1>1, Constants DEF Arrive, TypeOK
  <2> QED  BY <1>1, <2>1 DEF Arrive, TypeOK
<1>2. CASE AskStop
  <2>1. pready' \subseteq Events  BY <1>2, Constants DEF AskStop, TypeOK
  <2> QED  BY <1>2, <2>1 DEF AskStop, TypeOK
<1>3. CASE UNCHANGED vars  BY <1>3 DEF vars, TypeOK
<1> QED  BY <1>1, <1>2, <1>3, ParentTypes, ChildTypes DEF Next

-----------------------------------------------------------------------------

(***************************************************************************)
(* A child that is gone leaves nothing, and its SIGCHLD is heard.          *)
(***************************************************************************)
LEMMA OnceNext == ASSUME TypeOK, Once, [Next]_vars PROVE Once'
<1> USE DEF childVars, parentVars
<1>1. CASE UNCHANGED pbatch  BY <1>1, SameBatch
<1>2. CASE EpollWait  BY <1>2, Reported
<1>3. ASSUME NEW ev, Handle(ev) PROVE Once'  BY <1>3, Handled
<1> QED
  BY <1>1, <1>2, <1>3 DEF Next, Parent, ChildJob, EndSession, ChildStop, Crash, Exit, ChildAccept,
     ChildReject, ChildAcceptFails, Arrive, AskStop, Dispatch, ReadRatio, Signals, Return, vars

LEMMA GoneNext == ASSUME TypeOK, Gone, [Next]_vars PROVE Gone'
<1> USE DEF childVars, parentVars
<1> SUFFICES ASSUME NEW i \in Child, ~Running(i)'
             PROVE  sessions'[i] = 0 /\ jobs'[i] = 0 /\ ~term'[i]
  BY DEF Gone
<1>1. ASSUME ~Running(i), sessions'[i] = sessions[i], jobs'[i] = jobs[i], term'[i] = term[i]
      PROVE  sessions'[i] = 0 /\ jobs'[i] = 0 /\ ~term'[i]
  BY <1>1 DEF Gone
<1>2. ASSUME NEW j \in Child, Running(j), UNCHANGED pid,
             \A k \in Child \ {j} : sessions'[k] = sessions[k] /\ jobs'[k] = jobs[k] /\ term'[k] = term[k]
      PROVE  sessions'[i] = 0 /\ jobs'[i] = 0 /\ ~term'[i]
  BY <1>1, <1>2 DEF Running
<1>3. ASSUME NEW j \in Child, ChildJob(j) \/ EndSession(j)
      PROVE  sessions'[i] = 0 /\ jobs'[i] = 0 /\ ~term'[i]
  <2>1. Running(j) /\ UNCHANGED pid
    BY <1>3 DEF ChildJob, ChildAccept, ChildReject, ChildAcceptFails, EndSession, TakeJob
  <2>2. \A k \in Child \ {j} : sessions'[k] = sessions[k] /\ jobs'[k] = jobs[k] /\ term'[k] = term[k]
    <3>1. term' = term
      BY <1>3 DEF ChildJob, ChildAccept, ChildReject, ChildAcceptFails, EndSession, TakeJob
    <3>2. jobs' = [jobs EXCEPT ![j] = @ - 1] \/ jobs' = jobs
      BY <1>3 DEF ChildJob, ChildAccept, ChildReject, ChildAcceptFails, EndSession, TakeJob
    <3>3. (\E n : sessions' = [sessions EXCEPT ![j] = n]) \/ sessions' = sessions
      BY <1>3 DEF ChildJob, ChildAccept, ChildReject, ChildAcceptFails, EndSession, NotifyParent
    <3>4. jobs \in [Child -> Nat] /\ sessions \in [Child -> 0..MaxConn]  BY DEF TypeOK
    <3>5. \A k \in Child \ {j} : jobs'[k] = jobs[k]  BY <3>2, <3>4
    <3>6. \A k \in Child \ {j} : sessions'[k] = sessions[k]  BY <3>3, <3>4
    <3> QED  BY <3>1, <3>5, <3>6
  <2> QED  BY <1>2, <2>1, <2>2
<1>4. ASSUME NEW j \in Child, ChildStop(j) \/ Crash(j)
      PROVE  sessions'[i] = 0 /\ jobs'[i] = 0 /\ ~term'[i]
  <2>1. Exit(j)  BY <1>4 DEF ChildStop, Crash
  <2>2. CASE i = j  BY <2>1, <2>2 DEF Exit, TypeOK
  <2>3. CASE i # j  BY <1>1, <2>1, <2>3 DEF Exit, TypeOK, Running
  <2> QED  BY <2>2, <2>3
<1>5. CASE Dispatch
  <2>1. PICK n : jobs' = [jobs EXCEPT ![n] = IF Running(n) THEN @ + 1 ELSE @]
    BY <1>5 DEF Dispatch
  <2>2. UNCHANGED <<pid, sessions, term>> /\ ~Running(i)  BY <1>5 DEF Dispatch, Running
  <2>3. jobs'[i] = jobs[i]  BY <2>1, <2>2 DEF TypeOK
  <2> QED  BY <1>1, <2>2, <2>3
<1>6. CASE Signals
  <2>1. UNCHANGED <<sessions, jobs>>  BY <1>6 DEF Signals
  <2>2. ~Running(i)
    <3>1. pid' = pid \/ Reap  BY <1>6 DEF Signals
    <3> QED  BY <3>1 DEF Reap, Running, TypeOK
  <2>3. term'[i] = term[i]
    <3>1. CASE "TERM" \in sigs
      <4>1. term'[i] = (term[i] \/ Running(i))  BY <1>6, <3>1 DEF Signals, Forward
      <4>2. ~term[i]  BY <2>2 DEF Gone
      <4>3. term[i] \in BOOLEAN  BY DEF TypeOK
      <4> QED  BY <2>2, <4>1, <4>2, <4>3
    <3>2. CASE "TERM" \notin sigs  BY <1>6, <3>2 DEF Signals
    <3> QED  BY <3>1, <3>2
  <2> QED  BY <1>1, <2>1, <2>2, <2>3
<1>7. CASE UNCHANGED <<pid, childVars>>  BY <1>1, <1>7 DEF Running
<1>8. CASE EpollWait \/ Return  BY <1>7, <1>8 DEF EpollWait, Return
<1>9. ASSUME NEW j \in Child, ReadRatio(j)
      PROVE  sessions'[i] = 0 /\ jobs'[i] = 0 /\ ~term'[i]
  BY <1>7, <1>9 DEF ReadRatio
<1>10. CASE Arrive \/ AskStop \/ UNCHANGED vars  BY <1>7, <1>10 DEF Arrive, AskStop, vars
<1> QED  BY <1>3, <1>4, <1>5, <1>6, <1>8, <1>9, <1>10 DEF Next, Parent

\* An event that is not the parent's signals.
LEMMA StillHeard ==
    ASSUME TypeOK, Heard, UNCHANGED <<pid, sigs, m_stop>>,
           SIGNAL \in pready \/ InBatch(SIGNAL) => SIGNAL \in pready' \/ InBatch(SIGNAL)'
    PROVE  Heard'
BY DEF Heard

LEMMA HeardNext == ASSUME TypeOK, Once, Heard, [Next]_vars PROVE Heard'
<1> USE DEF childVars, parentVars
<1>1. ASSUME NEW i \in Child, ChildStop(i) \/ Crash(i)
      PROVE  Heard'
  <2>1. Exit(i) /\ Running(i)  BY <1>1 DEF ChildStop, Crash
  <2>2. "CHLD" \in sigs' /\ SIGNAL \in pready'  BY <2>1 DEF Exit
  <2>3. ~m_stop /\ m_stop' = m_stop  BY <2>1 DEF Exit, Heard, Running
  <2> QED  BY <2>2, <2>3 DEF Heard
<1>2. CASE Signals
  <2>1. sigs' = {}  BY <1>2 DEF Signals
  <2>2. \A i \in Child : pid'[i] # "exited"
    <3>1. CASE "CHLD" \in sigs  BY <1>2, <3>1 DEF Signals, Reap, TypeOK
    <3>2. CASE "CHLD" \notin sigs  BY <1>2, <3>2 DEF Signals, Heard
    <3> QED  BY <3>1, <3>2
  <2>3. m_stop' => \A i \in Child : pid'[i] = "reaped"
    <3>1. CASE "CHLD" \in sigs  BY <1>2, <3>1 DEF Signals, Reap
    <3>2. CASE "CHLD" \notin sigs  BY <1>2, <3>2 DEF Signals, Heard
    <3> QED  BY <3>1, <3>2
  <2> QED  BY <2>1, <2>2, <2>3 DEF Heard
<1>3. CASE AskStop
  <2>1. SIGNAL \in pready' /\ sigs' = sigs \cup {"TERM"} /\ UNCHANGED <<pid, m_stop>>
    BY <1>3 DEF AskStop
  <2> QED  BY <2>1 DEF Heard
<1>4. CASE EpollWait
  <2>1. UNCHANGED <<pid, sigs, m_stop>>  BY <1>4 DEF EpollWait
  <2>2. SIGNAL \in pready \/ InBatch(SIGNAL) => sigs = {} \/ InBatch(SIGNAL)'
    <3>1. ~InBatch(SIGNAL)  BY <1>4, Reported DEF InBatch
    <3>2. SIGNAL \in pready /\ sigs # {} => InBatch(SIGNAL)'  BY <1>4, Reported DEF Readable
    <3> QED  BY <3>1, <3>2
  <2> QED  BY <2>1, <2>2 DEF Heard
<1>5. ASSUME NEW ev \in Events, Handle(ev), ev # SIGNAL, UNCHANGED <<pid, sigs, m_stop, pready>>
      PROVE  Heard'
  <2>1. InBatch(SIGNAL)' <=> InBatch(SIGNAL)  BY <1>5, Handled
  <2> QED  BY <1>5, <2>1, StillHeard
<1>6. CASE Dispatch  BY <1>5, <1>6, Constants DEF Dispatch
<1>7. ASSUME NEW i \in Child, ReadRatio(i) PROVE Heard'
  BY <1>5, <1>7, Constants DEF ReadRatio
<1>8. CASE UNCHANGED <<pid, sigs, m_stop, pbatch>> /\ pready \subseteq pready'
  BY <1>8, SameBatch, StillHeard
<1>9. ASSUME NEW i \in Child, ChildJob(i) \/ EndSession(i) PROVE Heard'
  BY <1>8, <1>9 DEF ChildJob, ChildAccept, ChildReject, ChildAcceptFails, EndSession, NotifyParent
<1>10. CASE Arrive \/ Return \/ UNCHANGED vars  BY <1>8, <1>10 DEF Arrive, Return, vars
<1> QED  BY <1>1, <1>2, <1>3, <1>4, <1>6, <1>7, <1>9, <1>10 DEF Next, Parent

-----------------------------------------------------------------------------

(***************************************************************************)
(* Messages, edges and clients.                                            *)
(***************************************************************************)
LEMMA SameEdges ==
    ASSUME LISTEN \in pready' <=> LISTEN \in pready, InBatch(LISTEN)' <=> InBatch(LISTEN)
    PROVE  Edges' = Edges
BY DEF Edges

\* A step after which no more messages are on their way than before.
LEMMA FewerTold ==
    ASSUME TypeOK, TypeOK', Counted, \A i \in Child : jobs'[i] <= jobs[i],
           UNCHANGED arrived, backlog' = backlog, Edges' <= Edges
    PROVE  Counted'
<1>1. Cardinality(Told') <= Cardinality(Told)  BY ToldLess
<1>2. Cardinality(Told) \in Nat /\ Cardinality(Told') \in Nat  BY ToldType
<1>3. Edges \in Nat /\ Edges' \in Nat  BY DEF Edges
<1>4. Cardinality(Told') + Edges' <= backlog'
  BY <1>1, <1>2, <1>3 DEF Counted, TypeOK
<1>5. ASSUME NEW i \in Child  PROVE jobs'[i] <= MaxClients
  <2>1. jobs[i] \in Nat /\ jobs'[i] \in Nat /\ MaxClients \in Nat  BY Constants DEF TypeOK
  <2>2. jobs'[i] <= jobs[i] /\ jobs[i] <= MaxClients  BY DEF Counted
  <2> QED  BY <2>1, <2>2
<1> QED  BY <1>4, <1>5 DEF Counted

\* A child takes a message and a client.
LEMMA ClientTaken ==
    ASSUME TypeOK, TypeOK', Counted, NEW i \in Child, TakeJob(i), backlog > 0,
           backlog' = backlog - 1, UNCHANGED arrived, Edges' = Edges
    PROVE  Counted'
<1>1. /\ jobs[i] > 0 /\ jobs[i] <= MaxClients /\ jobs' = [jobs EXCEPT ![i] = @ - 1]
  BY DEF TakeJob, Counted
<1>2. Cardinality(Told') = Cardinality(Told) - 1  BY <1>1, ToldOneLess
<1>3. Cardinality(Told) \in Nat /\ Edges \in Nat  BY ToldType DEF Edges
<1>4. Cardinality(Told') + Edges' <= backlog'
  <2>1. PICK t \in Nat, e \in Nat, b \in Nat : t = Cardinality(Told) /\ e = Edges /\ b = backlog
    BY <1>3 DEF TypeOK
  <2>2. t + e <= b  BY <2>1 DEF Counted
  <2>3. (t - 1) + e <= b - 1  BY <2>2
  <2> QED  BY <1>2, <2>1, <2>3
<1>5. \A j \in Child : jobs'[j] <= MaxClients
  <2>1. \A j \in Child : jobs[j] \in Nat /\ jobs'[j] \in {jobs[j], jobs[j] - 1}  BY <1>1 DEF TypeOK
  <2> QED  BY <2>1, Constants DEF Counted
<1>6. backlog' <= arrived' /\ arrived' <= MaxClients  BY Constants DEF Counted, TypeOK
<1> QED  BY <1>4, <1>5, <1>6 DEF Counted

LEMMA CountedNext == ASSUME TypeOK, TypeOK', Once, Gone, Counted, [Next]_vars PROVE Counted'
<1> USE DEF childVars, parentVars
<1>1. \A i \in Child : jobs[i] <= jobs[i]  BY DEF TypeOK
<1>2. ASSUME UNCHANGED <<jobs, backlog, arrived>>, Edges' <= Edges PROVE Counted'
  BY <1>1, <1>2, FewerTold
<1>3. Edges <= Edges /\ Edges \in Nat  BY DEF Edges
<1>4. ASSUME NEW ev \in Events, Handle(ev), ev # LISTEN, UNCHANGED <<jobs, backlog, arrived, pready>>
      PROVE  Counted'
  <2>1. InBatch(LISTEN)' <=> InBatch(LISTEN)  BY <1>4, Handled
  <2>2. Edges' = Edges  BY <1>4, <2>1, SameEdges
  <2> QED  BY <1>2, <1>3, <1>4, <2>2
<1>5. ASSUME NEW i \in Child, pready' \in {pready, pready \cup {i}}, UNCHANGED pbatch
      PROVE  Edges' = Edges
  <2>1. i # LISTEN  BY Constants
  <2> QED  BY <1>5, <2>1, SameBatch, SameEdges
<1>6. CASE EpollWait
  <2>1. ~InBatch(LISTEN) /\ (InBatch(LISTEN)' => LISTEN \in pready) /\ LISTEN \notin pready'
    BY <1>6, Reported DEF InBatch
  <2>2. Edges' <= Edges  BY <2>1 DEF Edges
  <2> QED  BY <1>2, <1>6, <2>2 DEF EpollWait
<1>7. CASE Dispatch
  <2>1. PICK n : jobs' = [jobs EXCEPT ![n] = IF Running(n) THEN @ + 1 ELSE @]
    BY <1>7 DEF Dispatch
  <2>2. UNCHANGED <<backlog, arrived, pready>> /\ Handle(LISTEN)  BY <1>7 DEF Dispatch
  <2>3. InBatch(LISTEN) /\ ~InBatch(LISTEN)'  BY <2>2, Handled
  <2>4. Edges' = Edges - 1  BY <2>2, <2>3 DEF Edges
  <2>5. Cardinality(Told') <= Cardinality(Told) + 1  BY <2>1, ToldOneMore
  <2>6. Cardinality(Told) \in Nat /\ Edges \in Nat /\ Edges >= 1  BY <2>3, ToldType DEF Edges
  <2>7. \A j \in Child : jobs'[j] <= MaxClients
    <3> SUFFICES ASSUME NEW j \in Child PROVE jobs'[j] <= MaxClients  OBVIOUS
    <3>1. jobs[j] <= Cardinality(Told) /\ jobs[j] \in Nat  BY ToldCovers DEF Counted, TypeOK
    <3>2. Cardinality(Told) + 1 <= MaxClients
      <4>1. /\ Cardinality(Told) + Edges <= backlog /\ backlog <= arrived /\ arrived <= MaxClients
            /\ backlog \in Nat /\ arrived \in Nat
        BY DEF Counted, TypeOK
      <4> QED  BY <2>6, <4>1, Constants
    <3>3. jobs'[j] \in {jobs[j], jobs[j] + 1}  BY <2>1 DEF TypeOK
    <3> QED  BY <2>6, <3>1, <3>2, <3>3, Constants
  <2>8. Cardinality(Told') \in Nat  BY ToldType
  <2>9. Cardinality(Told') + Edges' <= backlog'  BY <2>2, <2>4, <2>5, <2>6, <2>8 DEF Counted, TypeOK
  <2> QED  BY <2>2, <2>7, <2>9 DEF Counted
<1>8. ASSUME NEW i \in Child, ReadRatio(i) PROVE Counted'
  BY <1>4, <1>8, Constants DEF ReadRatio
<1>9. CASE Signals  BY <1>4, <1>9, Constants DEF Signals
<1>10. CASE Return \/ UNCHANGED vars
  <2>1. UNCHANGED <<jobs, backlog, arrived, pready, pbatch>>  BY <1>10 DEF Return, vars
  <2>2. Edges' = Edges  BY <2>1, SameBatch, SameEdges
  <2> QED  BY <1>2, <1>3, <2>1, <2>2
<1>11. CASE AskStop
  <2>1. UNCHANGED <<jobs, backlog, arrived, pbatch>> /\ pready' = pready \cup {SIGNAL}
    BY <1>11 DEF AskStop
  <2>2. Edges' = Edges  BY <2>1, Constants, SameBatch, SameEdges
  <2> QED  BY <1>2, <1>3, <2>1, <2>2
<1>12. CASE Arrive
  <2>1. /\ UNCHANGED <<jobs, pbatch>> /\ arrived < MaxClients /\ arrived' = arrived + 1
        /\ backlog' = backlog + 1 /\ pready' = pready \cup {LISTEN}
    BY <1>12 DEF Arrive
  <2>2. Edges' <= Edges + 1  BY <2>1, SameBatch DEF Edges
  <2>3. Told' = Told  BY <2>1 DEF Told
  <2>4. Cardinality(Told) \in Nat /\ Edges \in Nat /\ Edges' \in Nat  BY ToldType DEF Edges
  <2>5. Cardinality(Told') + Edges' <= backlog'  BY <2>1, <2>2, <2>3, <2>4 DEF Counted, TypeOK
  <2>6. backlog' <= arrived' /\ arrived' <= MaxClients  BY <2>1, Constants DEF Counted, TypeOK
  <2> QED  BY <2>1, <2>5, <2>6 DEF Counted
<1>13. ASSUME NEW i \in Child, ChildAccept(i) \/ ChildReject(i) PROVE Counted'
  <2>1. Edges' = Edges  BY <1>5, <1>13 DEF ChildAccept, ChildReject, NotifyParent
  <2>2. TakeJob(i) /\ backlog > 0 /\ backlog' = backlog - 1 /\ UNCHANGED arrived
    BY <1>13 DEF ChildAccept, ChildReject
  <2> QED  BY <2>1, <2>2, ClientTaken
<1>14. ASSUME NEW i \in Child, ChildAcceptFails(i) PROVE Counted'
  <2>1. Edges' = Edges  BY <1>5, <1>14 DEF ChildAcceptFails
  <2>2. \A j \in Child : jobs'[j] <= jobs[j]  BY <1>14 DEF ChildAcceptFails, TakeJob, TypeOK
  <2> QED  BY <1>3, <1>14, <2>1, <2>2, FewerTold DEF ChildAcceptFails
<1>15. ASSUME NEW i \in Child, EndSession(i) PROVE Counted'
  <2>1. Edges' = Edges  BY <1>5, <1>15 DEF EndSession, NotifyParent
  <2> QED  BY <1>2, <1>3, <1>15, <2>1 DEF EndSession
<1>16. ASSUME NEW i \in Child, ChildStop(i) \/ Crash(i) PROVE Counted'
  <2>1. Exit(i)  BY <1>16 DEF ChildStop, Crash
  <2>2. pready' = pready \cup {i, SIGNAL} /\ UNCHANGED <<pbatch, backlog, arrived>>  BY <2>1 DEF Exit
  <2>3. Edges' = Edges  BY <2>2, Constants, SameBatch, SameEdges
  <2>4. \A j \in Child : jobs'[j] <= jobs[j]
    <3>1. \A j \in Child : jobs[j] \in Nat /\ jobs'[j] \in {0, jobs[j]}  BY <2>1 DEF Exit, TypeOK
    <3> QED  BY <3>1
  <2> QED  BY <1>3, <2>2, <2>3, <2>4, FewerTold
<1> QED
  BY <1>6, <1>7, <1>8, <1>9, <1>10, <1>11, <1>12, <1>13, <1>14, <1>15, <1>16
  DEF Next, Parent, ChildJob

LEMMA Invariant == Spec => []Inv
<1>1. Inv /\ [Next]_vars => Inv'
  BY NextTypes, OnceNext, GoneNext, CountedNext, HeardNext DEF Inv
<1> QED  BY <1>1, InitInv, PTL DEF Spec

-----------------------------------------------------------------------------

(***************************************************************************)
(* The theorems.                                                           *)
(***************************************************************************)
\* Every variable has its type; no child has more sessions than server
\* connections, and what it tells the parent fits a byte.
THEOREM TypeCorrect == Spec => []TypeOK
BY Invariant, PTL DEF Inv

\* However many children there are, whichever crash and however SIGCHLDs become
\* one, the parent stops only after all of them are reaped, and hears of each.
THEOREM StopsLastHolds == Spec => []StopsLast
<1>1. Inv => StopsLast
  <2> SUFFICES ASSUME Inv PROVE StopsLast  OBVIOUS
  <2>1. InBatch(SIGNAL) => SIGNAL \in {pbatch[k] : k \in DOMAIN pbatch}  BY DEF InBatch
  <2> QED  BY <2>1 DEF Inv, StopsLast, Heard, Gone, Running
<1> QED  BY <1>1, Invariant, PTL

\* However edges coalesce and whichever child accepts, a child that is told of
\* a client finds one: messages and edges are no more than clients that wait.
THEOREM JobsBackedHolds == Spec => []JobsBacked
<1>1. Inv => JobsBacked
  <2> SUFFICES ASSUME Inv PROVE JobsBacked  OBVIOUS
  <2> DEFINE ks == {k \in DOMAIN pbatch : pbatch[k] = LISTEN}
  <2>1. Cardinality(ks) = IF InBatch(LISTEN) THEN 1 ELSE 0
    <3>1. CASE InBatch(LISTEN)
      <4>1. PICK k : ks = {k}  BY <3>1 DEF InBatch, Inv, Once
      <4> QED  BY <3>1, <4>1, FS_Singleton
    <3>2. CASE ~InBatch(LISTEN)
      <4>1. ks = {}  BY <3>2 DEF InBatch
      <4> QED  BY <3>2, <4>1, FS_EmptySet
    <3> QED  BY <3>1, <3>2
  <2>2. Cardinality(Told) + Edges <= backlog /\ Cardinality(Told) \in Nat
    BY ToldType DEF Inv, Counted
  <2>3. JobsBacked <=> Cardinality(Told) + (IF LISTEN \in pready THEN 1 ELSE 0) + Cardinality(ks)
                         <= backlog
    BY DEF JobsBacked, Told
  <2> HIDE DEF ks
  <2> QED  BY <2>1, <2>2, <2>3 DEF Edges
<1> QED  BY <1>1, Invariant, PTL

=============================================================================
