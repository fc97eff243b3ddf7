--------------------------- MODULE CgiServerProofs ---------------------------
(***************************************************************************)
(* Theorems about CgiServer for any number of children and clients, any    *)
(* requests and pieces of them, any size of the buffer, and any number of  *)
(* children that exit on their own.                                        *)
(***************************************************************************)
EXTENDS CgiServer, TLAPS, FiniteSetTheorems, SequenceTheorems, WellFoundedInduction

(***************************************************************************)
(* The inductive invariant: the order in which children get their turns,   *)
(* and, for each client, what has been read and run for it.                *)
(***************************************************************************)
Events == {LISTEN, SIGNAL}

ServerTypes ==
    /\ pid \in [Child -> {"running", "exited", "reaped"}]
    /\ sub_process_counter \in Child /\ turns \in [Child -> Nat]
    /\ jobs \in [Child -> Nat] /\ wake \in [Child -> BOOLEAN]
    /\ sig \in [Child -> SUBSET {"CHLD", "TERM"}]
    /\ pready \subseteq Events /\ pbatch \in Seq(Events)
    /\ sigs \subseteq {"CHLD", "TERM"} /\ m_stop \in BOOLEAN /\ done \in BOOLEAN
    /\ crashed \in Nat /\ asked \in BOOLEAN

ClientTypes ==
    /\ state \in [Client -> {"out", "queued", "open", "closed"}]
    /\ request \in Requests /\ home \in [Client -> Child \cup {0}]
    /\ ready \in [Client -> BOOLEAN]
    /\ gone \in [Client -> BOOLEAN] /\ sent \in [Client -> Nat]
    /\ m_read_idx \in [Client -> 0..(BUFFER_SIZE - 1)]
    /\ runs \in [Client -> Seq(Nat)] /\ held \in [Client -> SUBSET Client]
    /\ prog \in [Client -> {"none", "runs", "zombie", "done"}]

Busy ==
    /\ busy \in [Child -> Client \cup {0}]
    /\ \A i \in Child : busy[i] # 0 => busy[i] \in Open(i)

\* How many children come before this one, in the order of the turns.
Place(i) ==
    IF i < sub_process_counter THEN i - sub_process_counter + N ELSE i - sub_process_counter

\* A child that comes later has had as many turns, or one more.
Rota ==
    \A i, j \in Child : ~Joined(i) /\ ~Joined(j) /\ Place(i) < Place(j) =>
        turns[i] <= turns[j] /\ turns[j] <= turns[i] + 1

CRLF(c, p) == request[c][p - 1] = "r" /\ request[c][p] = "n"

\* Of a client that is not closed no line was read and no program run, the name
\* run for a closed one is its first line, and its program is awaited.
Sound(c) ==
    /\ m_read_idx[c] <= sent[c] /\ sent[c] <= Len(request[c])
    /\ state[c] # "closed" => runs[c] = <<>> /\ prog[c] = "none"
    /\ state[c] = "open" => home[c] \in Child /\ \A p \in 2..m_read_idx[c] : ~CRLF(c, p)
    /\ prog[c] # "none" => home[c] \in Child
    /\ runs[c] # <<>> =>
          /\ Len(runs[c]) = 1 /\ runs[c][1] + 2 \in 2..sent[c] /\ CRLF(c, runs[c][1] + 2)
          /\ \A p \in 2..sent[c] : CRLF(c, p) => runs[c][1] + 2 <= p
    /\ prog[c] = "zombie" => Running(home[c]) /\ "CHLD" \in sig[home[c]]

Inv == ServerTypes /\ ClientTypes /\ Busy /\ Rota /\ \A c \in Client : Sound(c)

-----------------------------------------------------------------------------

LEMMA Constants ==
    /\ N \in Nat /\ N > 0 /\ BUFFER_SIZE \in Nat /\ BUFFER_SIZE > 0
    /\ Child \subseteq Nat /\ 0 \notin Child /\ 1 \in Child
    /\ Client \subseteq Nat /\ 0 \notin Client
    /\ \A r \in Requests, c \in Client : Len(r[c]) \in Nat
    /\ Cuts \subseteq Nat /\ LISTEN # SIGNAL
  BY CgiServerAssumption DEF CgiServerAssumption, Child, Client, LISTEN, SIGNAL

LEMMA LowestIs ==
    ASSUME NEW S \in SUBSET Nat, S # {}
    PROVE  \E x \in S : \A y \in S : x <= y
<1>1. PICK x \in S : \A y \in S : ~(<<y, x>> \in OpToRel(<, Nat))
  BY NatLessThanWellFounded, WFMin
<1>2. \A y \in S : x <= y
  <2> SUFFICES ASSUME NEW y \in S  PROVE x <= y
    OBVIOUS
  <2>1. x \in Nat /\ y \in Nat  OBVIOUS
  <2>2. ~(<<y, x>> \in OpToRel(<, Nat))  BY <1>1
  <2>3. ~(y < x)  BY <2>1, <2>2 DEF OpToRel
  <2> QED  BY <2>1, <2>3
<1> QED  BY <1>2

LEMMA OrderIs ==
    ASSUME NEW S, S \subseteq Events, NEW s \in Orders(S)
    PROVE  s \in Seq(Events)
<1>1. IsFiniteSet(Events)
  <2>1. IsFiniteSet({LISTEN})  BY FS_Singleton
  <2>2. IsFiniteSet({LISTEN} \cup {SIGNAL})  BY <2>1, FS_AddElement
  <2> QED  BY <2>2 DEF Events
<1>2. Cardinality(S) \in Nat  BY <1>1, FS_Subset, FS_CardinalityType
<1>3. s \in [1..Cardinality(S) -> S]  BY DEF Orders
<1> QED  BY <1>2, <1>3

LEMMA Parts == Inv => TypeOK /\ Programs
<1> SUFFICES ASSUME Inv  PROVE TypeOK /\ Programs
  OBVIOUS
<1>1. TypeOK
  <2>1. ServerTypes /\ ClientTypes /\ Busy /\ \A c \in Client : Sound(c)  BY DEF Inv
  <2>2. \A c \in Client : m_read_idx[c] <= sent[c] /\ sent[c] <= Len(request[c])
    BY <2>1 DEF Sound
  <2> QED  BY <2>1, <2>2 DEF TypeOK, ServerTypes, ClientTypes, Busy, Events
<1>2. Programs
  <2> SUFFICES ASSUME NEW c \in Client
               PROVE  /\ runs[c] # <<>> =>
                            LET ends == {p \in 2..sent[c] :
                                           request[c][p - 1] = "r" /\ request[c][p] = "n"}
                            IN  /\ state[c] = "closed" /\ Len(runs[c]) = 1
                                /\ runs[c][1] + 2 \in ends /\ \A p \in ends : runs[c][1] + 2 <= p
                      /\ prog[c] = "zombie" => Running(home[c]) /\ "CHLD" \in sig[home[c]]
    BY DEF Programs
  <2>1. Sound(c)  BY DEF Inv
  <2> QED  BY <2>1 DEF Sound, CRLF
<1> QED  BY <1>1, <1>2

\* Of two children the later one has had at most one turn more, and the same
\* child is at one place.
LEMMA RotaIsFair == Inv => InTurn
<1> SUFFICES ASSUME Inv, NEW i \in Child, NEW j \in Child, ~Joined(i), ~Joined(j)
             PROVE  turns[i] <= turns[j] + 1
  BY DEF InTurn
<1>1. turns[i] \in Nat /\ turns[j] \in Nat /\ sub_process_counter \in Child
  BY DEF Inv, ServerTypes
<1>2. i \in 1..N /\ j \in 1..N /\ N \in Nat /\ sub_process_counter \in 1..N
  BY <1>1, Constants DEF Child
<1>3. Place(i) < Place(j) \/ Place(j) < Place(i) \/ i = j  BY <1>2 DEF Place
<1>4. /\ Place(i) < Place(j) => turns[i] <= turns[j]
      /\ Place(j) < Place(i) => turns[i] <= turns[j] + 1
  BY DEF Inv, Rota
<1> QED  BY <1>1, <1>3, <1>4

(***************************************************************************)
(* What a step leaves alone.                                               *)
(***************************************************************************)
LEMMA RotaKept ==
    ASSUME Rota, UNCHANGED <<sub_process_counter, turns>>, \A i \in Child : Joined(i) => Joined(i)'
    PROVE  Rota'
  BY DEF Rota, Place

LEMMA Untouched ==
    ASSUME NEW c \in Client, Sound(c),
           state'[c] = state[c], home'[c] = home[c], request' = request, sent'[c] = sent[c],
           m_read_idx'[c] = m_read_idx[c], runs'[c] = runs[c], prog'[c] = prog[c],
           prog[c] = "zombie" => Running(home[c])' /\ "CHLD" \in sig'[home[c]]
    PROVE  Sound(c)'
<1>1. \A p : CRLF(c, p)' <=> CRLF(c, p)  BY DEF CRLF
<1> QED  BY <1>1 DEF Sound, Running

\* A step of the parent or of the environment that concerns no client.
LEMMA ClientsKept ==
    ASSUME Inv, UNCHANGED <<clientVars, progVars, busy>>,
           \A i \in Child : Running(i) => Running(i)' /\ sig[i] \subseteq sig'[i]
    PROVE  ClientTypes' /\ Busy' /\ \A c \in Client : Sound(c)'
<1>1. UNCHANGED <<state, home, ready, request, sent, gone, m_read_idx, runs, prog, held, busy>>
  BY DEF clientVars, progVars
<1>2. ClientTypes'  BY <1>1 DEF Inv, ClientTypes
<1>3. Busy'  BY <1>1 DEF Inv, Busy, Open
<1>4. ASSUME NEW c \in Client  PROVE Sound(c)'
  <2>1. Sound(c)  BY DEF Inv
  <2>2. prog[c] = "zombie" => Running(home[c])' /\ "CHLD" \in sig'[home[c]]
    <3>1. prog[c] = "zombie" => home[c] \in Child /\ Running(home[c]) /\ "CHLD" \in sig[home[c]]
      BY <2>1 DEF Sound
    <3>2. PICK h : h = home[c]  OBVIOUS
    <3>3. h \in Child /\ Running(h) => Running(h)' /\ sig[h] \subseteq sig'[h]  OBVIOUS
    <3> QED  BY <1>1, <3>1, <3>2, <3>3 DEF Running
  <2> QED  BY <1>1, <2>1, <2>2, Untouched
<1> QED  BY <1>2, <1>3, <1>4

(***************************************************************************)
(* The parent.                                                             *)
(***************************************************************************)
LEMMA InvInit == Init => Inv
<1> SUFFICES ASSUME Init  PROVE Inv
  OBVIOUS
<1>1. ServerTypes
  <2>1. sub_process_counter \in Child /\ pbatch \in Seq(Events)  BY Constants DEF Init
  <2>2. pid \in [Child -> {"running", "exited", "reaped"}] /\ sig \in [Child -> SUBSET {"CHLD", "TERM"}]
    BY DEF Init
  <2>3. turns \in [Child -> Nat] /\ jobs \in [Child -> Nat] /\ wake \in [Child -> BOOLEAN]
    BY DEF Init
  <2> QED  BY <2>1, <2>2, <2>3 DEF Init, ServerTypes
<1>2. ClientTypes  BY Constants DEF Init, ClientTypes
<1>3. Busy  BY DEF Init, Busy
<1>4. Rota  BY DEF Init, Rota
<1>5. ASSUME NEW c \in Client  PROVE Sound(c)
  <2>1. Len(request[c]) \in Nat  BY Constants DEF Init
  <2> QED  BY <2>1 DEF Init, Sound
<1> QED  BY <1>1, <1>2, <1>3, <1>4, <1>5 DEF Inv

LEMMA Handled ==
    ASSUME ServerTypes, NEW ev, Handle(ev)
    PROVE  pbatch' \in Seq(Events)
  BY DEF ServerTypes, Handle

LEMMA InvQuiet ==
    Inv /\ (EpollWait \/ NobodyLeft \/ Return \/ AskStop) => Inv'
<1> SUFFICES ASSUME Inv, EpollWait \/ NobodyLeft \/ Return \/ AskStop  PROVE Inv'
  OBVIOUS
<1>1. /\ UNCHANGED <<sub_process_counter, turns, pid, jobs, wake, sig, busy, crashed>>
      /\ UNCHANGED <<clientVars, progVars>>
  BY DEF EpollWait, NobodyLeft, Return, AskStop, childVars
<1>2. ClientTypes' /\ Busy' /\ \A c \in Client : Sound(c)'
  BY <1>1, ClientsKept DEF Running
<1>3. Rota'  BY <1>1, RotaKept DEF Inv, Joined
<1>4. ServerTypes'
  <2>1. CASE EpollWait
    <3>1. pbatch' \in Seq(Events)  BY <2>1, OrderIs DEF EpollWait, Inv, ServerTypes
    <3> QED  BY <1>1, <2>1, <3>1 DEF EpollWait, Inv, ServerTypes
  <2>2. CASE NobodyLeft  BY <1>1, <2>2 DEF NobodyLeft, Inv, ServerTypes
  <2>3. CASE Return  BY <1>1, <2>3 DEF Return, Inv, ServerTypes
  <2>4. CASE AskStop  BY <1>1, <2>4 DEF AskStop, Inv, ServerTypes, Events
  <2> QED  BY <2>1, <2>2, <2>3, <2>4
<1> QED  BY <1>2, <1>3, <1>4 DEF Inv

LEMMA InvSignals == Inv /\ Signals => Inv'
<1> SUFFICES ASSUME Inv, Signals  PROVE Inv'
  OBVIOUS
<1>1. /\ Handle(SIGNAL) /\ sigs' = {}
      /\ UNCHANGED <<sub_process_counter, turns, pready, done, jobs, wake, busy, crashed, asked>>
      /\ UNCHANGED <<clientVars, progVars>>
  BY DEF Signals
<1>2. /\ pid' \in [Child -> {"running", "exited", "reaped"}] /\ m_stop' \in BOOLEAN
      /\ \A i \in Child : (Joined(i) => Joined(i)') /\ (Running(i) => Running(i)')
  BY DEF Signals, Inv, ServerTypes, Joined, Running
<1>3. /\ sig' \in [Child -> SUBSET {"CHLD", "TERM"}]
      /\ \A i \in Child : sig[i] \subseteq sig'[i]
  BY DEF Signals, Inv, ServerTypes
<1>4. pbatch' \in Seq(Events)  BY <1>1, Handled DEF Inv
<1>5. ServerTypes'  BY <1>1, <1>2, <1>3, <1>4 DEF Inv, ServerTypes
<1>6. Rota'  BY <1>1, <1>2, RotaKept DEF Inv
<1>7. ClientTypes' /\ Busy' /\ \A c \in Client : Sound(c)'
  BY <1>1, <1>2, <1>3, ClientsKept
<1> QED  BY <1>5, <1>6, <1>7 DEF Inv

\* Counting on from sub_process_counter reaches every child once.
LEMMA NthIs ==
    ASSUME sub_process_counter \in Child
    PROVE  /\ \A k \in 0..(N - 1) : Nth(k) \in Child /\ Place(Nth(k)) = k
           /\ \A i \in Child : Place(i) \in 0..(N - 1) /\ Nth(Place(i)) = i
<1>1. N \in Nat /\ N > 0 /\ Child = 1..N /\ sub_process_counter \in 1..N
  BY Constants DEF Child
<1>2. \A k \in 0..(N - 1) : Nth(k) = IF sub_process_counter + k <= N
                                     THEN sub_process_counter + k ELSE sub_process_counter + k - N
  BY <1>1 DEF Nth
<1>3. \A i \in Child : Place(i) \in 0..(N - 1)  BY <1>1 DEF Place
<1> HIDE DEF Nth
<1> QED  BY <1>1, <1>2, <1>3 DEF Place

LEMMA InvDispatch == Inv /\ Dispatch => Inv'
<1> SUFFICES ASSUME Inv, Dispatch  PROVE Inv'
  OBVIOUS
<1> DEFINE First(k) == ~Joined(Nth(k)) /\ \A l \in 0..(k - 1) : Joined(Nth(l))
<1>1. sub_process_counter \in Child /\ N \in Nat /\ N > 0 /\ Child = 1..N
  BY Constants DEF Inv, ServerTypes, Child
<1>2. PICK k \in 0..(N - 1) :
          k = (CHOOSE m \in 0..(N - 1) : First(m)) /\ First(k)
  <2>1. PICK j \in Child : ~Joined(j)  BY DEF Dispatch
  <2> DEFINE S == {m \in 0..(N - 1) : ~Joined(Nth(m))}
  <2>2. 0..(N - 1) \in SUBSET Nat  BY <1>1
  <2>3. S \in SUBSET Nat /\ S # {}  BY <1>1, <2>1, <2>2, NthIs
  <2>4. PICK x \in S : \A y \in S : x <= y  BY <2>3, LowestIs
  <2>5. \A l \in 0..(x - 1) : Joined(Nth(l))  BY <1>1, <2>4
  <2>6. x \in 0..(N - 1) /\ First(x)  BY <2>4, <2>5
  <2> QED  BY <2>6
<1>3. PICK i \in Child : i = Nth(k)  BY <1>1, <1>2, NthIs
<1>4. Place(i) = k  BY <1>1, <1>3, NthIs
<1>5. /\ Handle(LISTEN) /\ sub_process_counter' = (i % N) + 1
      /\ turns' = [turns EXCEPT ![i] = @ + 1]
      /\ jobs' = [jobs EXCEPT ![i] = IF Running(i) THEN @ + 1 ELSE @]
      /\ wake' = [wake EXCEPT ![i] = @ \/ Running(i)]
      /\ UNCHANGED <<pid, sig, busy, pready, sigs, m_stop, done, crashed, asked>>
      /\ UNCHANGED <<clientVars, progVars>>
  BY <1>2, <1>3 DEF Dispatch, CountFrom
<1>6. ClientTypes' /\ Busy' /\ \A c \in Client : Sound(c)'
  BY <1>5, ClientsKept DEF Running
<1>7. ServerTypes'
  <2>1. pbatch' \in Seq(Events)  BY <1>5, Handled DEF Inv
  <2>2. sub_process_counter' \in Child  BY <1>1, <1>5
  <2>3. jobs' \in [Child -> Nat] /\ turns' \in [Child -> Nat]  BY <1>5 DEF Inv, ServerTypes
  <2>4. wake' \in [Child -> BOOLEAN]  BY <1>5 DEF Inv, ServerTypes
  <2> QED  BY <1>5, <2>1, <2>2, <2>3, <2>4 DEF Inv, ServerTypes
<1>8. ASSUME NEW j \in Child, ~Joined(j)
      PROVE  Place(j) >= k /\ (j # i => Place(j) > k)
  <2>1. Place(j) \in 0..(N - 1) /\ Nth(Place(j)) = j  BY <1>1, NthIs
  <2>2. ~(Place(j) \in 0..(k - 1))  BY <1>2, <1>8, <2>1
  <2> QED  BY <1>1, <1>3, <2>1, <2>2
<1>9. sub_process_counter' = IF i = N THEN 1 ELSE i + 1  BY <1>1, <1>5
<1>10. ASSUME NEW j \in Child, ~Joined(j)
       PROVE  Place(j)' = IF j = i THEN N - 1 ELSE Place(j) - k - 1
  BY <1>1, <1>4, <1>8, <1>9, <1>10 DEF Place
<1>11. Rota'
  <2> SUFFICES ASSUME NEW j \in Child, NEW l \in Child, ~Joined(j), ~Joined(l),
                      Place(j)' < Place(l)'
               PROVE  turns'[j] <= turns'[l] /\ turns'[l] <= turns'[j] + 1
    BY <1>5 DEF Rota, Joined
  <2>1. /\ turns \in [Child -> Nat] /\ ~Joined(i)
        /\ \A c \in Child : turns[c] \in Nat /\ turns'[c] = IF c = i THEN turns[c] + 1 ELSE turns[c]
    BY <1>2, <1>3, <1>5 DEF Inv, ServerTypes
  <2>2. Place(j) \in Int /\ Place(l) \in Int /\ k \in Int  BY <1>1, NthIs
  <2>3. CASE l = i
    <3>1. j # i /\ Place(i) < Place(j)
      BY <1>1, <1>4, <1>8, <1>10, <2>2, <2>3
    <3>2. turns[i] <= turns[j] /\ turns[j] <= turns[i] + 1
      BY <2>1, <3>1 DEF Inv, Rota
    <3> QED  BY <2>1, <2>3, <3>1, <3>2
  <2>4. CASE l # i
    <3>1. j # i  BY <1>1, <1>8, <1>10, <2>2, <2>4, NthIs
    <3>2. Place(j) < Place(l)  BY <1>10, <2>2, <2>4, <3>1
    <3> QED  BY <2>1, <2>4, <3>1, <3>2 DEF Inv, Rota
  <2> QED  BY <2>3, <2>4
<1> QED  BY <1>6, <1>7, <1>11 DEF Inv

(***************************************************************************)
(* The environment.                                                        *)
(***************************************************************************)
LEMMA OthersSound ==
    ASSUME Inv, NEW c \in Client, request' = request,
           \A i \in Child : Running(i) => Running(i)' /\ sig[i] \subseteq sig'[i],
           \A d \in Client \ {c} :
               /\ state'[d] = state[d] /\ home'[d] = home[d] /\ sent'[d] = sent[d]
               /\ m_read_idx'[d] = m_read_idx[d] /\ runs'[d] = runs[d] /\ prog'[d] = prog[d]
    PROVE  \A d \in Client \ {c} : Sound(d)'
<1> SUFFICES ASSUME NEW d \in Client \ {c}  PROVE Sound(d)'
  OBVIOUS
<1>1. Sound(d)  BY DEF Inv
<1>2. prog[d] = "zombie" => Running(home[d])' /\ "CHLD" \in sig'[home[d]]
  <2>1. prog[d] = "zombie" => home[d] \in Child /\ Running(home[d]) /\ "CHLD" \in sig[home[d]]
    BY <1>1 DEF Sound
  <2>2. PICK h : h = home[d]  OBVIOUS
  <2>3. h \in Child /\ Running(h) => Running(h)' /\ sig[h] \subseteq sig'[h]  OBVIOUS
  <2>4. home'[d] = home[d]  OBVIOUS
  <2> QED  BY <2>1, <2>2, <2>3, <2>4 DEF Running
<1> QED  BY <1>1, <1>2, Untouched

LEMMA InvConnect ==
    ASSUME Inv, NEW c \in Client, Connect(c)
    PROVE  Inv'
<1>1. /\ state[c] = "out" /\ state' = [state EXCEPT ![c] = "queued"]
      /\ pready' = pready \cup {LISTEN}
      /\ UNCHANGED <<sub_process_counter, turns, pbatch, sigs, m_stop, done, crashed, asked>>
      /\ UNCHANGED <<pid, jobs, wake, sig, busy>>
      /\ UNCHANGED <<home, ready, request, sent, gone, m_read_idx, runs, prog, held>>
  BY DEF Connect, childVars, progVars
<1>2. ServerTypes /\ ClientTypes /\ Busy /\ Rota /\ Sound(c)  BY DEF Inv
<1>3. ServerTypes'  BY <1>1, <1>2 DEF ServerTypes, Events
<1>4. ClientTypes'  BY <1>1, <1>2 DEF ClientTypes
<1>5. Busy'  BY <1>1, <1>2 DEF Busy, Open, ClientTypes
<1>6. Rota'  BY <1>1, <1>2, RotaKept DEF Joined
<1>7. \A d \in Client \ {c} : Sound(d)'  BY <1>1, <1>2, OthersSound DEF ClientTypes, Running
<1>8. Sound(c)'  BY <1>1, <1>2 DEF Sound, ClientTypes, CRLF
<1> QED  BY <1>3, <1>4, <1>5, <1>6, <1>7, <1>8 DEF Inv

LEMMA InvSend ==
    ASSUME Inv, NEW c \in Client, Send(c)
    PROVE  Inv'
<1>1. /\ state[c] \in {"queued", "open"}
      /\ \/ \E n \in Cuts \cap ((sent[c] + 1)..Len(request[c])) : sent' = [sent EXCEPT ![c] = n]
         \/ sent' = sent
      /\ gone' = gone \/ gone' = [gone EXCEPT ![c] = TRUE]
      /\ ready' = [ready EXCEPT ![c] = state[c] = "open"]
      /\ UNCHANGED <<sub_process_counter, turns, pready, pbatch, sigs, m_stop, done, crashed, asked>>
      /\ UNCHANGED <<pid, jobs, wake, sig, busy>>
      /\ UNCHANGED <<state, home, request, m_read_idx, runs, prog, held>>
  BY DEF Send, parentVars, childVars, progVars
<1>2. ServerTypes /\ ClientTypes /\ Busy /\ Rota /\ Sound(c)  BY DEF Inv
<1>3. ServerTypes'  BY <1>1, <1>2 DEF ServerTypes
<1>4. /\ sent' \in [Client -> Nat] /\ sent'[c] >= sent[c] /\ sent'[c] <= Len(request[c])
      /\ \A d \in Client \ {c} : sent'[d] = sent[d]
  <2>1. Cuts \subseteq Nat /\ sent[c] \in Nat /\ sent[c] <= Len(request[c]) /\ Len(request[c]) \in Nat
    BY <1>2, Constants DEF ClientTypes, Sound
  <2> QED  BY <1>1, <1>2, <2>1 DEF ClientTypes
<1>5. ClientTypes'
  <2>1. ready' \in [Client -> BOOLEAN] /\ gone' \in [Client -> BOOLEAN]
    BY <1>1, <1>2 DEF ClientTypes
  <2> QED  BY <1>1, <1>2, <1>4, <2>1 DEF ClientTypes
<1>6. Busy'  BY <1>1, <1>2 DEF Busy, Open
<1>7. Rota'  BY <1>1, <1>2, RotaKept DEF Joined
<1>8. \A d \in Client \ {c} : Sound(d)'  BY <1>1, <1>4, OthersSound DEF Running
<1>9. Sound(c)'
  <2>1. m_read_idx[c] \in Nat /\ sent[c] \in Nat /\ sent'[c] \in Nat /\ m_read_idx[c] <= sent[c]
    BY <1>2, <1>4, Constants DEF ClientTypes, Sound
  <2> QED  BY <1>1, <1>2, <1>4, <2>1 DEF Sound, CRLF
<1> QED  BY <1>3, <1>5, <1>6, <1>7, <1>8, <1>9 DEF Inv

LEMMA InvProgramEnds ==
    ASSUME Inv, NEW c \in Client, ProgramEnds(c)
    PROVE  Inv'
<1>1. /\ prog[c] = "runs" /\ held' = [held EXCEPT ![c] = {}]
      /\ \/ /\ Running(home[c]) /\ prog' = [prog EXCEPT ![c] = "zombie"]
            /\ sig' = [sig EXCEPT ![home[c]] = @ \cup {"CHLD"}]
         \/ prog' = [prog EXCEPT ![c] = "done"] /\ sig' = sig
      /\ UNCHANGED <<sub_process_counter, turns, pready, pbatch, sigs, m_stop, done, crashed, asked>>
      /\ UNCHANGED <<pid, jobs, wake, busy>>
      /\ UNCHANGED <<state, home, ready, request, sent, gone, m_read_idx, runs>>
  BY DEF ProgramEnds, parentVars, clientVars
<1>2. ServerTypes /\ ClientTypes /\ Busy /\ Rota /\ Sound(c)  BY DEF Inv
<1>3. home[c] \in Child /\ state[c] = "closed"  BY <1>1, <1>2 DEF Sound
<1>4. /\ sig' \in [Child -> SUBSET {"CHLD", "TERM"}]
      /\ \A i \in Child : sig[i] \subseteq sig'[i]
      /\ prog'[c] = "zombie" => Running(home[c]) /\ "CHLD" \in sig'[home[c]]
      /\ prog' \in [Client -> {"none", "runs", "zombie", "done"}]
      /\ \A d \in Client \ {c} : prog'[d] = prog[d]
  <2>1. PICK h \in Child : h = home[c]  BY <1>3
  <2>2. sig \in [Child -> SUBSET {"CHLD", "TERM"}]  BY <1>2 DEF ServerTypes
  <2>3. sig' = sig \/ sig' = [sig EXCEPT ![h] = @ \cup {"CHLD"}]  BY <1>1, <2>1
  <2>5. sig' \in [Child -> SUBSET {"CHLD", "TERM"}] /\ \A i \in Child : sig[i] \subseteq sig'[i]
    BY <2>2, <2>3
  <2>6. /\ prog' \in [Client -> {"none", "runs", "zombie", "done"}]
        /\ \A d \in Client \ {c} : prog'[d] = prog[d]
    BY <1>1, <1>2 DEF ClientTypes
  <2>7. prog'[c] = "zombie" => Running(home[c]) /\ "CHLD" \in sig'[home[c]]
    BY <1>1, <1>2, <2>1, <2>2 DEF ClientTypes
  <2> QED  BY <2>5, <2>6, <2>7
<1>5. ServerTypes'  BY <1>1, <1>2, <1>4 DEF ServerTypes
<1>6. ClientTypes'
  <2>1. held' \in [Client -> SUBSET Client]  BY <1>1, <1>2 DEF ClientTypes
  <2> QED  BY <1>1, <1>2, <1>4, <2>1 DEF ClientTypes
<1>7. Busy'  BY <1>1, <1>2 DEF Busy, Open
<1>8. Rota'  BY <1>1, <1>2, RotaKept DEF Joined
<1>9. \A d \in Client \ {c} : Sound(d)'  BY <1>1, <1>4, OthersSound DEF Running
<1>10. Sound(c)'  BY <1>1, <1>2, <1>3, <1>4 DEF Sound, CRLF, Running
<1> QED  BY <1>5, <1>6, <1>7, <1>8, <1>9, <1>10 DEF Inv

(***************************************************************************)
(* A child.                                                                *)
(***************************************************************************)
LEMMA InvAccept ==
    ASSUME Inv, NEW i \in Child, Accept(i) \/ AcceptFails(i)
    PROVE  Inv'
<1>1. /\ jobs[i] > 0 /\ jobs' = [jobs EXCEPT ![i] = @ - 1] /\ wake' = [wake EXCEPT ![i] = FALSE]
      /\ UNCHANGED <<sub_process_counter, turns, pready, pbatch, sigs, m_stop, done, crashed, asked>>
      /\ UNCHANGED <<pid, sig, busy, request, sent, gone, runs, prog, held>>
  BY DEF Accept, AcceptFails, TakeJob, parentVars, progVars
<1>2. ServerTypes /\ ClientTypes /\ Busy /\ Rota  BY DEF Inv
<1>3. ServerTypes'
  <2>1. jobs' \in [Child -> Nat]  BY <1>1, <1>2 DEF ServerTypes
  <2> QED  BY <1>1, <1>2, <2>1 DEF ServerTypes
<1>4. Rota'  BY <1>1, <1>2, RotaKept DEF Joined
<1>5. CASE AcceptFails(i)
  <2>1. UNCHANGED <<clientVars, progVars>>
    BY <1>1, <1>5 DEF AcceptFails, clientVars, progVars
  <2>2. ClientTypes' /\ Busy' /\ \A c \in Client : Sound(c)'
    BY <1>1, <2>1, ClientsKept DEF Running
  <2> QED  BY <1>3, <1>4, <2>2 DEF Inv
<1>6. CASE Accept(i)
  <2>1. PICK c \in Client :
            /\ state[c] = "queued"
            /\ state' = [state EXCEPT ![c] = "open"] /\ home' = [home EXCEPT ![c] = i]
            /\ m_read_idx' = [m_read_idx EXCEPT ![c] = 0]
            /\ ready' = [ready EXCEPT ![c] = sent[c] > 0 \/ gone[c]]
    <3>1. Queued \in SUBSET Nat /\ Queued # {}  BY <1>6, Constants DEF Accept, Queued
    <3>2. \E c \in Queued : \A d \in Queued : c <= d  BY <3>1, LowestIs
    <3> QED  BY <1>6, <3>2 DEF Accept, Queued
  <2>2. Sound(c)  BY DEF Inv
  <2>3. ClientTypes'
    <3>1. 0 \in 0..(BUFFER_SIZE - 1)  BY Constants
    <3>2. ready' \in [Client -> BOOLEAN]  BY <1>2, <2>1 DEF ClientTypes
    <3> QED  BY <1>1, <1>2, <2>1, <3>1, <3>2 DEF ClientTypes
  <2>4. Busy'
    <3> SUFFICES ASSUME NEW j \in Child, busy'[j] # 0  PROVE busy'[j] \in Open(j)'
      BY <1>1, <1>2 DEF Busy
    <3>1. PICK b \in Open(j) : b = busy[j] /\ b = busy'[j]  BY <1>1, <1>2 DEF Busy
    <3> QED  BY <1>2, <2>1, <3>1 DEF Open, ClientTypes
  <2>5. \A d \in Client \ {c} : Sound(d)'
    BY <1>1, <1>2, <2>1, OthersSound DEF ClientTypes, Running
  <2>6. Sound(c)'
    <3>1. /\ state'[c] = "open" /\ home'[c] = i /\ m_read_idx'[c] = 0
          /\ runs'[c] = <<>> /\ prog'[c] = "none" /\ sent'[c] = sent[c] /\ sent[c] \in Nat
      BY <1>1, <1>2, <2>1, <2>2 DEF ClientTypes, Sound
    <3> QED  BY <1>1, <2>2, <3>1 DEF Sound
  <2> QED  BY <1>3, <1>4, <2>3, <2>4, <2>5, <2>6 DEF Inv
<1> QED  BY <1>5, <1>6

(***************************************************************************)
(* process: one recv for client c, whose connection child i has open.      *)
(***************************************************************************)
LEMMA CountIs ==
    ASSUME Inv, NEW c \in Client
    PROVE  /\ m_read_idx[c] \in Nat /\ Count(c) \in Nat /\ sent[c] \in Nat
           /\ m_read_idx[c] + Count(c) <= sent[c]
           /\ m_read_idx[c] + Count(c) \in 0..(BUFFER_SIZE - 1)
           /\ sent[c] <= Len(request[c]) /\ Len(request[c]) \in Nat
<1>1. /\ m_read_idx[c] \in 0..(BUFFER_SIZE - 1) /\ sent[c] \in Nat /\ request \in Requests
      /\ m_read_idx[c] <= sent[c] /\ sent[c] <= Len(request[c])
  BY DEF Inv, ClientTypes, Sound
<1> QED  BY <1>1, Constants DEF Count

\* What is read for the first time ends in no line, or the first line is found.
LEMMA LineEndIs ==
    ASSUME Inv, NEW c \in Client, state[c] = "open"
    PROVE  IF LineEnds(c) = {} THEN \A p \in 2..(m_read_idx[c] + Count(c)) : ~CRLF(c, p)
           ELSE /\ LineEnd(c) \in 2..sent[c] /\ CRLF(c, LineEnd(c))
                /\ \A p \in 2..sent[c] : CRLF(c, p) => LineEnd(c) <= p
<1> DEFINE m == m_read_idx[c]
           k == Count(c)
<1>1. /\ m \in Nat /\ k \in Nat /\ sent[c] \in Nat /\ m + k <= sent[c]
      /\ \A p \in 2..m : ~CRLF(c, p)
  BY CountIs DEF Inv, Sound
<1>2. LineEnds(c) = {p \in (m + 1)..(m + k) : p > 1 /\ CRLF(c, p)}
  BY DEF LineEnds, CRLF
<1> HIDE DEF m, k
<1>3. CASE LineEnds(c) = {}
  <2>1. \A p \in 2..(m + k) : p \in 2..m \/ (p \in (m + 1)..(m + k) /\ p > 1)  BY <1>1
  <2>2. \A p \in 2..(m + k) : ~CRLF(c, p)  BY <1>1, <1>2, <1>3, <2>1
  <2> QED  BY <1>3, <2>2 DEF m, k
<1>4. CASE LineEnds(c) # {}
  <2>1. (m + 1)..(m + k) \in SUBSET Nat  BY <1>1
  <2>2. LineEnds(c) \in SUBSET Nat  BY <1>2, <2>1
  <2>3. \E p \in LineEnds(c) : \A q \in LineEnds(c) : p <= q  BY <1>4, <2>2, LowestIs
  <2>4. PICK e \in LineEnds(c) : e = LineEnd(c) /\ \A q \in LineEnds(c) : e <= q
    BY <2>3 DEF LineEnd
  <2>5. e \in 2..sent[c] /\ e > m /\ CRLF(c, e)  BY <1>1, <1>2, <2>4
  <2>6. ASSUME NEW p \in 2..sent[c], CRLF(c, p)
        PROVE  e <= p
    <3>1. CASE p <= m  BY <1>1, <2>6, <3>1
    <3>2. CASE p > m /\ p <= m + k
      <4>1. p \in LineEnds(c)  BY <1>1, <1>2, <2>6, <3>2
      <4> QED  BY <2>4, <4>1
    <3>3. CASE p > m + k
      <4>1. e <= m + k  BY <1>1, <1>2, <2>4
      <4> QED  BY <1>1, <2>5, <3>3, <4>1
    <3> QED  BY <1>1, <3>1, <3>2, <3>3
  <2>7. \A p \in 2..sent[c] : CRLF(c, p) => LineEnd(c) <= p  BY <2>4, <2>6
  <2>8. LineEnd(c) \in 2..sent[c] /\ CRLF(c, LineEnd(c))  BY <2>4, <2>5
  <2> QED  BY <1>4, <2>7, <2>8
<1> QED  BY <1>3, <1>4

\* The client of a recv, and its child, afterwards.
LEMMA Received ==
    ASSUME Inv, NEW i \in Child, NEW c \in Open(i),
           Again(i, c) \/ EndOfInput(i, c) \/ More(i, c) \/ Line(i, c),
           UNCHANGED <<home, request, sent, pid, sig>>
    PROVE  /\ state' \in [Client -> {"out", "queued", "open", "closed"}]
           /\ m_read_idx' \in [Client -> 0..(BUFFER_SIZE - 1)] /\ runs' \in [Client -> Seq(Nat)]
           /\ prog' \in [Client -> {"none", "runs", "zombie", "done"}]
           /\ held' \in [Client -> SUBSET Client]
           /\ busy' = [busy EXCEPT ![i] = 0] \/ (busy' = [busy EXCEPT ![i] = c] /\ state' = state)
           /\ Sound(c)'
           /\ \A d \in Client \ {c} : /\ state'[d] = state[d] /\ m_read_idx'[d] = m_read_idx[d]
                                      /\ runs'[d] = runs[d] /\ prog'[d] = prog[d]
<1>1. ClientTypes /\ Sound(c) /\ c \in Client /\ state[c] = "open" /\ home[c] = i
  BY DEF Inv, Open
<1>2. /\ m_read_idx[c] \in Nat /\ Count(c) \in Nat /\ sent[c] \in Nat
      /\ m_read_idx[c] + Count(c) <= sent[c]
      /\ m_read_idx[c] + Count(c) \in 0..(BUFFER_SIZE - 1)
  BY <1>1, CountIs
<1>3. runs[c] = <<>> /\ prog[c] = "none"  BY <1>1 DEF Sound
<1>4. CASE Again(i, c)
  <2>1. /\ busy' = [busy EXCEPT ![i] = 0]
        /\ UNCHANGED <<state, m_read_idx, runs, prog, held>>
    BY <1>4 DEF Again, Leave, progVars
  <2>2. Sound(c)'  BY <1>1, <1>3, <2>1, Untouched
  <2> QED  BY <1>1, <2>1, <2>2 DEF ClientTypes
<1>5. CASE EndOfInput(i, c)
  <2>1. /\ busy' = [busy EXCEPT ![i] = 0] /\ state' = [state EXCEPT ![c] = "closed"]
        /\ UNCHANGED <<m_read_idx, runs, prog, held>>
    BY <1>5 DEF EndOfInput, Leave, removefd, progVars
  <2>2. Sound(c)'  BY <1>1, <1>3, <2>1 DEF Sound, ClientTypes, CRLF
  <2> QED  BY <1>1, <2>1, <2>2 DEF ClientTypes
<1>6. CASE More(i, c)
  <2>1. /\ m_read_idx' = [m_read_idx EXCEPT ![c] = @ + Count(c)] /\ LineEnds(c) = {}
        /\ busy' = [busy EXCEPT ![i] = c] /\ UNCHANGED <<state, runs, prog, held>>
    BY <1>6 DEF More, progVars
  <2>2. \A p \in 2..(m_read_idx[c] + Count(c)) : ~CRLF(c, p)  BY <1>1, <2>1, LineEndIs
  <2>3. /\ m_read_idx'[c] = m_read_idx[c] + Count(c)
        /\ m_read_idx' \in [Client -> 0..(BUFFER_SIZE - 1)]
        /\ \A d \in Client \ {c} : m_read_idx'[d] = m_read_idx[d]
    BY <1>1, <1>2, <2>1 DEF ClientTypes
  <2>4. Sound(c)'
    <3>1. \A p : CRLF(c, p)' <=> CRLF(c, p)  BY DEF CRLF
    <3> QED  BY <1>1, <1>2, <1>3, <2>1, <2>2, <2>3, <3>1 DEF Sound
  <2> QED  BY <1>1, <2>1, <2>3, <2>4 DEF ClientTypes
<1>7. CASE Line(i, c)
  <2>1. /\ m_read_idx' = [m_read_idx EXCEPT ![c] = @ + Count(c)] /\ LineEnds(c) # {}
        /\ busy' = [busy EXCEPT ![i] = 0] /\ state' = [state EXCEPT ![c] = "closed"]
        /\ \/ /\ runs' = [runs EXCEPT ![c] = Append(@, LineEnd(c) - 2)]
              /\ prog' = [prog EXCEPT ![c] = "runs"] /\ held' = [held EXCEPT ![c] = Open(i)]
           \/ UNCHANGED <<runs, prog, held>>
    BY <1>7 DEF Line, Leave, removefd, progVars
  <2>2. /\ LineEnd(c) \in 2..sent[c] /\ CRLF(c, LineEnd(c))
        /\ \A p \in 2..sent[c] : CRLF(c, p) => LineEnd(c) <= p
    BY <1>1, <2>1, LineEndIs
  <2>3. PICK e \in 2..sent[c] : e = LineEnd(c)  BY <2>2
  <2>4. e - 2 \in Nat /\ (e - 2) + 2 = e  BY <1>2
  <2>5. /\ m_read_idx'[c] = m_read_idx[c] + Count(c)
        /\ m_read_idx' \in [Client -> 0..(BUFFER_SIZE - 1)]
        /\ \A d \in Client \ {c} : m_read_idx'[d] = m_read_idx[d]
        /\ state' \in [Client -> {"out", "queued", "open", "closed"}] /\ state'[c] = "closed"
        /\ \A d \in Client \ {c} : state'[d] = state[d]
    BY <1>1, <1>2, <2>1 DEF ClientTypes
  <2>6. \A p : CRLF(c, p)' <=> CRLF(c, p)  BY DEF CRLF
  <2>7. CASE UNCHANGED <<runs, prog, held>>
    <3>1. Sound(c)'  BY <1>1, <1>2, <1>3, <2>5, <2>7 DEF Sound
    <3> QED  BY <1>1, <2>1, <2>5, <2>7, <3>1 DEF ClientTypes
  <2>8. CASE /\ runs' = [runs EXCEPT ![c] = Append(@, LineEnd(c) - 2)]
             /\ prog' = [prog EXCEPT ![c] = "runs"] /\ held' = [held EXCEPT ![c] = Open(i)]
    <3>1. Append(<<>>, e - 2) = <<e - 2>> /\ <<e - 2>> \in Seq(Nat)  BY <2>4
    <3>2. runs'[c] = <<e - 2>> /\ prog'[c] = "runs"  BY <1>1, <1>3, <2>3, <2>8, <3>1 DEF ClientTypes
    <3>3. /\ runs' \in [Client -> Seq(Nat)] /\ prog' \in [Client -> {"none", "runs", "zombie", "done"}]
          /\ \A d \in Client \ {c} : runs'[d] = runs[d] /\ prog'[d] = prog[d]
      <4>1. runs' = [runs EXCEPT ![c] = <<e - 2>>]  BY <1>1, <1>3, <2>3, <2>8, <3>1
      <4> QED  BY <1>1, <2>8, <3>1, <4>1 DEF ClientTypes
    <3>4. held' \in [Client -> SUBSET Client]  BY <1>1, <2>8 DEF ClientTypes, Open
    <3>5. Len(runs'[c]) = 1 /\ runs'[c][1] = e - 2  BY <3>2
    <3>6. Sound(c)'
      BY <1>1, <1>2, <2>2, <2>3, <2>4, <2>5, <2>6, <3>2, <3>5 DEF Sound
    <3> QED  BY <2>1, <2>5, <3>3, <3>4, <3>6
  <2> QED  BY <2>1, <2>7, <2>8
<1> QED  BY <1>4, <1>5, <1>6, <1>7

LEMMA InvProcess ==
    ASSUME Inv, NEW i \in Child, Process(i)
    PROVE  Inv'
<1>1. PICK c \in Open(i) :
          /\ ready' = ready \/ ready' = [ready EXCEPT ![c] = FALSE]
          /\ Again(i, c) \/ EndOfInput(i, c) \/ More(i, c) \/ Line(i, c)
  BY DEF Process
<1>2. /\ UNCHANGED <<sub_process_counter, turns, pready, pbatch, sigs, m_stop, done, crashed, asked>>
      /\ UNCHANGED <<pid, jobs, wake, sig, home, request, sent, gone>>
  BY DEF Process, parentVars
<1>3. ServerTypes /\ ClientTypes /\ Busy /\ Rota /\ c \in Client /\ state[c] = "open" /\ home[c] = i
  BY DEF Inv, Open
<1>4. /\ state' \in [Client -> {"out", "queued", "open", "closed"}]
      /\ m_read_idx' \in [Client -> 0..(BUFFER_SIZE - 1)] /\ runs' \in [Client -> Seq(Nat)]
      /\ prog' \in [Client -> {"none", "runs", "zombie", "done"}]
      /\ held' \in [Client -> SUBSET Client]
      /\ busy' = [busy EXCEPT ![i] = 0] \/ (busy' = [busy EXCEPT ![i] = c] /\ state' = state)
      /\ Sound(c)'
      /\ \A d \in Client \ {c} : /\ state'[d] = state[d] /\ m_read_idx'[d] = m_read_idx[d]
                                 /\ runs'[d] = runs[d] /\ prog'[d] = prog[d]
  BY <1>1, <1>2, Received
<1>5. ServerTypes'  BY <1>2, <1>3 DEF ServerTypes
<1>6. ClientTypes'
  <2>1. ready' \in [Client -> BOOLEAN]  BY <1>1, <1>3 DEF ClientTypes
  <2> QED  BY <1>2, <1>3, <1>4, <2>1 DEF ClientTypes
<1>7. Busy'
  <2>1. busy' \in [Child -> Client \cup {0}]  BY <1>3, <1>4 DEF Busy
  <2>2. ASSUME NEW j \in Child, busy'[j] # 0
        PROVE  busy'[j] \in Open(j)'
    <3>1. CASE j = i
      <4>1. busy'[j] = c /\ state' = state  BY <1>3, <1>4, <2>2, <3>1 DEF Busy
      <4> QED  BY <1>2, <1>3, <3>1, <4>1 DEF Open
    <3>2. CASE j # i
      <4>1. busy'[j] = busy[j]  BY <1>3, <1>4, <3>2 DEF Busy
      <4>2. PICK b \in Open(j) : b = busy[j]  BY <1>3, <2>2, <4>1 DEF Busy
      <4>3. b # c /\ b \in Client  BY <1>3, <3>2, <4>2 DEF Open
      <4> QED  BY <1>2, <1>4, <4>1, <4>2, <4>3 DEF Open
    <3> QED  BY <3>1, <3>2
  <2> QED  BY <2>1, <2>2 DEF Busy
<1>8. Rota'  BY <1>2, <1>3, RotaKept DEF Joined
<1>9. \A d \in Client \ {c} : Sound(d)'  BY <1>2, <1>3, <1>4, OthersSound DEF Running
<1> QED  BY <1>4, <1>5, <1>6, <1>7, <1>8, <1>9 DEF Inv

\* The child waits for its programs, all of them: of its zombies none is left.
LEMMA InvChildReap ==
    ASSUME Inv, NEW i \in Child, ChildReap(i)
    PROVE  Inv'
<1>1. /\ sig' = [sig EXCEPT ![i] = {}] /\ ReapPrograms(i)
      /\ UNCHANGED <<sub_process_counter, turns, pready, pbatch, sigs, m_stop, done, crashed, asked>>
      /\ UNCHANGED <<pid, jobs, wake, busy>>
      /\ UNCHANGED <<state, home, ready, request, sent, gone, m_read_idx, runs, held>>
  BY DEF ChildReap, parentVars, clientVars
<1>2. ServerTypes /\ ClientTypes /\ Busy /\ Rota  BY DEF Inv
<1>3. ServerTypes'
  <2>1. sig' \in [Child -> SUBSET {"CHLD", "TERM"}]  BY <1>1, <1>2 DEF ServerTypes
  <2> QED  BY <1>1, <1>2, <2>1 DEF ServerTypes
<1>4. ClientTypes'
  <2>1. prog' \in [Client -> {"none", "runs", "zombie", "done"}]
    BY <1>1, <1>2 DEF ReapPrograms, ClientTypes
  <2> QED  BY <1>1, <1>2, <2>1 DEF ClientTypes
<1>5. Busy'  BY <1>1, <1>2 DEF Busy, Open
<1>6. Rota'  BY <1>1, <1>2, RotaKept DEF Joined
<1>7. ASSUME NEW c \in Client  PROVE Sound(c)'
  <2>1. Sound(c)  BY DEF Inv
  <2>2. prog'[c] = IF prog[c] = "zombie" /\ home[c] = i THEN "done" ELSE prog[c]
    BY <1>1 DEF ReapPrograms
  <2>3. prog'[c] = "zombie" => Running(home[c])' /\ "CHLD" \in sig'[home[c]]
    <3>1. prog'[c] = "zombie" => prog[c] = "zombie" /\ home[c] # i  BY <2>2
    <3>2. prog[c] = "zombie" => home[c] \in Child /\ Running(home[c]) /\ "CHLD" \in sig[home[c]]
      BY <2>1 DEF Sound
    <3> QED  BY <1>1, <1>2, <3>1, <3>2 DEF ServerTypes, Running
  <2>4. \A p : CRLF(c, p)' <=> CRLF(c, p)  BY <1>1 DEF CRLF
  <2>5. (prog'[c] = "none" <=> prog[c] = "none")  BY <2>2
  <2> QED  BY <1>1, <2>1, <2>3, <2>4, <2>5 DEF Sound, Running
<1> QED  BY <1>3, <1>4, <1>5, <1>6, <1>7 DEF Inv

\* The connections of a child that is gone are closed, and its programs are no
\* longer its own.
LEMMA InvExit ==
    ASSUME Inv, NEW i \in Child, Running(i), Exit(i), crashed' \in Nat
    PROVE  Inv'
<1>1. /\ pid' = [pid EXCEPT ![i] = "exited"]
      /\ jobs' = [jobs EXCEPT ![i] = 0] /\ wake' = [wake EXCEPT ![i] = FALSE]
      /\ sig' = [sig EXCEPT ![i] = {}] /\ busy' = [busy EXCEPT ![i] = 0]
      /\ state' = [c \in Client |-> IF c \in Open(i) THEN "closed" ELSE state[c]]
      /\ ReapPrograms(i)
      /\ sigs' = sigs \cup {"CHLD"} /\ pready' = pready \cup {SIGNAL}
      /\ UNCHANGED <<sub_process_counter, turns, pbatch, m_stop, done, asked>>
      /\ UNCHANGED <<home, ready, request, sent, gone, m_read_idx, runs, held>>
  BY DEF Exit
<1>2. ServerTypes /\ ClientTypes /\ Busy /\ Rota  BY DEF Inv
<1>3. ServerTypes'
  <2>1. sig' \in [Child -> SUBSET {"CHLD", "TERM"}]  BY <1>1, <1>2 DEF ServerTypes
  <2>2. pid' \in [Child -> {"running", "exited", "reaped"}]  BY <1>1, <1>2 DEF ServerTypes
  <2>3. jobs' \in [Child -> Nat] /\ wake' \in [Child -> BOOLEAN]  BY <1>1, <1>2 DEF ServerTypes
  <2>4. pready' \subseteq Events /\ sigs' \subseteq {"CHLD", "TERM"}
    BY <1>1, <1>2 DEF ServerTypes, Events
  <2> QED  BY <1>1, <1>2, <2>1, <2>2, <2>3, <2>4 DEF ServerTypes
<1>4. ClientTypes'
  <2>1. prog' \in [Client -> {"none", "runs", "zombie", "done"}]
    BY <1>1, <1>2 DEF ReapPrograms, ClientTypes
  <2>2. state' \in [Client -> {"out", "queued", "open", "closed"}]  BY <1>1, <1>2 DEF ClientTypes
  <2> QED  BY <1>1, <1>2, <2>1, <2>2 DEF ClientTypes
<1>5. Busy'
  <2> SUFFICES ASSUME NEW j \in Child, busy'[j] # 0  PROVE busy'[j] \in Open(j)'
    BY <1>1, <1>2 DEF Busy
  <2>1. j # i /\ busy'[j] = busy[j]  BY <1>1, <1>2 DEF Busy
  <2>2. PICK b \in Open(j) : b = busy[j]  BY <1>2, <2>1 DEF Busy
  <2>3. b \notin Open(i) /\ b \in Client  BY <2>1, <2>2 DEF Open
  <2> QED  BY <1>1, <2>1, <2>2, <2>3 DEF Open
<1>6. Rota'
  <2>1. \A j \in Child : Joined(j) => Joined(j)'  BY <1>1, <1>2 DEF Joined, Running, ServerTypes
  <2> QED  BY <1>1, <1>2, <2>1, RotaKept
<1>7. ASSUME NEW c \in Client  PROVE Sound(c)'
  <2>1. Sound(c)  BY DEF Inv
  <2>2. prog'[c] = IF prog[c] = "zombie" /\ home[c] = i THEN "done" ELSE prog[c]
    BY <1>1 DEF ReapPrograms
  <2>3. prog'[c] = "zombie" => Running(home[c])' /\ "CHLD" \in sig'[home[c]]
    <3>1. prog'[c] = "zombie" => prog[c] = "zombie" /\ home[c] # i  BY <2>2
    <3>2. prog[c] = "zombie" => home[c] \in Child /\ Running(home[c]) /\ "CHLD" \in sig[home[c]]
      BY <2>1 DEF Sound
    <3> QED  BY <1>1, <1>2, <3>1, <3>2 DEF ServerTypes, Running
  <2>4. \A p : CRLF(c, p)' <=> CRLF(c, p)  BY <1>1 DEF CRLF
  <2>5. (prog'[c] = "none" <=> prog[c] = "none")  BY <2>2
  <2>6. state'[c] = "closed" \/ state'[c] = state[c]  BY <1>1
  <2>7. state'[c] # "closed" => state'[c] = state[c] /\ state[c] # "closed"  BY <2>6
  <2> QED  BY <1>1, <2>1, <2>3, <2>4, <2>5, <2>6, <2>7 DEF Sound, Running
<1> QED  BY <1>3, <1>4, <1>5, <1>6, <1>7 DEF Inv

LEMMA InvNext == Inv /\ [Next]_vars => Inv'
<1> SUFFICES ASSUME Inv, [Next]_vars  PROVE Inv'
  OBVIOUS
<1>1. CASE Parent  BY <1>1, InvQuiet, InvDispatch, InvSignals DEF Parent
<1>2. CASE \E i \in Child : ChildStep(i) \/ Crash(i)
  <2>1. PICK i \in Child : ChildStep(i) \/ Crash(i)  BY <1>2
  <2>2. CASE Accept(i) \/ AcceptFails(i)  BY <2>2, InvAccept
  <2>3. CASE Process(i)  BY <2>3, InvProcess
  <2>4. CASE ChildReap(i)  BY <2>4, InvChildReap
  <2>5. CASE ChildStop(i)
    <3>1. Running(i) /\ Exit(i) /\ crashed' \in Nat
      BY <2>5 DEF ChildStop, Idle, Inv, ServerTypes
    <3> QED  BY <3>1, InvExit
  <2>6. CASE Crash(i)
    <3>1. Running(i) /\ Exit(i) /\ crashed' \in Nat
      BY <2>6 DEF Crash, Inv, ServerTypes
    <3> QED  BY <3>1, InvExit
  <2> QED  BY <2>1, <2>2, <2>3, <2>4, <2>5, <2>6 DEF ChildStep
<1>3. CASE \E c \in Client : Connect(c) \/ Send(c) \/ ProgramEnds(c)
  BY <1>3, InvConnect, InvSend, InvProgramEnds
<1>4. CASE AskStop  BY <1>4, InvQuiet
<1>5. CASE UNCHANGED vars
  <2>1. /\ UNCHANGED <<sub_process_counter, turns, pready, pbatch, sigs, m_stop, done, crashed, asked>>
        /\ UNCHANGED <<pid, jobs, wake, sig, busy>> /\ UNCHANGED <<clientVars, progVars>>
    BY <1>5 DEF vars, parentVars, childVars
  <2>2. ClientTypes' /\ Busy' /\ \A c \in Client : Sound(c)'
    BY <2>1, ClientsKept DEF Running
  <2>3. Rota'  BY <2>1, RotaKept DEF Inv, Joined
  <2>4. ServerTypes'  BY <2>1 DEF Inv, ServerTypes
  <2> QED  BY <2>2, <2>3, <2>4 DEF Inv
<1> QED  BY <1>1, <1>2, <1>3, <1>4, <1>5 DEF Next

LEMMA Invariant == Spec => []Inv
  BY InvInit, InvNext, PTL DEF Spec

-----------------------------------------------------------------------------

\* Every variable has its type; a child is in process() only for a connection
\* that is open and its own, and reads no byte past the buffer or what was sent.
THEOREM TypeCorrect == Spec => []TypeOK
  BY Parts, Invariant, PTL

\* run_parent passes clients on in turn: whichever children exit and are
\* skipped, of those left none has been passed two clients more than another.
THEOREM TurnsAreFair == Spec => []InTurn
  BY RotaIsFair, Invariant, PTL

\* process() runs one program for a client, by the name before its first CRLF,
\* in however many pieces that arrived, also between CR and LF; and every
\* program that has ended is awaited by its child.
THEOREM ProgramsHold == Spec => []Programs
  BY Parts, Invariant, PTL

=============================================================================
