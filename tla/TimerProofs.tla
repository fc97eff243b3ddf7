---------------------------- MODULE TimerProofs -----------------------------
(***************************************************************************)
(* Theorems about the two timers of chapter 11: TimeWheel for any number   *)
(* of timers and slots and any timeouts, and TimeHeap for any number of    *)
(* timers, any capacity and any times.                                     *)
(***************************************************************************)
EXTENDS TimeWheel, TimeHeap, TLAPS, FiniteSetTheorems, WellFoundedInduction

(***************************************************************************)
(* The inductive invariant: the lists are linked, and what left counts for *)
(* a timer can be read from its rotation and its slot, given how far tick  *)
(* has come in the list of the current slot.                               *)
(***************************************************************************)
Heads == \A s \in Slot : slots[s] # NULL => slots[s] \in alive /\ time_slot[slots[s]] = s

Nexts ==
    \A t \in alive : next[t] # NULL =>
        next[t] \in alive /\ prev[next[t]] = t /\ time_slot[next[t]] = time_slot[t]

Prevs ==
    \A t \in alive :
        /\ prev[t] # NULL => prev[t] \in alive /\ next[prev[t]] = t
        /\ prev[t] = NULL <=> slots[time_slot[t]] = t

\* No list is a circle.
Grounded == \A S \in SUBSET alive : S # {} => \E t \in S : prev[t] \notin S

Lists == Heads /\ Nexts /\ Prevs /\ Grounded

Types ==
    /\ slots \in [Slot -> Timer \cup {NULL}] /\ alive \subseteq Timer
    /\ next \in [Timer -> Timer \cup {NULL}] /\ prev \in [Timer -> Timer \cup {NULL}]
    /\ rotation \in [Timer -> Nat] /\ time_slot \in [Timer -> Slot] /\ left \in [Timer -> Int]
    /\ late \subseteq alive

Standing ==
    /\ at \in {"idle", "walk", "callback"} /\ cur_slot \in Slot /\ tmp \in alive \cup {NULL}
    /\ at = "idle" => tmp = NULL
    /\ at = "callback" => tmp # NULL /\ rotation[tmp] = 0

Here == {t \in alive : time_slot[t] = cur_slot}

\* What tick has still to visit in this turn, all of it in the list from tmp on.
Ahead(A) ==
    /\ A \subseteq Here
    /\ at = "idle" => A = Here
    /\ at # "idle" =>
          /\ tmp # NULL => tmp \in A
          /\ \A t \in A : next[t] # NULL => next[t] \in A
          /\ \A t \in A : t # tmp => prev[t] \in A

\* Turns from this one to the next of a slot.
Distance(s) == IF s < cur_slot THEN s - cur_slot + N ELSE s - cur_slot

\* What tick has left behind waits for the next turn of the wheel.
Turns(A, t) == IF t \in Here \ A THEN N ELSE Distance(time_slot[t])

\* Turns until the callback really runs.
Due(t) == left[t] + (IF t \in late THEN N ELSE 0)
Counted(A) == \A t \in alive : Due(t) = rotation[t] * N + Turns(A, t)

Inv == Types /\ Lists /\ Standing /\ \E A \in SUBSET Timer : Ahead(A) /\ Counted(A)

-----------------------------------------------------------------------------

LEMMA Constants == N \in Nat /\ N > 0 /\ TI \in Nat /\ TI > 0 /\ NULL \notin Timer
  BY WheelAssumption DEF WheelAssumption, NULL

LEMMA LinkedIs == Types /\ Lists /\ Standing => Linked
<1> SUFFICES ASSUME Types, Lists, Standing  PROVE Linked
  OBVIOUS
<1>1. TypeOK  BY DEF Types, Standing, TypeOK
<1>2. \A S \in (SUBSET alive) \ {{}} : \E t \in S : prev[t] \notin S  BY DEF Lists, Grounded
<1> QED  BY <1>1, <1>2 DEF Lists, Heads, Nexts, Prevs, Linked

LEMMA OnTimeIs == Inv => OnTime
<1> SUFFICES ASSUME Inv  PROVE OnTime
  OBVIOUS
<1>1. PICK A \in SUBSET Timer : Ahead(A) /\ Counted(A)  BY DEF Inv
<1>2. ASSUME NEW t \in alive
      PROVE  /\ Due(t) \in Nat /\ rotation[t] \in Nat /\ left[t] \in Int
             /\ Due(t) = rotation[t] * N + Turns(A, t)
             /\ t \in A => Due(t) = rotation[t] * N
  <2>1. t \in Timer /\ rotation[t] \in Nat /\ left[t] \in Int /\ time_slot[t] \in 0..N-1 /\ cur_slot \in 0..N-1 /\ N \in Nat
    BY <1>2, Constants DEF Inv, Types, Standing, Slot
  <2>2. rotation[t] * N \in Nat  BY <2>1
  <2>3. Turns(A, t) \in Nat  BY <2>1 DEF Turns, Distance
  <2>4. t \in A => Turns(A, t) = 0  BY <1>1, <2>1 DEF Ahead, Here, Turns, Distance
  <2> QED  BY <1>1, <1>2, <2>1, <2>2, <2>3, <2>4 DEF Counted
<1>3. at = "callback" => tmp \in A /\ tmp \in alive /\ rotation[tmp] = 0
  BY <1>1, Constants DEF Inv, Standing, Ahead
<1>4. at = "callback" => tmp \in alive /\ Due(tmp) = 0  BY <1>2, <1>3, Constants
<1>5. ASSUME NEW t \in alive
      PROVE  /\ left[t] >= IF t \in late THEN -N ELSE 0
             /\ Due(t) = 0 => left[t] = IF t \in late THEN -N ELSE 0
  BY <1>2, <1>5, Constants DEF Due
<1> QED  BY <1>4, <1>5 DEF OnTime

(***************************************************************************)
(* The lists: a new timer in front, and a timer taken out.                 *)
(***************************************************************************)
LEMMA TicksIs ==
    ASSUME NEW timeout \in Nat
    PROVE  Ticks(timeout) \in Nat
  BY Constants DEF Ticks

LEMMA SlotIs ==
    ASSUME NEW ticks \in Nat, cur_slot \in Slot
    PROVE  LET ts == (cur_slot + (ticks % N)) % N
           IN  /\ ts \in Slot /\ Distance(ts) = ticks % N /\ ticks \div N \in Nat
               /\ ticks = (ticks \div N) * N + (ticks % N)
               /\ ts = cur_slot <=> ticks % N = 0
<1>1. /\ ticks % N \in 0..N-1 /\ ticks \div N \in Nat /\ cur_slot \in 0..N-1
      /\ ticks = (ticks \div N) * N + (ticks % N)
  BY Constants DEF Slot
<1>2. \A d \in 0..N-1 : LET ts == (cur_slot + d) % N
                        IN  ts = IF cur_slot + d < N THEN cur_slot + d ELSE cur_slot + d - N
  BY <1>1, Constants
<1> DEFINE d == ticks % N
<1> HIDE DEF d
<1>3. LET ts == (cur_slot + d) % N
      IN  ts \in Slot /\ Distance(ts) = d /\ (ts = cur_slot <=> d = 0)
  BY <1>1, <1>2, Constants DEF Distance, Slot, d
<1> QED  BY <1>1, <1>3 DEF d

LEMMA AddKeepsLists ==
    ASSUME Types, Lists, cur_slot \in Slot, NEW timer \in Timer, NEW timeout \in Nat,
           add_timer(timer, timeout)
    PROVE  /\ Types' /\ Lists'
           /\ \A t \in alive : /\ next'[t] = next[t] /\ prev'[t] \in {prev[t], timer}
                               /\ prev[t] # NULL => prev'[t] = prev[t]
<1> DEFINE ticks == Ticks(timeout)
           ts == (cur_slot + (ticks % N)) % N
<1>1. ticks \in Nat  BY TicksIs
<1>2. ts \in Slot /\ ticks \div N \in Nat  BY <1>1, SlotIs
<1>3. /\ timer \notin alive /\ alive' = alive \cup {timer}
      /\ rotation' = [rotation EXCEPT ![timer] = ticks \div N]
      /\ time_slot' = [time_slot EXCEPT ![timer] = ts]
      /\ next' = [next EXCEPT ![timer] = slots[ts]]
      /\ prev' = [t \in Timer |-> IF t = timer THEN NULL
                                  ELSE IF t = slots[ts] THEN timer ELSE prev[t]]
      /\ slots' = [slots EXCEPT ![ts] = timer]
      /\ left' = [left EXCEPT ![timer] = ticks] /\ late' \subseteq late \cup {timer}
  BY DEF add_timer, Rotations
<1> HIDE DEF ticks, ts
<1>5. Types'  BY <1>1, <1>2, <1>3, Constants DEF Types
<1>6. alive \subseteq Timer /\ NULL \notin Timer  BY Constants DEF Types
<1>7. slots[ts] # NULL => slots[ts] \in alive /\ time_slot[slots[ts]] = ts /\ prev[slots[ts]] = NULL
  BY <1>2 DEF Lists, Heads, Prevs
<1>8. Heads'  BY <1>2, <1>3, <1>6 DEF Lists, Heads, Types
<1>9. \A t \in alive : t # timer /\ time_slot'[t] = time_slot[t] /\ next'[t] = next[t]
                       /\ prev'[t] = IF t = slots[ts] THEN timer ELSE prev[t]
  BY <1>3, <1>6 DEF Types
<1>10. Nexts'
  <2> SUFFICES ASSUME NEW t \in alive', next'[t] # NULL
               PROVE  next'[t] \in alive' /\ prev'[next'[t]] = t /\ time_slot'[next'[t]] = time_slot'[t]
    BY DEF Nexts
  <2>1. CASE t = timer  BY <1>2, <1>3, <1>6, <1>7, <1>9, <2>1 DEF Types
  <2>2. CASE t \in alive
    <3>1. next[t] \in alive /\ prev[next[t]] = t /\ time_slot[next[t]] = time_slot[t]
      BY <1>9, <2>2 DEF Lists, Nexts
    <3>2. next[t] # slots[ts]  BY <1>6, <1>7, <2>2, <3>1
    <3> QED  BY <1>3, <1>9, <2>2, <3>1, <3>2
  <2> QED  BY <1>3, <2>1, <2>2
<1>11. Prevs'
  <2> SUFFICES ASSUME NEW t \in alive'
               PROVE  /\ prev'[t] # NULL => prev'[t] \in alive' /\ next'[prev'[t]] = t
                      /\ prev'[t] = NULL <=> slots'[time_slot'[t]] = t
    BY DEF Prevs
  <2>1. CASE t = timer  BY <1>2, <1>3, <1>6, <2>1 DEF Types
  <2>2. CASE t \in alive
    <3>1. /\ prev[t] # NULL => prev[t] \in alive /\ next[prev[t]] = t
          /\ prev[t] = NULL <=> slots[time_slot[t]] = t
      BY <2>2 DEF Lists, Prevs
    <3>2. CASE t = slots[ts]
      BY <1>2, <1>3, <1>6, <1>7, <1>9, <2>2, <3>1, <3>2 DEF Types
    <3>3. CASE t # slots[ts]
      <4>1. prev'[t] = prev[t]  BY <1>9, <2>2, <3>3
      <4>2. slots'[time_slot'[t]] = t <=> slots[time_slot[t]] = t
        BY <1>2, <1>3, <1>6, <1>9, <2>2, <3>3 DEF Types
      <4> QED  BY <1>3, <1>9, <3>1, <4>1, <4>2
    <3> QED  BY <3>2, <3>3
  <2> QED  BY <1>3, <2>1, <2>2
<1>12. Grounded'
  <2> SUFFICES ASSUME NEW S \in SUBSET alive', S # {}
               PROVE  \E t \in S : prev'[t] \notin S
    BY DEF Grounded
  <2>1. CASE timer \in S  BY <1>3, <1>6, <2>1
  <2>2. CASE timer \notin S
    <3>1. S \in SUBSET alive  BY <1>3, <2>2
    <3>2. PICK t \in S : prev[t] \notin S  BY <3>1 DEF Lists, Grounded
    <3>3. prev'[t] \in {timer, prev[t]}  BY <1>9, <3>1
    <3> QED  BY <2>2, <3>2, <3>3
  <2> QED  BY <2>1, <2>2
<1> QED  BY <1>5, <1>6, <1>7, <1>8, <1>9, <1>10, <1>11, <1>12 DEF Lists

LEMMA UnlinkKeepsLists ==
    ASSUME Types, Lists, NEW timer \in alive, NEW ts, ts = time_slot[timer],
           Unlink(timer, ts), delete(timer)
    PROVE  /\ Types' /\ Lists' /\ next[timer] # timer
           /\ \A t \in alive' : /\ t \in alive /\ t # timer /\ time_slot'[t] = time_slot[t]
                                /\ next'[t] = IF next[t] = timer THEN next[timer] ELSE next[t]
                                /\ prev'[t] = IF prev[t] = timer THEN prev[timer] ELSE prev[t]
<1>1. alive \subseteq Timer /\ NULL \notin Timer /\ timer \in Timer /\ ts \in Slot
  BY Constants DEF Types
<1>2. /\ alive' = alive \ {timer}
      /\ rotation' = [rotation EXCEPT ![timer] = 0]
      /\ time_slot' = [time_slot EXCEPT ![timer] = 0]
      /\ left' = [left EXCEPT ![timer] = 0] /\ late' = late \ {timer}
  BY DEF delete
<1>3. /\ prev[timer] = NULL <=> slots[ts] = timer
      /\ prev[timer] # NULL => prev[timer] \in alive /\ next[prev[timer]] = timer
      /\ next[timer] # NULL =>
            next[timer] \in alive /\ prev[next[timer]] = timer /\ time_slot[next[timer]] = ts
  BY DEF Lists, Nexts, Prevs
<1>4. prev[timer] # timer /\ next[timer] # timer
  <2>1. {timer} \in SUBSET alive /\ {timer} # {}  OBVIOUS
  <2>2. prev[timer] # timer  BY <2>1 DEF Lists, Grounded
  <2> QED  BY <1>1, <1>3, <2>2
<1>5. \A t \in alive : (prev[t] = timer <=> t = next[timer]) /\ (next[t] = timer <=> t = prev[timer])
  BY <1>1, <1>3 DEF Lists, Nexts, Prevs
<1>6. /\ slots' = [slots EXCEPT ![ts] = IF prev[timer] = NULL THEN next[timer] ELSE @]
      /\ next' = [t \in Timer |-> IF t = timer THEN NULL
                                  ELSE IF prev[timer] # NULL /\ t = prev[timer] THEN next[timer] ELSE next[t]]
      /\ prev' = [t \in Timer |-> IF t = timer \/ (prev[timer] = NULL /\ t = next[timer]) THEN NULL
                                  ELSE IF t = next[timer] THEN prev[timer] ELSE prev[t]]
  BY <1>3 DEF Unlink
<1>7. ASSUME NEW t \in alive'
      PROVE  /\ t \in alive /\ t # timer /\ time_slot'[t] = time_slot[t]
             /\ next'[t] = IF next[t] = timer THEN next[timer] ELSE next[t]
             /\ prev'[t] = IF prev[t] = timer THEN prev[timer] ELSE prev[t]
  BY <1>1, <1>2, <1>5, <1>6, <1>7 DEF Types
<1>8. Types'
  <2>1. 0 \in Slot  BY Constants DEF Slot
  <2>2. slots' \in [Slot -> Timer \cup {NULL}]  BY <1>1, <1>6 DEF Types
  <2>3. next' \in [Timer -> Timer \cup {NULL}] /\ prev' \in [Timer -> Timer \cup {NULL}]
    BY <1>1, <1>6 DEF Types
  <2>4. rotation' \in [Timer -> Nat] /\ left' \in [Timer -> Int]  BY <1>2 DEF Types
  <2>5. time_slot' \in [Timer -> Slot] /\ alive' \subseteq Timer /\ late' \subseteq alive'
    BY <1>1, <1>2, <2>1 DEF Types
  <2> QED  BY <2>2, <2>3, <2>4, <2>5 DEF Types
<1>9. Heads'
  <2> SUFFICES ASSUME NEW s \in Slot, slots'[s] # NULL
               PROVE  slots'[s] \in alive' /\ time_slot'[slots'[s]] = s
    BY DEF Heads
  <2>1. CASE s = ts /\ prev[timer] = NULL
    <3>1. slots'[s] = next[timer]  BY <1>6, <2>1 DEF Types
    <3> QED  BY <1>2, <1>3, <1>4, <1>7, <2>1, <3>1
  <2>2. CASE ~(s = ts /\ prev[timer] = NULL)
    <3>1. slots'[s] = slots[s] /\ slots[s] \in alive /\ time_slot[slots[s]] = s
      BY <1>6, <2>2 DEF Types, Lists, Heads
    <3>2. slots[s] # timer  BY <1>3, <2>2, <3>1
    <3> QED  BY <1>2, <1>7, <3>1, <3>2
  <2> QED  BY <2>1, <2>2
<1>10. Nexts'
  <2> SUFFICES ASSUME NEW t \in alive', next'[t] # NULL
               PROVE  next'[t] \in alive' /\ prev'[next'[t]] = t /\ time_slot'[next'[t]] = time_slot'[t]
    BY DEF Nexts
  <2>1. t \in alive /\ t # timer  BY <1>7
  <2>2. CASE next[t] = timer
    <3>1. next'[t] = next[timer] /\ t = prev[timer] /\ time_slot[timer] = time_slot[t]
      BY <1>1, <1>5, <1>7, <2>1, <2>2 DEF Lists, Nexts
    <3>2. next[timer] \in alive'  BY <1>2, <1>3, <1>4, <3>1
    <3> QED  BY <1>3, <1>7, <3>1, <3>2
  <2>3. CASE next[t] # timer
    <3>1. /\ next'[t] = next[t] /\ next[t] \in alive /\ prev[next[t]] = t
          /\ time_slot[next[t]] = time_slot[t]
      BY <1>7, <2>1, <2>3 DEF Lists, Nexts
    <3>2. next[t] \in alive'  BY <1>2, <2>3, <3>1
    <3> QED  BY <1>7, <2>1, <3>1, <3>2
  <2> QED  BY <2>2, <2>3
<1>11. Prevs'
  <2> SUFFICES ASSUME NEW t \in alive'
               PROVE  /\ prev'[t] # NULL => prev'[t] \in alive' /\ next'[prev'[t]] = t
                      /\ prev'[t] = NULL <=> slots'[time_slot'[t]] = t
    BY DEF Prevs
  <2>1. /\ t \in alive /\ t # timer
        /\ prev[t] = NULL <=> slots[time_slot[t]] = t
        /\ prev[t] # NULL => prev[t] \in alive /\ next[prev[t]] = t
        /\ time_slot'[t] = time_slot[t] /\ time_slot[t] \in Slot
    BY <1>1, <1>7 DEF Lists, Prevs, Types
  <2>2. CASE prev[t] = timer
    <3>1. prev'[t] = prev[timer] /\ t = next[timer] /\ time_slot[t] = ts
      BY <1>1, <1>3, <1>5, <1>7, <2>1, <2>2
    <3>2. prev[timer] # NULL => prev[timer] \in alive' /\ next'[prev[timer]] = t
      BY <1>2, <1>3, <1>4, <1>7, <3>1
    <3>3. slots'[ts] = IF prev[timer] = NULL THEN t ELSE slots[ts]  BY <1>1, <1>6, <3>1 DEF Types
    <3>4. slots[ts] # t  BY <1>1, <2>1, <2>2, <3>1
    <3> QED  BY <2>1, <3>1, <3>2, <3>3, <3>4
  <2>3. CASE prev[t] # timer
    <3>1. prev'[t] = prev[t]  BY <1>7, <2>3
    <3>2. prev[t] # NULL => prev[t] \in alive' /\ next'[prev[t]] = t
      BY <1>2, <1>7, <2>1, <2>3
    <3>3. slots'[time_slot[t]] = t <=> slots[time_slot[t]] = t
      BY <1>1, <1>3, <1>6, <2>1, <2>3 DEF Types
    <3> QED  BY <2>1, <3>1, <3>2, <3>3
  <2> QED  BY <2>2, <2>3
<1>12. Grounded'
  <2> SUFFICES ASSUME NEW S \in SUBSET alive', S # {}, \A t \in S : prev'[t] \in S
               PROVE  FALSE
    BY DEF Grounded
  <2>1. S \in SUBSET alive /\ S \cup {timer} \in SUBSET alive /\ timer \notin S /\ NULL \notin S
    BY <1>1, <1>2
  <2>2. CASE \E t \in S : prev[t] = timer
    <3>1. prev[timer] \in S  BY <1>7, <2>2
    <3>2. \A t \in S \cup {timer} : prev[t] \in S \cup {timer}  BY <1>7, <3>1
    <3> QED  BY <2>1, <3>2 DEF Lists, Grounded
  <2>3. CASE \A t \in S : prev[t] # timer
    <3>1. \A t \in S : prev[t] \in S  BY <1>7, <2>3
    <3> QED  BY <2>1, <3>1 DEF Lists, Grounded
  <2> QED  BY <2>2, <2>3
<1> QED  BY <1>4, <1>7, <1>8, <1>9, <1>10, <1>11, <1>12 DEF Lists

(***************************************************************************)
(* The steps of the program and of tick.                                   *)
(***************************************************************************)
LEMMA InvInit == Init => Inv
<1> SUFFICES ASSUME Init  PROVE Inv
  OBVIOUS
<1>1. 0 \in Slot /\ alive = {} /\ at = "idle" /\ tmp = NULL  BY Constants DEF Init, Slot
<1>2. Types  BY <1>1 DEF Init, Types
<1>3. Lists  BY <1>1 DEF Init, Lists, Heads, Nexts, Prevs, Grounded
<1>4. Standing  BY <1>1 DEF Init, Standing
<1>5. Ahead({}) /\ Counted({})  BY <1>1 DEF Ahead, Counted, Here
<1> QED  BY <1>2, <1>3, <1>4, <1>5 DEF Inv

LEMMA InvAdd == Inv /\ Add => Inv'
<1> SUFFICES ASSUME Inv, Add  PROVE Inv'
  OBVIOUS
<1>1. PICK timer \in Timer, timeout \in Nat : add_timer(timer, timeout)
  BY WheelAssumption DEF Add, WheelAssumption
<1>2. at \in {"idle", "callback"} /\ cur_slot' = cur_slot /\ tmp' = tmp /\ at' = at
  BY DEF Add
<1>3. PICK A \in SUBSET Timer : Ahead(A) /\ Counted(A)  BY DEF Inv
<1>4. Types /\ Lists /\ Standing /\ cur_slot \in Slot  BY DEF Inv, Standing
<1>5. /\ Types' /\ Lists'
      /\ \A t \in alive : /\ next'[t] = next[t] /\ prev'[t] \in {prev[t], timer}
                          /\ prev[t] # NULL => prev'[t] = prev[t]
  BY <1>1, <1>4, AddKeepsLists
<1>6. PICK ticks \in Nat : ticks = Ticks(timeout)  BY TicksIs
<1>7. PICK ts \in Slot : ts = (cur_slot + (ticks % N)) % N  BY <1>4, SlotIs
<1>8. /\ Distance(ts) = ticks % N /\ ticks \div N \in Nat /\ ticks % N \in Nat
      /\ ticks = (ticks \div N) * N + (ticks % N)
      /\ ts = cur_slot <=> ticks % N = 0
  BY <1>4, <1>7, SlotIs, Constants
<1>9. /\ timer \notin alive /\ alive' = alive \cup {timer} /\ alive \subseteq Timer
      /\ rotation' = [rotation EXCEPT ![timer] = ticks \div N]
      /\ time_slot' = [time_slot EXCEPT ![timer] = ts]
      /\ left' = [left EXCEPT ![timer] = ticks] /\ late \subseteq alive
      /\ late' = IF at = "callback" /\ ticks % N = 0 THEN late \cup {timer} ELSE late
  BY <1>1, <1>4, <1>6, <1>7 DEF add_timer, Rotations, Types
<1>10. \A t \in alive : /\ t \in Timer /\ t # timer /\ rotation'[t] = rotation[t]
                        /\ time_slot'[t] = time_slot[t] /\ Due(t)' = Due(t)
  BY <1>4, <1>9 DEF Types, Due
<1>11. Standing'  BY <1>2, <1>4, <1>9, <1>10 DEF Standing
<1>12. PICK B \in SUBSET Timer : B = IF at = "idle" /\ ts = cur_slot THEN A \cup {timer} ELSE A
  OBVIOUS
<1>13. Here' = IF ts = cur_slot THEN Here \cup {timer} ELSE Here
  BY <1>2, <1>4, <1>9, <1>10 DEF Here, Types
<1>14. Ahead(B)'
  <2>1. A \subseteq Here /\ Here \subseteq alive /\ B \subseteq Here'  BY <1>3, <1>12, <1>13 DEF Ahead, Here
  <2>2. at' = "idle" => B = Here'  BY <1>2, <1>3, <1>12, <1>13 DEF Ahead
  <2>3. ASSUME at # "idle"
        PROVE  /\ B = A /\ tmp' # NULL => tmp' \in A
               /\ \A t \in A : next'[t] # NULL => next'[t] \in A
               /\ \A t \in A : t # tmp' => prev'[t] \in A
    <3>1. /\ B = A /\ tmp # NULL => tmp \in A
          /\ \A t \in A : next[t] # NULL => next[t] \in A
          /\ \A t \in A : t # tmp => prev[t] \in A
      BY <1>3, <1>12, <2>3 DEF Ahead
    <3>2. NULL \notin A  BY Constants
    <3> QED  BY <1>2, <1>5, <2>1, <3>1, <3>2
  <2> QED  BY <1>2, <1>12, <2>1, <2>2, <2>3 DEF Ahead
<1>15. Counted(B)'
  <2> SUFFICES ASSUME NEW t \in alive'
               PROVE  Due(t)' = rotation'[t] * N + Turns(B, t)'
    BY DEF Counted
  <2>1. CASE t \in alive
    <3>1. t \in Here' \ B <=> t \in Here \ A  BY <1>9, <1>12, <1>13, <2>1
    <3>2. Turns(B, t)' = Turns(A, t)  BY <1>2, <1>10, <2>1, <3>1 DEF Turns, Distance
    <3> QED  BY <1>3, <1>10, <2>1, <3>2 DEF Counted
  <2>2. CASE t = timer
    <3>1. timer \notin A /\ timer \notin Here  BY <1>3, <1>9 DEF Ahead, Here
    <3>2. rotation'[t] = ticks \div N /\ time_slot'[t] = ts /\ left'[t] = ticks
      BY <1>4, <1>9, <2>2 DEF Types
    <3>3. Turns(B, t)' = IF t \in Here' \ B THEN N ELSE ticks % N
      BY <1>2, <1>8, <3>2 DEF Turns, Distance
    <3>4. t \in Here' \ B <=> ts = cur_slot /\ at = "callback"  BY <1>2, <1>12, <1>13, <2>2, <3>1
    <3>5. Due(t)' = ticks + (IF ts = cur_slot /\ at = "callback" THEN N ELSE 0)
      BY <1>8, <1>9, <2>2, <3>2 DEF Due
    <3>6. PICK r \in Nat, d \in Nat, p \in Int : r = ticks \div N /\ d = ticks % N /\ p = r * N
      BY <1>8, Constants
    <3>7. ticks = p + d  BY <1>8, <3>6
    <3>8. Turns(B, t)' = IF ts = cur_slot /\ at = "callback" THEN N ELSE d  BY <3>3, <3>4, <3>6
    <3>9. ts = cur_slot => d = 0  BY <1>8, <3>6
    <3>10. Due(t)' = p + Turns(B, t)'  BY <3>5, <3>6, <3>7, <3>8, <3>9, Constants
    <3> QED  BY <3>2, <3>6, <3>10
  <2> QED  BY <1>9, <2>1, <2>2
<1> QED  BY <1>5, <1>11, <1>14, <1>15 DEF Inv

\* A timer that is taken out, by del_timer or by tick, leaves all counts of the
\* others as they are, and what is left of the list is followed as before.
LEMMA TakenOut ==
    ASSUME Inv, NEW A \in SUBSET Timer, Ahead(A), Counted(A), NEW timer \in alive,
           Unlink(timer, time_slot[timer]), delete(timer), cur_slot' = cur_slot
    PROVE  /\ Types' /\ Lists' /\ A \ {timer} \subseteq Here' /\ Counted(A \ {timer})'
           /\ Here' = Here \ {timer} /\ alive' = alive \ {timer} /\ next[timer] # timer
           /\ \A t \in alive' : rotation'[t] = rotation[t]
           /\ at # "idle" => \A t \in A \ {timer} :
                 /\ next'[t] # NULL => next'[t] \in A \ {timer}
                 /\ t # tmp /\ (timer # tmp \/ t # next[tmp]) => prev'[t] \in A \ {timer}
<1>1. Types /\ Lists /\ Standing  BY DEF Inv
<1>2. PICK ts \in Slot : ts = time_slot[timer]  BY <1>1 DEF Types
<1>3. /\ Types' /\ Lists' /\ next[timer] # timer
      /\ \A t \in alive' : /\ t \in alive /\ t # timer /\ time_slot'[t] = time_slot[t]
                           /\ next'[t] = IF next[t] = timer THEN next[timer] ELSE next[t]
                           /\ prev'[t] = IF prev[t] = timer THEN prev[timer] ELSE prev[t]
  BY <1>1, <1>2, UnlinkKeepsLists
<1>4. /\ alive' = alive \ {timer} /\ alive \subseteq Timer /\ NULL \notin Timer
      /\ \A t \in alive' : rotation'[t] = rotation[t] /\ Due(t)' = Due(t)
  BY <1>1, Constants DEF delete, Types, Due
<1>5. Here' = Here \ {timer}  BY <1>3, <1>4 DEF Here
<1>6. PICK B \in SUBSET Timer : B = A \ {timer}  OBVIOUS
<1>7. A \subseteq Here /\ Here \subseteq alive /\ B \subseteq Here' /\ Here' \subseteq alive'
  BY <1>5, <1>6 DEF Ahead, Here
<1>8. Counted(B)'
  <2> SUFFICES ASSUME NEW t \in alive'
               PROVE  Due(t)' = rotation'[t] * N + Turns(B, t)'
    BY DEF Counted
  <2>1. t \in Here' \ B <=> t \in Here \ A  BY <1>4, <1>5, <1>6
  <2>2. Turns(B, t)' = Turns(A, t)  BY <1>3, <2>1 DEF Turns, Distance
  <2> QED  BY <1>4, <2>2 DEF Counted
<1>9. ASSUME at # "idle", NEW t \in B
      PROVE  /\ next'[t] # NULL => next'[t] \in B
             /\ t # tmp /\ (timer # tmp \/ t # next[tmp]) => prev'[t] \in B
  <2>1. t \in alive' /\ t \in A /\ t \in alive  BY <1>4, <1>6, <1>7, <1>9
  <2>2. /\ \A u \in A : next[u] # NULL => next[u] \in A
        /\ \A u \in A : u # tmp => prev[u] \in A
    BY <1>9 DEF Ahead
  <2>3. /\ next'[t] # NULL => next'[t] \in alive'
        /\ prev'[t] # NULL => prev'[t] \in alive'
    BY <1>3, <2>1 DEF Lists, Nexts, Prevs
  <2>4. next'[t] # NULL => next'[t] \in A  BY <1>3, <1>4, <2>1, <2>2
  <2>5. ASSUME t # tmp, timer # tmp \/ t # next[tmp]
        PROVE  prev'[t] \in A
    <3>1. prev[t] \in A  BY <2>1, <2>2, <2>5
    <3>2. CASE prev[t] = timer
      <4>1. next[timer] = t  BY <1>1, <1>4, <2>1, <3>2 DEF Lists, Prevs
      <4>2. prev[timer] \in A  BY <2>2, <2>5, <3>1, <3>2, <4>1
      <4> QED  BY <1>3, <2>1, <3>2, <4>2
    <3> QED  BY <1>3, <2>1, <3>1, <3>2
  <2> QED  BY <1>3, <1>4, <1>6, <2>3, <2>4, <2>5
<1> QED  BY <1>3, <1>4, <1>5, <1>6, <1>7, <1>8, <1>9

LEMMA InvDelete == Inv /\ Delete => Inv'
<1> SUFFICES ASSUME Inv, Delete  PROVE Inv'
  OBVIOUS
<1>1. PICK timer \in alive : timer # tmp /\ Unlink(timer, time_slot[timer]) /\ delete(timer)
  BY DEF Delete, del_timer
<1>2. cur_slot' = cur_slot /\ tmp' = tmp /\ at' = at  BY DEF Delete
<1>3. PICK A \in SUBSET Timer : Ahead(A) /\ Counted(A)  BY DEF Inv
<1>4. PICK B \in SUBSET Timer : B = A \ {timer}  OBVIOUS
<1>5. /\ Types' /\ Lists' /\ B \subseteq Here' /\ Counted(B)'
      /\ Here' = Here \ {timer} /\ alive' = alive \ {timer}
      /\ \A t \in alive' : rotation'[t] = rotation[t]
      /\ at # "idle" => \A t \in B : /\ next'[t] # NULL => next'[t] \in B
                                     /\ t # tmp => prev'[t] \in B
  BY <1>1, <1>2, <1>3, <1>4, TakenOut
<1>6. Standing'  BY <1>1, <1>2, <1>5 DEF Inv, Standing
<1>7. Ahead(B)'  BY <1>1, <1>2, <1>3, <1>4, <1>5 DEF Ahead
<1> QED  BY <1>5, <1>6, <1>7 DEF Inv

LEMMA InvTickRemove == Inv /\ TickRemove => Inv'
<1> SUFFICES ASSUME Inv, TickRemove  PROVE Inv'
  OBVIOUS
<1>1. /\ at = "callback" /\ at' = "walk" /\ tmp' = next[tmp] /\ cur_slot' = cur_slot
      /\ Unlink(tmp, cur_slot) /\ delete(tmp)
  BY DEF TickRemove
<1>2. PICK A \in SUBSET Timer : Ahead(A) /\ Counted(A)  BY DEF Inv
<1>3. tmp # NULL /\ tmp \in alive /\ tmp \in A /\ time_slot[tmp] = cur_slot /\ cur_slot \in Slot
  BY <1>1, <1>2, Constants DEF Inv, Standing, Ahead, Here
<1>4. PICK timer \in alive : timer = tmp  BY <1>3
<1>5. PICK B \in SUBSET Timer : B = A \ {timer}  OBVIOUS
<1>6. Unlink(timer, time_slot[timer]) /\ delete(timer)  BY <1>1, <1>3, <1>4
<1>7. /\ Types' /\ Lists' /\ B \subseteq Here' /\ Counted(B)' /\ next[timer] # timer
      /\ alive' = alive \ {timer}
      /\ \A t \in B : /\ next'[t] # NULL => next'[t] \in B
                      /\ t # next[tmp] => prev'[t] \in B
  BY <1>1, <1>2, <1>4, <1>5, <1>6, TakenOut
<1>8. next[tmp] # NULL => next[tmp] \in B /\ next[tmp] \in alive'
  BY <1>1, <1>2, <1>3, <1>4, <1>5, <1>7 DEF Ahead, Inv, Lists, Nexts
<1>9. Standing'  BY <1>1, <1>3, <1>8 DEF Inv, Standing
<1>10. Ahead(B)'  BY <1>1, <1>7, <1>8 DEF Ahead
<1> QED  BY <1>7, <1>9, <1>10 DEF Inv

LEMMA InvTickBegin == Inv /\ TickBegin => Inv'
<1> SUFFICES ASSUME Inv, TickBegin  PROVE Inv'
  OBVIOUS
<1>1. /\ at = "idle" /\ at' = "walk" /\ tmp' = slots[cur_slot]
      /\ UNCHANGED <<slots, next, prev, rotation, time_slot, cur_slot, alive, left, late>>
  BY DEF TickBegin, listVars
<1>2. PICK A \in SUBSET Timer : Ahead(A) /\ Counted(A)  BY DEF Inv
<1>3. Types /\ Lists /\ Standing /\ A = Here /\ cur_slot \in Slot
  BY <1>1, <1>2 DEF Inv, Standing, Ahead
<1>4. Types' /\ Lists' /\ Here' = Here
  BY <1>1, <1>3 DEF Types, Lists, Heads, Nexts, Prevs, Grounded, Here
<1>5. Counted(A)'  BY <1>1, <1>2, <1>4 DEF Counted, Due, Turns, Distance
<1>6. slots[cur_slot] \in Timer \cup {NULL} /\ (slots[cur_slot] # NULL => slots[cur_slot] \in Here)
  BY <1>3 DEF Types, Lists, Heads, Here
<1>7. Standing'  BY <1>1, <1>3, <1>6 DEF Standing, Here
<1>8. \A t \in Here : /\ next[t] # NULL => next[t] \in Here
                      /\ t # slots[cur_slot] => prev[t] \in Here
  BY <1>3, Constants DEF Lists, Nexts, Prevs, Here, Types
<1>9. Ahead(A)'  BY <1>1, <1>3, <1>4, <1>6, <1>8 DEF Ahead
<1> QED  BY <1>4, <1>5, <1>7, <1>9 DEF Inv

\* The list ahead ends at tmp, whatever was done to it.
LEMMA FirstAhead ==
    ASSUME Inv, at # "idle", NEW A \in SUBSET Timer, Ahead(A)
    PROVE  IF tmp = NULL THEN A = {} ELSE tmp \in A /\ prev[tmp] \notin A
<1>1. A \in SUBSET alive /\ NULL \notin A  BY Constants DEF Ahead, Here
<1>2. /\ tmp # NULL => tmp \in A
      /\ \A t \in A : t # tmp => prev[t] \in A
  BY DEF Ahead
<1>3. A # {} => \E t \in A : prev[t] \notin A  BY <1>1 DEF Inv, Lists, Grounded
<1> QED  BY <1>1, <1>2, <1>3

LEMMA InvTickPass == Inv /\ TickPass => Inv'
<1> SUFFICES ASSUME Inv, TickPass  PROVE Inv'
  OBVIOUS
<1>1. /\ at = "walk" /\ at' = "walk" /\ tmp # NULL /\ tmp' = next[tmp] /\ rotation[tmp] > 0
      /\ rotation' = [rotation EXCEPT ![tmp] = @ - 1]
      /\ UNCHANGED <<slots, next, prev, time_slot, cur_slot, alive, left, late>>
  BY DEF TickPass, listVars
<1>2. PICK A \in SUBSET Timer : Ahead(A) /\ Counted(A)  BY DEF Inv
<1>3. tmp \in A /\ prev[tmp] \notin A  BY <1>1, <1>2, FirstAhead
<1>4. /\ Types /\ Lists /\ Standing /\ cur_slot \in Slot /\ NULL \notin Timer
      /\ A \subseteq Here /\ Here \subseteq alive /\ alive \subseteq Timer
      /\ \A t \in A : next[t] # NULL => next[t] \in A
      /\ \A t \in A : t # tmp => prev[t] \in A
  BY <1>1, <1>2, Constants DEF Inv, Standing, Ahead, Here, Types
<1>5. PICK timer \in A : timer = tmp  BY <1>3
<1>6. PICK B \in SUBSET Timer : B = A \ {timer}  OBVIOUS
<1>7. rotation[timer] \in Nat /\ rotation'[timer] = rotation[timer] - 1 /\ rotation' \in [Timer -> Nat]
  BY <1>1, <1>4, <1>5 DEF Types
<1>8. Types' /\ Lists' /\ Here' = Here
  BY <1>1, <1>4, <1>7 DEF Types, Lists, Heads, Nexts, Prevs, Grounded, Here
<1>9. next[tmp] # NULL => next[tmp] \in A /\ next[tmp] # tmp
  BY <1>3, <1>4 DEF Lists, Nexts
<1>10. Standing'  BY <1>1, <1>3, <1>4, <1>9 DEF Standing
<1>11. Ahead(B)'
  <2>1. \A t \in B : next[t] # NULL => next[t] \in B
    BY <1>3, <1>4, <1>5, <1>6 DEF Lists, Nexts
  <2>2. \A t \in B : t # next[tmp] => prev[t] \in B
    BY <1>3, <1>4, <1>5, <1>6 DEF Lists, Prevs
  <2> QED  BY <1>1, <1>4, <1>5, <1>6, <1>8, <1>9, <2>1, <2>2 DEF Ahead
<1>12. Counted(B)'
  <2> SUFFICES ASSUME NEW t \in alive'
               PROVE  Due(t)' = rotation'[t] * N + Turns(B, t)'
    BY DEF Counted
  <2>1. t \in alive /\ Due(t)' = Due(t) /\ Due(t) = rotation[t] * N + Turns(A, t)
    BY <1>1, <1>2 DEF Counted, Due
  <2>2. CASE t = timer
    <3>1. Turns(A, t) = 0
      BY <1>4, <1>5, <2>2, Constants DEF Turns, Distance, Here, Slot
    <3>2. Turns(B, t)' = N  BY <1>4, <1>6, <1>8, <2>2 DEF Turns
    <3>3. PICK r \in Nat : r = rotation[timer] /\ rotation'[timer] = r - 1  BY <1>7
    <3>4. r * N = (r - 1) * N + N  BY <3>3, Constants
    <3>5. r * N \in Int /\ (r - 1) * N \in Int  BY <3>3, Constants
    <3> QED  BY <2>1, <2>2, <3>1, <3>2, <3>3, <3>4, <3>5, Constants
  <2>3. CASE t # timer
    <3>1. t \in Here' \ B <=> t \in Here \ A  BY <1>6, <1>8, <2>3
    <3>2. Turns(B, t)' = Turns(A, t)  BY <1>1, <3>1 DEF Turns, Distance
    <3>3. rotation'[t] = rotation[t]  BY <1>1, <1>4, <1>5, <2>1, <2>3 DEF Types
    <3> QED  BY <2>1, <3>2, <3>3
  <2> QED  BY <2>2, <2>3
<1> QED  BY <1>8, <1>10, <1>11, <1>12 DEF Inv

LEMMA InvTickCall == Inv /\ TickCall => Inv'
<1> SUFFICES ASSUME Inv, TickCall  PROVE Inv'
  OBVIOUS
<1>1. /\ at = "walk" /\ at' = "callback" /\ tmp # NULL /\ rotation[tmp] = 0
      /\ UNCHANGED <<slots, next, prev, rotation, time_slot, cur_slot, alive, left, late, tmp>>
  BY DEF TickCall, listVars
<1>2. PICK A \in SUBSET Timer : Ahead(A) /\ Counted(A)  BY DEF Inv
<1>3. Types' /\ Lists' /\ Here' = Here
  BY <1>1 DEF Inv, Types, Lists, Heads, Nexts, Prevs, Grounded, Here
<1>4. Standing'  BY <1>1 DEF Inv, Standing
<1>5. Ahead(A)'  BY <1>1, <1>2, <1>3 DEF Ahead
<1>6. Counted(A)'  BY <1>1, <1>2, <1>3 DEF Counted, Due, Turns, Distance
<1> QED  BY <1>3, <1>4, <1>5, <1>6 DEF Inv

LEMMA InvTickEnd == Inv /\ TickEnd => Inv'
<1> SUFFICES ASSUME Inv, TickEnd  PROVE Inv'
  OBVIOUS
<1>1. /\ at = "walk" /\ at' = "idle" /\ tmp = NULL /\ tmp' = NULL
      /\ cur_slot' = (cur_slot + 1) % N
      /\ left' = [t \in Timer |-> IF t \in alive THEN left[t] - 1 ELSE 0]
      /\ UNCHANGED <<slots, next, prev, rotation, time_slot, alive, late>>
  BY DEF TickEnd, listVars
<1>2. PICK A \in SUBSET Timer : Ahead(A) /\ Counted(A)  BY DEF Inv
<1>3. A = {}  BY <1>1, <1>2, FirstAhead
<1>4. Types /\ Lists /\ Standing /\ cur_slot \in 0..N-1 /\ alive \subseteq Timer
  BY DEF Inv, Standing, Types, Slot
<1>5. cur_slot' = IF cur_slot = N - 1 THEN 0 ELSE cur_slot + 1
  BY <1>1, <1>4, Constants
<1>6. Types'  BY <1>1, <1>4 DEF Types
<1>7. Lists'  BY <1>1, <1>4 DEF Lists, Heads, Nexts, Prevs, Grounded
<1>8. Standing'  BY <1>1, <1>4, <1>5, Constants DEF Standing, Slot
<1>9. PICK B \in SUBSET Timer : B = Here'  BY <1>1, <1>4 DEF Here
<1>10. Ahead(B)'  BY <1>1, <1>9 DEF Ahead
<1>11. Counted(B)'
  <2> SUFFICES ASSUME NEW t \in alive'
               PROVE  Due(t)' = rotation'[t] * N + Turns(B, t)'
    BY DEF Counted
  <2>1. /\ t \in alive /\ t \in Timer /\ Due(t)' = Due(t) - 1
        /\ Due(t) = rotation[t] * N + Turns(A, t)
    <3>1. t \in alive /\ t \in Timer /\ Due(t) = rotation[t] * N + Turns(A, t)
      BY <1>1, <1>2, <1>4 DEF Counted
    <3>2. left[t] \in Int /\ left'[t] = left[t] - 1 /\ (t \in late' <=> t \in late)
      BY <1>1, <1>4, <3>1 DEF Types
    <3>3. Due(t)' = Due(t) - 1  BY <3>2, Constants DEF Due
    <3> QED  BY <3>1, <3>3
  <2>2. PICK s \in 0..N-1, r \in Nat : s = time_slot[t] /\ s = time_slot'[t]
                                       /\ r = rotation[t] /\ r = rotation'[t]
    BY <1>1, <1>4, <2>1 DEF Types, Slot
  <2>3. Turns(A, t) = IF s = cur_slot THEN N ELSE Distance(s)
    BY <1>3, <2>1, <2>2 DEF Turns, Here
  <2>4. Turns(B, t)' = Distance(s)'  BY <1>9, <2>2 DEF Turns
  <2>5. Distance(s)' = Turns(A, t) - 1 /\ Turns(A, t) \in Int
    BY <1>4, <1>5, <2>2, <2>3, Constants DEF Distance
  <2>6. r * N \in Int  BY <2>2, Constants
  <2> QED  BY <2>1, <2>2, <2>4, <2>5, <2>6
<1> QED  BY <1>6, <1>7, <1>8, <1>10, <1>11 DEF Inv

LEMMA InvNext == Inv /\ [Next]_vars => Inv'
<1> SUFFICES ASSUME Inv, [Next]_vars  PROVE Inv'
  OBVIOUS
<1>1. CASE Add  BY <1>1, InvAdd
<1>2. CASE Delete  BY <1>2, InvDelete
<1>3. CASE tick
  BY <1>3, InvTickBegin, InvTickPass, InvTickCall, InvTickRemove, InvTickEnd DEF tick
<1>4. CASE UNCHANGED vars
  <2>1. /\ UNCHANGED <<slots, next, prev, rotation, time_slot, cur_slot, alive, left, late>>
        /\ tmp' = tmp /\ at' = at
    BY <1>4 DEF vars, listVars
  <2>2. PICK A \in SUBSET Timer : Ahead(A) /\ Counted(A)  BY DEF Inv
  <2>3. Types' /\ Lists' /\ Standing' /\ Here' = Here
    BY <2>1 DEF Inv, Types, Lists, Heads, Nexts, Prevs, Grounded, Standing, Here
  <2>4. Ahead(A)' /\ Counted(A)'  BY <2>1, <2>2, <2>3 DEF Ahead, Counted, Due, Turns, Distance
  <2> QED  BY <2>3, <2>4 DEF Inv
<1> QED  BY <1>1, <1>2, <1>3, <1>4 DEF Next

LEMMA Invariant == Spec => []Inv
  BY InvInit, InvNext, PTL DEF Spec

-----------------------------------------------------------------------------

\* Whatever callbacks add to and delete from the list that tick is walking,
\* the timers of each slot stay one doubly linked list without a circle, tick
\* goes on at a timer that is allocated, and nothing leads to a deleted one.
THEOREM ListsLinked == Spec => []Linked
<1>1. Inv => Linked  BY LinkedIs DEF Inv
<1> QED  BY <1>1, Invariant, PTL

\* A callback runs in the turn its timer was set for, for any number of slots
\* and any timeout, also of more than one turn of the wheel and also when tick
\* finds timers that callbacks of the same turn have added.  The one exception
\* is in the statement: a timer that a callback set for whole turns of the
\* wheel runs exactly one turn of the wheel later than that.
THEOREM CallbacksOnTime == Spec => []OnTime
  BY OnTimeIs, Invariant, PTL

-----------------------------------------------------------------------------

(***************************************************************************)
(* Induction on numbers, without a predicate as a parameter.               *)
(***************************************************************************)
LEMMA LeastOf ==
    ASSUME NEW S \in SUBSET Nat, S # {}
    PROVE  \E x \in S : \A y \in S : x <= y
<1>1. PICK x \in S : \A y \in S : ~(<<y, x>> \in OpToRel(<, Nat))
  BY NatLessThanWellFounded, WFMin
<1>2. \A y \in S : x <= y
  <2> SUFFICES ASSUME NEW y \in S PROVE x <= y  OBVIOUS
  <2>1. ~(<<y, x>> \in OpToRel(<, Nat))  BY <1>1
  <2>2. ~(y < x)  BY <2>1 DEF OpToRel
  <2> QED  BY <2>2
<1> QED  BY <1>2

LEMMA SetInduction ==
    ASSUME NEW S \in SUBSET Nat, 0 \in S, \A n \in S : n + 1 \in S
    PROVE  S = Nat
<1> SUFFICES ASSUME Nat \ S # {} PROVE FALSE  OBVIOUS
<1>1. PICK m \in Nat \ S : \A y \in Nat \ S : m <= y  BY LeastOf
<1>2. m # 0 /\ m - 1 \in Nat  OBVIOUS
<1>3. m - 1 \in S  BY <1>1, <1>2
<1> QED  BY <1>2, <1>3

-----------------------------------------------------------------------------

(***************************************************************************)
(* The time heap: how far up and down percolate moves a timer.             *)
(***************************************************************************)
LEMMA ParentIs ==
    ASSUME NEW i \in Nat, i # 0
    PROVE  /\ Parent(i) \in Nat /\ Parent(i) < i
           /\ i = 2 * Parent(i) + 1 \/ i = 2 * Parent(i) + 2
  BY DEF Parent

\* The function inside HolesUp, up to place n.
IsUp(f, a, n, e) ==
    f = [h \in 0..n |-> IF h = 0 \/ expire[a[Parent(h)]] <= e THEN {h} ELSE {h} \cup f[Parent(h)]]

LEMMA UpExists ==
    ASSUME NEW a, NEW e
    PROVE  \A n \in Nat : \E f : IsUp(f, a, n, e)
<1> DEFINE S == {n \in Nat : \E f : IsUp(f, a, n, e)}
<1>1. 0 \in S
  <2>1. IsUp([h \in 0..0 |-> {0}], a, 0, e)  BY DEF IsUp
  <2> QED  BY <2>1
<1>2. ASSUME NEW n \in S PROVE n + 1 \in S
  <2>1. PICK f : IsUp(f, a, n, e)  OBVIOUS
  <2> DEFINE g == [h \in 0..(n + 1) |-> IF h <= n THEN f[h]
                     ELSE IF h = 0 \/ expire[a[Parent(h)]] <= e THEN {h} ELSE {h} \cup f[Parent(h)]]
  <2>2. ASSUME NEW h \in 0..(n + 1)
        PROVE  g[h] = IF h = 0 \/ expire[a[Parent(h)]] <= e THEN {h} ELSE {h} \cup g[Parent(h)]
    <3>1. h # 0 => Parent(h) \in 0..n  BY ParentIs
    <3>2. h # 0 => g[Parent(h)] = f[Parent(h)]  BY <3>1
    <3>3. CASE h <= n
      <4>1. h \in 0..n  BY <3>3
      <4>2. f[h] = IF h = 0 \/ expire[a[Parent(h)]] <= e THEN {h} ELSE {h} \cup f[Parent(h)]
        BY <2>1, <4>1 DEF IsUp
      <4> QED  BY <3>2, <3>3, <4>2
    <3>4. CASE ~(h <= n)  BY <3>2, <3>4
    <3> QED  BY <3>3, <3>4
  <2>3. IsUp(g, a, n + 1, e)
    <3> HIDE DEF g
    <3>1. g = [h \in 0..(n + 1) |-> g[h]]  BY DEF g
    <3> QED  BY <2>2, <3>1 DEF IsUp
  <2> QED  BY <2>3
<1>3. S = Nat  
  <2> HIDE DEF S
  <2>1. S \in SUBSET Nat  BY DEF S
  <2> QED  BY <1>1, <1>2, <2>1, SetInduction
<1> QED  BY <1>3

LEMMA HolesUpIs ==
    ASSUME NEW a, NEW e, NEW from \in Nat
    PROVE  \E f : IsUp(f, a, from, e) /\ HolesUp(a, from, e) = f[from]
<1>1. \E f : IsUp(f, a, from, e)  BY UpExists
<1> DEFINE u == CHOOSE f : IsUp(f, a, from, e)
<1>2. IsUp(u, a, from, e)  BY <1>1
<1>3. HolesUp(a, from, e) = u[from]  BY DEF HolesUp, IsUp
<1> QED  BY <1>2, <1>3

-----------------------------------------------------------------------------

(***************************************************************************)
(* An array a of which the first n entries are timers, each once, and      *)
(* which is in order from place from on.                                   *)
(***************************************************************************)
ArrayOf(c) == [0..(c - 1) -> Timer \cup {NULL}]
Entries(a, n) == {a[k] : k \in 0..(n - 1)}
Distinct(a, n) == \A j, k \in 0..(n - 1) : a[j] = a[k] => j = k
Ordered(a, x, from, n) ==
    \A k \in 1..(n - 1) : Parent(k) >= from => x[a[Parent(k)]] <= x[a[k]]

\* The places a hole passes on its way up from place from.
UpPath(S, a, from, e) ==
    /\ from \in S /\ S \subseteq 0..from
    /\ \A x \in S : x # from => expire[a[x]] > e /\ \E y \in S : y # 0 /\ x = Parent(y)
    /\ \A x \in S : \/ /\ x = 0 \/ expire[a[Parent(x)]] <= e
                       /\ \A y \in S : x <= y
                    \/ x # 0 /\ Parent(x) \in S
    /\ \A x, y \in S : x # 0 /\ y # 0 /\ Parent(x) = Parent(y) => x = y

LEMMA UpStep ==
    ASSUME NEW a, NEW e, NEW h \in Nat, h # 0, ~(expire[a[Parent(h)]] <= e),
           expire[a[Parent(h)]] \in Int, e \in Int,
           NEW S, UpPath(S, a, Parent(h), e)
    PROVE  UpPath({h} \cup S, a, h, e)
<1> DEFINE p == Parent(h)
           T == {h} \cup S
<1>1. p \in Nat /\ p < h /\ S \subseteq 0..p /\ p \in S  BY ParentIs DEF UpPath
<1>2. T \subseteq 0..h /\ h \in T /\ h \notin S  BY <1>1
<1>3. ASSUME NEW x \in T, x # h
      PROVE  expire[a[x]] > e /\ \E y \in T : y # 0 /\ x = Parent(y)
  <2>1. x \in S  BY <1>3
  <2>2. CASE x = p  BY <2>2, <1>1
  <2>3. CASE x # p  BY <2>1, <2>3 DEF UpPath
  <2> QED  BY <2>2, <2>3
<1>4. ASSUME NEW x \in T
      PROVE  \/ /\ x = 0 \/ expire[a[Parent(x)]] <= e
                /\ \A y \in T : x <= y
             \/ x # 0 /\ Parent(x) \in T
  <2>1. CASE x = h  BY <2>1, <1>1
  <2>2. CASE x \in S
    <3>1. CASE x # 0 /\ Parent(x) \in S  BY <3>1
    <3>2. CASE (x = 0 \/ expire[a[Parent(x)]] <= e) /\ \A y \in S : x <= y
      <4>1. x <= h  BY <2>2, <1>1
      <4> QED  BY <3>2, <4>1
    <3> QED  BY <2>2, <3>1, <3>2 DEF UpPath
  <2> QED  BY <2>1, <2>2
<1>5. ASSUME NEW x \in T, NEW y \in T, x # 0, y # 0, Parent(x) = Parent(y) PROVE x = y
  <2>1. \A z \in S : z \in Nat /\ (z # 0 => Parent(z) < z /\ Parent(z) \in Nat /\ z <= p)
    <3> TAKE z \in S
    <3>1. z \in Nat /\ z <= p  BY <1>1
    <3> QED  BY <3>1, ParentIs
  <2>2. CASE x \in S /\ y \in S  BY <1>5, <2>2 DEF UpPath
  <2>3. CASE x = h /\ y \in S  BY <1>5, <2>1, <2>3, <1>1
  <2>4. CASE x \in S /\ y = h  BY <1>5, <2>1, <2>4, <1>1
  <2> QED  BY <2>2, <2>3, <2>4
<1> HIDE DEF T, p
<1>6. UpPath(T, a, h, e)  BY <1>2, <1>3, <1>4, <1>5 DEF UpPath
<1> QED  BY <1>6 DEF T

LEMMA HolesUpPath ==
    ASSUME NEW a, NEW e \in Int, NEW from \in Nat,
           \A k \in 0..(from - 1) : expire[a[k]] \in Int
    PROVE  UpPath(HolesUp(a, from, e), a, from, e)
<1>1. PICK f : IsUp(f, a, from, e) /\ HolesUp(a, from, e) = f[from]  BY HolesUpIs
<1> DEFINE S == {n \in Nat : \A h \in 0..from : h <= n => UpPath(f[h], a, h, e)}
<1>2. ASSUME NEW h \in 0..from
      PROVE  f[h] = IF h = 0 \/ expire[a[Parent(h)]] <= e THEN {h} ELSE {h} \cup f[Parent(h)]
  BY <1>1 DEF IsUp
<1>3. 0 \in S
  <2>0. 0 \in 0..from  OBVIOUS
  <2>1. f[0] = {0}  BY <1>2, <2>0
  <2>2. UpPath(f[0], a, 0, e)  BY <2>1 DEF UpPath
  <2> QED  BY <2>2
<1>4. ASSUME NEW n \in S PROVE n + 1 \in S
  <2> SUFFICES ASSUME NEW h \in 0..from, h = n + 1 PROVE UpPath(f[h], a, h, e)  OBVIOUS
  <2>1. h \in Nat /\ h # 0 /\ Parent(h) \in 0..from /\ Parent(h) <= n /\ Parent(h) \in 0..(from - 1)
    BY ParentIs
  <2>2. UpPath(f[Parent(h)], a, Parent(h), e)  BY <2>1
  <2>3. CASE expire[a[Parent(h)]] <= e
    <3>1. f[h] = {h}  BY <2>3, <1>2
    <3> QED  BY <3>1, <2>1, <2>3 DEF UpPath
  <2>4. CASE ~(expire[a[Parent(h)]] <= e)
    <3>1. f[h] = {h} \cup f[Parent(h)]  BY <2>4, <2>1, <1>2
    <3>2. expire[a[Parent(h)]] \in Int  BY <2>1
    <3>3. UpPath({h} \cup f[Parent(h)], a, h, e)
      <4> HIDE DEF S
      <4> QED  BY <3>2, <2>1, <2>2, <2>4, UpStep
    <3> QED  BY <3>1, <3>3
  <2> QED  BY <2>3, <2>4
<1>5. S = Nat
  <2> HIDE DEF S
  <2>1. S \in SUBSET Nat  BY DEF S
  <2> QED  BY <1>3, <1>4, <2>1, SetInduction
<1>6. from \in S  BY <1>5
<1>7. UpPath(f[from], a, from, e)  BY <1>6
<1> QED  BY <1>1, <1>7

\* add_timer: the timers of a, and timer where the hole ends.
Raised(a, n, timer, e) ==
    LET holes == HolesUp(a, n, e)
    IN  [k \in DOMAIN a |-> IF k \notin holes THEN a[k]
                            ELSE IF k = Lowest(holes) THEN timer ELSE a[Parent(k)]]
Timed(timer, e) == [expire EXCEPT ![timer] = e]

\* A heap stays one when a timer is added.
LEMMA HoleUp ==
    ASSUME NEW c \in Nat, NEW a \in ArrayOf(c), NEW n \in 0..(c - 1),
           expire \in [Timer -> Nat], Entries(a, n) \subseteq Timer, Distinct(a, n),
           Ordered(a, expire, 0, n),
           NEW timer \in Timer, timer \notin Entries(a, n), NEW e \in Nat,
           NEW b, b = Raised(a, n, timer, e), NEW x, x = Timed(timer, e)
    PROVE  /\ b \in ArrayOf(c)
           /\ Entries(b, n + 1) = Entries(a, n) \cup {timer}
           /\ Distinct(b, n + 1)
           /\ Ordered(b, x, 0, n + 1)
           /\ n > 0 /\ expire[a[0]] <= e => b[0] = a[0]
<1>0. PICK P : P = HolesUp(a, n, e)  OBVIOUS
<1>1. DOMAIN a = 0..(c - 1) /\ \A k \in 0..(c - 1) : a[k] \in Timer \cup {NULL}  BY DEF ArrayOf
<1>2. \A k \in 0..(n - 1) : a[k] \in Timer /\ a[k] # timer  BY DEF Entries
<1>3. \A k \in 0..(n - 1) : expire[a[k]] \in Nat /\ x[a[k]] = expire[a[k]]  BY <1>2 DEF Timed
<1>4. x[timer] = e  BY DEF Timed
<1>5. UpPath(P, a, n, e)
  <2>1. \A k \in 0..(n - 1) : expire[a[k]] \in Int  BY <1>3
  <2> QED  BY <2>1, <1>0, HolesUpPath
<1>6. n \in P /\ P \subseteq 0..n  BY <1>5 DEF UpPath
<1>7. PICK low \in P : \A y \in P : low <= y
  <2>1. P \in SUBSET Nat /\ P # {}  BY <1>6
  <2> QED  BY <2>1, LeastOf
<1>8. Lowest(P) = low
  <2>1. Lowest(P) \in P /\ \A y \in P : Lowest(P) <= y  BY <1>7 DEF Lowest
  <2>2. Lowest(P) <= low /\ low <= Lowest(P)  BY <1>7, <2>1
  <2>3. Lowest(P) \in Nat /\ low \in Nat
    <3>1. P \subseteq Nat  BY <1>6
    <3> QED  BY <3>1, <2>1
  <2> QED  BY <2>2, <2>3
\* What stands where.
<1>9. b = [k \in 0..(c - 1) |-> IF k \notin P THEN a[k]
                                 ELSE IF k = low THEN timer ELSE a[Parent(k)]]
  BY <1>0, <1>1, <1>8 DEF Raised
<1>10. \A k \in 0..(c - 1) : k \notin P => b[k] = a[k]  BY <1>9
<1>11. b[low] = timer  BY <1>6, <1>9
<1>12. \A k \in P : k # low =>
          /\ b[k] = a[Parent(k)] /\ k # 0 /\ Parent(k) \in P /\ Parent(k) < k
          /\ Parent(k) \in 0..(n - 1)
  <2> SUFFICES ASSUME NEW k \in P, k # low
               PROVE  /\ b[k] = a[Parent(k)] /\ k # 0 /\ Parent(k) \in P /\ Parent(k) < k
                      /\ Parent(k) \in 0..(n - 1)
    OBVIOUS
  <2>1. b[k] = a[Parent(k)]  BY <1>6, <1>9
  <2>2. low < k  BY <1>6, <1>7
  <2>3. k # 0 /\ Parent(k) \in P  BY <1>5, <1>7, <2>2, <1>6 DEF UpPath
  <2>4. k \in Nat /\ k <= n  BY <1>6
  <2>5. Parent(k) < k /\ Parent(k) \in Nat  BY <2>3, <2>4, ParentIs
  <2> QED  BY <2>1, <2>3, <2>4, <2>5
\* The places from which the timers moved.
<1> DEFINE Src(k) == IF k \in P THEN Parent(k) ELSE k
<1>13. ASSUME NEW k \in 0..n, k # low
       PROVE  Src(k) \in 0..(n - 1) /\ b[k] = a[Src(k)]
  <2>1. CASE k \in P  BY <2>1, <1>12, <1>13
  <2>2. CASE k \notin P
    <3>1. k # n  BY <2>2, <1>6
    <3> QED  BY <2>2, <3>1, <1>10
  <2> QED  BY <2>1, <2>2
<1>14. ASSUME NEW k \in 0..(n - 1) PROVE \E l \in 0..n : l # low /\ b[l] = a[k]
  <2>1. CASE k \notin P
    <3>1. k # low /\ k \in 0..n /\ b[k] = a[k]  BY <2>1, <1>7, <1>10
    <3> QED  BY <3>1
  <2>2. CASE k \in P
    <3>1. PICK y \in P : y # 0 /\ k = Parent(y)  BY <2>2, <1>5 DEF UpPath
    <3>2. y \in 0..n /\ k < y  BY <3>1, <1>6, ParentIs
    <3>3. y # low  BY <3>2, <2>2, <1>6, <1>7
    <3>4. b[y] = a[k]  BY <3>1, <3>3, <1>12
    <3> QED  BY <3>2, <3>3, <3>4
  <2> QED  BY <2>1, <2>2
<1>15. b \in ArrayOf(c)
  <2>1. ASSUME NEW k \in 0..(c - 1) PROVE b[k] \in Timer \cup {NULL}
    <3>1. CASE k \notin P  BY <3>1, <1>1, <1>10
    <3>2. CASE k = low  BY <3>2, <1>11
    <3>3. CASE k \in P /\ k # low  BY <3>3, <1>2, <1>12
    <3> QED  BY <3>1, <3>2, <3>3
  <2>2. b = [k \in 0..(c - 1) |-> b[k]]  BY <1>9
  <2> HIDE DEF Src
  <2> QED  BY <2>1, <2>2 DEF ArrayOf
<1> HIDE DEF Src
<1>16. Entries(b, n + 1) = Entries(a, n) \cup {timer}
  <2>1. Entries(b, n + 1) \subseteq Entries(a, n) \cup {timer}
    <3> SUFFICES ASSUME NEW k \in 0..n PROVE b[k] \in Entries(a, n) \cup {timer}  BY DEF Entries
    <3>1. CASE k = low  BY <3>1, <1>11
    <3>2. CASE k # low  BY <3>2, <1>13 DEF Entries
    <3> QED  BY <3>1, <3>2
  <2>2. timer \in Entries(b, n + 1)  BY <1>6, <1>7, <1>11 DEF Entries
  <2>3. Entries(a, n) \subseteq Entries(b, n + 1)
    <3> SUFFICES ASSUME NEW k \in 0..(n - 1) PROVE a[k] \in Entries(b, n + 1)  BY DEF Entries
    <3> QED  BY <1>14 DEF Entries
  <2> QED  BY <2>1, <2>2, <2>3
<1>17. Distinct(b, n + 1)
  <2>0. SUFFICES ASSUME NEW j \in 0..n, NEW k \in 0..n, b[j] = b[k] PROVE j = k
    BY DEF Distinct
  <2>1. CASE j = low \/ k = low  BY <2>0, <2>1, <1>2, <1>11, <1>13
  <2>2. CASE j # low /\ k # low
    <3>1. Src(j) = Src(k)
      <4>1. a[Src(j)] = a[Src(k)] /\ Src(j) \in 0..(n - 1) /\ Src(k) \in 0..(n - 1)
        BY <2>0, <2>2, <1>13
      <4> QED  BY <4>1 DEF Distinct
    <3>2. CASE j \in P /\ k \in P
      <4>1. Parent(j) = Parent(k)  BY <3>1, <3>2 DEF Src
      <4> QED  BY <4>1, <3>2, <2>2, <1>12, <1>5 DEF UpPath
    <3>3. CASE j \in P /\ k \notin P  BY <3>1, <3>3, <2>2, <1>12 DEF Src
    <3>4. CASE j \notin P /\ k \in P  BY <3>1, <3>4, <2>2, <1>12 DEF Src
    <3>5. CASE j \notin P /\ k \notin P  BY <3>1, <3>5 DEF Src
    <3> QED  BY <3>2, <3>3, <3>4, <3>5
  <2> QED  BY <2>1, <2>2
<1>18. Ordered(b, x, 0, n + 1)
  <2> SUFFICES ASSUME NEW k \in 1..n PROVE x[b[Parent(k)]] <= x[b[k]]  BY DEF Ordered
  <2> DEFINE p == Parent(k)
  <2>1. p \in Nat /\ p < k /\ p \in 0..(n - 1) /\ k \in Nat  BY ParentIs
  <2>2. p # n  BY <2>1
  <2> HIDE DEF p
  <2>4. p \in P => expire[a[p]] > e  BY <2>2, <1>5 DEF UpPath
  <2>5. p \in P /\ p # low => x[b[p]] <= expire[a[p]]
    <3> SUFFICES ASSUME p \in P, p # low PROVE x[b[p]] <= expire[a[p]]  OBVIOUS
    <3>1. b[p] = a[Parent(p)] /\ p # 0 /\ Parent(p) \in 0..(n - 1)  BY <1>12
    <3>2. Parent(p) >= 0 /\ p \in 1..(n - 1)  BY <3>1, <2>1
    <3>3. expire[a[Parent(p)]] <= expire[a[p]]  BY <3>2 DEF Ordered
    <3> QED  BY <3>1, <3>3, <1>3
  <2>6. p = low => x[b[p]] = e /\ e <= expire[a[p]]  BY <1>3, <1>4, <1>7, <1>11, <2>1, <2>4
  <2>7. CASE k \in P /\ k # low
    <3>1. b[k] = a[p] /\ p \in P  BY <2>7, <1>12 DEF p
    <3>2. x[b[k]] = expire[a[p]]  BY <3>1, <1>3, <2>1
    <3>3. x[b[p]] <= expire[a[p]]  BY <3>1, <2>5, <2>6
    <3> QED  BY <3>2, <3>3 DEF p
  <2>8. CASE k = low
    <3>1. p \notin P  BY <2>1, <2>8, <1>6, <1>7
    <3>2. k # 0 /\ expire[a[p]] <= e  BY <3>1, <2>8, <2>1, <1>5 DEF UpPath, p
    <3>3. b[p] = a[p]  BY <3>1, <2>1, <1>10
    <3>4. x[b[p]] = expire[a[p]]  BY <3>3, <1>3, <2>1
    <3> QED  BY <3>2, <3>4, <2>8, <1>4, <1>11 DEF p
  <2>9. CASE k \notin P
    <3>1. k \in 1..(n - 1)  BY <2>9, <1>6
    <3>2. b[k] = a[k] /\ x[a[k]] = expire[a[k]]  BY <3>1, <2>9, <1>3, <1>10
    <3>3. expire[a[p]] <= expire[a[k]]  BY <3>1, <2>1 DEF Ordered, p
    <3>4. x[b[p]] <= expire[a[p]]
      <4>1. CASE p \notin P  BY <4>1, <2>1, <1>3, <1>10
      <4>2. CASE p \in P  BY <4>2, <2>5, <2>6
      <4> QED  BY <4>1, <4>2
    <3>5. x[b[p]] \in Int /\ expire[a[p]] \in Int /\ expire[a[k]] \in Int
      <4>1. CASE p = low  BY <4>1, <1>4, <1>11, <1>3, <2>1, <3>1
      <4>2. CASE p # low
        <5>1. p \in 0..n  BY <2>1
        <5>2. Src(p) \in 0..(n - 1) /\ b[p] = a[Src(p)]  BY <4>2, <5>1, <1>13
        <5> QED  BY <5>2, <1>3, <2>1, <3>1
      <4> QED  BY <4>1, <4>2
    <3> QED  BY <3>2, <3>3, <3>4, <3>5 DEF p
  <2> QED  BY <2>7, <2>8, <2>9
<1>19. ASSUME n > 0, expire[a[0]] <= e PROVE b[0] = a[0]
  <2>1. 0 \in 0..(n - 1)  BY <1>19
  <2>2. 0 \notin P
    <3> SUFFICES ASSUME 0 \in P PROVE FALSE  OBVIOUS
    <3>1. expire[a[0]] > e  BY <1>19, <1>5 DEF UpPath
    <3> QED  BY <3>1, <1>19, <1>3, <2>1
  <2> QED  BY <2>1, <2>2, <1>10
<1> QED  BY <1>15, <1>16, <1>17, <1>18, <1>19

-----------------------------------------------------------------------------

\* The test of the loop of percolate_down at place h.
GoesOn(a, h, size, e) ==
    h * 2 + 1 <= size - 1 /\ expire[a[EarlierChild(a, h, size)]] < e

\* The function inside HolesDown, from place n on.
IsDown(f, a, n, size, e) ==
    f = [h \in n..size |-> IF GoesOn(a, h, size, e)
                           THEN {h} \cup f[EarlierChild(a, h, size)] ELSE {h}]

LEMMA ChildIs ==
    ASSUME NEW a, NEW h \in Nat, NEW size \in Int, h * 2 + 1 <= size - 1
    PROVE  LET child == EarlierChild(a, h, size)
           IN  /\ child = h * 2 + 1 \/ child = h * 2 + 2
               /\ child \in Nat /\ child > h /\ child <= size - 1
               /\ Parent(child) = h
<1> DEFINE child == EarlierChild(a, h, size)
<1>1. child = h * 2 + 1 \/ (child = h * 2 + 2 /\ h * 2 + 1 < size - 1)
  BY DEF EarlierChild
<1>2. child \in Nat /\ child > h /\ child <= size - 1  BY <1>1
<1>3. Parent(child) = h  BY <1>1 DEF Parent
<1> QED  BY <1>1, <1>2, <1>3

LEMMA ChildIsEarlier ==
    ASSUME NEW a, NEW k \in Nat, k # 0, NEW size \in Int, k <= size - 1,
           \A j \in 0..(size - 1) : expire[a[j]] \in Int
    PROVE  /\ Parent(k) \in Nat /\ Parent(k) * 2 + 1 <= size - 1
           /\ expire[a[EarlierChild(a, Parent(k), size)]] <= expire[a[k]]
<1>1. PICK p \in Nat : p = Parent(k)  BY ParentIs
<1>2. p * 2 + 1 <= size - 1 /\ (k = p * 2 + 1 \/ k = p * 2 + 2)
  <2>1. k = 2 * p + 1 \/ k = 2 * p + 2  BY <1>1, ParentIs
  <2> QED  BY <2>1
<1>3. expire[a[p * 2 + 1]] \in Int
  <2>1. p * 2 + 1 \in 0..(size - 1)  BY <1>2
  <2> QED  BY <2>1
<1>4. CASE k = p * 2 + 1
  <2>1. CASE p * 2 + 1 < size - 1 /\ expire[a[p * 2 + 1 + 1]] < expire[a[p * 2 + 1]]
    <3>1. EarlierChild(a, p, size) = p * 2 + 1 + 1  BY <2>1 DEF EarlierChild
    <3>2. p * 2 + 1 + 1 \in 0..(size - 1)  BY <2>1
    <3>3. expire[a[p * 2 + 1 + 1]] \in Int  BY <3>2
    <3> QED  BY <3>1, <3>3, <2>1, <1>1, <1>2, <1>3, <1>4
  <2>2. CASE ~(p * 2 + 1 < size - 1 /\ expire[a[p * 2 + 1 + 1]] < expire[a[p * 2 + 1]])
    <3>1. EarlierChild(a, p, size) = p * 2 + 1  BY <2>2 DEF EarlierChild
    <3> QED  BY <3>1, <1>1, <1>2, <1>3, <1>4
  <2> QED  BY <2>1, <2>2
<1>5. CASE k = p * 2 + 2
  <2>1. p * 2 + 1 < size - 1 /\ k = p * 2 + 1 + 1  BY <1>5
  <2>2. expire[a[k]] \in Int  BY <2>1
  <2>3. CASE expire[a[k]] < expire[a[p * 2 + 1]]
    <3>1. EarlierChild(a, p, size) = k  BY <2>1, <2>3 DEF EarlierChild
    <3> QED  BY <3>1, <2>2, <1>1, <1>2
  <2>4. CASE ~(expire[a[k]] < expire[a[p * 2 + 1]])
    <3>1. EarlierChild(a, p, size) = p * 2 + 1  BY <2>1, <2>4 DEF EarlierChild
    <3> QED  BY <3>1, <2>2, <2>4, <1>1, <1>2, <1>3
  <2> QED  BY <2>3, <2>4
<1> QED  BY <1>1, <1>2, <1>4, <1>5

LEMMA DownExists ==
    ASSUME NEW a, NEW e, NEW size \in Nat
    PROVE  \E f : IsDown(f, a, 0, size, e)
<1> DEFINE S == {n \in Nat : n <= size => \E f : IsDown(f, a, size - n, size, e)}
<1>1. 0 \in S
  <2>1. ~GoesOn(a, size, size, e)  BY DEF GoesOn
  <2>2. IsDown([h \in size..size |-> {h}], a, size, size, e)  BY <2>1 DEF IsDown
  <2>3. size - 0 = size  OBVIOUS
  <2> QED  BY <2>2, <2>3
<1>2. ASSUME NEW n \in S PROVE n + 1 \in S
  <2> SUFFICES ASSUME n + 1 <= size PROVE \E f : IsDown(f, a, size - (n + 1), size, e)
    OBVIOUS
  <2>1. PICK f : IsDown(f, a, size - n, size, e)  OBVIOUS
  <2>2. PICK m \in Nat : m = size - (n + 1)  OBVIOUS
  <2>3. size - n = m + 1 /\ m < size  BY <2>2
  <2> DEFINE V(ff, h) == IF GoesOn(a, h, size, e)
                         THEN {h} \cup ff[EarlierChild(a, h, size)] ELSE {h}
             g == [h \in m..size |-> IF h > m THEN f[h] ELSE V(f, h)]
  <2>4. ASSUME NEW h \in m..size PROVE g[h] = V(g, h)
    <3>1. ASSUME GoesOn(a, h, size, e)
          PROVE  g[EarlierChild(a, h, size)] = f[EarlierChild(a, h, size)]
      <4>1. h \in Nat /\ h * 2 + 1 <= size - 1  BY <3>1 DEF GoesOn
      <4>2. PICK child : child = EarlierChild(a, h, size)  OBVIOUS
      <4>3. child \in Nat /\ child > h /\ child <= size - 1  BY <4>1, <4>2, ChildIs
      <4>4. child \in m..size /\ child > m  BY <4>3
      <4> QED  BY <4>2, <4>4
    <3>2. V(f, h) = V(g, h)  BY <3>1
    <3>3. CASE h > m
      <4>1. h \in (m + 1)..size  BY <3>3
      <4>2. f[h] = V(f, h)  BY <4>1, <2>1, <2>3 DEF IsDown
      <4>3. g[h] = f[h]  BY <3>3
      <4> QED  BY <3>2, <4>2, <4>3
    <3>4. CASE ~(h > m)
      <4>1. g[h] = V(f, h)  BY <3>4
      <4> QED  BY <3>2, <4>1
    <3> QED  BY <3>3, <3>4
  <2>5. IsDown(g, a, m, size, e)
    <3>1. g = [h \in m..size |-> g[h]]  OBVIOUS
    <3>2. \A h \in m..size : g[h] = V(g, h)  BY <2>4
    <3> HIDE DEF g
    <3> QED  BY <3>1, <3>2 DEF IsDown
  <2> QED  BY <2>2, <2>5
<1>3. S = Nat
  <2> HIDE DEF S
  <2>1. S \in SUBSET Nat  BY DEF S
  <2> QED  BY <1>1, <1>2, <2>1, SetInduction
<1>4. size \in S /\ size - size = 0  BY <1>3
<1> QED  BY <1>4

LEMMA HolesDownIs ==
    ASSUME NEW a, NEW from, NEW size \in Nat
    PROVE  \E f : IsDown(f, a, 0, size, expire[a[from]]) /\ HolesDown(a, from, size) = f[from]
<1>1. \E f : IsDown(f, a, 0, size, expire[a[from]])  BY DownExists
<1> DEFINE d == CHOOSE f : IsDown(f, a, 0, size, expire[a[from]])
<1>2. IsDown(d, a, 0, size, expire[a[from]])  BY <1>1
<1>3. HolesDown(a, from, size) = d[from]  BY DEF HolesDown, IsDown, GoesOn
<1> QED  BY <1>2, <1>3

\* The places a hole passes on its way down from place from.
DownPath(S, a, from, size, e) ==
    /\ from \in S /\ S \subseteq from..(size - 1)
    /\ \A x \in S : x # from => /\ Parent(x) \in S /\ expire[a[x]] < e
                                /\ x = EarlierChild(a, Parent(x), size)
    /\ \A x \in S : \/ GoesOn(a, x, size, e) /\ EarlierChild(a, x, size) \in S
                    \/ ~GoesOn(a, x, size, e) /\ \A y \in S : y <= x

LEMMA DownStep ==
    ASSUME NEW a, NEW e, NEW h \in Nat, NEW size \in Nat, GoesOn(a, h, size, e),
           NEW S, NEW child, child = EarlierChild(a, h, size), DownPath(S, a, child, size, e)
    PROVE  DownPath({h} \cup S, a, h, size, e)
<1> DEFINE T == {h} \cup S
<1>1. h * 2 + 1 <= size - 1 /\ expire[a[child]] < e  BY DEF GoesOn
<1>2. child \in Nat /\ child > h /\ Parent(child) = h  BY <1>1, ChildIs
<1>3. child \in S /\ S \subseteq child..(size - 1)  BY DEF DownPath
<1>4. h \in T /\ T \subseteq h..(size - 1)  BY <1>1, <1>2, <1>3
<1>5. ASSUME NEW x \in T, x # h
      PROVE  Parent(x) \in T /\ expire[a[x]] < e /\ x = EarlierChild(a, Parent(x), size)
  <2>1. CASE x = child  BY <2>1, <1>1, <1>2
  <2>2. CASE x # child  BY <2>2, <1>5 DEF DownPath
  <2> QED  BY <2>1, <2>2
<1>6. ASSUME NEW x \in T
      PROVE  \/ GoesOn(a, x, size, e) /\ EarlierChild(a, x, size) \in T
             \/ ~GoesOn(a, x, size, e) /\ \A y \in T : y <= x
  <2>1. CASE x = h  BY <2>1, <1>3
  <2>2. CASE x \in S
    <3>1. h <= x  BY <2>2, <1>2, <1>3
    <3> QED  BY <2>2, <3>1 DEF DownPath
  <2> QED  BY <2>1, <2>2
<1> HIDE DEF T
<1>7. DownPath(T, a, h, size, e)  BY <1>4, <1>5, <1>6 DEF DownPath
<1> QED  BY <1>7 DEF T

LEMMA HolesDownPath ==
    ASSUME NEW a, NEW size \in Nat, NEW from \in 0..(size - 1), NEW e, e = expire[a[from]]
    PROVE  DownPath(HolesDown(a, from, size), a, from, size, e)
<1>1. PICK f : IsDown(f, a, 0, size, e) /\ HolesDown(a, from, size) = f[from]
  BY HolesDownIs
<1> DEFINE S == {n \in Nat : \A h \in 0..(size - 1) : h >= size - n => DownPath(f[h], a, h, size, e)}
<1>2. ASSUME NEW h \in 0..size
      PROVE  f[h] = IF GoesOn(a, h, size, e) THEN {h} \cup f[EarlierChild(a, h, size)] ELSE {h}
  BY <1>1 DEF IsDown
<1>3. 0 \in S  OBVIOUS
<1>4. ASSUME NEW n \in S PROVE n + 1 \in S
  <2> SUFFICES ASSUME NEW h \in 0..(size - 1), h >= size - (n + 1)
               PROVE  DownPath(f[h], a, h, size, e)
    OBVIOUS
  <2>1. h \in Nat /\ h \in 0..size  OBVIOUS
  <2>2. CASE GoesOn(a, h, size, e)
    <3>1. PICK child : child = EarlierChild(a, h, size)  OBVIOUS
    <3>2. child \in 0..(size - 1) /\ child > h
      <4>1. h * 2 + 1 <= size - 1  BY <2>2 DEF GoesOn
      <4> QED  BY <3>1, <4>1, ChildIs
    <3>3. child >= size - n  BY <3>2
    <3>4. DownPath(f[child], a, child, size, e)  BY <3>2, <3>3
    <3>5. f[h] = {h} \cup f[child]  BY <2>1, <2>2, <3>1, <1>2
    <3> HIDE DEF S
    <3> QED  BY <2>1, <2>2, <3>1, <3>4, <3>5, DownStep
  <2>3. CASE ~GoesOn(a, h, size, e)
    <3>1. f[h] = {h}  BY <2>1, <2>3, <1>2
    <3> QED  BY <3>1, <2>3 DEF DownPath
  <2> QED  BY <2>2, <2>3
<1>5. S = Nat
  <2> HIDE DEF S
  <2>1. S \in SUBSET Nat  BY DEF S
  <2> QED  BY <1>3, <1>4, <2>1, SetInduction
<1>6. size \in S  BY <1>5
<1>7. DownPath(f[from], a, from, size, e)  BY <1>6
<1> QED  BY <1>1, <1>7

LEMMA GreatestOf ==
    ASSUME NEW S \in SUBSET Nat, S # {}, NEW n \in Nat, \A x \in S : x <= n
    PROVE  \E x \in S : \A y \in S : y <= x
<1> DEFINE D == {d \in Nat : n - d \in S}
<1>1. D # {}
  <2>1. PICK x \in S : TRUE  OBVIOUS
  <2>2. x \in Nat /\ n - x \in Nat /\ n - (n - x) = x  OBVIOUS
  <2> QED  BY <2>2
<1>2. PICK d \in D : \A c \in D : d <= c
  <2> HIDE DEF D
  <2>1. D \in SUBSET Nat  BY DEF D
  <2> QED  BY <1>1, <2>1, LeastOf
<1>3. ASSUME NEW y \in S PROVE y <= n - d
  <2>1. y \in Nat /\ n - y \in Nat /\ n - (n - y) = y  OBVIOUS
  <2>2. n - y \in D  BY <2>1
  <2>3. d <= n - y  BY <1>2, <2>2
  <2> QED  BY <2>1, <2>3
<1>4. n - d \in S  OBVIOUS
<1> QED  BY <1>3, <1>4

\* percolate_down: the same timers, in order from place from on when they were in
\* order behind it.
LEMMA PercolateDown ==
    ASSUME NEW c \in Nat, NEW size \in 1..c, NEW a \in ArrayOf(c),
           expire \in [Timer -> Nat], Entries(a, size) \subseteq Timer, Distinct(a, size),
           NEW from \in 0..(size - 1), Ordered(a, expire, from + 1, size),
           NEW b, b = percolate_down(a, from, size)
    PROVE  /\ b \in ArrayOf(c)
           /\ Entries(b, size) = Entries(a, size)
           /\ Distinct(b, size)
           /\ Ordered(b, expire, from, size)
<1>0. PICK P : P = HolesDown(a, from, size)  OBVIOUS
<1>1. DOMAIN a = 0..(c - 1) /\ \A k \in 0..(c - 1) : a[k] \in Timer \cup {NULL}  BY DEF ArrayOf
<1>2. \A k \in 0..(size - 1) : a[k] \in Timer /\ expire[a[k]] \in Nat
  <2> TAKE k \in 0..(size - 1)
  <2>1. a[k] \in Timer  BY DEF Entries
  <2> QED  BY <2>1
<1>3. PICK e \in Nat : e = expire[a[from]]  BY <1>2
<1>4. DownPath(P, a, from, size, e)  BY <1>0, <1>3, HolesDownPath
<1>5. /\ from \in P /\ P \subseteq from..(size - 1) /\ P \subseteq 0..(size - 1)
      /\ P \in SUBSET Nat
  BY <1>4 DEF DownPath
<1>6. PICK top \in P : \A y \in P : y <= top
  <2>1. P # {} /\ size \in Nat /\ \A y \in P : y <= size  BY <1>5
  <2> QED  BY <2>1, <1>5, GreatestOf
<1>7. Highest(P) = top
  <2>1. Highest(P) \in P /\ \A y \in P : Highest(P) >= y
    <3>1. \A y \in P : top >= y  BY <1>5, <1>6
    <3> QED  BY <3>1 DEF Highest
  <2>2. Highest(P) \in Nat /\ top \in Nat  BY <2>1, <1>5
  <2> QED  BY <2>1, <2>2, <1>6
<1>8. b = [k \in 0..(c - 1) |-> IF k \notin P THEN a[k]
                                ELSE IF k = top THEN a[from]
                                ELSE a[EarlierChild(a, k, size)]]
  BY <1>0, <1>1, <1>7 DEF percolate_down
\* What stands where.
<1>9. \A k \in 0..(c - 1) : k \notin P => b[k] = a[k]  BY <1>8
<1>10. b[top] = a[from]  BY <1>5, <1>8
<1> DEFINE child(k) == EarlierChild(a, k, size)
<1>11. \A k \in P : k # top => /\ b[k] = a[child(k)] /\ child(k) \in P /\ child(k) # from
                               /\ expire[a[child(k)]] < e /\ Parent(child(k)) = k
                               /\ k < child(k)
  <2> SUFFICES ASSUME NEW k \in P, k # top
               PROVE  /\ b[k] = a[child(k)] /\ child(k) \in P /\ child(k) # from
                      /\ expire[a[child(k)]] < e /\ Parent(child(k)) = k /\ k < child(k)
    OBVIOUS
  <2>1. b[k] = a[child(k)]  BY <1>5, <1>8
  <2>2. k \in Nat /\ from <= k /\ top \in Nat  BY <1>5
  <2>3. ~(\A y \in P : y <= k)
    <3>1. k < top  BY <1>6, <2>2
    <3> QED  BY <3>1, <2>2
  <2>4. GoesOn(a, k, size, e) /\ child(k) \in P  BY <2>3, <1>4 DEF DownPath
  <2>5. k * 2 + 1 <= size - 1 /\ expire[a[child(k)]] < e  BY <2>4 DEF GoesOn
  <2>6. Parent(child(k)) = k /\ child(k) > k /\ child(k) \in Nat  BY <2>2, <2>5, ChildIs
  <2> HIDE DEF child
  <2>7. child(k) # from /\ k < child(k)  BY <2>2, <2>6
  <2> QED  BY <2>1, <2>4, <2>5, <2>6, <2>7
<1>12. \A k \in P : k # from => k = child(Parent(k)) /\ Parent(k) \in P /\ Parent(k) # top
  <2> SUFFICES ASSUME NEW k \in P, k # from
               PROVE  k = child(Parent(k)) /\ Parent(k) \in P /\ Parent(k) # top
    OBVIOUS
  <2>1. Parent(k) \in P /\ k = child(Parent(k))  BY <1>4 DEF DownPath
  <2>2. k \in Nat /\ k # 0  BY <1>5
  <2>3. Parent(k) < k /\ Parent(k) \in Nat  BY <2>2, ParentIs
  <2>4. k <= top /\ top \in Nat  BY <1>5, <1>6
  <2>5. Parent(k) # top  BY <2>2, <2>3, <2>4
  <2> QED  BY <2>1, <2>5
<1> HIDE DEF child
\* The places from which the timers moved.
<1> DEFINE Src(k) == IF k \notin P THEN k ELSE IF k = top THEN from ELSE child(k)
<1>13. ASSUME NEW k \in 0..(size - 1) PROVE Src(k) \in 0..(size - 1) /\ b[k] = a[Src(k)]
  <2>1. CASE k \notin P  BY <2>1, <1>9
  <2>2. CASE k = top  BY <2>2, <1>10, <1>5, <1>6
  <2>3. CASE k \in P /\ k # top  BY <2>3, <1>11, <1>5
  <2> QED  BY <2>1, <2>2, <2>3
<1>14. ASSUME NEW k \in 0..(size - 1) PROVE \E l \in 0..(size - 1) : b[l] = a[k]
  <2>1. CASE k \notin P  BY <2>1, <1>9
  <2>2. CASE k = from  BY <2>2, <1>10, <1>5, <1>6
  <2>3. CASE k \in P /\ k # from
    <3>1. Parent(k) \in P /\ Parent(k) # top /\ k = child(Parent(k))  BY <2>3, <1>12
    <3>2. b[Parent(k)] = a[k]  BY <3>1, <1>11
    <3> QED  BY <3>1, <3>2, <1>5
  <2> QED  BY <2>1, <2>2, <2>3
<1>15. b \in ArrayOf(c)
  <2>1. ASSUME NEW k \in 0..(c - 1) PROVE b[k] \in Timer \cup {NULL}
    <3>1. CASE k \in 0..(size - 1)
      <4>1. Src(k) \in 0..(c - 1) /\ b[k] = a[Src(k)]  BY <3>1, <1>13
      <4> HIDE DEF Src
      <4> QED  BY <4>1, <1>1
    <3>2. CASE k \notin 0..(size - 1)  BY <3>2, <1>1, <1>5, <1>9
    <3> QED  BY <3>1, <3>2
  <2>2. b = [k \in 0..(c - 1) |-> b[k]]  BY <1>8
  <2> HIDE DEF Src
  <2> QED  BY <2>1, <2>2 DEF ArrayOf
<1>16. Distinct(b, size)
  <2> SUFFICES ASSUME NEW j \in 0..(size - 1), NEW k \in 0..(size - 1), b[j] = b[k]
               PROVE  j = k
    BY DEF Distinct
  <2>1. Src(j) = Src(k)
    <3>1. Src(j) \in 0..(size - 1) /\ Src(k) \in 0..(size - 1) /\ a[Src(j)] = a[Src(k)]
      BY <1>13
    <3> HIDE DEF Src
    <3> QED  BY <3>1 DEF Distinct
  <2>2. \A l \in 0..(size - 1) : /\ l \in P <=> Src(l) \in P
                                 /\ l = top <=> Src(l) = from
                                 /\ l \in P /\ l # top => Parent(Src(l)) = l
    <3> TAKE l \in 0..(size - 1)
    <3>1. CASE l \notin P  BY <3>1, <1>5, <1>6
    <3>2. CASE l = top  BY <3>2, <1>5, <1>6
    <3>3. CASE l \in P /\ l # top  BY <3>3, <1>11
    <3> QED  BY <3>1, <3>2, <3>3
  <2>3. CASE j \notin P
    <3>1. k \notin P  BY <2>1, <2>2, <2>3
    <3> QED  BY <3>1, <2>1, <2>3
  <2>4. CASE j = top
    <3>1. k = top  BY <2>1, <2>2, <2>4
    <3> QED  BY <3>1, <2>4
  <2>5. CASE j \in P /\ j # top
    <3>1. k \in P /\ k # top  BY <2>1, <2>2, <2>5
    <3> HIDE DEF Src
    <3> QED  BY <3>1, <2>1, <2>2, <2>5
  <2> QED  BY <2>3, <2>4, <2>5
<1> HIDE DEF Src
<1>17. Entries(b, size) = Entries(a, size)
  <2>1. ASSUME NEW k \in 0..(size - 1) PROVE b[k] \in Entries(a, size)  BY <1>13 DEF Entries
  <2>2. ASSUME NEW k \in 0..(size - 1) PROVE a[k] \in Entries(b, size)  BY <1>14 DEF Entries
  <2> QED  BY <2>1, <2>2 DEF Entries
<1>18. Ordered(b, expire, from, size)
  <2> SUFFICES ASSUME NEW k \in 1..(size - 1), Parent(k) >= from
               PROVE  expire[b[Parent(k)]] <= expire[b[k]]
    BY DEF Ordered
  <2>1. PICK p \in Nat : p = Parent(k)  BY ParentIs
  <2>2. p < k /\ p \in 0..(size - 1) /\ k \in Nat /\ k # 0 /\ k <= size - 1 /\ k \in 0..(size - 1)
    <3>1. Parent(k) < k  BY ParentIs
    <3> QED  BY <3>1, <2>1
  <2>3. expire[a[child(p)]] <= expire[a[k]] /\ p * 2 + 1 <= size - 1
    <3>1. \A j \in 0..(size - 1) : expire[a[j]] \in Int  BY <1>2
    <3> QED  BY <3>1, <2>1, <2>2, ChildIsEarlier DEF child
  <2>4. expire[a[k]] \in Nat /\ expire[a[p]] \in Nat  BY <2>2, <1>2
  <2>5. ASSUME p \notin P PROVE expire[b[p]] <= expire[b[k]]
    <3>1. k \notin P
      <4>1. k # from  BY <2>1, <2>2
      <4> QED  BY <4>1, <2>1, <2>5, <1>12
    <3>2. b[k] = a[k] /\ b[p] = a[p]  BY <3>1, <2>2, <2>5, <1>9
    <3>3. p >= from + 1
      <4>1. p # from  BY <2>5, <1>5
      <4> QED  BY <4>1, <2>1
    <3>4. expire[a[p]] <= expire[a[k]]  BY <3>3, <2>1 DEF Ordered
    <3> QED  BY <3>2, <3>4
  <2>6. ASSUME p \in P, p # top PROVE expire[b[p]] <= expire[b[k]]
    <3>1. b[p] = a[child(p)] /\ child(p) \in P /\ expire[a[child(p)]] < e  BY <2>6, <1>11
    <3>2. CASE k \notin P
      <4>1. b[k] = a[k]  BY <3>2, <2>2, <1>9
      <4> QED  BY <4>1, <3>1, <2>3
    <3>3. CASE k \in P
      <4>1. k # from  BY <2>1, <2>2
      <4>2. k = child(p)  BY <4>1, <3>3, <2>1, <1>12
      <4>3. CASE k = top
        <5>1. expire[b[k]] = e  BY <4>3, <1>3, <1>10
        <5> QED  BY <5>1, <3>1, <4>2, <2>4
      <4>4. CASE k # top
        <5>1. b[k] = a[child(k)] /\ child(k) \in P /\ Parent(child(k)) = k /\ k < child(k)
          BY <3>3, <4>4, <1>11
        <5>2. child(k) \in 1..(size - 1) /\ k >= from + 1
          <6>1. child(k) \in 0..(size - 1)  BY <5>1, <1>5
          <6>2. k > from  BY <2>1, <2>2
          <6> QED  BY <6>1, <6>2, <5>1, <2>2
        <5>3. expire[a[k]] <= expire[a[child(k)]]  BY <5>1, <5>2 DEF Ordered
        <5> QED  BY <3>1, <4>2, <5>1, <5>3
      <4> QED  BY <4>3, <4>4
    <3> QED  BY <3>2, <3>3
  <2>7. ASSUME p = top PROVE expire[b[p]] <= expire[b[k]]
    <3>1. k \notin P
      <4>1. top \in Nat  BY <1>5
      <4> QED  BY <4>1, <2>2, <2>7, <1>6
    <3>2. b[k] = a[k]  BY <3>1, <2>2, <1>9
    <3>3. expire[b[p]] = e  BY <2>7, <1>3, <1>10
    <3>4. ~GoesOn(a, p, size, e)
      <4> SUFFICES ASSUME GoesOn(a, p, size, e) PROVE FALSE  OBVIOUS
      <4>1. child(p) \in P  BY <2>7, <1>4 DEF DownPath, child
      <4>2. child(p) > p  BY <2>3, ChildIs DEF child
      <4>3. child(p) \in Nat  BY <4>1, <1>5
      <4> QED  BY <4>1, <4>2, <4>3, <2>7, <1>6
    <3>5. ~(expire[a[child(p)]] < e)  BY <3>4, <2>3 DEF GoesOn, child
    <3>6. expire[a[child(p)]] \in Int
      <4>1. child(p) \in 0..(size - 1)  BY <2>3, ChildIs DEF child
      <4> QED  BY <4>1, <1>2
    <3> QED  BY <3>2, <3>3, <3>5, <3>6, <2>3, <2>4
  <2> QED  BY <2>1, <2>5, <2>6, <2>7
<1> QED  BY <1>15, <1>16, <1>17, <1>18

-----------------------------------------------------------------------------

\* In a heap nobody is earlier than the root.
LEMMA RootIsLeast ==
    ASSUME NEW a, NEW x, NEW n \in Nat, Ordered(a, x, 0, n),
           \A k \in 0..(n - 1) : x[a[k]] \in Nat
    PROVE  \A k \in 0..(n - 1) : x[a[0]] <= x[a[k]]
<1> DEFINE S == {k \in 0..(n - 1) : ~(x[a[0]] <= x[a[k]])}
<1> SUFFICES ASSUME S # {} PROVE FALSE  OBVIOUS
<1>1. PICK k \in S : \A y \in S : k <= y
  <2> HIDE DEF S
  <2>1. S \in SUBSET Nat  BY DEF S
  <2> QED  BY <2>1, LeastOf
<1>2. k \in Nat /\ k # 0 /\ k \in 1..(n - 1)
  <2>1. 0 \in 0..(n - 1)  OBVIOUS
  <2>2. x[a[0]] \in Nat  BY <2>1
  <2>3. k # 0  BY <2>2
  <2> QED  BY <2>3
<1>3. PICK p \in Nat : p = Parent(k)  BY <1>2, ParentIs
<1>4. p < k /\ p >= 0 /\ p \in 0..(n - 1)  BY <1>2, <1>3, ParentIs
<1>5. x[a[p]] <= x[a[k]]  BY <1>2, <1>3, <1>4 DEF Ordered
<1>6. x[a[0]] <= x[a[p]]
  <2>1. p \notin S  BY <1>1, <1>2, <1>4
  <2> QED  BY <2>1, <1>4
<1>7. x[a[0]] \in Nat /\ x[a[p]] \in Nat /\ x[a[k]] \in Nat
  <2>1. 0 \in 0..(n - 1)  OBVIOUS
  <2> QED  BY <2>1, <1>4
<1> QED  BY <1>5, <1>6, <1>7

\* The function inside Heapified, from place n on.
IsBuilt(f, a, n, last, size) ==
    f = [k \in n..(last + 1) |-> IF k > last THEN a ELSE percolate_down(f[k + 1], k, size)]

LEMMA BuiltExists ==
    ASSUME NEW a, NEW size, NEW last \in Nat
    PROVE  \E f : IsBuilt(f, a, 0, last, size)
<1> DEFINE S == {n \in Nat : n <= last + 1 => \E f : IsBuilt(f, a, last + 1 - n, last, size)}
<1>1. 0 \in S
  <2>1. IsBuilt([k \in (last + 1)..(last + 1) |-> a], a, last + 1, last, size)  BY DEF IsBuilt
  <2>2. last + 1 - 0 = last + 1  OBVIOUS
  <2> QED  BY <2>1, <2>2
<1>2. ASSUME NEW n \in S PROVE n + 1 \in S
  <2> SUFFICES ASSUME n + 1 <= last + 1
               PROVE  \E f : IsBuilt(f, a, last + 1 - (n + 1), last, size)
    OBVIOUS
  <2>1. PICK f : IsBuilt(f, a, last + 1 - n, last, size)  OBVIOUS
  <2>2. PICK m \in Nat : m = last + 1 - (n + 1)  OBVIOUS
  <2>3. last + 1 - n = m + 1 /\ m <= last  BY <2>2
  <2> DEFINE V(ff, k) == IF k > last THEN a ELSE percolate_down(ff[k + 1], k, size)
             g == [k \in m..(last + 1) |-> IF k > m THEN f[k] ELSE V(f, k)]
  <2>4. ASSUME NEW k \in m..(last + 1) PROVE g[k] = V(g, k)
    <3>1. k <= last => g[k + 1] = f[k + 1]  OBVIOUS
    <3>2. V(f, k) = V(g, k)  BY <3>1
    <3>3. CASE k > m
      <4>1. k \in (m + 1)..(last + 1)  BY <3>3
      <4>2. f[k] = V(f, k)  BY <4>1, <2>1, <2>3 DEF IsBuilt
      <4>3. g[k] = f[k]  BY <3>3
      <4> QED  BY <3>2, <4>2, <4>3
    <3>4. CASE ~(k > m)
      <4>1. g[k] = V(f, k)  BY <3>4
      <4> QED  BY <3>2, <4>1
    <3> QED  BY <3>3, <3>4
  <2>5. IsBuilt(g, a, m, last, size)
    <3>1. g = [k \in m..(last + 1) |-> g[k]]  OBVIOUS
    <3>2. \A k \in m..(last + 1) : g[k] = V(g, k)  BY <2>4
    <3> HIDE DEF g
    <3> QED  BY <3>1, <3>2 DEF IsBuilt
  <2> QED  BY <2>2, <2>5
<1>3. S = Nat
  <2> HIDE DEF S
  <2>1. S \in SUBSET Nat  BY DEF S
  <2> QED  BY <1>1, <1>2, <2>1, SetInduction
<1>4. last + 1 \in S /\ last + 1 - (last + 1) = 0  BY <1>3
<1> QED  BY <1>4

LEMMA HeapifiedIs ==
    ASSUME NEW a, NEW size \in Nat \ {0}
    PROVE  \E f : /\ IsBuilt(f, a, 0, (size - 1) \div 2, size)
                  /\ Heapified(a, size) = f[0]
<1>0. (size - 1) \div 2 \in Nat  OBVIOUS
<1>1. \E f : IsBuilt(f, a, 0, (size - 1) \div 2, size)  BY <1>0, BuiltExists
<1> DEFINE u == CHOOSE f : IsBuilt(f, a, 0, (size - 1) \div 2, size)
<1>2. IsBuilt(u, a, 0, (size - 1) \div 2, size)  BY <1>1
<1>3. Heapified(a, size) = u[0]  BY DEF Heapified, IsBuilt
<1> QED  BY <1>2, <1>3

\* The second constructor makes a heap of the timers it is given.
LEMMA HeapMade ==
    ASSUME NEW c \in Nat, NEW size \in 1..c, NEW a \in ArrayOf(c),
           expire \in [Timer -> Nat], Entries(a, size) \subseteq Timer, Distinct(a, size),
           NEW b, b = Heapified(a, size)
    PROVE  /\ b \in ArrayOf(c) /\ Entries(b, size) = Entries(a, size)
           /\ Distinct(b, size) /\ Ordered(b, expire, 0, size)
<1>1. PICK last \in Nat : last = (size - 1) \div 2  OBVIOUS
<1>2. PICK f : IsBuilt(f, a, 0, last, size) /\ b = f[0]  BY <1>1, HeapifiedIs
<1>3. 2 * last <= size - 1 /\ size - 1 <= 2 * last + 1 /\ last <= size - 1  BY <1>1
<1>4. \A k \in 0..(last + 1) : f[k] = IF k > last THEN a ELSE percolate_down(f[k + 1], k, size)
  BY <1>2 DEF IsBuilt
<1> DEFINE Good(k) == /\ f[k] \in ArrayOf(c) /\ Entries(f[k], size) = Entries(a, size)
                      /\ Distinct(f[k], size) /\ Ordered(f[k], expire, k, size)
           S == {n \in Nat : n <= last + 1 => Good(last + 1 - n)}
<1>5. 0 \in S
  <2>1. last + 1 \in 0..(last + 1) /\ last + 1 > last /\ last + 1 - 0 = last + 1  OBVIOUS
  <2>2. f[last + 1] = a  BY <1>4, <2>1
  <2>3. Ordered(a, expire, last + 1, size)
    <3> SUFFICES ASSUME NEW k \in 1..(size - 1), Parent(k) >= last + 1 PROVE FALSE
      BY DEF Ordered
    <3>1. PICK p \in Nat : p = Parent(k)  BY ParentIs
    <3>2. k = 2 * p + 1 \/ k = 2 * p + 2  BY <3>1, ParentIs
    <3> QED  BY <3>1, <3>2, <1>3
  <2> QED  BY <2>1, <2>2, <2>3
<1>6. ASSUME NEW n \in S PROVE n + 1 \in S
  <2> SUFFICES ASSUME n + 1 <= last + 1 PROVE Good(last + 1 - (n + 1))  OBVIOUS
  <2>1. PICK m \in Nat : m = last + 1 - (n + 1)  OBVIOUS
  <2>2. last + 1 - n = m + 1 /\ m <= last /\ m \in 0..(last + 1) /\ m \in 0..(size - 1)
    BY <2>1, <1>3
  <2>3. Good(m + 1)
    <3>1. Good(last + 1 - n)  OBVIOUS
    <3> QED  BY <3>1, <2>2
  <2>4. PICK g : g = f[m + 1]  OBVIOUS
  <2>5. f[m] = percolate_down(g, m, size)  BY <2>2, <2>4, <1>4
  <2>6. /\ g \in ArrayOf(c) /\ Entries(g, size) = Entries(a, size)
        /\ Distinct(g, size) /\ Ordered(g, expire, m + 1, size)
    BY <2>3, <2>4
  <2>7. /\ f[m] \in ArrayOf(c) /\ Entries(f[m], size) = Entries(g, size)
        /\ Distinct(f[m], size) /\ Ordered(f[m], expire, m, size)
    <3> HIDE DEF S, Good
    <3> QED  BY <2>2, <2>5, <2>6, PercolateDown
  <2>8. Good(m)  BY <2>6, <2>7
  <2> QED  BY <2>1, <2>8
<1>7. S = Nat
  <2> HIDE DEF S
  <2>1. S \in SUBSET Nat  BY DEF S
  <2> QED  BY <1>5, <1>6, <2>1, SetInduction
<1>8. last + 1 \in S
  <2> HIDE DEF S
  <2> QED  BY <1>7
<1>9. Good(0)
  <2>1. last + 1 - (last + 1) = 0 /\ last + 1 <= last + 1  OBVIOUS
  <2>2. Good(last + 1 - (last + 1))  BY <1>8, <2>1
  <2> QED  BY <2>1, <2>2
<1> QED  BY <1>2, <1>9

-----------------------------------------------------------------------------

(***************************************************************************)
(* Its inductive invariant: between two steps the array is a heap, tmp is  *)
(* its root while tick runs, and cur is no later than the clock, so that   *)
(* nothing a callback adds can go above the timer that expired.            *)
(***************************************************************************)
Heap == Ordered(array, expire, 0, cur_size)

HeapInv ==
    /\ HeapTypeOK /\ Heap /\ capacity # 0 /\ cur <= clock
    /\ heap_at # "idle" => array[0] = heap_tmp
    /\ heap_at \in {"callback", "pop"} => cur_size > 0 /\ expire[heap_tmp] <= cur

LEMMA HeldIs == Held = Entries(array, cur_size)
  BY DEF Held, Entries

\* The state in the terms of the lemmas above.
LEMMA Shape ==
    ASSUME HeapTypeOK
    PROVE  /\ capacity \in Nat /\ cur_size \in Nat /\ cur_size <= capacity
           /\ array \in ArrayOf(capacity) /\ expire \in [Timer -> Nat]
           /\ Entries(array, cur_size) \subseteq Timer /\ Distinct(array, cur_size)
           /\ \A k \in 0..(cur_size - 1) : array[k] \in Timer /\ expire[array[k]] \in Nat
<1>1. capacity \in Nat /\ cur_size \in Nat /\ cur_size <= capacity  BY DEF HeapTypeOK
<1>2. Entries(array, cur_size) \subseteq Timer  BY HeldIs DEF HeapTypeOK
<1>3. \A k \in 0..(cur_size - 1) : array[k] \in Timer /\ expire[array[k]] \in Nat
  <2> TAKE k \in 0..(cur_size - 1)
  <2>1. array[k] \in Timer  BY <1>2 DEF Entries
  <2> QED  BY <2>1 DEF HeapTypeOK
<1> QED  BY <1>1, <1>2, <1>3 DEF HeapTypeOK, ArrayOf, Distinct

LEMMA RootLeast ==
    ASSUME HeapInv
    PROVE  \A t \in Held : expire[array[0]] <= expire[t]
<1>1. \A k \in 0..(cur_size - 1) : expire[array[0]] <= expire[array[k]]
  BY Shape, RootIsLeast DEF HeapInv, Heap
<1> QED  BY <1>1 DEF Held

LEMMA InvHeapOrder == HeapInv => HeapOrder
<1> SUFFICES ASSUME HeapInv PROVE HeapOrder  OBVIOUS
<1>1. \A k \in 1..(cur_size - 1) : expire[array[Parent(k)]] <= expire[array[k]]
  <2> TAKE k \in 1..(cur_size - 1)
  <2>1. Parent(k) >= 0  BY Shape, ParentIs DEF HeapInv
  <2> QED  BY <2>1 DEF HeapInv, Heap, Ordered
<1>2. ASSUME heap_at \in {"callback", "pop"}
      PROVE  /\ array[0] = heap_tmp /\ expire[heap_tmp] <= cur
             /\ \A t \in Held : expire[heap_tmp] <= expire[t]
  BY <1>2, RootLeast DEF HeapInv
<1> QED  BY <1>1, <1>2 DEF HeapOrder

LEMMA HeapInitInv == HeapInit => HeapInv
<1> SUFFICES ASSUME HeapInit PROVE HeapInv  OBVIOUS
<1>1. clock = 0 /\ cur = 0 /\ heap_tmp = NULL /\ heap_at = "idle"  BY DEF HeapInit
<1>2. MaxTime \in Nat /\ cap \in Nat /\ cap # 0 /\ IsFiniteSet(Timer)
  BY HeapAssumption DEF HeapAssumption
<1>3. CASE InitEmpty
  <2>1. /\ array = [k \in 0..cap-1 |-> NULL] /\ capacity = cap /\ cur_size = 0
        /\ expire = [t \in Timer |-> 0] /\ cb_func = {}
    BY <1>3 DEF InitEmpty
  <2>2. Held = {}  BY <2>1 DEF Held
  <2>3. HeapTypeOK  BY <1>1, <1>2, <2>1, <2>2 DEF HeapTypeOK
  <2>4. Heap  BY <2>1 DEF Heap, Ordered
  <2> QED  BY <1>1, <1>2, <2>1, <2>3, <2>4 DEF HeapInv
<1>4. CASE InitArray
  <2>1. PICK c \in Nat, n \in Nat : /\ c = capacity /\ n = cur_size
                                    /\ n # 0 /\ n <= c /\ c <= Cardinality(Timer)
    <3>1. PICK m \in Nat : m = Cardinality(Timer)  BY <1>2, FS_CardinalityType
    <3>2. capacity \in 1..m /\ cur_size \in 1..capacity  BY <1>4, <3>1 DEF InitArray
    <3> QED  BY <3>1, <3>2
  <2> DEFINE One(a) == a \in [0..n-1 -> Timer] /\ \A j, k \in 0..n-1 : a[j] = a[k] => j = k
  <2>2. \E a : One(a)
    <3>0. PICK m \in Nat : m = Cardinality(Timer)  BY <1>2, FS_CardinalityType
    <3>1. PICK f \in Bijection(1..m, Timer) : TRUE
      <4>1. ExistsBijection(1..m, Timer)  BY <3>0, <1>2, FS_CardinalityType
      <4> QED  BY <4>1 DEF ExistsBijection
    <3>2. f \in [1..m -> Timer] /\ \A j, k \in 1..m : f[j] = f[k] => j = k
      BY DEF Bijection, Injection, IsInjective
    <3>3. n <= m  BY <2>1, <3>0
    <3>4. \A k \in 0..n-1 : k + 1 \in 1..m  BY <3>3
    <3> DEFINE a == [k \in 0..n-1 |-> f[k + 1]]
    <3>5. a \in [0..n-1 -> Timer]  BY <3>2, <3>4
    <3>6. \A j, k \in 0..n-1 : a[j] = a[k] => j = k  BY <3>2, <3>4
    <3> QED  BY <3>5, <3>6
  <2>3. PICK ia : ia = init_array(n)  OBVIOUS
  <2>4. ia \in [0..n-1 -> Timer] /\ \A j, k \in 0..n-1 : ia[j] = ia[k] => j = k
    BY <2>2, <2>3 DEF init_array
  <2> DEFINE a == [k \in 0..c-1 |-> IF k < n THEN ia[k] ELSE NULL]
  <2>5. /\ cb_func = {ia[i] : i \in 0..n-1} /\ expire \in [Timer -> 0..MaxTime]
        /\ array = Heapified(a, n)
    <3>1. /\ cb_func = {ia[i] : i \in 0..cur_size-1}
          /\ expire \in {e \in [Timer -> 0..MaxTime] : \A t \in Timer \ cb_func : e[t] = 0}
          /\ array = Heapified([i \in 0..capacity-1 |-> IF i < cur_size THEN ia[i] ELSE NULL],
                               cur_size)
      BY <1>4, <2>1, <2>3 DEF InitArray
    <3> QED  BY <3>1, <2>1
  <2>6. /\ a \in ArrayOf(c) /\ Entries(a, n) = {ia[i] : i \in 0..n-1}
        /\ Entries(a, n) \subseteq Timer /\ Distinct(a, n)
    <3>1. \A k \in 0..n-1 : a[k] = ia[k]  BY <2>1
    <3>2. \A k \in 0..c-1 : a[k] \in Timer \cup {NULL}  BY <2>1, <2>4
    <3>3. a \in ArrayOf(c)  BY <3>2 DEF ArrayOf
    <3> HIDE DEF a
    <3>4. Entries(a, n) = {ia[i] : i \in 0..n-1}  BY <3>1 DEF Entries
    <3>5. Entries(a, n) \subseteq Timer  BY <3>4, <2>4
    <3>6. Distinct(a, n)  BY <3>1, <2>4 DEF Distinct
    <3> QED  BY <3>3, <3>4, <3>5, <3>6
  <2> HIDE DEF a, One
  <2>7. expire \in [Timer -> Nat]  BY <2>5, <1>2
  <2>8. /\ array \in ArrayOf(c) /\ Entries(array, n) = Entries(a, n)
        /\ Distinct(array, n) /\ Ordered(array, expire, 0, n)
    <3>1. n \in 1..c  BY <2>1
    <3> QED  BY <3>1, <2>5, <2>6, <2>7, HeapMade
  <2>9. HeapTypeOK
    <3>1. Held = Entries(a, n)  BY <2>1, <2>8, HeldIs
    <3>2. \A i, j \in 0..cur_size-1 : array[i] = array[j] => i = j
      BY <2>1, <2>8 DEF Distinct
    <3>3. array \in [0..capacity-1 -> Timer \cup {NULL}]  BY <2>1, <2>8 DEF ArrayOf
    <3>4. capacity \in Nat /\ cur_size \in 0..capacity  BY <2>1
    <3>5. cb_func \subseteq Held /\ Held \subseteq Timer  BY <3>1, <2>5, <2>6
    <3> QED  BY <3>2, <3>3, <3>4, <3>5, <2>7, <1>1, <1>2 DEF HeapTypeOK
  <2>10. Heap  BY <2>1, <2>8 DEF Heap
  <2> QED  BY <1>1, <2>1, <2>9, <2>10 DEF HeapInv
<1> QED  BY <1>3, <1>4 DEF HeapInit

-----------------------------------------------------------------------------

(***************************************************************************)
(* The operations of the time heap.                                        *)
(***************************************************************************)
\* A free address.
LEMMA NewTimerIs ==
    ASSUME HeapInv, Timer # Held
    PROVE  NewTimer \in Timer /\ NewTimer \notin Held
BY DEF NewTimer, HeapInv, HeapTypeOK

\* What add_timer makes of the array and the times.
LEMMA AddedIs ==
    ASSUME HeapInv, NEW timer \in Timer, timer \notin Held, NEW e \in Nat,
           heap_add_timer(timer, e), expire' = [expire EXCEPT ![timer] = e]
    PROVE  /\ capacity' \in Nat /\ capacity' # 0 /\ cur_size' = cur_size + 1
           /\ cur_size' <= capacity' /\ array' \in ArrayOf(capacity')
           /\ Entries(array', cur_size') = Held \cup {timer}
           /\ Distinct(array', cur_size') /\ Ordered(array', expire', 0, cur_size')
           /\ cur_size > 0 /\ expire[array[0]] <= e => array'[0] = array[0]
<1>1. PICK n \in Nat, c0 \in Nat : n = cur_size /\ c0 = capacity /\ n <= c0 /\ c0 # 0
  BY Shape DEF HeapInv
<1>2. PICK c \in Nat : c = IF n >= c0 THEN 2 * c0 ELSE c0  BY <1>1
<1>3. n \in 0..(c - 1)  BY <1>1, <1>2
<1>4. PICK a : a = IF n >= c0 THEN resize ELSE array  OBVIOUS
<1>5. /\ array \in ArrayOf(c0) /\ Entries(array, n) = Held /\ Held \subseteq Timer
      /\ Distinct(array, n) /\ Ordered(array, expire, 0, n) /\ expire \in [Timer -> Nat]
  BY <1>1, Shape, HeldIs DEF HeapInv, Heap
<1>6. a \in ArrayOf(c) /\ \A k \in 0..(n - 1) : a[k] = array[k]
  <2>1. CASE n >= c0
    <3>1. c = 2 * c0 /\ a = [k \in 0..(c - 1) |-> IF k < n THEN array[k] ELSE NULL]
      BY <2>1, <1>1, <1>2, <1>4 DEF resize
    <3>2. \A k \in 0..(n - 1) : array[k] \in Timer \cup {NULL}  BY <1>1, <1>5 DEF ArrayOf
    <3>3. \A k \in 0..(c - 1) : k < n => k \in 0..(n - 1)  OBVIOUS
    <3>4. \A k \in 0..(n - 1) : k \in 0..(c - 1) /\ k < n  BY <1>3
    <3>5. a \in ArrayOf(c)  BY <3>1, <3>2, <3>3 DEF ArrayOf
    <3> QED  BY <3>1, <3>4, <3>5
  <2>2. CASE ~(n >= c0)  BY <2>2, <1>2, <1>4, <1>5
  <2> QED  BY <2>1, <2>2
<1>7. Entries(a, n) = Held /\ Distinct(a, n) /\ Ordered(a, expire, 0, n)
  <2>1. Entries(a, n) = Entries(array, n)  BY <1>6 DEF Entries
  <2>2. Distinct(a, n)  BY <1>5, <1>6 DEF Distinct
  <2>3. Ordered(a, expire, 0, n)
    <3> SUFFICES ASSUME NEW k \in 1..(n - 1), Parent(k) >= 0
                 PROVE  expire[a[Parent(k)]] <= expire[a[k]]
      BY DEF Ordered
    <3>1. k \in 0..(n - 1) /\ Parent(k) \in 0..(n - 1)  BY ParentIs
    <3>2. expire[array[Parent(k)]] <= expire[array[k]]  BY <1>5 DEF Ordered
    <3> QED  BY <3>1, <3>2, <1>6
  <2> QED  BY <2>1, <2>2, <2>3, <1>5
<1>8. n > 0 => a[0] = array[0]
  <2>1. n > 0 => 0 \in 0..(n - 1)  OBVIOUS
  <2> QED  BY <2>1, <1>6
<1>10. PICK b : b = Raised(a, n, timer, e)  OBVIOUS
<1>11. array' = b /\ capacity' = c /\ cur_size' = n + 1
  BY <1>1, <1>2, <1>4, <1>10 DEF heap_add_timer, Raised
<1>12. PICK x : x = Timed(timer, e)  OBVIOUS
<1>13. /\ b \in ArrayOf(c) /\ Entries(b, n + 1) = Entries(a, n) \cup {timer}
       /\ Distinct(b, n + 1) /\ Ordered(b, x, 0, n + 1)
       /\ n > 0 /\ expire[a[0]] <= e => b[0] = a[0]
  <2>1. Entries(a, n) \subseteq Timer /\ timer \notin Entries(a, n)  BY <1>5, <1>7
  <2>2. a \in ArrayOf(c) /\ expire \in [Timer -> Nat]  BY <1>5, <1>6
  <2>3. Distinct(a, n) /\ Ordered(a, expire, 0, n)  BY <1>7
  <2> QED  BY <2>1, <2>2, <2>3, <1>3, <1>10, <1>12, HoleUp
<1>14. c \in Nat /\ c # 0 /\ n + 1 <= c  BY <1>1, <1>2
<1>15. expire' = x  BY <1>12 DEF Timed
<1> QED  BY <1>1, <1>7, <1>8, <1>11, <1>13, <1>14, <1>15

LEMMA HeapAddInv == ASSUME HeapInv, HeapAdd PROVE HeapInv'
<1>1. PICK timer \in Timer : timer = NewTimer /\ timer \notin Held  BY NewTimerIs DEF HeapAdd
<1>2. PICK delay \in Delay : /\ clock + delay <= MaxTime
                             /\ heap_add_timer(timer, clock + delay)
                             /\ expire' = [expire EXCEPT ![timer] = clock + delay]
  BY <1>1 DEF HeapAdd
<1>3. clock \in Nat /\ MaxTime \in Nat /\ delay \in Nat /\ cur \in Nat /\ cur <= clock
  BY <1>2, HeapAssumption DEF HeapAssumption, HeapInv, HeapTypeOK
<1>4. PICK e \in Nat : e = clock + delay  BY <1>3
<1>5. /\ cb_func' = cb_func \cup {timer} /\ Working
      /\ UNCHANGED <<clock, cur, heap_tmp, heap_at>>
  BY <1>1 DEF HeapAdd
<1>6. /\ capacity' \in Nat /\ capacity' # 0 /\ cur_size' = cur_size + 1
      /\ cur_size' <= capacity' /\ array' \in ArrayOf(capacity')
      /\ Entries(array', cur_size') = Held \cup {timer}
      /\ Distinct(array', cur_size') /\ Ordered(array', expire', 0, cur_size')
      /\ cur_size > 0 /\ expire[array[0]] <= e => array'[0] = array[0]
  BY <1>1, <1>2, <1>4, AddedIs
<1>7. Held' = Held \cup {timer}
  <2>1. Held' = Entries(array', cur_size')  BY DEF Held, Entries
  <2> QED  BY <2>1, <1>6
<1>8. expire' \in [Timer -> Nat] /\ \A t \in Timer \ {timer} : expire'[t] = expire[t]
  BY <1>2, <1>4, Shape DEF HeapInv
<1>9. HeapTypeOK'
  <2>1. \A i, j \in 0..(cur_size' - 1) : array'[i] = array'[j] => i = j
    BY <1>6 DEF Distinct
  <2>2. array' \in [0..(capacity' - 1) -> Timer \cup {NULL}]  BY <1>6 DEF ArrayOf
  <2>3. cb_func' \subseteq Held' /\ Held' \subseteq Timer  BY <1>5, <1>7 DEF HeapInv, HeapTypeOK
  <2>4. cur_size' \in 0..capacity'  BY <1>6, Shape DEF HeapInv
  <2>5. /\ clock' \in 0..MaxTime /\ cur' \in 0..MaxTime /\ heap_tmp' \in Timer \cup {NULL}
        /\ heap_at' \in {"idle", "check", "callback", "pop"}
    BY <1>5 DEF HeapInv, HeapTypeOK
  <2> QED  BY <2>1, <2>2, <2>3, <2>4, <2>5, <1>6, <1>8 DEF HeapTypeOK
<1>10. Heap'  BY <1>6 DEF Heap
<1>11. ASSUME heap_at' # "idle"
       PROVE  array'[0] = heap_tmp' /\ cur_size' > 0 /\ expire'[heap_tmp'] <= cur'
  <2>1. heap_at = "callback"  BY <1>5, <1>11 DEF Working
  <2>2. array[0] = heap_tmp /\ cur_size > 0 /\ expire[heap_tmp] <= cur  BY <2>1 DEF HeapInv
  <2>3. heap_tmp \in Held /\ expire[heap_tmp] \in Nat /\ cur_size \in Nat
    <3>1. cur_size \in Nat  BY Shape DEF HeapInv
    <3>2. 0 \in 0..(cur_size - 1)  BY <3>1, <2>2
    <3> QED  BY <3>1, <3>2, <2>2, Shape DEF Held, HeapInv
  <2>4. expire[heap_tmp] <= e  BY <2>2, <2>3, <1>3, <1>4
  <2>5. array'[0] = heap_tmp  BY <2>2, <2>4, <1>6
  <2>6. expire'[heap_tmp] = expire[heap_tmp]
    <3>1. heap_tmp # timer /\ heap_tmp \in Timer  BY <2>3, <1>1 DEF HeapInv, HeapTypeOK
    <3> QED  BY <3>1, <1>8
  <2> QED  BY <2>2, <2>3, <2>5, <2>6, <1>5, <1>6
<1> QED  BY <1>3, <1>5, <1>6, <1>9, <1>10, <1>11 DEF HeapInv

\* What pop_timer makes of them.
LEMMA PoppedIs ==
    ASSUME HeapInv, cur_size > 0, pop_timer
    PROVE  /\ capacity' = capacity /\ cur_size' = cur_size - 1
           /\ array' \in ArrayOf(capacity)
           /\ Entries(array', cur_size') = Held \ {array[0]}
           /\ Distinct(array', cur_size') /\ Ordered(array', expire', 0, cur_size')
           /\ expire' = [expire EXCEPT ![array[0]] = 0] /\ cb_func' = cb_func \ {array[0]}
<1>1. PICK size \in Nat, c \in Nat : size = cur_size - 1 /\ c = capacity /\ size + 1 <= c
  BY Shape DEF HeapInv
<1>2. /\ array \in ArrayOf(c) /\ Entries(array, size + 1) = Held /\ Held \subseteq Timer
      /\ Distinct(array, size + 1) /\ Ordered(array, expire, 0, size + 1)
      /\ expire \in [Timer -> Nat]
  <2>1. cur_size = size + 1  BY <1>1, Shape DEF HeapInv
  <2> QED  BY <2>1, <1>1, Shape, HeldIs DEF HeapInv, Heap
<1>3. PICK root \in Held : root = array[0]
  <2>1. 0 \in 0..(size + 1 - 1)  BY <1>1
  <2> QED  BY <2>1, <1>2 DEF Entries
<1>4. PICK moved : moved = [array EXCEPT ![size] = IF size = 0 THEN @ ELSE NULL, ![0] = array[size]]
  OBVIOUS
<1>5. /\ cur_size' = size /\ array' = percolate_down(moved, 0, size) /\ capacity' = capacity
      /\ expire' = [expire EXCEPT ![root] = 0] /\ cb_func' = cb_func \ {root}
  BY <1>1, <1>3, <1>4 DEF pop_timer
<1>6. DOMAIN array = 0..(c - 1) /\ size \in 0..(c - 1) /\ 0 \in 0..(c - 1)
  BY <1>1, <1>2 DEF ArrayOf
<1>7. /\ moved \in ArrayOf(c)
      /\ moved[0] = array[size]
      /\ \A k \in 1..(size - 1) : moved[k] = array[k]
  <2>1. array[size] \in Timer \cup {NULL}  BY <1>2, <1>6 DEF ArrayOf
  <2>2. moved \in ArrayOf(c)  BY <2>1, <1>2, <1>4, <1>6 DEF ArrayOf
  <2>3. moved[0] = array[size]  BY <1>4, <1>6
  <2>4. \A k \in 1..(size - 1) : k \in 0..(c - 1) /\ k # size /\ k # 0  BY <1>1
  <2>5. \A k \in 1..(size - 1) : moved[k] = array[k]  BY <2>4, <1>4, <1>6
  <2> QED  BY <2>2, <2>3, <2>5
<1>8. Entries(moved, size) = Held \ {root} /\ Distinct(moved, size)
  <2> DEFINE Src(k) == IF k = 0 THEN size ELSE k
  <2>1. \A k \in 0..(size - 1) : /\ moved[k] = array[Src(k)] /\ Src(k) \in 0..(size + 1 - 1)
                                 /\ Src(k) # 0 /\ Src(k) \in 1..size
    <3> TAKE k \in 0..(size - 1)
    <3>1. CASE k = 0  BY <3>1, <1>1, <1>7
    <3>2. CASE k # 0
      <4>1. k \in 1..(size - 1)  BY <3>2
      <4> QED  BY <4>1, <3>2, <1>7
    <3> QED  BY <3>1, <3>2
  <2>2. \A k \in 1..size : \E l \in 0..(size - 1) : Src(l) = k
    <3> TAKE k \in 1..size
    <3>1. CASE k = size  BY <3>1
    <3>2. CASE k # size
      <4>1. k \in 0..(size - 1) /\ Src(k) = k  BY <3>2
      <4> QED  BY <4>1
    <3> QED  BY <3>1, <3>2
  <2>3. \A j, k \in 0..(size - 1) : Src(j) = Src(k) => j = k  OBVIOUS
  <2> HIDE DEF Src
  <2>4. \A k \in 1..size : k \in 0..(size + 1 - 1) /\ array[k] \in Held /\ array[k] # root
    <3> TAKE k \in 1..size
    <3>1. k \in 0..(size + 1 - 1) /\ 0 \in 0..(size + 1 - 1) /\ k # 0  OBVIOUS
    <3>2. array[k] \in Held  BY <3>1, <1>2 DEF Entries
    <3>3. array[k] # array[0]  BY <3>1, <1>2 DEF Distinct
    <3> QED  BY <3>1, <3>2, <3>3, <1>3
  <2>5. ASSUME NEW t \in Held, t # root PROVE t \in Entries(moved, size)
    <3>1. PICK k \in 0..(size + 1 - 1) : t = array[k]  BY <1>2 DEF Entries
    <3>2. k # 0 /\ k \in 1..size  BY <3>1, <2>5, <1>3
    <3>3. PICK l \in 0..(size - 1) : Src(l) = k  BY <3>2, <2>2
    <3>4. moved[l] = t  BY <3>1, <3>3, <2>1
    <3> QED  BY <3>4 DEF Entries
  <2>6. ASSUME NEW k \in 0..(size - 1) PROVE moved[k] \in Held \ {root}
    <3>1. moved[k] = array[Src(k)] /\ Src(k) \in 1..size  BY <2>1
    <3> QED  BY <3>1, <2>4
  <2>7. Entries(moved, size) = Held \ {root}  BY <2>5, <2>6 DEF Entries
  <2>8. Distinct(moved, size)
    <3> SUFFICES ASSUME NEW j \in 0..(size - 1), NEW k \in 0..(size - 1), moved[j] = moved[k]
                 PROVE  j = k
      BY DEF Distinct
    <3>1. array[Src(j)] = array[Src(k)]  BY <2>1
    <3>2. Src(j) = Src(k)  BY <3>1, <2>1, <1>2 DEF Distinct
    <3> QED  BY <3>2, <2>3
  <2> QED  BY <2>7, <2>8
<1>9. /\ array' \in ArrayOf(c) /\ Entries(array', size) = Entries(moved, size)
      /\ Distinct(array', size) /\ Ordered(array', expire, 0, size)
  <2>1. CASE size = 0
    <3>1. percolate_down(moved, 0, size) \in ArrayOf(c)
      <4>1. PICK f : /\ IsDown(f, moved, 0, size, expire[moved[0]])
                     /\ HolesDown(moved, 0, size) = f[0]
        BY <1>1, HolesDownIs
      <4>2. ~GoesOn(moved, 0, size, expire[moved[0]])  BY <2>1 DEF GoesOn
      <4>3. HolesDown(moved, 0, size) = {0}  BY <4>1, <4>2, <2>1 DEF IsDown
      <4>4. Highest({0}) = 0  BY DEF Highest
      <4>5. percolate_down(moved, 0, size)
              = [k \in DOMAIN moved |-> IF k \notin {0} THEN moved[k]
                                        ELSE IF k = 0 THEN moved[0]
                                        ELSE moved[EarlierChild(moved, k, size)]]
        BY <4>3, <4>4 DEF percolate_down
      <4>6. percolate_down(moved, 0, size) = moved  BY <4>5, <1>7 DEF ArrayOf
      <4> QED  BY <4>6, <1>7
    <3>2. PICK b : b = percolate_down(moved, 0, size)  OBVIOUS
    <3>3. Entries(b, size) = {} /\ Entries(moved, size) = {}  BY <2>1 DEF Entries
    <3>4. Distinct(b, size) /\ Ordered(b, expire, 0, size)
      BY <2>1 DEF Distinct, Ordered
    <3>5. b \in ArrayOf(c) /\ Entries(b, size) = Entries(moved, size)  BY <3>1, <3>2, <3>3
    <3> QED  BY <3>2, <3>4, <3>5, <1>5
  <2>2. CASE size # 0
    <3>1. size \in 1..c /\ 0 \in 0..(size - 1)
      <4>1. size + 1 <= c  BY <1>1
      <4> QED  BY <4>1, <2>2
    <3>2. Entries(moved, size) \subseteq Timer  BY <1>2, <1>8
    <3>3. Ordered(moved, expire, 0 + 1, size)
      <4> SUFFICES ASSUME NEW k \in 1..(size - 1), Parent(k) >= 0 + 1
                   PROVE  expire[moved[Parent(k)]] <= expire[moved[k]]
        BY DEF Ordered
      <4>1. PICK p \in Nat : p = Parent(k) /\ p < k  BY ParentIs
      <4>2. p \in 1..(size - 1) /\ k \in 1..(size + 1 - 1) /\ p >= 0  BY <4>1
      <4>3. expire[array[p]] <= expire[array[k]]  BY <4>1, <4>2, <1>2 DEF Ordered
      <4> QED  BY <4>1, <4>2, <4>3, <1>7
    <3>4. PICK b : b = percolate_down(moved, 0, size)  OBVIOUS
    <3>5. /\ b \in ArrayOf(c) /\ Entries(b, size) = Entries(moved, size)
          /\ Distinct(b, size) /\ Ordered(b, expire, 0, size)
      BY <3>1, <3>2, <3>3, <3>4, <1>2, <1>7, <1>8, PercolateDown
    <3> QED  BY <3>4, <3>5, <1>5
  <2> QED  BY <2>1, <2>2
<1>10. Ordered(array', expire', 0, size)
  <2> SUFFICES ASSUME NEW k \in 1..(size - 1), Parent(k) >= 0
               PROVE  expire'[array'[Parent(k)]] <= expire'[array'[k]]
    BY DEF Ordered
  <2>1. \A j \in 0..(size - 1) : array'[j] \in Held \ {root}  BY <1>8, <1>9 DEF Entries
  <2>2. \A j \in 0..(size - 1) : expire'[array'[j]] = expire[array'[j]]
    BY <2>1, <1>2, <1>5
  <2>3. k \in 0..(size - 1) /\ Parent(k) \in 0..(size - 1)  BY ParentIs
  <2>4. expire[array'[Parent(k)]] <= expire[array'[k]]  BY <1>9 DEF Ordered
  <2> QED  BY <2>2, <2>3, <2>4
<1> QED  BY <1>1, <1>3, <1>5, <1>8, <1>9, <1>10

LEMMA TickPopInv == ASSUME HeapInv, TickPop PROVE HeapInv'
<1>1. heap_at \in {"callback", "pop"} /\ heap_at' = "check" /\ pop_timer /\ heap_tmp' = array'[0]
      /\ UNCHANGED <<clock, cur>>
  BY DEF TickPop
<1>2. cur_size > 0  BY <1>1 DEF HeapInv
<1>3. /\ capacity' = capacity /\ cur_size' = cur_size - 1
      /\ array' \in ArrayOf(capacity)
      /\ Entries(array', cur_size') = Held \ {array[0]}
      /\ Distinct(array', cur_size') /\ Ordered(array', expire', 0, cur_size')
      /\ expire' = [expire EXCEPT ![array[0]] = 0] /\ cb_func' = cb_func \ {array[0]}
  BY <1>1, <1>2, PoppedIs
<1>4. Held' = Held \ {array[0]}
  <2>1. Held' = Entries(array', cur_size')  BY DEF Held, Entries
  <2> QED  BY <2>1, <1>3
<1>5. HeapTypeOK'
  <2>1. \A i, j \in 0..(cur_size' - 1) : array'[i] = array'[j] => i = j
    BY <1>3 DEF Distinct
  <2>2. array' \in [0..(capacity' - 1) -> Timer \cup {NULL}]  BY <1>3 DEF ArrayOf
  <2>3. cb_func' \subseteq Held' /\ Held' \subseteq Timer
    BY <1>3, <1>4 DEF HeapInv, HeapTypeOK
  <2>4. capacity' \in Nat /\ cur_size' \in 0..capacity'  BY <1>2, <1>3, Shape DEF HeapInv
  <2>5. expire' \in [Timer -> Nat]  BY <1>3, Shape DEF HeapInv
  <2>6. heap_tmp' \in Timer \cup {NULL}
    <3>1. capacity \in Nat /\ capacity # 0  BY Shape DEF HeapInv
    <3>2. 0 \in 0..(capacity - 1)  BY <3>1
    <3> QED  BY <3>2, <1>1, <1>3 DEF ArrayOf
  <2>7. clock' \in 0..MaxTime /\ cur' \in 0..MaxTime
    BY <1>1 DEF HeapInv, HeapTypeOK
  <2> QED  BY <2>1, <2>2, <2>3, <2>4, <2>5, <2>6, <2>7, <1>1 DEF HeapTypeOK
<1>6. Heap'  BY <1>3 DEF Heap
<1> QED  BY <1>1, <1>3, <1>5, <1>6 DEF HeapInv

\* The steps that leave the array and the times alone.
LEMMA OtherInv ==
    ASSUME HeapInv, HeapDelete \/ Clock \/ HeapTickBegin \/ HeapTickCall \/ HeapTickEnd
    PROVE  HeapInv'
<1>1. UNCHANGED <<array, capacity, cur_size, expire>>
  BY DEF HeapDelete, Clock, HeapTickBegin, HeapTickCall, HeapTickEnd, arrayVars
<1>2. Held' = Held  BY <1>1 DEF Held
<1>3. cb_func' \subseteq cb_func
  BY DEF HeapDelete, Clock, HeapTickBegin, HeapTickCall, HeapTickEnd
<1>4. capacity \in Nat /\ cur_size \in 0..capacity /\ capacity # 0 /\ clock \in Nat /\ MaxTime \in Nat
  BY HeapAssumption DEF HeapInv, HeapTypeOK, HeapAssumption
<1>5. clock' \in 0..MaxTime /\ cur' \in 0..MaxTime /\ cur' <= clock'
  <2>1. CASE HeapDelete \/ HeapTickCall
    BY <2>1 DEF HeapDelete, HeapTickCall, HeapInv, HeapTypeOK
  <2>2. CASE Clock
    <3>1. clock < MaxTime /\ clock' = clock + 1 /\ cur' = cur /\ cur \in 0..MaxTime /\ cur <= clock
      BY <2>2 DEF Clock, HeapInv, HeapTypeOK
    <3> QED  BY <3>1, <1>4
  <2>3. CASE HeapTickBegin
    <3>1. cur' = clock /\ clock' = clock /\ clock \in 0..MaxTime
      BY <2>3 DEF HeapTickBegin, HeapInv, HeapTypeOK
    <3> QED  BY <3>1
  <2>4. CASE HeapTickEnd
    <3>1. cur' = 0 /\ clock' = clock /\ clock \in 0..MaxTime
      BY <2>4 DEF HeapTickEnd, HeapInv, HeapTypeOK
    <3> QED  BY <3>1, <1>4
  <2> QED  BY <2>1, <2>2, <2>3, <2>4
<1>6. heap_tmp' \in Timer \cup {NULL} /\ heap_at' \in {"idle", "check", "callback", "pop"}
  <2>1. array[0] \in Timer \cup {NULL}
    <3>1. 0 \in 0..capacity-1  BY <1>4
    <3> QED  BY <3>1 DEF HeapInv, HeapTypeOK
  <2>2. CASE HeapDelete \/ Clock \/ HeapTickCall
    BY <2>2 DEF HeapDelete, Clock, HeapTickCall, HeapInv, HeapTypeOK
  <2>3. CASE HeapTickBegin  BY <2>1, <2>3 DEF HeapTickBegin
  <2>4. CASE HeapTickEnd  BY <2>4 DEF HeapTickEnd
  <2> QED  BY <2>2, <2>3, <2>4
<1>7. HeapTypeOK'
  <2>1. cb_func' \subseteq Held'  BY <1>2, <1>3 DEF HeapInv, HeapTypeOK
  <2> QED  BY <2>1, <1>1, <1>2, <1>5, <1>6 DEF HeapInv, HeapTypeOK
<1>8. Heap' /\ capacity' # 0  BY <1>1 DEF HeapInv, Heap, Ordered
<1>9. /\ heap_at' # "idle" => array'[0] = heap_tmp'
      /\ heap_at' \in {"callback", "pop"} => cur_size' > 0 /\ expire'[heap_tmp'] <= cur'
  <2>1. CASE HeapDelete \/ Clock
    <3>1. UNCHANGED <<heap_tmp, heap_at, cur>>  BY <2>1 DEF HeapDelete, Clock
    <3> QED  BY <3>1, <1>1 DEF HeapInv
  <2>2. CASE HeapTickBegin  BY <2>2, <1>1 DEF HeapTickBegin
  <2>3. CASE HeapTickCall
    BY <2>3, <1>1 DEF HeapTickCall, Expired, HeapInv
  <2>4. CASE HeapTickEnd  BY <2>4 DEF HeapTickEnd
  <2> QED  BY <2>1, <2>2, <2>3, <2>4
<1> QED  BY <1>5, <1>7, <1>8, <1>9 DEF HeapInv

LEMMA HeapStepInv == HeapInv /\ [HeapNext]_heapVars => HeapInv'
<1> SUFFICES ASSUME HeapInv, [HeapNext]_heapVars PROVE HeapInv'  OBVIOUS
<1>1. CASE UNCHANGED heapVars
  BY <1>1 DEF heapVars, arrayVars, HeapInv, HeapTypeOK, Heap, Ordered, Held
<1>2. CASE HeapNext
  BY <1>2, HeapAddInv, TickPopInv, OtherInv DEF HeapNext, heap_tick
<1> QED  BY <1>1, <1>2

\* The type invariant of the heap: the timers fit the array, each is in it once.
THEOREM HeapTypeCorrect == HeapSpec => []HeapTypeOK
<1>1. HeapInv => HeapTypeOK  BY DEF HeapInv
<1> QED  BY <1>1, HeapInitInv, HeapStepInv, PTL DEF HeapSpec

\* The array is a heap, and what a callback runs for and pop_timer deletes is
\* the earliest timer, expired when tick started.
THEOREM HeapAlwaysOrdered == HeapSpec => []HeapOrder
BY InvHeapOrder, HeapInitInv, HeapStepInv, PTL DEF HeapSpec

LEMMA EndLeavesNone ==
    ASSUME HeapInv, HeapTickEnd
    PROVE  \A t \in Held : expire[t] > cur
<1> SUFFICES ASSUME NEW t \in Held PROVE expire[t] > cur  OBVIOUS
<1>1. array[0] = heap_tmp /\ ~Expired  BY DEF HeapInv, HeapTickEnd
<1>2. PICK k \in 0..(cur_size - 1) : t = array[k]  BY DEF Held
<1>3. cur_size > 0 /\ 0 \in 0..(cur_size - 1)
  <2>1. cur_size \in Nat  BY Shape DEF HeapInv
  <2> QED  BY <2>1, <1>2
<1>4. heap_tmp \in Timer /\ expire[heap_tmp] \in Nat /\ expire[t] \in Nat
  BY <1>1, <1>2, <1>3, Shape DEF HeapInv
<1>5. heap_tmp # NULL  BY <1>4, HeapAssumption DEF HeapAssumption, NULL
<1>6. cur \in Nat /\ ~(expire[heap_tmp] <= cur)
  BY <1>1, <1>3, <1>5 DEF Expired, HeapInv, HeapTypeOK
<1>7. expire[heap_tmp] <= expire[t]  BY <1>1, RootLeast
<1> QED  BY <1>4, <1>6, <1>7

\* tick leaves nobody behind who had expired when it started.
THEOREM TickLeavesNone == HeapSpec => NoneLeft
<1>1. HeapInv /\ [HeapNext]_heapVars => [HeapTickEnd => \A t \in Held : expire[t] > cur]_heapVars
  BY EndLeavesNone
<1> QED  BY <1>1, HeapInitInv, HeapStepInv, PTL DEF HeapSpec, NoneLeft

=============================================================================
