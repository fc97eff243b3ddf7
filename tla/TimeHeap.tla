------------------------------- MODULE TimeHeap -------------------------------
(***************************************************************************)
(* The time heap of chapter 11 (11.4_2_time_heap.cpp): an array of timers, *)
(* ordered as a binary heap by the time they expire, that doubles when it  *)
(* is full.  A deleted timer stays in the heap without a callback until    *)
(* its time comes.  tick runs what has expired, earliest first.            *)
(*                                                                         *)
(* time(NULL) is read when a timer is made and when tick starts, and the   *)
(* clock goes on between any two steps; a callback may add and delete      *)
(* timers.  A timer is made and added at once.                             *)
(***************************************************************************)
EXTENDS Timers, Integers, FiniteSets

CONSTANTS
    cap,         \* the capacity the heap is made with
    Delay,       \* the delays asked for
    MaxTime      \* bound: the last time of the clock

ASSUME HeapAssumption ==
    /\ IsFiniteSet(Timer) /\ cap \in Nat \ {0} /\ Delay \subseteq Nat /\ MaxTime \in Nat
    /\ "NULL" \notin Timer

VARIABLES
    array, capacity, cur_size,
    expire,      \* of each timer
    cb_func,     \* timers that have a callback
    clock,       \* what time(NULL) answers
    cur,         \* what it answered when tick started
    heap_tmp,    \* the timer tick is at
    heap_at      \* idle, or where tick is

arrayVars == <<array, capacity, cur_size>>
heapVars == <<arrayVars, expire, cb_func, clock, cur, heap_tmp, heap_at>>

Parent(i) == (i - 1) \div 2
Held == {array[i] : i \in 0..cur_size-1}
Lowest(S) == CHOOSE x \in S : \A y \in S : x <= y
Highest(S) == CHOOSE x \in S : \A y \in S : x >= y

(***************************************************************************)
(* add_timer: resize, then the hole moves up until its parent is no later. *)
(***************************************************************************)
\* Variant: room for one more only.
ResizedByOne == [i \in 0..capacity |-> IF i < cur_size THEN array[i] ELSE NULL]
resize == [i \in 0..(2 * capacity - 1) |-> IF i < cur_size THEN array[i] ELSE NULL]

\* Variant: a new timer goes above one that expires at the same time.
HolesUpStrict(a, from, e) ==
    LET up[h \in 0..from] ==
            IF h = 0 \/ expire[a[Parent(h)]] < e THEN {h} ELSE {h} \cup up[Parent(h)]
    IN  up[from]

\* The places the hole passes in array a on its way up from place from.
HolesUp(a, from, e) ==
    LET up[h \in 0..from] ==
            IF h = 0 \/ expire[a[Parent(h)]] <= e THEN {h} ELSE {h} \cup up[Parent(h)]
    IN  up[from]

heap_add_timer(timer, e) ==
    LET full == cur_size >= capacity
        a == IF full THEN resize ELSE array
        holes == HolesUp(a, cur_size, e)
    IN  /\ array' = [i \in DOMAIN a |-> IF i \notin holes THEN a[i]
                                        ELSE IF i = Lowest(holes) THEN timer ELSE a[Parent(i)]]
        /\ capacity' = IF full THEN 2 * capacity ELSE capacity
        /\ cur_size' = cur_size + 1

(***************************************************************************)
(* percolate_down: the timer at place from moves down in array a, of which *)
(* the first size places are in use, until no child is earlier.            *)
(***************************************************************************)
EarlierChild(a, hole, size) ==
    LET child == hole * 2 + 1
    IN  IF child < size - 1 /\ expire[a[child + 1]] < expire[a[child]]
        THEN child + 1 ELSE child

\* The places it passes.
HolesDown(a, from, size) ==
    LET down[h \in 0..size] ==
            LET child == EarlierChild(a, h, size)
            IN  IF h * 2 + 1 <= size - 1 /\ expire[a[child]] < expire[a[from]]
                THEN {h} \cup down[child] ELSE {h}
    IN  down[from]

percolate_down(a, from, size) ==
    LET holes == HolesDown(a, from, size)
    IN  [i \in DOMAIN a |-> IF i \notin holes THEN a[i]
                            ELSE IF i = Highest(holes) THEN a[from]
                            ELSE a[EarlierChild(a, i, size)]]

\* The last timer takes the place of the first.  The place it came from is NULL
\* here: what the code leaves there is not read again.  A heap that becomes empty
\* keeps the address of the deleted timer at its top, and tick loads it.
pop_timer ==
    LET size == cur_size - 1
        moved == [array EXCEPT ![size] = IF size = 0 THEN @ ELSE NULL, ![0] = array[size]]
    IN  /\ cur_size' = size
        /\ array' = percolate_down(moved, 0, size)
        /\ expire' = [expire EXCEPT ![array[0]] = 0]     \* deleted
        /\ cb_func' = cb_func \ {array[0]}
        /\ UNCHANGED capacity

(***************************************************************************)
(* The two constructors: an empty heap, or one made of an array of timers, *)
(* percolate_down from the last place that has a child to the top.         *)
(***************************************************************************)
Heapified(a, size) ==
    LET last == (size - 1) \div 2
        built[i \in 0..last + 1] == IF i > last THEN a ELSE percolate_down(built[i + 1], i, size)
    IN  built[0]

InitEmpty ==
    /\ array = [i \in 0..cap-1 |-> NULL] /\ capacity = cap /\ cur_size = 0
    /\ expire = [t \in Timer |-> 0] /\ cb_func = {}

\* Any timers; which ones is never looked at.
init_array(size) ==
    CHOOSE a \in [0..size-1 -> Timer] : \A i, j \in 0..size-1 : a[i] = a[j] => i = j

InitArray ==
    /\ capacity \in 1..Cardinality(Timer) /\ cur_size \in 1..capacity
    /\ cb_func = {init_array(cur_size)[i] : i \in 0..cur_size-1}
    /\ expire \in {e \in [Timer -> 0..MaxTime] : \A t \in Timer \ cb_func : e[t] = 0}
    /\ array = Heapified([i \in 0..capacity-1 |-> IF i < cur_size THEN init_array(cur_size)[i] ELSE NULL],
                         cur_size)

HeapInit ==
    /\ InitEmpty \/ InitArray
    /\ clock = 0 /\ cur = 0 /\ heap_tmp = NULL /\ heap_at = "idle"

(***************************************************************************)
(* The program between two ticks and inside a callback, and the clock.     *)
(***************************************************************************)
Working == heap_at \in {"idle", "callback"}

\* Any free address; which one is never looked at.
NewTimer == CHOOSE timer \in Timer : timer \notin Held

HeapAdd ==
    /\ Working /\ Timer # Held
    /\ \E delay \in Delay :
          /\ clock + delay <= MaxTime
          /\ heap_add_timer(NewTimer, clock + delay)
          /\ expire' = [expire EXCEPT ![NewTimer] = clock + delay]
    /\ cb_func' = cb_func \cup {NewTimer}
    /\ UNCHANGED <<clock, cur, heap_tmp, heap_at>>

\* del_timer
HeapDelete ==
    /\ Working
    /\ \E timer \in Held \cap cb_func : cb_func' = cb_func \ {timer}
    /\ UNCHANGED <<arrayVars, expire, clock, cur, heap_tmp, heap_at>>

Clock ==
    /\ clock < MaxTime /\ clock' = clock + 1
    /\ UNCHANGED <<arrayVars, expire, cb_func, cur, heap_tmp, heap_at>>

(***************************************************************************)
(* tick.                                                                   *)
(***************************************************************************)
HeapTickBegin ==
    /\ heap_at = "idle" /\ heap_at' = "check"
    /\ heap_tmp' = array[0] /\ cur' = clock
    /\ UNCHANGED <<arrayVars, expire, cb_func, clock>>

Expired == cur_size > 0 /\ heap_tmp # NULL /\ expire[heap_tmp] <= cur

HeapTickCall ==
    /\ heap_at = "check" /\ Expired
    /\ heap_at' = IF array[0] \in cb_func THEN "callback" ELSE "pop"
    /\ UNCHANGED <<arrayVars, expire, cb_func, clock, cur, heap_tmp>>

\* Variant: tick runs one timer.
TickPopOne ==
    /\ heap_at \in {"callback", "pop"} /\ heap_at' = "check"
    /\ pop_timer /\ heap_tmp' = NULL
    /\ UNCHANGED <<clock, cur>>

TickPop ==
    /\ heap_at \in {"callback", "pop"} /\ heap_at' = "check"
    /\ pop_timer /\ heap_tmp' = array'[0]
    /\ UNCHANGED <<clock, cur>>

HeapTickEnd ==
    /\ heap_at = "check" /\ ~Expired /\ heap_at' = "idle"
    /\ heap_tmp' = NULL /\ cur' = 0
    /\ UNCHANGED <<arrayVars, expire, cb_func, clock>>

heap_tick == HeapTickBegin \/ HeapTickCall \/ TickPop \/ HeapTickEnd

HeapNext == HeapAdd \/ HeapDelete \/ Clock \/ heap_tick

HeapSpec == HeapInit /\ [][HeapNext]_heapVars

(***************************************************************************)
(* Properties.                                                             *)
(***************************************************************************)
\* Every variable has its type; the timers fit the array, each is in it once.
HeapTypeOK ==
    /\ capacity \in Nat /\ cur_size \in 0..capacity
    /\ array \in [0..capacity-1 -> Timer \cup {NULL}]
    /\ expire \in [Timer -> Nat] /\ cb_func \subseteq Held /\ Held \subseteq Timer
    /\ \A i, j \in 0..cur_size-1 : array[i] = array[j] => i = j
    /\ clock \in 0..MaxTime /\ cur \in 0..MaxTime /\ heap_tmp \in Timer \cup {NULL}
    /\ heap_at \in {"idle", "check", "callback", "pop"}

\* The array is a heap whatever it is made of and whatever is added and popped
\* in which order (comment on percolate_down).  So a callback runs for the
\* earliest timer, not before its time, and the timer pop_timer deletes after it
\* is the same one, although the callback may have added timers and moved the
\* heap.
HeapOrder ==
    /\ \A i \in 1..cur_size-1 : expire[array[Parent(i)]] <= expire[array[i]]
    /\ heap_at \in {"callback", "pop"} =>
          /\ array[0] = heap_tmp /\ expire[heap_tmp] <= cur
          /\ \A t \in Held : expire[heap_tmp] <= expire[t]

\* tick ends only when nothing is left that had expired when it started, also
\* of what callbacks added meanwhile.
NoneLeft == [][HeapTickEnd => \A t \in Held : expire[t] > cur]_heapVars

=============================================================================
