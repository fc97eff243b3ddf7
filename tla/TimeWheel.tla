------------------------------ MODULE TimeWheel ------------------------------
(***************************************************************************)
(* The time wheel of chapter 11 (11.4_1_time_wheel.cpp): N slots, each the *)
(* head of a doubly linked list of timers, and tick, which walks the list  *)
(* of the current slot, runs what is due and turns the wheel by one slot.  *)
(*                                                                         *)
(* A callback may add timers and delete other ones while tick is in the    *)
(* middle of the list.  It does not delete its own timer: tick does that.  *)
(* Timers are addresses; an address that was deleted may be used again.    *)
(***************************************************************************)
EXTENDS Timers, Integers, FiniteSets

CONSTANTS
    N, TI,       \* slots of the wheel and the time of one slot
    Timeouts,    \* what the program asks for outside of a callback
    Again        \* what a callback asks for

ASSUME WheelAssumption ==
    /\ IsFiniteSet(Timer) /\ N \in Nat \ {0} /\ TI \in Nat \ {0}
    /\ Timeouts \subseteq Nat /\ Again \subseteq Nat /\ "NULL" \notin Timer

Slot == 0..N-1

VARIABLES
    slots,       \* the head of each list
    next, prev, rotation, time_slot,  \* of each timer
    cur_slot,
    tmp,         \* the timer tick is at
    at,          \* idle, or where tick is
    alive,       \* timers that are allocated
    left,        \* history: turns until a timer is due
    late         \* history: timers that a callback set for whole turns of the wheel

listVars == <<slots, next, prev>>
vars == <<listVars, rotation, time_slot, cur_slot, alive, tmp, at, left, late>>

Init ==
    /\ slots = [s \in Slot |-> NULL] /\ cur_slot = 0
    /\ next = [t \in Timer |-> NULL] /\ prev = [t \in Timer |-> NULL]
    /\ rotation = [t \in Timer |-> 0] /\ time_slot = [t \in Timer |-> 0]
    /\ alive = {} /\ tmp = NULL /\ at = "idle"
    /\ left = [t \in Timer |-> 0] /\ late = {}

(***************************************************************************)
(* add_timer and del_timer.                                                *)
(***************************************************************************)
Ticks(timeout) == IF timeout < TI THEN 1 ELSE timeout \div TI

\* Variant: one rotation too many for a whole number of turns of the wheel.
RotationsRoundedUp(ticks) == (ticks + N - 1) \div N
Rotations(ticks) == ticks \div N

\* The timer is to be called in ticks turns.  What a callback sets for whole
\* turns goes to the head of the list that tick has already left behind: late.
add_timer(timer, timeout) ==
    LET ticks == Ticks(timeout)
        ts == (cur_slot + (ticks % N)) % N
    IN  /\ timer \notin alive /\ alive' = alive \cup {timer}
        /\ rotation' = [rotation EXCEPT ![timer] = Rotations(ticks)]
        /\ time_slot' = [time_slot EXCEPT ![timer] = ts]
        /\ next' = [next EXCEPT ![timer] = slots[ts]]
        /\ prev' = [t \in Timer |-> IF t = timer THEN NULL
                                    ELSE IF t = slots[ts] THEN timer ELSE prev[t]]
        /\ slots' = [slots EXCEPT ![ts] = timer]
        /\ left' = [left EXCEPT ![timer] = ticks]
        /\ late' = IF at = "callback" /\ ticks % N = 0 THEN late \cup {timer} ELSE late

\* Variant: the successor of a timer that is not the head keeps its pointer.
UnlinkForward(timer, ts) ==
    LET head == slots[ts] = timer
    IN  /\ slots' = [slots EXCEPT ![ts] = IF head THEN next[timer] ELSE @]
        /\ next' = [t \in Timer |-> IF t = timer THEN NULL
                                    ELSE IF ~head /\ t = prev[timer] THEN next[timer] ELSE next[t]]
        /\ prev' = [t \in Timer |-> IF t = timer \/ (head /\ t = next[timer]) THEN NULL ELSE prev[t]]

\* Both del_timer and tick tell the head of the list from the others.  What a
\* deleted timer held is gone.
Unlink(timer, ts) ==
    LET head == slots[ts] = timer
    IN  /\ slots' = [slots EXCEPT ![ts] = IF head THEN next[timer] ELSE @]
        /\ next' = [t \in Timer |-> IF t = timer THEN NULL
                                    ELSE IF ~head /\ t = prev[timer] THEN next[timer] ELSE next[t]]
        /\ prev' = [t \in Timer |-> IF t = timer \/ (head /\ t = next[timer]) THEN NULL
                                    ELSE IF t = next[timer] THEN prev[timer] ELSE prev[t]]

delete(timer) ==
    /\ alive' = alive \ {timer}
    /\ rotation' = [rotation EXCEPT ![timer] = 0]
    /\ time_slot' = [time_slot EXCEPT ![timer] = 0]
    /\ left' = [left EXCEPT ![timer] = 0]
    /\ late' = late \ {timer}

del_timer(timer) == timer \in alive /\ Unlink(timer, time_slot[timer]) /\ delete(timer)

(***************************************************************************)
(* The program between two ticks, and inside a callback.                   *)
(***************************************************************************)
Add ==
    /\ \E timer \in Timer :
          \/ at = "idle" /\ \E timeout \in Timeouts : add_timer(timer, timeout)
          \/ at = "callback" /\ \E timeout \in Again : add_timer(timer, timeout)
    /\ UNCHANGED <<cur_slot, tmp, at>>

Delete ==
    /\ at \in {"idle", "callback"}
    /\ \E timer \in Timer : timer # tmp /\ del_timer(timer)
    /\ UNCHANGED <<cur_slot, tmp, at>>

(***************************************************************************)
(* tick.                                                                   *)
(***************************************************************************)
TickBegin ==
    /\ at = "idle"
    /\ tmp' = slots[cur_slot] /\ at' = "walk"
    /\ UNCHANGED <<listVars, rotation, time_slot, cur_slot, alive, left, late>>

\* Not in this turn of the wheel.
TickPass ==
    /\ at = "walk" /\ tmp # NULL /\ rotation[tmp] > 0
    /\ rotation' = [rotation EXCEPT ![tmp] = @ - 1]
    /\ tmp' = next[tmp]
    /\ UNCHANGED <<listVars, time_slot, cur_slot, alive, at, left, late>>

TickCall ==
    /\ at = "walk" /\ tmp # NULL /\ rotation[tmp] = 0
    /\ at' = "callback"
    /\ UNCHANGED <<listVars, rotation, time_slot, cur_slot, alive, tmp, left, late>>

\* The callback has returned.
TickRemove ==
    /\ at = "callback" /\ at' = "walk"
    /\ Unlink(tmp, cur_slot) /\ delete(tmp)
    /\ tmp' = next[tmp]
    /\ UNCHANGED cur_slot

TickEnd ==
    /\ at = "walk" /\ tmp = NULL /\ at' = "idle"
    /\ cur_slot' = (cur_slot + 1) % N
    /\ left' = [t \in Timer |-> IF t \in alive THEN left[t] - 1 ELSE 0]
    /\ UNCHANGED <<listVars, rotation, time_slot, alive, tmp, late>>

tick == TickBegin \/ TickPass \/ TickCall \/ TickRemove \/ TickEnd

Next == Add \/ Delete \/ tick

Spec == Init /\ [][Next]_vars

(***************************************************************************)
(* Properties.                                                             *)
(***************************************************************************)
\* Every variable has its type; tick stands at a timer that is allocated.
TypeOK ==
    /\ slots \in [Slot -> Timer \cup {NULL}] /\ cur_slot \in Slot
    /\ next \in [Timer -> Timer \cup {NULL}] /\ prev \in [Timer -> Timer \cup {NULL}]
    /\ rotation \in [Timer -> Nat] /\ time_slot \in [Timer -> Slot]
    /\ alive \subseteq Timer /\ tmp \in alive \cup {NULL}
    /\ at \in {"idle", "walk", "callback"} /\ left \in [Timer -> Int]
    /\ late \subseteq alive

\* Whatever a callback does to the list tick is walking, the timers of a slot
\* are one doubly linked list from its head, and no pointer leads to a timer
\* that was deleted.  Every variable has its type.
Linked ==
    /\ TypeOK
    /\ \A s \in Slot : slots[s] # NULL => slots[s] \in alive /\ time_slot[slots[s]] = s
    /\ \A t \in alive :
          /\ next[t] # NULL => next[t] \in alive /\ prev[next[t]] = t /\ time_slot[next[t]] = time_slot[t]
          /\ prev[t] # NULL => prev[t] \in alive /\ next[prev[t]] = t
          /\ prev[t] = NULL <=> slots[time_slot[t]] = t
    /\ \A S \in (SUBSET alive) \ {{}} : \E t \in S : prev[t] \notin S

\* A callback runs in the turn its timer was set for, not before and not
\* after (comments on ticks and rotation in add_timer), but for timers that a
\* callback set for whole turns of the wheel: they run exactly one turn of the
\* wheel too late.
OnTime ==
    LET turn(t) == IF t \in late THEN -N ELSE 0
    IN  /\ at = "callback" => left[tmp] = turn(tmp)
        /\ \A t \in alive : left[t] >= turn(t)

\* The comments of add_timer, without that exception: a timer is called after
\* the number of turns in ticks (run time_wheel_late: it is not).
AlwaysOnTime == at = "callback" => left[tmp] = 0

=============================================================================
