------------------------------ MODULE MCTimers ------------------------------
(***************************************************************************)
(* The time wheel and the time heap.  A program has one of them: container *)
(* says which, and the other stays as it was made.                         *)
(***************************************************************************)
EXTENDS TimeWheel, TimeHeap

VARIABLE container

TimersInit ==
    /\ container \in {"wheel", "heap"} /\ Init /\ HeapInit
    /\ container = "wheel" => InitEmpty

TimersNext ==
    /\ \/ container = "wheel" /\ Next /\ UNCHANGED heapVars
       \/ container = "heap" /\ HeapNext /\ UNCHANGED vars
    /\ UNCHANGED container

TimersSpec == TimersInit /\ [][TimersNext]_<<vars, heapVars, container>>

=============================================================================
