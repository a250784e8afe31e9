-------------------------------- MODULE LocalIds --------------------------------
(***************************************************************************)
(* The row ids one service of the terminal gives out (app/storage/ids.py): *)
(* milliseconds, and a counter within the millisecond.  The clock may say  *)
(* anything, also a time before the last one.                              *)
(***************************************************************************)
EXTENDS Integers

CONSTANT PerMs          \* COUNTER_MASK + 1: ids of one millisecond

VARIABLES
    last,               \* _last_ms
    counter,            \* _counter
    id                  \* the id drawn last

vars == <<last, counter, id>>

Id(ms, count) == ms * PerMs + count

(* next: a full millisecond borrows from the one after it. *)
Draw(clock) ==
    /\ \/ /\ clock > last
          /\ last' = clock
          /\ counter' = 0
       \/ /\ clock <= last
          /\ counter + 1 < PerMs
          /\ last' = last
          /\ counter' = counter + 1
       \/ /\ clock <= last
          /\ counter + 1 >= PerMs
          /\ last' = last + 1
          /\ counter' = 0
    /\ id' = Id(last', counter')

Init ==
    /\ last = 0
    /\ counter = 0
    /\ id = Id(0, 0)

Next == \E clock \in Nat : Draw(clock)

Spec == Init /\ [][Next]_vars

(* Anti-goal 2 of storage/ids.py, for the ids of one generator: an id is never  *)
(* given out twice, because each is larger than all before.                     *)
IdsGrow == [][id' > id]_vars
================================================================================
