------------------------------ MODULE ReadPool ------------------------------
(***************************************************************************)
(* What a pool of reading threads promises its caller, readHdr_1 or        *)
(* readData_1 of src/src/data.c, for one batch of items.                   *)
(*                                                                         *)
(* Every item of the batch is worked on once, in any order.  The pool may  *)
(* report before the work is done: a thread that counts numThreads to zero *)
(* while more threads are about to start reports early.  It comes to rest  *)
(* only with a report made when no item was left.                          *)
(***************************************************************************)
EXTENDS Integers

CONSTANTS Batches       \* sets of items a caller may submit

VARIABLES
    state,      \* "new", "busy", "rest"
    left,       \* items not worked on yet
    reports     \* completions posted to the main loop

poolVars == <<state, left, reports>>

PoolInit == state = "new" /\ left = {} /\ reports = 0

Submit ==
    /\ state = "new"
    /\ \E B \in Batches : left' = B
    /\ state' = "busy"
    /\ UNCHANGED reports

Process ==
    /\ state = "busy"
    /\ \E x \in left : left' = left \ {x}
    /\ UNCHANGED <<state, reports>>

EarlyReport ==
    /\ state = "busy"
    /\ reports' = reports + 1
    /\ UNCHANGED <<state, left>>

LastReport ==
    /\ state = "busy" /\ left = {}
    /\ reports' = reports + 1
    /\ state' = "rest"
    /\ UNCHANGED left

PoolNext == Submit \/ Process \/ EarlyReport \/ LastReport

PoolSafe == PoolInit /\ [][PoolNext]_poolVars
PoolSpec ==
    /\ PoolSafe
    /\ WF_poolVars(Process) /\ WF_poolVars(LastReport)
=============================================================================
