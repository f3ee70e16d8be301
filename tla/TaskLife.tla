------------------------------ MODULE TaskLife ------------------------------
(***************************************************************************)
(* What the scheduler promises to the rest of the kernel, without queues,  *)
(* time slices or interrupts: at every moment exactly one task slot holds  *)
(* the processor, and it gets to another only when that one is ready.      *)
(***************************************************************************)

CONSTANTS Slots,   \* the entries of task_pool
          First    \* the slot that holds the processor at the beginning

VARIABLE life      \* "none", "ready" or "running", for each slot

Lives == {"none", "ready", "running"}

Init == life = [s \in Slots |-> IF s = First THEN "running" ELSE "none"]

(* A free slot receives a task. *)
Spawn(s) == /\ life[s] = "none"
            /\ life' = [life EXCEPT ![s] = "ready"]

(* A ready task takes the processor from r, which stays ready (it was      *)
(* preempted) or leaves its slot free (it finished).                       *)
Dispatch(s) ==
  \E r \in Slots, l \in {"ready", "none"} :
    /\ life[s] = "ready"
    /\ life[r] = "running"
    /\ life' = [life EXCEPT ![r] = l, ![s] = "running"]

Next == \E s \in Slots : Spawn(s) \/ Dispatch(s)

Spec == Init /\ [][Next]_life
=============================================================================
