----------------------------- MODULE TaskQueue -----------------------------
(***************************************************************************)
(* What the ready queue promises schedule() and the task creators: first   *)
(* in, first out, no task lost, none twice.                                *)
(***************************************************************************)
EXTENDS Sequences, Naturals

CONSTANT Tasks

VARIABLE contents

Queued == {contents[i] : i \in 1..Len(contents)}

Init == contents = <<>>

Put(t) == t \notin Queued /\ contents' = Append(contents, t)

Take == contents # <<>> /\ contents' = Tail(contents)

\* schedule(): the preempted task is put back, then the head is taken.
PutTake(t) == t \notin Queued /\ contents' = Tail(Append(contents, t))

Next == Take \/ \E t \in Tasks : Put(t) \/ PutTake(t)

Spec == Init /\ [][Next]_contents
=============================================================================
