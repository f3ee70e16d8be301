----------------------------- MODULE ReadyQueue -----------------------------
(***************************************************************************)
(* The ready queue of kernel/sched/sched.c as it is stored: a doubly       *)
(* linked list through task->next and task->prev with two end pointers.    *)
(*                                                                         *)
(* schedule() works on it with interrupts masked, from the timer interrupt *)
(* or from task_exit().  The creators work on it in kernel_main, which     *)
(* runs as the idle task with interrupts open: a tick may take the         *)
(* processor from it between any two statements of add_to_ready_queue().   *)
(* In two windows that may leave the list broken.  The model goes on from  *)
(* there as the code does, down to tasks that are dispatched again after   *)
(* they exited; ListExact, QueueSafety and ExitFindsSuccessor are about    *)
(* the time before, and ListAlwaysExact is the claim that fails.           *)
(***************************************************************************)
EXTENDS Naturals, Sequences, FiniteSets

CONSTANTS Tasks, Idle, NULL

ASSUME ReadyQueueAssumption ==
  /\ Idle \in Tasks /\ NULL \notin Tasks
  /\ IsFiniteSet(Tasks)

VARIABLES
  next, prev,     \* the links in struct task
  head, tail,     \* ready_queue_head, ready_queue_tail
  state,
  current,
  at,             \* where kernel_main is: outside the creators, filling an entry,
                  \* or before a statement of add_to_ready_queue()
  new,            \* the entry it fills and queues
  gone            \* the tasks whose code has come to the loop at the end of
                  \* task_exit(), and the entries that never held one

VARIABLE torn     \* auxiliary: a tick has come in one of the two windows

list == <<next, prev, head, tail>>
vars == <<list, state, current, at, new, gone, torn>>

Links == [next |-> next, prev |-> prev, head |-> head, tail |-> tail]

Init ==
  /\ next = [t \in Tasks |-> NULL]
  /\ prev = [t \in Tasks |-> NULL]
  /\ head = NULL /\ tail = NULL
  /\ state = [t \in Tasks |-> IF t = Idle THEN "RUNNING" ELSE "TERMINATED"]
  /\ current = Idle
  /\ at = "wfi" /\ new = NULL
  /\ gone = Tasks \ {Idle}
  /\ torn = FALSE

-----------------------------------------------------------------------------
(* The two list operations, on all links q                                 *)

\* add_to_ready_queue()
Add(q, t) ==
  [next |-> IF q.tail = NULL THEN [q.next EXCEPT ![t] = NULL]
            ELSE [q.next EXCEPT ![t] = NULL, ![q.tail] = t],
   prev |-> [q.prev EXCEPT ![t] = q.tail],
   head |-> IF q.head = NULL THEN t ELSE q.head,
   tail |-> t]

\* Variant: the tail pointer is left on a removed last task.
RemoveKeepsTail(q, t) ==
  LET p == q.prev[t]  n == q.next[t]
  IN  [next |-> [x \in Tasks |-> IF x = t THEN NULL
                                 ELSE IF x = p THEN n ELSE q.next[x]],
       prev |-> [x \in Tasks |-> IF x = t THEN NULL
                                 ELSE IF x = n THEN p ELSE q.prev[x]],
       head |-> IF p = NULL THEN n ELSE q.head,
       tail |-> q.tail]

\* remove_from_ready_queue()
Remove(q, t) ==
  LET p == q.prev[t]  n == q.next[t]
  IN  [next |-> [x \in Tasks |-> IF x = t THEN NULL
                                 ELSE IF x = p THEN n ELSE q.next[x]],
       prev |-> [x \in Tasks |-> IF x = t THEN NULL
                                 ELSE IF x = n THEN p ELSE q.prev[x]],
       head |-> IF p = NULL THEN n ELSE q.head,
       tail |-> IF n = NULL THEN p ELSE q.tail]

SetLinks(q) == next' = q.next /\ prev' = q.prev /\ head' = q.head /\ tail' = q.tail

\* schedule() from links q and states st: the head, when there is one, runs,
\* whatever its state was.  Without one the processor stays where it is.
Dispatch(q, st) ==
  IF q.head = NULL
  THEN /\ SetLinks(q) /\ state' = st
       /\ UNCHANGED current
  ELSE /\ SetLinks(Remove(q, q.head))
       /\ state' = [st EXCEPT ![q.head] = "RUNNING"]
       /\ current' = q.head

\* The windows.  A list that is not empty may change its tail after kernel_main
\* has read it for the link back; and between the last two statements a list
\* that was empty has a tail and no head, and any other may become empty.  A
\* build that loads the tail once for the link back and the link on, or a tick
\* between a test and the store it guards, differs from the statements below
\* after a tick in a window only.
InWindow == \/ at \in {"next", "tail"} /\ tail # NULL
            \/ at = "head"

\* The timer interrupt finds the slice of the current task used up.  None
\* comes to a task that exited and found nobody: it is inside its system call.
Tick ==
  /\ state[current] = "RUNNING"
  /\ Dispatch(Add(Links, current), [state EXCEPT ![current] = "READY"])
  /\ torn' = (torn \/ (current = Idle /\ InWindow))
  /\ UNCHANGED <<at, new, gone>>

\* task_exit()
Exit ==
  /\ current # Idle /\ current \notin gone
  /\ Dispatch(Links, [state EXCEPT ![current] = "TERMINATED"])
  /\ gone' = gone \union {current}
  /\ UNCHANGED <<at, new, torn>>

-----------------------------------------------------------------------------
(* task_create() and task_create_user() as kernel_main executes them       *)

\* The scan of the pool comes to a free entry.
Choose(t) ==
  /\ current = Idle /\ at = "wfi"
  /\ state[t] = "TERMINATED"
  /\ new' = t /\ at' = "fill"
  /\ UNCHANGED <<list, state, current, gone, torn>>

\* The entry is not to be used: the allocator had no stack for it.
GiveUp ==
  /\ current = Idle /\ at = "fill"
  /\ new' = NULL /\ at' = "wfi"
  /\ UNCHANGED <<list, state, current, gone, torn>>

\* The entry is filled: task->state = TASK_READY comes last.
Fill ==
  /\ current = Idle /\ at = "fill"
  /\ state' = [state EXCEPT ![new] = "READY"]
  /\ gone' = gone \ {new}
  /\ at' = "prev"
  /\ UNCHANGED <<list, current, new, torn>>

\* task->next = NULL; task->prev = ready_queue_tail
LinkPrev ==
  /\ current = Idle /\ at = "prev"
  /\ next' = [next EXCEPT ![new] = NULL]
  /\ prev' = [prev EXCEPT ![new] = tail]
  /\ at' = "next"
  /\ UNCHANGED <<head, tail, state, current, new, gone, torn>>

\* if (ready_queue_tail) ready_queue_tail->next = task
LinkNext ==
  /\ current = Idle /\ at = "next"
  /\ next' = IF tail = NULL THEN next ELSE [next EXCEPT ![tail] = new]
  /\ at' = "tail"
  /\ UNCHANGED <<prev, head, tail, state, current, new, gone, torn>>

\* Variant: the tail is set for the first task only.
SetFirstTail ==
  /\ current = Idle /\ at = "tail"
  /\ tail' = IF tail = NULL THEN new ELSE tail
  /\ at' = "head"
  /\ UNCHANGED <<next, prev, head, state, current, new, gone, torn>>

\* ready_queue_tail = task
SetTail ==
  /\ current = Idle /\ at = "tail"
  /\ tail' = new
  /\ at' = "head"
  /\ UNCHANGED <<next, prev, head, state, current, new, gone, torn>>

\* if (!ready_queue_head) ready_queue_head = task
SetHead ==
  /\ current = Idle /\ at = "head"
  /\ head' = IF head = NULL THEN new ELSE head
  /\ at' = "wfi" /\ new' = NULL
  /\ UNCHANGED <<next, prev, tail, state, current, gone, torn>>

Next ==
  \/ Tick
  \/ Exit
  \/ \E t \in Tasks : Choose(t)
  \/ GiveUp
  \/ Fill
  \/ LinkPrev
  \/ LinkNext
  \/ SetTail
  \/ SetHead

Spec == Init /\ [][Next]_vars

-----------------------------------------------------------------------------
(* Properties                                                              *)

\* The tasks met from p on along links l, at most one more than there are.
Walk(p, l) ==
  LET step[n \in 0..(Cardinality(Tasks) + 1)] ==
        IF n = 0 THEN [seen |-> <<>>, ptr |-> p]
        ELSE LET s == step[n - 1]
             IN  IF s.ptr = NULL THEN s
                 ELSE [seen |-> Append(s.seen, s.ptr), ptr |-> l[s.ptr]]
  IN  step[Cardinality(Tasks) + 1].seen

Forward  == Walk(head, next)
Backward == Walk(tail, prev)

(* add_to_ready_queue() "Add task to ready queue": read forwards and       *)
(* backwards the list gives the same tasks, each once, and they are the    *)
(* READY ones, but for the one that kernel_main is about to queue.  This   *)
(* fails once a tick has come in one of the windows.                       *)
ListAlwaysExact ==
  at \notin {"tail", "head"} =>
    /\ Len(Forward) = Len(Backward)
    /\ \A i \in 1..Len(Forward) : Forward[i] = Backward[Len(Forward) + 1 - i]
    /\ \A i, j \in 1..Len(Forward) : Forward[i] = Forward[j] => i = j
    /\ {Forward[i] : i \in 1..Len(Forward)} = {t \in Tasks : state[t] = "READY"} \ {new}

(* No tick, exit or creation breaks the list otherwise: a tick inside      *)
(* add_to_ready_queue() but outside the windows, a tick of the idle task   *)
(* alone, and a creation that other tasks run and exit in the middle of.   *)
ListExact == ~torn => ListAlwaysExact

(* task_exit() "Should never reach here": until then a task that exits     *)
(* finds a successor in the queue, and no task that has exited is          *)
(* dispatched again.                                                       *)
ExitFindsSuccessor == ~torn => current \notin gone

Queue == INSTANCE TaskQueue WITH contents <- Forward

(* What is read from the head is a first-in first-out queue that loses no  *)
(* task, though a task is linked in over several statements with ticks and *)
(* exits between them.                                                     *)
QueueSafety == Queue!Init /\ [][torn' \/ Queue!Next]_<<Forward, torn>>
=============================================================================
