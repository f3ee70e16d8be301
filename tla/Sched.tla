------------------------------- MODULE Sched -------------------------------
(***************************************************************************)
(* The scheduler, kernel/sched/sched.c: the task pool, the time slices,    *)
(* task creation with every error path, exit, sleep, and the resources     *)
(* each task holds: stack and program frames from the page allocator,      *)
(* translation tables from the bump allocator of mmu.c, and the table      *)
(* installed in TTBR0_EL1.  The ready queue, with the pointers it is made  *)
(* of, is that of ReadyQueue.                                              *)
(*                                                                         *)
(* kernel_main itself runs as the idle task: sched_init() makes "idle" the *)
(* current task and the boot thread never gives up that identity.  It      *)
(* creates tasks with interrupts open: ticks, and exits of the tasks they  *)
(* switch to, fall between any two steps of a creation.                    *)
(*                                                                         *)
(* Left out: ids, names, priority, run_count and total_runtime, which the  *)
(* scheduler never reads back, and TASK_BLOCKED, never assigned.  A call of *)
(* the page allocator is one step here, takes any frame that is free and a *)
(* program block without adjacency: Creation has the statements of the     *)
(* allocator and the exits between them, Pmm the blocks it returns.        *)
(***************************************************************************)
EXTENDS Naturals, Sequences, FiniteSets

CONSTANTS
  MaxTasks,         \* MAX_TASKS, the size of task_pool
  TimeSlice,        \* DEFAULT_TIME_SLICE, in ticks
  Frames,           \* page frames the allocator hands out
  Tables,           \* translation tables left once the kernel is mapped
  ImagePages,       \* sizes in pages of the user programs
  MaxSleep,         \* longest sleep a task asks for, in ticks
  TaskIrqsMasked,   \* TRUE: tasks start with PSTATE.I set, as 0x3C5 and 0x3C0
                    \* do; FALSE: interrupts reach a task's own code, as the
                    \* comments beside these values say
  NULL

ASSUME SchedAssumption ==
  /\ MaxTasks \in Nat \ {0}
  /\ TimeSlice \in Nat \ {0}
  /\ Tables \in Nat
  /\ MaxSleep \in Nat
  /\ ImagePages \subseteq 1..8
  /\ TaskIrqsMasked \in BOOLEAN
  /\ Frames # {}
  /\ NULL \notin Frames /\ NULL \notin 1..MaxTasks

VARIABLES
  next, prev, head, tail,     \* the ready queue, and the rest of ReadyQueue:
  state, current,             \* task->state, current_task,
  at, new,                    \* how far kernel_main is with which entry,
  gone, torn,                 \* what has exited, a tick in one of the windows
  level, slice,               \* the other fields of struct task, for each slot
  kstack, ustack,             \* kernel_stack_base, user_stack_base
  page_table,                 \* number of the root table, 0 for NULL
  free,                       \* frames in the page allocator
  tables,                     \* translation tables taken so far
  maps,                       \* frames each root table maps for EL0
  user_pgd,                   \* current_user_pgd: what TTBR0_EL1 holds
  thread,                     \* where each task is in its own code
  left,                       \* ticks a sleeping task still waits
  making,                     \* what kernel_main does next in a creator
  entry,                      \* the entry of the pool its scan has come to
  size,                       \* pages of the user program, 0 for a kernel task
  got                         \* its locals: the frames and the root table it got

queue   == <<next, prev, head, tail, state, current, at, new, gone, torn>>
fields  == <<level, slice, kstack, ustack, page_table>>
mem     == <<free, tables, maps>>
flow    == <<thread, left>>
creator == <<making, entry, size, got>>
vars    == <<queue, fields, mem, user_pgd, flow, creator>>

-----------------------------------------------------------------------------
Slots == 1..MaxTasks

\* sched_init() runs on an empty pool: "idle" takes the first entry.
IdleSlot == 1

Q == INSTANCE ReadyQueue WITH Tasks <- Slots, Idle <- IdleSlot

TABLES_PER_USER == 6   \* root, L1, and an L2 and an L3 for each of
                       \* USER_PROG_BASE and USER_STACK_BASE

Nothing == [kernel |-> NULL, user |-> NULL, program |-> {}, pgd |-> 0]

\* Pages in the block of the smallest order that holds n pages, order at most 3.
OrderPages(n) == CHOOSE p \in {1, 2, 4, 8} :
                   /\ p >= n \/ p = 8
                   /\ \A q \in {1, 2, 4, 8} : q < p => q < n

Init ==
  /\ Q!Init
  /\ level = [s \in Slots |-> "KERNEL"]
  /\ slice = [s \in Slots |-> IF s = IdleSlot THEN TimeSlice ELSE 0]
  /\ \E f \in Frames :
       /\ kstack = [s \in Slots |-> IF s = IdleSlot THEN f ELSE NULL]
       /\ free = Frames \ {f}
  /\ ustack = [s \in Slots |-> NULL]
  /\ page_table = [s \in Slots |-> 0]
  /\ tables = 0
  /\ maps = [t \in 1..Tables |-> {}]
  /\ user_pgd = 0
  /\ thread = [s \in Slots |-> "run"]
  /\ left = [s \in Slots |-> 0]
  /\ making = "none" /\ entry = 1 /\ size = 0 /\ got = Nothing

-----------------------------------------------------------------------------
(* schedule()                                                              *)

\* Variant: the previous task's table stays installed for a kernel task.
TableForUserOnly(n) == IF level[n] = "USER" THEN page_table[n] ELSE user_pgd

\* mmu_switch_user_table() as schedule() calls it for the task it dispatches.
TableFor(n) == IF level[n] = "USER" /\ page_table[n] # 0 THEN page_table[n]
               ELSE IF level[n] = "KERNEL" THEN 0
               ELSE user_pgd

\* PSTATE.I is clear while the current task runs.  The boot thread cleared it;
\* every other task starts with it set, unless TaskIrqsMasked is FALSE, and
\* taking SVC sets it: task_sleep() polls inside the system call.
IrqsOpen == /\ current = IdleSlot \/ ~TaskIrqsMasked
            /\ thread[current] # "sleep" /\ state[current] = "RUNNING"

\* timer_ticks++: every sleeper's distance to its deadline shrinks.
TickClock == left' = [s \in Slots |-> IF left[s] > 0 THEN left[s] - 1 ELSE 0]

\* Variant: the slice is decremented without the test for zero.
TickUnclamped ==
  /\ IrqsOpen
  /\ TickClock
  /\ slice[current] # 1
  /\ slice' = [slice EXCEPT ![current] = @ - 1]
  /\ UNCHANGED <<queue, level, kstack, ustack, page_table,
                 mem, user_pgd, thread, creator>>

\* timer_irq_handler() calls schedule() and the slice is not used up.
TickInSlice ==
  /\ IrqsOpen
  /\ TickClock
  /\ slice[current] > 1
  /\ slice' = [slice EXCEPT ![current] = @ - 1]
  /\ UNCHANGED <<queue, level, kstack, ustack, page_table,
                 mem, user_pgd, thread, creator>>

\* Variant: the slice ends one tick early.
ExpiredEarly ==
  /\ IrqsOpen
  /\ TickClock
  /\ slice[current] <= 2
  /\ Q!Tick
  /\ slice' = [slice EXCEPT ![current] = TimeSlice, ![current'] = TimeSlice]
  /\ user_pgd' = TableFor(current')
  /\ UNCHANGED <<level, kstack, ustack, page_table,
                 mem, thread, creator>>

\* Variant: the idle task is not put back while others are ready.
ExpiredDropsIdle ==
  /\ IrqsOpen
  /\ TickClock
  /\ slice[current] <= 1
  /\ Q!Dispatch(IF current = IdleSlot /\ head # NULL THEN Q!Links ELSE Q!Add(Q!Links, current),
                [state EXCEPT ![current] = "READY"])
  /\ slice' = [slice EXCEPT ![current] = TimeSlice, ![current'] = TimeSlice]
  /\ user_pgd' = TableFor(current')
  /\ UNCHANGED <<at, new, gone, torn, level, kstack, ustack, page_table,
                 mem, thread, creator>>

\* The slice is used up, or task_yield() zeroed it: requeue and switch.
TickExpired ==
  /\ IrqsOpen
  /\ TickClock
  /\ slice[current] <= 1
  /\ Q!Tick
  /\ slice' = [slice EXCEPT ![current] = TimeSlice, ![current'] = TimeSlice]
  /\ user_pgd' = TableFor(current')
  /\ UNCHANGED <<level, kstack, ustack, page_table,
                 mem, thread, creator>>

Tick == TickInSlice \/ TickExpired

-----------------------------------------------------------------------------
(* Calls of the current task                                               *)

\* A task other than kernel_main makes system calls.
Calls == current # IdleSlot /\ current \notin gone /\ thread[current] = "run"

\* task_yield(): only the slice changes, the switch comes with the next tick.
Yield ==
  /\ Calls
  /\ slice' = [slice EXCEPT ![current] = 0]
  /\ UNCHANGED <<queue, level, kstack, ustack, page_table,
                 mem, user_pgd, flow, creator>>

\* task_sleep(): the start time is read and the loop entered ...
Sleep(n) ==
  /\ Calls
  /\ thread' = [thread EXCEPT ![current] = "sleep"]
  /\ left' = [left EXCEPT ![current] = n]
  /\ UNCHANGED <<queue, fields, mem, user_pgd, creator>>

\* ... and polled: yield while the deadline is ahead, return once it passed.
SleepPoll(s) ==
  /\ current = s /\ thread[s] = "sleep"
  /\ IF left[s] > 0
     THEN slice' = [slice EXCEPT ![s] = 0] /\ UNCHANGED thread
     ELSE thread' = [thread EXCEPT ![s] = "run"] /\ UNCHANGED slice
  /\ UNCHANGED <<queue, level, kstack, ustack, page_table,
                 mem, user_pgd, left, creator>>

\* Variant: the exiting task is not marked TERMINATED.
ExitStaysRunning(s) ==
  /\ Calls /\ current = s
  /\ Q!Dispatch(Q!Links, state)
  /\ gone' = gone \union {s}
  /\ free' = free \union ({kstack[s], ustack[s]} \ {NULL})
  /\ kstack' = [kstack EXCEPT ![s] = NULL]
  /\ ustack' = [ustack EXCEPT ![s] = NULL]
  /\ slice' = [slice EXCEPT ![s] = 0, ![current'] = TimeSlice]
  /\ user_pgd' = TableFor(current')
  /\ UNCHANGED <<at, new, torn, level, page_table, tables, maps, flow, creator>>

\* task_exit(): both stacks go back, the root table and the program do not,
\* and schedule() hands over the processor to the head of the queue.
Exit(s) ==
  /\ Calls /\ current = s
  /\ Q!Exit
  /\ free' = free \union ({kstack[s], ustack[s]} \ {NULL})
  /\ kstack' = [kstack EXCEPT ![s] = NULL]
  /\ ustack' = [ustack EXCEPT ![s] = NULL]
  /\ IF head = NULL
     THEN slice' = [slice EXCEPT ![s] = 0] /\ UNCHANGED user_pgd
     ELSE /\ slice' = [slice EXCEPT ![s] = 0, ![current'] = TimeSlice]
          /\ user_pgd' = TableFor(current')
  /\ UNCHANGED <<level, page_table, tables, maps, flow, creator>>

-----------------------------------------------------------------------------
(* Task creation, by kernel_main: task_create() with n = 0, and            *)
(* task_create_user() for a program of n pages                             *)

Making(m) == current = IdleSlot /\ making = m

\* Variant: the scan takes any entry that does not hold the processor.
ScanTakesReady ==
  /\ Making("scan")
  /\ state[entry] # "RUNNING"
  /\ at = "wfi" /\ at' = "fill" /\ new' = entry
  /\ making' = "kernel stack" /\ entry' = 1
  /\ UNCHANGED <<next, prev, head, tail, state, current, gone, torn>>
  /\ UNCHANGED <<fields, mem, user_pgd, flow, size, got>>

Create(n) ==
  /\ Making("none") /\ at = "wfi"
  /\ making' = "scan" /\ size' = n
  /\ UNCHANGED <<queue, fields, mem, user_pgd, flow, entry, got>>

\* The scan of the pool comes to a free entry ...
ScanFinds ==
  /\ Making("scan")
  /\ Q!Choose(entry)
  /\ making' = "kernel stack" /\ entry' = 1
  /\ UNCHANGED <<fields, mem, user_pgd, flow, size, got>>

\* ... or goes on, and ends when there is none.
ScanGoesOn ==
  /\ Making("scan")
  /\ state[entry] # "TERMINATED"
  /\ IF entry < MaxTasks
     THEN entry' = entry + 1 /\ UNCHANGED <<making, size>>
     ELSE entry' = 1 /\ making' = "none" /\ size' = 0
  /\ UNCHANGED <<queue, fields, mem, user_pgd, flow, got>>

\* The kernel stack.
GetKernelStack ==
  /\ Making("kernel stack")
  /\ \E f \in free :
       /\ free' = free \ {f}
       /\ kstack' = [kstack EXCEPT ![new] = f]
       /\ got' = [got EXCEPT !.kernel = f]
  /\ making' = IF size = 0 THEN "fill" ELSE "user stack"
  /\ UNCHANGED <<queue, level, slice, ustack, page_table,
                 tables, maps, user_pgd, flow, entry, size>>

\* There is no frame for it: return 0.
NoKernelStack ==
  /\ Making("kernel stack")
  /\ free = {}
  /\ Q!GiveUp
  /\ making' = "none" /\ size' = 0
  /\ UNCHANGED <<fields, mem, user_pgd, flow, entry, got>>

\* The user stack.
GetUserStack ==
  /\ Making("user stack")
  /\ \E f \in free :
       /\ free' = free \ {f}
       /\ ustack' = [ustack EXCEPT ![new] = f]
       /\ got' = [got EXCEPT !.user = f]
  /\ making' = "program"
  /\ UNCHANGED <<queue, level, slice, kstack, page_table,
                 tables, maps, user_pgd, flow, entry, size>>

NoUserStack ==
  /\ Making("user stack")
  /\ free = {}
  /\ making' = "free kernel stack"
  /\ UNCHANGED <<queue, fields, mem, user_pgd, flow, entry, size, got>>

\* The block for the program.
GetProgram ==
  /\ Making("program")
  /\ \E block \in SUBSET free :
       /\ Cardinality(block) = OrderPages(size)
       /\ free' = free \ block
       /\ got' = [got EXCEPT !.program = block]
  /\ making' = "tables"
  /\ UNCHANGED <<queue, fields, tables, maps, user_pgd, flow, entry, size>>

\* There are too few frames or, for more than one page, no adjacent ones.
NoProgram ==
  /\ Making("program")
  /\ size = 1 => free = {}
  /\ making' = "free kernel stack"
  /\ UNCHANGED <<queue, fields, mem, user_pgd, flow, entry, size, got>>

\* Variant: the program block is given back once it is mapped.
BuildTablesFreesProgram ==
  /\ Making("tables")
  /\ tables + TABLES_PER_USER <= Tables
  /\ tables' = tables + TABLES_PER_USER
  /\ maps' = [maps EXCEPT ![tables + 1] = got.program \union {got.user}]
  /\ free' = free \union got.program
  /\ got' = [got EXCEPT !.pgd = tables + 1]
  /\ making' = "fill"
  /\ UNCHANGED <<queue, fields, user_pgd, flow, entry, size>>

\* The root table and those below it, which map the program and the user stack.
BuildTables ==
  /\ Making("tables")
  /\ tables + TABLES_PER_USER <= Tables
  /\ tables' = tables + TABLES_PER_USER
  /\ maps' = [maps EXCEPT ![tables + 1] = got.program \union {got.user}]
  /\ got' = [got EXCEPT !.pgd = tables + 1]
  /\ making' = "fill"
  /\ UNCHANGED <<queue, fields, free, user_pgd, flow, entry, size>>

\* The table space runs out on the way: alloc_page_table() stops the calling
\* thread for good.  Frames and tables taken so far are lost.
NoTables ==
  /\ Making("tables")
  /\ tables + TABLES_PER_USER > Tables
  /\ tables' = Tables
  /\ making' = "hung"
  /\ UNCHANGED <<queue, fields, free, maps, user_pgd, flow, entry, size, got>>

\* Variant: without a user stack the kernel stack is not given back.
FreeKernelStackLeaks ==
  /\ Making("free kernel stack")
  /\ IF got.user = NULL
     THEN /\ Q!GiveUp /\ making' = "none" /\ size' = 0 /\ got' = Nothing
          /\ UNCHANGED free
     ELSE /\ making' = "free user stack" /\ got' = [got EXCEPT !.kernel = NULL]
          /\ free' = free \union {got.kernel}
          /\ UNCHANGED <<queue, size>>
  /\ UNCHANGED <<fields, tables, maps, user_pgd, flow, entry>>

\* An error path gives back the kernel stack, and the user stack if there is
\* one.  The entry keeps their addresses.
FreeKernelStack ==
  /\ Making("free kernel stack")
  /\ free' = free \union {got.kernel}
  /\ got' = [got EXCEPT !.kernel = NULL]
  /\ IF got.user = NULL
     THEN Q!GiveUp /\ making' = "none" /\ size' = 0
     ELSE making' = "free user stack" /\ UNCHANGED <<queue, size>>
  /\ UNCHANGED <<fields, tables, maps, user_pgd, flow, entry>>

FreeUserStack ==
  /\ Making("free user stack")
  /\ free' = free \union {got.user}
  /\ got' = [got EXCEPT !.user = NULL]
  /\ Q!GiveUp /\ making' = "none" /\ size' = 0
  /\ UNCHANGED <<fields, tables, maps, user_pgd, flow, entry>>

\* The common end of both creators: the entry is filled and made READY.
Fill ==
  /\ Making("fill")
  /\ Q!Fill
  /\ slice' = [slice EXCEPT ![new] = TimeSlice]
  /\ level' = [level EXCEPT ![new] = IF size = 0 THEN "KERNEL" ELSE "USER"]
  /\ page_table' = [page_table EXCEPT ![new] = got.pgd]
  /\ ustack' = IF size = 0 THEN [ustack EXCEPT ![new] = NULL] ELSE ustack
  /\ thread' = [thread EXCEPT ![new] = "run"]
  /\ left' = [left EXCEPT ![new] = 0]
  /\ making' = "none" /\ size' = 0 /\ got' = Nothing
  /\ UNCHANGED <<kstack, mem, user_pgd, entry>>

\* add_to_ready_queue()
Link ==
  /\ Q!LinkPrev \/ Q!LinkNext \/ Q!SetTail \/ Q!SetHead
  /\ UNCHANGED <<fields, mem, user_pgd, flow, creator>>

GiveBack == FreeKernelStack \/ FreeUserStack

Next ==
  \/ Tick
  \/ Yield
  \/ \E n \in 0..MaxSleep : Sleep(n)
  \/ \E s \in Slots : SleepPoll(s) \/ Exit(s)
  \/ \E n \in ImagePages \union {0} : Create(n)
  \/ ScanFinds \/ ScanGoesOn
  \/ GetKernelStack \/ NoKernelStack
  \/ GetUserStack \/ NoUserStack
  \/ GetProgram \/ NoProgram
  \/ BuildTables \/ NoTables
  \/ GiveBack
  \/ Fill
  \/ Link

Spec == Init /\ [][Next]_vars

\* A timer interrupt stays pending until PSTATE.I is clear, for however short a
\* time, and a task that has the processor executes.
PreemptiveSpec == /\ Spec
                  /\ SF_vars(Tick)
                  /\ \A s \in Slots : SF_vars(SleepPoll(s))

-----------------------------------------------------------------------------
(* Properties                                                              *)

(* Every variable of the scheduler has its type. *)
TypeOK ==
  /\ next \in [Slots -> Slots \union {NULL}] /\ prev \in [Slots -> Slots \union {NULL}]
  /\ head \in Slots \union {NULL} /\ tail \in Slots \union {NULL}
  /\ state \in [Slots -> {"READY", "RUNNING", "TERMINATED"}]
  /\ current \in Slots
  /\ at \in {"wfi", "fill", "prev", "next", "tail", "head"}
  /\ new \in Slots \union {NULL}
  /\ gone \subseteq Slots /\ torn \in BOOLEAN
  /\ level \in [Slots -> {"KERNEL", "USER"}]
  /\ slice \in [Slots -> 0..TimeSlice]
  /\ kstack \in [Slots -> Frames \union {NULL}]
  /\ ustack \in [Slots -> Frames \union {NULL}]
  /\ page_table \in [Slots -> 0..Tables]
  /\ free \subseteq Frames
  /\ tables \in 0..Tables
  /\ maps \in [1..Tables -> SUBSET Frames]
  /\ user_pgd \in 0..Tables
  /\ thread \in [Slots -> {"run", "sleep"}]
  /\ left \in [Slots -> 0..MaxSleep]
  /\ making \in {"none", "scan", "kernel stack", "user stack", "program", "tables",
                 "fill", "free kernel stack", "free user stack", "hung"}
  /\ entry \in Slots
  /\ size \in ImagePages \union {0}
  /\ got \in [kernel : Frames \union {NULL}, user : Frames \union {NULL},
              program : SUBSET Frames, pgd : 0..Tables]

(* The current task, and no other, is RUNNING: a task that exited, was     *)
(* preempted or was just created never holds the processor beside it.  One *)
(* that exits and finds nobody in the queue stays current, but TERMINATED. *)
OneRunning ==
  /\ \A s \in Slots : state[s] = "RUNNING" => s = current
  /\ state[current] = "RUNNING" \/ current \in gone

(* task_exit() "Should never reach here": until a tick comes in one of the *)
(* windows of add_to_ready_queue(), whoever exits finds a successor, so    *)
(* its freed stack is not run on any further, though the creator it        *)
(* interrupted has picked an entry or has one half linked.                 *)
ExitFindsSuccessor == ~torn => current \notin gone

\* The tasks that have not exited.
Live == Slots \ gone

\* The frames task s uses: its stacks, and what its root table maps.
Holds(s) == ({kstack[s], ustack[s]} \ {NULL})
              \union (IF page_table[s] = 0 THEN {} ELSE maps[page_table[s]])

\* The frames a creation has got and no task has yet.
InHand == ({got.kernel, got.user} \ {NULL}) \union got.program

(* A frame a live task uses, or a creation has got, is neither free nor    *)
(* used by another, in spite of the error paths of task_create_user(), of  *)
(* exits in the middle of a creation and of entries that keep the          *)
(* addresses of stacks given back.                                         *)
FramesExclusive ==
  /\ \A s \in Live : /\ kstack[s] \in Frames /\ kstack[s] # ustack[s]
                     /\ Holds(s) \intersect (free \union InHand) = {}
  /\ \A s, t \in Live : s # t => Holds(s) \intersect Holds(t) = {}
  /\ InHand \intersect free = {}

(* While a task runs, TTBR0_EL1 holds its own root table, or none for a    *)
(* kernel task, and what it maps is not free: the stack that task_exit()   *)
(* gives back stays mapped in the dead root table and may be handed to     *)
(* another task, but no task that lives runs on that table.                *)
AddressSpaceIsOwn ==
  /\ user_pgd = page_table[current]
  /\ user_pgd # 0 /\ current \notin gone => maps[user_pgd] \intersect free = {}

(* A tick takes the processor from a task only when its slice is used up;  *)
(* otherwise only its own exit does.                                       *)
KeepsItsSlice ==
  [][current' # current => slice[current] <= 1 \/ state'[current] = "TERMINATED"]_vars

(* A task that sleeps gets back to its own code once its time has passed. *)
SleepEnds == \A s \in Slots : thread[s] = "sleep" ~> thread[s] = "run"

(* Frames are conserved: one that is neither free nor used by a live task  *)
(* nor in the hands of a creation belongs to a program whose task has      *)
(* exited.  The error paths of task_create_user() lose nothing, and a task *)
(* that exits loses nothing but the program ("TODO: Free user page table", *)
(* sched.c).                                                               *)
FramesAccounted ==
  Frames \subseteq free \union InHand \union (UNION {Holds(s) : s \in Live})
                        \union (UNION {maps[t] : t \in 1..tables})

(* Until a tick comes in one of the windows, the promise of TaskLife: a    *)
(* task is created, dispatched, preempted and ends, and only a READY one   *)
(* gets the processor, through all the steps between.                      *)
Life == INSTANCE TaskLife WITH
          First <- IdleSlot,
          life <- [s \in Slots |-> CASE state[s] = "READY" -> "ready"
                                     [] state[s] = "RUNNING" -> "running"
                                     [] OTHER -> "none"]

LifeSafety == Life!Init /\ [][torn' \/ Life!Next]_<<state, torn>>
=============================================================================
