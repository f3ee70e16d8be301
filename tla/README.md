# Verification of aarch64_os

TLA+ specifications of the kernel in `src/kernel/`, the TLC configurations that
check them on small instances, and proofs for TLAPS. Every definition is
translated from the C and assembly sources; where a document or a comment says
something else, the specification follows the code and a run shows the
difference.

    tlc -config sched_safety.cfg MCSched      # model-check
    tlapm SchedProofs.tla                     # prove

## 1. The system

A single-processor teaching kernel. `kernel_main` initialises the subsystems one
after the other, opens interrupts half-way, creates three kernel tasks and two
user tasks, and becomes the idle loop (`wfi`): the boot thread *is* the idle
task. All else runs in tasks, in system calls of user tasks, or in the timer
interrupt.

| Component | State it keeps | Operations | What is hard |
|---|---|---|---|
| Scheduler, `sched/sched.c` | task pool, ready queue, current task, slices | create (kernel, user), yield, sleep, exit, `schedule()` | preemption at every point of the creators, reuse of entries, error paths, fairness |
| Context switch, `sched/switch.S` | a saved context per task | `switch_context` | it happens in the middle of an interrupt handler |
| Page allocator, `mm/pmm.c` | page descriptors, one free list, a counter | `alloc_pages`, `free_pages` | two ways to find free memory must agree; blocks of several pages with one reference |
| MMU, `mm/mmu.c` | tables, the next free one, `current_user_pgd`, TTBR0/1, TLB | map, unmap, create and switch user tables, walk | sharing of tables, stale translations, running out of tables, the level the hardware starts at |
| Heap, `mm/kmalloc.c` | slabs with lists threaded through their objects, statistics | `kmalloc`, `kzalloc`, `kcalloc`, `kfree` | what `kfree` reads in front of a pointer; reused pages |
| Interrupt path, `arch/aarch64/entry.S`, `core/exception.c`, `core/irq.c`, `drivers/gic.c`, `drivers/timer.c` | GIC enables and active state, handler table, timer, PSTATE, SPSR, ELR | vectors, acknowledge, dispatch, re-arm, end of interrupt, `eret` | a switch leaves the handler half-way; the resumed handler runs with interrupts open; two exception levels share the code that saves the context |
| System calls, `core/syscall.c` | none | yield, exit, sleep, getpid, write | they run with interrupts masked |
| `core/main.c` | none | boot order, creation of the tasks | interrupts open while it creates tasks |
| Hypervisor calls, `core/hypervisor.c` | HCR_EL2, counters | init, `hvc` | exceptions from EL2 to EL2; which level interrupts go to |
| UART, strings, user programs | none | | not modelled, see 7 |

How they interact: the timer interrupt calls `schedule()`, which works on the
queue that the creators also work on, switches TTBR0_EL1 and then the context.
The creators take stacks and program pages from the page allocator and tables
from the MMU's bump allocator; `task_exit()` gives the stacks back and calls
`schedule()` for the last time. The heap takes whole pages from the page
allocator.

What makes each part correct: one task runs and every ready one is queued once;
a task that exits hands over the processor;
no page frame has two owners and none that is in use gets lost, also when a task exits in the middle of a creation; the address space in
use is the running task's; the allocator's list, descriptors and counter agree;
tables form disjoint trees and no translation outlives them; heap objects are
disjoint and their headers intact; the timer's handler is not re-entered, counts
each expiry once and is always ended; every exception returns to where it was taken.

## 2. Modules

| Module | Models | Implements |
|---|---|---|
| `TaskLife` | abstract: slots are free, ready or running; one runs | |
| `Sched` (+ `MCSched`, `SchedProofs`) | `sched.c`: `schedule()` and `task_exit()` as steps, the creators step by step, with the resources of tasks; contains `ReadyQueue` | `TaskLife` |
| `TaskQueue` | abstract: a FIFO queue without duplicates | |
| `ReadyQueue` (+ `ReadyQueueProofs`) | the queue's links and end pointers; `add_to_ready_queue()` in `kernel_main` statement by statement, with ticks and exits in between | `TaskQueue` |
| `PageOwner` | abstract: frames are granted in blocks to one holder | |
| `PageList` (+ `PageListProofs`) | the free list as a sequence of pages: following the links, unlinking a block | |
| `Pmm` (+ `PmmProofs`) | `pmm.c`, each call one step | `PageOwner` |
| `Creation` (+ `CreationProofs`) | the creators of `sched.c` over `pmm.c`, statement by statement, with tasks that exit in between | `PageOwner` |
| `AddressSpaces` | abstract: mapping one page changes that page of that space | |
| `Mmu` (+ `MCMmu`, `MmuProofs`) | `mmu.c`, the hardware's walk and its TLB | `AddressSpaces` |
| `Heap` | abstract: disjoint pieces of memory, large enough | |
| `Kmalloc` (+ `MCKmalloc`, `KmallocProofs`) | `kmalloc.c` down to the words of its headers | `Heap` |
| `Exceptions` (+ `ExceptionsProofs`) | boot order and exceptions at EL1 and EL2: GIC, timer, system and hypervisor calls, handlers with a switch inside, `eret` | |

The abstract specification of one module stands for the component in the others:
`Sched` takes frames from a set and `Kmalloc` takes pages as `PageOwner` promises
them, `Sched` contains `ReadyQueue` (`Q`), pointers and all, and takes the delivery of timer interrupts as given, which is what
`Exceptions` is about. `Creation` composes the creators, `task_exit()` and the page
allocator where `Sched` and `Pmm` take each call of it as one step. Operators named "Variant" in a comment are changed forms
of the one after them, a bug somebody could have made; nothing uses them
except to show that a property notices.

### Sched

`state` and `current`, the links and end pointers of the queue, and how far `add_to_ready_queue()` has
come (`at`, `new`) are `ReadyQueue`'s; `level`, `slice`, `kstack`, `ustack`, `page_table` are the other fields
of `struct task`, one value per slot of `task_pool`; `maps` says which frames a root
table gives EL0 access to; `user_pgd` is `current_user_pgd`. `Tick` is a timer
interrupt (`TickInSlice` or `TickExpired`); it needs `IrqsOpen`, since tasks start
with `SPSR` 0x3C5 or 0x3C0, in which the I bit is set, and because `task_sleep()` polls
inside a system call. `Yield`, `Sleep`/`SleepPoll` and `Exit` are the calls.

The creators run in `kernel_main` with interrupts open, so they are not one step but a step for each thing
others can see: `Create` (the call), `ScanFinds` and `ScanGoesOn` (an entry of the pool is looked at), `GetKernelStack`,
`GetUserStack`, `GetProgram`, `BuildTables`, `Fill` (which ends with `state = TASK_READY`), and the four statements of
`add_to_ready_queue()` (`Link`). `making` is the place; each step needs the idle task to have the processor, and ticks and
whole lives of other tasks fall between any two. `NoKernelStack`, `NoUserStack`, `NoProgram`, `NoTables` are the
failures, `FreeKernelStack` and `FreeUserStack` the error paths: they leave the addresses of stacks already given
back in the entry, as the code does, or `kernel_main` stopped in `alloc_page_table()` (`hung`).

There is no BLOCKED state because nothing assigns it. Ids, names, priorities and
run counts are left out: only the dump and SYS_GETPID read them.

### ReadyQueue

`schedule()` and `task_exit()` are one step each, for they run with interrupts
masked. `Choose`, `Fill`, `LinkPrev`, `LinkNext`, `SetTail`, `SetHead` are the statements of a
creator (`GiveUp`: it had no memory), with interrupts open. A tick in one of two windows (`InWindow`) breaks the list:

* after the tail was read for `task->prev` and before it is overwritten, if the list is not empty: the dispatch
  may empty it, and the task that was last may even exit;
* between `ready_queue_tail = task` and `ready_queue_head = task`.

`torn` remembers such a tick. The model goes on as the code does, down to tasks that are dispatched again
after their exit; `gone` are the tasks whose code has reached the loop at the end of `task_exit()`. Properties that say
`~torn =>` are about the time before, and what is claimed without it (`OneRunning`, `KeepsItsSlice`,
the frames, TTBR0) holds after it too. A task that is dispatched after its exit is taken to stay in that loop; its stack may have
been given to another task by then, and what it would do on it is not modelled.

### Pmm

`flags`, `order`, `refcount` are `struct page`; `free_list` the chain from
`free_lists[0]`; `held` what the callers have. `AllocOne` pops the list;
`AllocBlock` searches the descriptors from page 0 on and unlinks the pages of the
first run; `Free` gives a block back with the order it was asked for, as every
caller in `src/` does. The order of the list is kept, as page after page is pushed. `PageList` has the unlinking of a block (`Without`), for
`Pmm`, and the list that `next` pointers make (`Walk`), for `Creation`; `PageListProofs` says what they do to the pages
listed. `Without` gives the sequence by the rank of each page that stays, since the library's
`SelectSeq` is recursive and says nothing to the provers.

### Creation

`kernel_main` creates tasks with interrupts open, and whatever runs between two of its
statements may exit and push stacks on the free list. The list is the `next` pointers of the pages from `head`
on. `at` is the place in the creator, `got` and `prog` the pages it holds; `page`, `before`, `hit` and `rest` are the
locals of `alloc_pages()` and `free_pages()`: the page in hand, the page whose `next` the local `prev_ptr` points at (NULL: it
points at the head), whether the loop ended on the page it looked for, and the pages of the block still to be unlinked.
A step of `kernel_main` ends at its next access to the head. `ReadHead` and `Take` are `alloc_pages(0)`; `Search`, then
`Find` and `Take` for each page, is `alloc_pages(order)`: `Find` is the loop over `prev_ptr`, `Take` the `if (*prev_ptr)`
with what follows it; an exit may fall between the two, and with `Reread` the `if` reads `*prev_ptr` as it is then (`Unlinks`,
`Target`). `UndoLink` and `UndoPush` are `free_pages()` on the error path `Fail`. `Exit` and
`ExitUserStack` are the two frees of `task_exit()`; it runs with interrupts masked, so `kernel_main` does not come between
them. `hung` is the stop of `alloc_page_table()`, or of the loop on a list that has become a cycle.

The allocator loses pages here: a page pushed between `ReadHead` and `Take` is FREE but on no list, and
only a search for a block finds it again. It does worse when such a lost page is unlinked from an empty list and a
page is pushed between `Find` and `Take`: then the head becomes the lost page's stale link. `spoiled` remembers that; the model goes on,
and the properties that say `~spoiled =>` are about the time before. `Reread = FALSE` is a build that keeps
`*prev_ptr` in a register, which the compiler may do as nothing is volatile; there it cannot happen. The documents call
the build with `-O0` (`DEBUG=1`) the default.

### Exceptions

`frames` holds, per thread, the stack of handlers it is in; for each, the PSTATE that was
interrupted and where the handler is: at the call of `schedule()`, before re-arming the
timer, before the end of interrupt, in a system or hypervisor call, before loading
ELR/SPSR, before `eret`. `Preempt` switches the thread inside the handler; the thread
resumes there with the PSTATE of its SPSR, i.e. with interrupts open. `spsr` and `elr` are the
registers `eret` uses: those of EL1, or those of EL2, which `save_context` and
`restore_context` do not touch (`Restore`). `sp` is the stack that the kernel's stack pointer is in and
`saved_sp` the one in each context; every frame remembers the stack it was saved `on`. SP_EL0 has no variable:
nothing writes it. `line` is the timer, `active` the state of
its interrupt in the GIC. `boot` is the progress of `kernel_main`; "lost" means `eret` went
elsewhere. `el` is the level the kernel was entered at; `timely` says whether handlers are in time, i.e.
no whole timer interval of 10 ms passes between the re-arming and the `eret` of one of them. Both are
chosen at the start. `Taken` says when the processor
takes an interrupt: HCR_EL2 has neither IMO nor TGE, so never at EL2.
Constants say which worlds are meant: `RegisterEnables` (does registering a
handler enable the interrupt in the GIC; in the code it does not), `TaskMasks` (the I bits tasks
may start with; the code: set), `BootLevels` and `TimelyReturns` (the values of `el` and `timely`).

### Mmu

A virtual page is its four indices. `GetOrCreate` is `get_or_create_table()` over
the bump allocator; `MapIn` maps a page from a root; `Walk` is `mmu_get_physical()`;
`HardwareWalk` is what the processor does with TTBR0_EL1 and the start level that
T0SZ implies. `FillTlb` caches any translation at any time; switching a table clears the TLB,
`Unmap` removes one page, `Destroy` removes nothing. `unmap_page()`,
`mmu_get_physical()` and `mmu_destroy_user_table()` are in `mmu.h` but have no caller.

### Kmalloc

Memory is counted in words of eight bytes: object headers take three, page
headers two, so that an object's stale `next` pointer lies exactly where `kfree()`
looks for the magic of a page block. Callers overwrite what they are given (`Use`).

## 3. Runs

The runs of `Pmm`, `Mmu` and `Kmalloc` check for deadlock. The others do not, for there the system may really stop: it idles
for ever (`Exceptions`: nothing enables the interrupt; at EL2 none is taken), `kernel_main` stops for good when the
tables run out (`Creation`, `Sched`), or an exit finds nobody in a torn queue (`Sched`, `ReadyQueue`).

| Run | Shows | Bounds, and why they are enough |
|---|---|---|
| `sched_safety` | `TypeOK`, `OneRunning`, `ExitFindsSuccessor`, `FramesAccounted`, `FramesExclusive`, `AddressSpaceIsOwn`, `KeepsItsSlice`, `TaskLife` | 3 slots: the idle task, one that exits and one that stays or is being created; slices of 2, so that a slice can be partly used; 5 frames and images of 1 or 2 pages: one user task and a second that fails at each of its allocations (two at once are in `creation`, and in the theorems for any number); 6 tables: one user task gets its tables, the creation of the next one stops `kernel_main` (`hung`), and two root tables at once are in the theorem `AddressSpaceCorrect` only; sleeps of 0 and 1 ticks. Interrupts reach the tasks, which gives more interleavings than the code has. Frames are symmetric. |
| `sched_sleep` | violated: `SleepEnds` | as the code stands; sleeps of one tick. |
| `ready_queue` | `ListExact`, `ExitFindsSuccessor`, `TaskQueue` | 5 tasks: queues with a first, a last and middle elements while one task runs and one is half linked. |
| `ready_queue_irq` | violated: `ListAlwaysExact` | the same claim without `~torn`: a tick between two statements of `add_to_ready_queue()`. |
| `pmm` | `TypeOK`, `FreeListExact`, `BlocksExact`, `PageOwner` | 8 pages, one reserved in the lower half, orders 0 to 2: fragmentation that refuses a block though enough pages are free, runs that end at the last page and at the reserved one. |
| `creation` | `TypeOK`, `OneHolder`, `ListSound`, `ReturnsOnce`, `Accounted`, `PageOwner` | two tasks beside the idle one, exiting and created again; five pages: a user task with a program of one or two pages and a kernel task fit, a second user task fails at each of its allocations or for want of a run; an empty list with pages lost from it; two tables, then `hung`. |
| `creation_reread` | violated: `ListAlwaysSound` | the same claim without `~spoiled`. |
| `exceptions` | `TypeOK`, `HandlerNotReentered`, `InitialisedFirst`, `EretReturnsToOwn`, `HandlerPrivileged`, `OnlyIdleInterrupted`, `FramesOnOwnStack`, `OneTickPerExpiry`, `TimerKeepsFiring` | both boot levels; two kernel and two user tasks beside the idle one, each masked or not; handlers in time and not; handlers at most 2 deep (`MaxNest`), which a resumed handler with interrupts open reaches when it is late; interrupt enabled. `EretReturnsToOwn` and `TimerKeepsFiring` are claimed for handlers in time, the latter at EL1 and while `kernel_main` is not displaced for good. |
| `irq_disabled` | violated: `TimerKeepsFiring` | the code's GIC set-up. |
| `mmu` | `TypeOK`, `Trees`, `TlbCoherent`, `AddressSpaces` | 9 tables: two trees with separate and shared branches, or the space running out in the middle of a mapping. |
| `mmu_identity` | violated: `KernelStaysMapped` | the same, once the MMU is on. |
| `kmalloc` | `TypeOK`, `SlabListsExact`, `HeadersIntact`, `StatsExact`, `Heap` | two slabs; requests at and just above each boundary; three pages and blocks of one or two, so that pages change between blocks and slabs; statistics that wrap (`Width`); `MaxLive` 3 pieces at a time. |

What the violated runs say of the code:

* `sched_sleep`: `task_sleep()` polls the tick counter inside a system call, which masks the interrupt that
  counts, and `task_yield()` in its loop only empties the slice. Tasks A to C sleep for 500 to 1000 ms
  in their first iteration; none comes back. With interrupts open in tasks the result is the same.
* `ready_queue_irq`: `kernel_main`, which is the idle task, adds a task to the empty queue, and a tick comes after
  `ready_queue_tail = task` (`sched.c:180`) and before the head is tested (182). `schedule()` puts idle behind the new
  task *and* at the head, which is NULL; it takes idle off again, but as idle has a predecessor now the head is not
  moved. Idle runs on, finds a head and does not set it. Idle is RUNNING and at the head; the new task is
  READY and cannot be reached from the head. In longer behaviours of the same windows a task that has exited is
  dispatched again.
* `creation_reread`: the list is empty, page 4 is FREE but lost from it (its link still says 3), and the block 3, 4 is
  being unlinked. The loop for page 4 ends at the end of the empty list; a task exits and pushes page 2; the `if` now sees a page
  at `*prev_ptr`, and the head becomes 3, the first page of the same block. The next stack is cut from a program.
* `irq_disabled`: `gicd_init()` disables every interrupt, and `gic_enable_interrupt()` has no
  caller, so no tick ever comes; the manual says that both `irq_register_handler()` and
  `timer_init()` enable it.
* `mmu_identity`: the identity mappings are reachable from TTBR1_EL1, but their addresses are
  translated by TTBR0_EL1, which `mmu_enable()` sets to 0. (Besides, T0SZ = 25 makes the hardware
  start at level 1, while the tables are built from level 0.)

The first three of these need an interrupt that is enabled; the project treats
each divergence by itself, holding the others as documented.

What the passing runs show beside: the comments beside 0x3C5 and 0x3C0 in `sched.c` say "IRQs enabled"
while bit 7, I, is set, so tasks run masked. `OnlyIdleInterrupted` shows that clearing the bit would not
give the preemption the README announces: `schedule()` is called before the timer is re-armed and
the interrupt ended, and the handler that would do both belongs to `kernel_main`, which waits in the queue. Until
each task dispatched meanwhile has exited, no further tick comes. Tasks A to C of `kernel_main` never exit, so with the interrupt enabled
the first of them would keep the processor. `TimerKeepsFiring` says no more than the code gives: ticks go on as long as `kernel_main` is not
displaced for good. It claims nothing at EL2, where the Makefile starts the kernel: no interrupt is ever taken there.

`FramesOnOwnStack` shows that every handler has its thread's stack to itself, but not that it is the one meant for
it. `task_create_user()` makes a kernel stack "for exception entry" (`sched.c:402`) and then puts the *user* stack into
`context.sp`, which `switch_context()` moves into the stack pointer of the kernel's level (`OwnStack` in
`ExceptionsProofs` says so for all tasks). So a system call is handled on a page the user program can write to,
mapped through the TTBR0_EL1 that `schedule()` in `task_exit()` replaces; the kernel stack is never used, and SP_EL0 never
set. The two programs in `user/` use no stack, so they do not notice.

## 4. Fairness

* `Sched!PreemptiveSpec`: strong fairness of `Tick`, because a timer interrupt that is due stays pending
  until the I bit clears, for however short a time, and of `SleepPoll`, since a task that has the
  processor executes. `sched_sleep` grants this much and is violated all the same.
* `Exceptions!FairSpec`: weak fairness of the boot, of the handlers, of the timer's interval and of taking an
  interrupt that is signalled and not masked. Of tasks nothing is asked: neither that they exit (Tasks A to C
  never do) nor that they call.
* That every ready task is dispatched in the end is *not* claimed: it would need tasks that exit.
* The safety properties need none.

## 5. Proofs

`SchedProofs`, for every number of slots, frames and tables, every slice length and image size, and for masked and
unmasked tasks, from `SchedAssumption` alone:

* `TypeCorrect`, with what the pointers and `at` need to be of their types.
* `OneRunningCorrect` and `KeepsItsSliceCorrect` rest on little: a dispatch makes one task RUNNING and the one before READY or
  TERMINATED, whatever the queue looks like. So they hold on a torn queue too.
* `ExitFindsSuccessorCorrect` rests on the queue. Each step of `Sched` is a step of `ReadyQueue` or leaves its
  variables alone (`QueueSteps`), so the invariant of `ReadyQueueProofs` is used here by instance (`RQ`).
* `FramesExclusiveCorrect`, `AddressSpaceCorrect`, `FramesAccountedCorrect`: the frames that are free, in the hands of a
  creation, and held by each live task are disjoint, and with the programs of dead tasks they are all. What makes that inductive is what the place in the
  creator implies: the entry being filled belongs to no live task, `got` is what was taken so far, a live task has a root table
  exactly if it is a user task (else the branch of `schedule()` that leaves TTBR0_EL1 alone could not be excluded), and
  no entry refers to a root table still to be handed out. Nothing of it depends on the queue.
* `ImplementsTaskLife`: `Fill` maps to `Spawn`; an expired slice or an exit that changes the
  current task maps to `Dispatch`, for which the head of the queue must be READY, hence `~torn`; everything else stutters.

`ExceptionsProofs`, for every set of tasks, both boot levels, tasks masked or not, handlers in time or not and
every bound on the nesting, from `ExceptionsAssumption` alone: `TypeCorrect`, `HandlerNotReenteredCorrect`,
`OnlyIdleInterruptedCorrect`, `FramesOnOwnStackCorrect`, `InitialisedFirstCorrect`, `HandlerPrivilegedCorrect`, `EretReturnsToOwnCorrect`
and `OneTickPerExpiryCorrect`. All rest on one inductive invariant, `IInv`. Its core are two parts that need one
another: `ActiveInIdle` (the interrupt is active exactly while the last handler of `kernel_main` is the timer's and
before its end of interrupt) and `TasksInCalls` (a task runs only while `kernel_main` waits in the middle of that
handler, hence with the interrupt active, so that the GIC signals no other; and `kernel_main` waits in the queue,
so that an exit finds it). `Levels` carries the exception level through the contexts that are switched. `Returns`
is about handlers in time: none of `kernel_main` interrupts another, because the timer stays armed from
the re-arming to the `eret`. `Rest` adds that the queue holds no thread twice, for `TypeOK`, and `Own`, for `FramesOnOwnStack`,
that the context of every queued thread has its own stack.

`PmmProofs`, for every memory size, kernel image, reserved region and `MAX_ORDER`: `TypeCorrect`,
`FreeListCorrect`, `BlocksCorrect`. The three invariants together are inductive and no less will do: that
`FreeListExact` survives a search in the descriptors needs it to hold before (a run of FREE pages is a run of
listed pages), and that pushing a block back lists no page twice needs `BlocksExact` (its pages are USED, with the
references that make `free_pages()` act). `ImplementsOwner` is the refinement: every call is a `Grant`, a `Reclaim` or
changes neither the free pages nor what is held. The search takes the first run: that there is a first one is the
least-element principle of the naturals. `ExclusiveCorrect` states the abstract allocator's own property, that holders are
disjoint and never hold the kernel image, of `Pmm`, from the same invariant. `^` means nothing to the provers, so `PmmAssumption` says of it
what the proofs use (`2^k` is between 1 and the number of pages, for the orders asked for), and TLC evaluates that.

`CreationProofs`, for every number of slots, tables, pages and image sizes, with and without the second read: `TypeCorrect`, `ListCorrect`,
`ListCorrectWithOneRead`, `OneHolderCorrect`, `ReturnsCorrect`, `AccountedCorrect` and `ImplementsOwner`. The inductive invariant has two
halves. `Base` holds whatever becomes of the list: `Place` (how many pages the creator holds at each statement, and that
the entry it fills is nobody else's), `Taking` (the block of a program, page by page), `Stacked` (the stacks an exit will give
back are there) and `Claimed` (every USED page has a holder). `Good` holds until the list is spoiled: `Locals`, `Listed` (from the
head lies a chain of FREE pages that ends), `Ahead` (so it does from the `next` of the page in hand, and what the loop found is as
it was or hidden behind pages pushed since: exits only push, only the creator takes), `Apart` (the holders are disjoint) and `Marked` (a held page is USED
with the reference its return expects). Writing back a stale head only *loses* pages, and `Ahead` is why: without it nothing would
keep the pages it leads to from having been granted in between. `Reread = FALSE` never spoils. A list that is a chain is what `Walk`
finds, which `PageListProofs` shows (`Chain`: links lead to pages of smaller depth, so that they cannot
form a cycle). `ImplementsOwner` maps the statement that marks a page USED, or chooses a block, to `Grant` and the one that
clears the mark to `Reclaim`.

`MmuProofs`, for every number of tables, pages, frames and both start levels, from `MmuAssumption` alone:
`TypeCorrect`, `TreesCorrect`, `TlbCorrect` (the action property `TlbCoherent`) and `ImplementsAddressSpaces`. The invariant is
`Sound`: to each table a level and a root can be given such that descriptors point one level down in the same tree,
pages are on the last level only, no two descriptors point at one table, and the tables not handed out are empty. No
less is inductive: `get_or_create_table()` follows any descriptor that is not empty, so that it never follows one of
a page needs the levels, and that a mapping changes no other address space needs the roots. `Sound` is kept by one step down
(`GetOrCreateGrows`), hence by three (`DescentGrows`), by writing a last-level descriptor (`LeafKeepsForest`) and by a
new root (`RootKeepsForest`), also when the space runs out half-way. Then walks are compared: from another root the
same tables are read (`WalkElsewhere`), from the same root new tables are empty (`GrowthKeepsWalks`), and no other page
goes the same way (`OneWay`, `LeafKeepsWalks`). `TlbCorrect` needs in addition that the code writes only to trees that
have not been in TTBR0_EL1 (`Installed`) and that nothing is cached that was not found (`Cached`).

`ReadyQueueProofs`, for every set of slots, with interrupts open in the creators: `ListCorrect`, `ExitFindsSuccessorCorrect` and
`ImplementsQueue`. The invariant: until a tick comes in a window there is a sequence of slots
that the pointers represent, complete except between the statements of `add_to_ready_queue()` in `kernel_main`, where it
says which pointers are still to be written and what a tick or an exit outside the windows makes of them. That the idle task
is not TERMINATED makes an exit find a successor. `ListExact` follows the pointers with a
recursive function: the proof exhibits what it must be for the represented sequence, and excludes any other solution
of the recursion by a least argument at which they differ.

`KmallocProofs`, for every list of slab sizes, page size, number of pages, `MAX_ORDER`, set of requests and counter width
allowed by `KmallocAssumption`: `TypeCorrect`, `HeadersCorrect`, `SlabListsCorrect`, `StatsCorrect` and `ImplementsHeap`.
`PowerAssumption` says of `^` what the proofs use, and TLC evaluates it. The inductive invariant is `Types` and
`Laid`: there are a kind for each page (the slab it was cut for, or none) and a sequence for each slab such that
`Cut` (no page that was cut is given out again), `Headers` (each object of a cut page, free or not, has its size and magic),
`Lists` (the links give those sequences), `Pieces` (what is in use is an object on no list, or a block of pages that were not
cut, with its header) and `Separate`. Less is not inductive: that a caller's writes leave the links of free objects alone
needs to know where all objects are. `SlabListsCorrect` solves the recursion of `Chain` as above. `StatsCorrect` adds
`Balance`: `total_allocated` is `total_freed` plus the words in use, or `Width` less. The sum over a set becomes a
cardinality: pieces are disjoint, so what is counted is the number of their words (`SumIs`), and a piece is new because no
piece in use lies on a free page (`PieceOffFreePages`) or at the head of a list (`PieceOffHeads`). That it stays below
`Width` is the assumption that memory is smaller than 2^64.

Only model-checked: liveness (`TimerKeepsFiring`), which the prover does not
reach. Every other property of the passing runs is stated by a theorem.

## 6. Plan

1. `kmalloc` with the width of `size_t`: `size + sizeof(header)`, `nmemb * size`, `PAGE_SIZE << order`.
2. What of the free list can still be relied on after it is spoiled.

## 7. What is not modelled

* **Hypervisor counters**, the dump, and `hypervisor_handle_trap()`, which has no caller: no other component
  reads them. **UART**, **strings**, **user programs**: input and output, loops over bytes, two fixed
  programs; `Sched` lets a user task make any sequence of calls instead.
* **FIQ, SError, unexpected synchronous exceptions** print and stop the machine.
  `irq_unregister_handler()`, `gic_disable_interrupt()` and `gic_set_priority()` have no caller.
* **EL2 beyond exceptions.** The Makefile starts QEMU with `virtualization=on`, and `entry.S` stays at EL2 when
  entered there. `Exceptions` models both levels; `Sched` and `Mmu` follow the EL1 registers the code writes
  (TTBR0_EL1, SPSR_EL1), i.e. an entry at EL1, which `entry.S` supports too.
* **General registers**, and the place within a stack: `Exceptions` keeps PSTATE, SPSR, ELR and the stack of a
  context, and takes pushes and pops to be balanced. The mapping of a user stack through TTBR0_EL1 is in
  `Sched` (`AddressSpaceIsOwn`), not in `Exceptions`.
* **Memory ordering**: all models are sequentially consistent, so barriers do not show.
* **Sizes near 2^64** in the heap, and images above eight pages, which `task_create_user()`
  would copy past their block.
* `main_zone.free_pages` in `Creation`: its updates get lost in the same windows as pages do; only
  `pmm_dump_stats()` reads it. `Pmm` checks it for whole calls.
* Task ids, which repeat after 2^32 creations; nothing looks a task up by its id. Tables are never given back and a
  shortage stops `kernel_main` (`NoTables`).
* The state of PSTATE at entry: `_start` does not mask interrupts, and `Exceptions` takes them to be masked, as firmware
  and QEMU leave them. The check for a spurious interrupt in `handle_irq_exception()`, which cannot succeed while the only
  interrupt stays due until it is acknowledged.
* After `mmu_destroy_user_table()` translations of the destroyed table stay usable until another is
  installed; `TlbCoherent` names this exception.
