------------------------------ MODULE Exceptions ------------------------------
(***************************************************************************)
(* The ways into the kernel and back: the initialisation order of          *)
(* kernel_main at EL1 and at EL2, the GIC as drivers/gic.c programs it,    *)
(* the vectors of entry.S, the timer interrupt, system and hypervisor      *)
(* calls in core/exception.c, core/syscall.c and core/hypervisor.c, the    *)
(* handler table of core/irq.c, timer_irq_handler() of drivers/timer.c     *)
(* and the context switch of sched/switch.S in the middle of it all.       *)
(*                                                                         *)
(* A handler is split at every point where the processor may be given to   *)
(* another thread or an interrupt may be taken.  A thread that is switched *)
(* out inside the handler resumes inside it, with PSTATE from SPSR_EL1:    *)
(* the level and mask of the code the exception interrupted, before the    *)
(* handler has reached its end.                                            *)
(*                                                                         *)
(* Time slices are left to Sched: schedule() may switch at any tick.  Of   *)
(* the GIC, the timer's PPI is modelled: it is the only interrupt with a   *)
(* handler, so the checks of the interrupt number do not show.  Left out   *)
(* are sleeps of a positive time, which never return (Sched), the results  *)
(* of calls in x0, the counters, the exceptions that stop the machine, and *)
(* the check for a spurious interrupt: the only one signalled stays due    *)
(* until it is acknowledged.                                               *)
(*                                                                         *)
(* PSTATE.I is taken to be set at entry, as firmware and QEMU leave it:    *)
(* _start does not set it.                                                 *)
(***************************************************************************)
EXTENDS Naturals, Sequences, FiniteSets

CONSTANTS
  Tasks, Idle,
  UserTasks,         \* the tasks task_create_user() makes
  BootLevels,        \* levels the kernel may be entered at
  RegisterEnables,   \* does registering a handler enable the interrupt in the
                     \* GIC?  The code: FALSE.  USER_MANUAL: TRUE
  TaskMasks,         \* PSTATE.I of new tasks.  The code: {TRUE} (0x3C5, 0x3C0),
                     \* the comments there: {FALSE}
  TimelyReturns,     \* values of timely
  MaxNest            \* bound: how deep handlers nest on one stack

ASSUME ExceptionsAssumption ==
  /\ Idle \in Tasks /\ IsFiniteSet(Tasks)
  /\ UserTasks \subseteq Tasks \ {Idle} /\ BootLevels \subseteq {1, 2}
  /\ RegisterEnables \in BOOLEAN /\ TaskMasks \subseteq BOOLEAN
  /\ TimelyReturns \subseteq BOOLEAN /\ MaxNest \in Nat \ {0}

VARIABLES
  boot,         \* the next step of kernel_main's initialisation
  registered,   \* irq_handlers[IRQ_TIMER_PHYS].handler is set
  enabled,      \* GICD_ISENABLER bit of the timer
  line,         \* the timer: "off", "armed", "due", or "taken" while a due
                \* interrupt was acknowledged but the timer is not re-armed
  active,       \* acknowledged, no end of interrupt written
  el,           \* the level the kernel runs at: the one it was entered at
  timely,       \* does a handler always return within a timer interval (10 ms)
                \* of re-arming the timer?
  pstate,       \* PSTATE: I, and the level
  spsr,         \* what eret would make of PSTATE: SPSR_EL1 or SPSR_EL2
  elr,          \* whose return address eret would use: the depth of a frame,
                \* or 0 for a place inside schedule()
  frames,       \* for each thread, the handlers it is in, the last one running
  saved,        \* SPSR in the context of each thread that is switched out
  sp,           \* the stack the kernel's stack pointer is in
  saved_sp,     \* sp in the context of each thread
  current, ready

gic  == <<registered, enabled, active>>
cpu  == <<pstate, spsr, elr>>
task == <<saved, sp, saved_sp, current, ready>>
world == <<el, timely>>
vars == <<boot, gic, line, world, cpu, frames, task>>

Masked(l) == [i |-> TRUE, el |-> l]
Open(l)   == [i |-> FALSE, el |-> l]

\* Each thread has a stack for the kernel, a user task also one for EL0.
Stacks == [kind : {"kernel", "user"}, of : Tasks]

KernelStack(t) == [kind |-> "kernel", of |-> t]
UserStack(t)   == [kind |-> "user", of |-> t]

Init ==
  /\ el \in BootLevels /\ timely \in TimelyReturns
  /\ boot = IF el = 2 THEN "hypervisor" ELSE "gic"
  /\ registered = FALSE /\ enabled = FALSE /\ active = FALSE
  /\ line = "off"
  /\ pstate = Masked(el) /\ spsr = Masked(el) /\ elr = 0
  /\ frames = [t \in Tasks |-> <<>>]
  /\ saved = [t \in Tasks |-> Masked(el)]
  /\ sp = KernelStack(Idle) /\ saved_sp = [t \in Tasks |-> KernelStack(Idle)]
  /\ current = Idle /\ ready = <<>>

-----------------------------------------------------------------------------
(* kernel_main                                                             *)

\* hypervisor_init(), at EL2 only: HCR_EL2 is RW and nothing else.
BootHypervisor ==
  /\ boot = "hypervisor" /\ boot' = "gic"
  /\ UNCHANGED <<gic, line, world, cpu, frames, task>>

\* gic_init(): every interrupt disabled, the distributor on.
BootGic ==
  /\ boot = "gic" /\ boot' = "irq"
  /\ enabled' = FALSE /\ active' = FALSE
  /\ UNCHANGED <<registered, line, world, cpu, frames, task>>

\* irq_init(): the handler table is cleared.
BootIrq ==
  /\ boot = "irq" /\ boot' = "timer"
  /\ registered' = FALSE
  /\ UNCHANGED <<enabled, active, line, world, cpu, frames, task>>

\* irq_register_handler(): the table entry is set, and nothing else.
Register ==
  /\ registered' = TRUE
  /\ enabled' = (enabled \/ RegisterEnables)

\* Variant: interrupts are opened along with the timer.
BootTimerUnmasks ==
  /\ boot = "timer" /\ boot' = "sched"
  /\ Register
  /\ line' = "armed"
  /\ pstate' = Open(el)
  /\ UNCHANGED <<active, world, spsr, elr, frames, task>>

\* timer_init(): the handler is registered and the timer started.
BootTimer ==
  /\ boot = "timer" /\ boot' = "sched"
  /\ Register
  /\ line' = "armed"
  /\ UNCHANGED <<active, world, cpu, frames, task>>

\* sched_init() makes kernel_main the idle task; then msr daifclr, #2.
BootUnmask ==
  /\ boot = "sched" /\ boot' = "run"
  /\ pstate' = Open(el)
  /\ UNCHANGED <<gic, line, world, spsr, elr, frames, task>>

Boot == BootHypervisor \/ BootGic \/ BootIrq \/ BootTimer \/ BootUnmask

-----------------------------------------------------------------------------
(* The interrupt                                                           *)

Depth == Len(frames[current])

At(stage) == Depth > 0 /\ frames[current][Depth].at = stage

\* The running handler goes on to its next stage.
GoOn(stage) == frames' = [frames EXCEPT ![current][Depth].at = stage]

\* The interval ends.
Expire ==
  /\ line = "armed"
  /\ timely => ~At("eoi") /\ ~At("restore") /\ ~At("eret")
  /\ line' = "due"
  /\ UNCHANGED <<boot, gic, world, cpu, frames, task>>

\* What the GIC signals: an enabled interrupt, unless one of its priority is
\* active; the level stays up until the timer is re-armed.
Signalled == enabled /\ ~active /\ line \in {"due", "taken"}

\* irq_handle(): the registered handler runs, up to its call of schedule();
\* without one, only the end of interrupt is left to do.
IrqHandle == IF registered THEN "schedule" ELSE "eoi"

\* With IMO and TGE of HCR_EL2 clear an interrupt is for EL1: it is not taken
\* at EL2, whatever PSTATE.I is.
Taken == Signalled /\ el = 1 /\ ~pstate.i /\ boot # "lost" /\ Depth < MaxNest

\* An exception: the vectors save the context on the thread's stack and call
\* the handler, which begins at stage.
Enter(stage) ==
  /\ frames' = [frames EXCEPT ![current] = Append(@, [at |-> stage, ps |-> pstate, on |-> sp])]
  /\ spsr' = pstate /\ pstate' = Masked(el) /\ elr' = Depth + 1

\* Variant: the end of interrupt is written along with the acknowledge.
TakeEndsAtOnce ==
  /\ Taken
  /\ Enter(IrqHandle)
  /\ active' = FALSE /\ line' = "taken"
  /\ UNCHANGED <<boot, registered, enabled, world, task>>

\* handle_irq_exception(): the interrupt is acknowledged and irq_handle() called.
Take ==
  /\ Taken
  /\ Enter(IrqHandle)
  /\ active' = TRUE /\ line' = "taken"
  /\ UNCHANGED <<boot, registered, enabled, world, task>>

\* schedule() returns: the time slice is not used up.
KeepRunning ==
  /\ At("schedule")
  /\ GoOn("rearm")
  /\ UNCHANGED <<boot, gic, line, world, cpu, task>>

\* Variant: the thread that is given the processor stays in the queue.
SwitchKeepsHead(q, c) ==
  LET n == Head(q)
  IN  /\ current' = n /\ ready' = q
      /\ saved' = c /\ saved_sp' = [saved_sp EXCEPT ![current] = sp] /\ sp' = saved_sp'[n]
      /\ pstate' = c[n] /\ spsr' = c[n] /\ elr' = 0

\* Variant: the stack pointer is saved and not restored.
SwitchKeepsStack(q, c) ==
  LET n == Head(q)
  IN  /\ current' = n /\ ready' = Tail(q)
      /\ saved' = c /\ saved_sp' = [saved_sp EXCEPT ![current] = sp] /\ sp' = sp
      /\ pstate' = c[n] /\ spsr' = c[n] /\ elr' = 0

\* switch_context() to the head of queue q, the contexts being c.  sp is the
\* one of the kernel's level, for a task of EL0 too: SP_EL0 is never written.
SwitchTo(q, c) ==
  LET n == Head(q)
  IN  /\ current' = n /\ ready' = Tail(q)
      /\ saved' = c /\ saved_sp' = [saved_sp EXCEPT ![current] = sp] /\ sp' = saved_sp'[n]
      /\ pstate' = c[n] /\ spsr' = c[n] /\ elr' = 0

\* Variant: the interrupt is ended before the processor is given away.
PreemptEnds ==
  /\ At("schedule")
  /\ GoOn("rearm")
  /\ SwitchTo(Append(ready, current), [saved EXCEPT ![current] = spsr])
  /\ active' = FALSE
  /\ UNCHANGED <<boot, registered, enabled, line, world>>

\* schedule() requeues the thread and switches to the head of the queue, which
\* is the same thread when no other is ready.
Preempt ==
  /\ At("schedule")
  /\ GoOn("rearm")
  /\ SwitchTo(Append(ready, current), [saved EXCEPT ![current] = spsr])
  /\ UNCHANGED <<boot, gic, line, world>>

\* Variant: the handler returns to its caller without setting the timer.
NoRearm ==
  /\ At("rearm")
  /\ GoOn("eoi")
  /\ UNCHANGED <<boot, gic, line, world, cpu, task>>

\* The handler sets the timer again ...
Rearm ==
  /\ At("rearm")
  /\ line' = "armed"
  /\ GoOn("eoi")
  /\ UNCHANGED <<boot, gic, world, cpu, task>>

\* Variant: the end of interrupt is not written.
NoEndOfInterrupt ==
  /\ At("eoi")
  /\ GoOn("restore")
  /\ UNCHANGED <<boot, gic, line, world, cpu, task>>

\* ... gic_end_of_interrupt() ...
EndOfInterrupt ==
  /\ At("eoi")
  /\ active' = FALSE
  /\ GoOn("restore")
  /\ UNCHANGED <<boot, registered, enabled, line, world, cpu, task>>

\* ... restore_context loads ELR_EL1 and SPSR_EL1 from the frame, which at EL2
\* are not the registers eret uses ...
Restore ==
  /\ At("restore")
  /\ IF el = 1 THEN elr' = Depth /\ spsr' = frames[current][Depth].ps
               ELSE UNCHANGED <<elr, spsr>>
  /\ GoOn("eret")
  /\ UNCHANGED <<boot, gic, line, world, pstate, task>>

\* ... and eret uses them: an exception taken in between has replaced them, and
\* then the processor goes to the wrong place.
Eret ==
  /\ At("eret")
  /\ pstate' = spsr
  /\ IF elr = Depth
     THEN frames' = [frames EXCEPT ![current] = SubSeq(@, 1, Depth - 1)] /\ UNCHANGED boot
     ELSE boot' = "lost" /\ UNCHANGED frames
  /\ UNCHANGED <<gic, line, world, spsr, elr, task>>

-----------------------------------------------------------------------------
(* Threads and their calls                                                 *)

InThread == boot = "run" /\ Depth = 0

\* kernel_main creates a task: its context starts with the level and the mask
\* of 0x3C5 or 0x3C0, and with the top of its kernel stack or of its user stack.
Create(t) ==
  /\ InThread /\ current = Idle
  /\ t # Idle /\ \A i \in 1..Len(ready) : ready[i] # t
  /\ \E i \in TaskMasks :
       saved' = [saved EXCEPT ![t] = [i |-> i, el |-> IF t \in UserTasks THEN 0 ELSE 1]]
  /\ saved_sp' = [saved_sp EXCEPT ![t] = IF t \in UserTasks THEN UserStack(t) ELSE KernelStack(t)]
  /\ ready' = Append(ready, t)
  /\ UNCHANGED <<boot, gic, line, world, cpu, frames, sp, current>>

\* A task executes SVC: with SYS_EXIT, or with a call that returns.
SystemCall(stage) ==
  /\ InThread /\ current # Idle
  /\ Enter(stage)
  /\ UNCHANGED <<boot, gic, line, world, task>>

\* kernel_main tries HVC when it was entered at EL2, before it creates tasks.
HypervisorCall ==
  /\ InThread /\ current = Idle /\ el = 2 /\ ready = <<>>
  /\ Enter("call")
  /\ UNCHANGED <<boot, gic, line, world, task>>

\* Variant: SYS_YIELD calls schedule() instead of emptying the slice.
CallSwitches ==
  /\ At("call")
  /\ GoOn("restore")
  /\ SwitchTo(Append(ready, current), [saved EXCEPT ![current] = spsr])
  /\ UNCHANGED <<boot, gic, line, world>>

\* syscall_handler() or hypervisor_handle_hvc() returns.
CallReturns ==
  /\ At("call")
  /\ GoOn("restore")
  /\ UNCHANGED <<boot, gic, line, world, cpu, task>>

\* task_exit(): the stack is given back with the frames on it, and the
\* processor goes to the head of the queue.
Exit ==
  /\ At("exit")
  /\ frames' = [frames EXCEPT ![current] = <<>>]
  /\ SwitchTo(ready, [saved EXCEPT ![current] = spsr])
  /\ UNCHANGED <<boot, gic, line, world>>

Handler == \/ KeepRunning \/ Preempt \/ Rearm \/ EndOfInterrupt \/ Restore \/ Eret
           \/ CallReturns \/ Exit

Next ==
  \/ Boot
  \/ Expire
  \/ Take
  \/ boot # "lost" /\ Handler
  \/ \E t \in Tasks : Create(t)
  \/ \E stage \in {"call", "exit"} : SystemCall(stage)
  \/ HypervisorCall

Spec == Init /\ [][Next]_vars

\* The processor executes the kernel, the timer runs, and an interrupt that is
\* signalled and not masked is taken.  Of tasks nothing is asked: one may run
\* for ever, as Tasks A to C of kernel_main do.
FairSpec == Spec /\ WF_vars(Boot) /\ WF_vars(Expire) /\ WF_vars(Take)
                 /\ WF_vars(boot # "lost" /\ Handler)

-----------------------------------------------------------------------------
(* Properties                                                              *)

PStates == [i : BOOLEAN, el : 0..2]

Frames == [at : {"schedule", "rearm", "eoi", "call", "exit", "restore", "eret"},
           ps : PStates, on : Stacks]

(* Every variable has its type.                                            *)
TypeOK ==
  /\ boot \in {"hypervisor", "gic", "irq", "timer", "sched", "run", "lost"}
  /\ registered \in BOOLEAN /\ enabled \in BOOLEAN /\ active \in BOOLEAN
  /\ line \in {"off", "armed", "due", "taken"}
  /\ el \in BootLevels /\ timely \in TimelyReturns
  /\ pstate \in PStates /\ spsr \in PStates /\ elr \in 0..MaxNest
  /\ \A t \in Tasks : /\ Len(frames[t]) <= MaxNest
                      /\ \A j \in 1..Len(frames[t]) : frames[t][j] \in Frames
  /\ saved \in [Tasks -> PStates] /\ sp \in Stacks /\ saved_sp \in [Tasks -> Stacks]
  /\ current \in Tasks /\ ready \in Seq(Tasks) /\ Len(ready) < Cardinality(Tasks)

\* <<t, j>>: handler j of thread t is the timer's, before its end of interrupt.
Unfinished == {u \in Tasks \X (1..MaxNest) :
                 /\ u[2] <= Len(frames[u[1]])
                 /\ frames[u[1]][u[2]].at \in {"schedule", "rearm", "eoi"}}

(* Of all threads, switched out ones included, at most one is in the       *)
(* timer's handler before its end of interrupt, although a resumed handler *)
(* runs with interrupts open: schedule(), which has no lock of its own, is *)
(* never entered by the timer while it is in progress.                     *)
HandlerNotReentered == Cardinality(Unfinished) = IF active THEN 1 ELSE 0

(* One expiry of the timer is counted as one tick: when an interrupt is    *)
(* acknowledged the timer has expired since the last acknowledge.  The     *)
(* handler re-arms the timer before handle_irq_exception() ends the        *)
(* interrupt; the other order would count the same expiry again wherever   *)
(* a resumed handler runs with interrupts open.                            *)
OneTickPerExpiry == [][active' /\ ~active => line = "due"]_vars

(* An interrupt finds its handler, the queue and the idle task ready: none *)
(* is taken before kernel_main has initialised them.                       *)
InitialisedFirst == \A t \in Tasks : frames[t] # <<>> => registered /\ boot \in {"run", "lost"}

(* "Timer interrupts firing at 100Hz" (README): at EL1, and if handlers    *)
(* return in time, ticks cease only when kernel_main has lost the          *)
(* processor for good.  It re-arms the timer and ends the interrupt for    *)
(* all tasks dispatched meanwhile; one of them that never exits is where   *)
(* the claim of the README ends, for then no tick comes.                   *)
TimerKeepsFiring ==
  el = 1 /\ timely => []<><<Take>>_vars \/ <>[](current # Idle)

(* "Full context save/restore" (entry.S): eret returns from a handler to   *)
(* where that handler's thread was interrupted, with the PSTATE it had.    *)
(* At EL1 a handler resumed after a switch ends with interrupts open, so   *)
(* this rests on handlers that return in time and on the timer being       *)
(* re-armed before the interrupt is ended; at EL2, where the frame does    *)
(* not have the registers eret uses, on no exception being taken inside    *)
(* another.                                                                *)
EretReturnsToOwn ==
  timely /\ At("eret") => elr = Depth /\ spsr = frames[current][Depth].ps

(* The timer interrupts kernel_main and no task, and would do so if tasks  *)
(* ran with interrupts open: the interrupt in which kernel_main is         *)
(* switched out stays active, and the timer unarmed, until it comes back.  *)
OnlyIdleInterrupted == \A u \in Unfinished : u[1] = Idle

(* The kernel's own code never runs at EL0: switch_context() resumes a     *)
(* thread inside the kernel with the SPSR of whatever the exception        *)
(* interrupted, which would be EL0 if a user task were ever preempted.     *)
HandlerPrivileged == Depth > 0 => pstate.el = el

(* "Restore SP" (switch.S): a handler that goes on after any switches      *)
(* finds its frames on the stack its stack pointer is in, and that stack   *)
(* belongs to its thread and to no other.                                  *)
FramesOnOwnStack ==
  /\ \A j \in 1..Depth : frames[current][j].on = sp
  /\ sp.of = current
=============================================================================
