-------------------------- MODULE ExceptionsProofs --------------------------
(***************************************************************************)
(* Theorems about Exceptions, for every set of tasks, both levels, every   *)
(* bound on the nesting, tasks masked or not and handlers in time or not.  *)
(***************************************************************************)
EXTENDS Exceptions, FiniteSetTheorems, TLAPS

Stages  == {"schedule", "rearm", "eoi", "call", "exit", "restore", "eret"}
InTimer == {"schedule", "rearm", "eoi"}

-----------------------------------------------------------------------------
(* The inductive invariant                                                 *)

\* What TypeOK says, without the length of the ready queue.
Types ==
  /\ boot \in {"hypervisor", "gic", "irq", "timer", "sched", "run", "lost"}
  /\ registered \in BOOLEAN /\ enabled \in BOOLEAN /\ active \in BOOLEAN
  /\ line \in {"off", "armed", "due", "taken"}
  /\ el \in {1, 2} /\ timely \in BOOLEAN
  /\ pstate \in PStates /\ spsr \in PStates /\ elr \in Nat
  /\ frames \in [Tasks -> Seq(Frames)]
  /\ \A t \in Tasks : Len(frames[t]) <= MaxNest
  /\ saved \in [Tasks -> PStates]
  /\ sp \in Stacks /\ saved_sp \in [Tasks -> Stacks]
  /\ current \in Tasks /\ ready \in Seq(Tasks)

\* Until kernel_main opens interrupts there is no handler, and when it does
\* the timer has its entry in the table.
BootOrder ==
  /\ boot \notin {"run", "lost"} =>
       pstate.i = TRUE /\ \A t \in Tasks : Len(frames[t]) = 0
  /\ boot \in {"sched", "run", "lost"} => registered

\* The timer's interrupt is active while the last handler of kernel_main is the
\* timer's, not yet past its end of interrupt, and only then.
ActiveInIdle ==
  /\ \A j \in 1..Len(frames[Idle]) :
       /\ frames[Idle][j].at \in InTimer <=> active /\ j = Len(frames[Idle])
       /\ frames[Idle][j].at # "exit"
  /\ active => Len(frames[Idle]) > 0
  /\ line = "taken" => active /\ frames[Idle][Len(frames[Idle])].at # "eoi"

\* A task runs while kernel_main waits in the middle of the timer's handler; it
\* is in a system call at most.
TasksInCalls ==
  /\ current # Idle => /\ active /\ frames[Idle][Len(frames[Idle])].at = "rearm"
                       /\ \E i \in 1..Len(ready) : ready[i] = Idle
  /\ \A t \in Tasks \ {Idle} :
       /\ t # current => Len(frames[t]) = 0
       /\ Len(frames[t]) <= 1
       /\ \A j \in 1..Len(frames[t]) : frames[t][j].at \notin InTimer
  /\ current # Idle /\ Len(frames[current]) = 1 => elr = 1

\* kernel_main and its handlers are at the kernel's level, wherever it is kept,
\* and so is a task in a system call.
Levels ==
  /\ current = Idle => pstate.el = el /\ spsr.el = el
  /\ current # Idle /\ Len(frames[current]) > 0 => pstate.el = el
  /\ saved[Idle].el = el
  /\ \A j \in 1..Len(frames[Idle]) : frames[Idle][j].ps.el = el

\* If handlers return in time, none of kernel_main interrupts another, and the
\* registers for eret are those of its frame once they are loaded (EL1) or
\* from the start (EL2).
Returns ==
  timely =>
    /\ boot # "lost"
    /\ Len(frames[Idle]) <= 1
    /\ el = 1 => \A j \in 1..Len(frames[Idle]) :
         /\ frames[Idle][j].at # "call"
         /\ frames[Idle][j].at \in {"eoi", "restore", "eret"} => line = "armed"
    /\ el = 2 => /\ ~ active
                 /\ \A j \in 1..Len(frames[Idle]) : elr = 1 /\ spsr = frames[Idle][j].ps
    /\ At("eret") => elr = Depth /\ spsr = frames[current][Depth].ps

IInv == Types /\ BootOrder /\ ActiveInIdle /\ TasksInCalls /\ Levels /\ Returns

-----------------------------------------------------------------------------
(* What the actions do to the frames                                       *)

(* A handler that goes on changes the stage of the last frame only. *)
LEMMA GoOnFrames ==
  ASSUME Types, Depth > 0, NEW stage \in Stages, GoOn(stage)
  PROVE  /\ frames' \in [Tasks -> Seq(Frames)]
         /\ \A t \in Tasks : /\ Len(frames'[t]) = Len(frames[t])
                             /\ t # current => frames'[t] = frames[t]
         /\ \A j \in 1..Depth :
              /\ frames'[current][j].ps = frames[current][j].ps
              /\ frames'[current][j].on = frames[current][j].on
              /\ frames'[current][j].at = IF j = Depth THEN stage
                                          ELSE frames[current][j].at
<1> DEFINE f == frames[current]
           g == [f EXCEPT ![Depth].at = stage]
<1>1. f \in Seq(Frames) /\ Depth = Len(f) /\ Depth \in 1..Len(f)
  BY DEF Types, Depth
<1>2. f[Depth] \in Frames
  BY <1>1
<1>3. [f[Depth] EXCEPT !.at = stage] \in Frames
  BY <1>2 DEF Frames, Stages
<1>4. /\ g \in Seq(Frames) /\ Len(g) = Len(f)
      /\ \A j \in 1..Len(f) :
           g[j] = IF j = Depth THEN [f[Depth] EXCEPT !.at = stage] ELSE f[j]
  BY <1>1, <1>3
<1>5. /\ [f[Depth] EXCEPT !.at = stage].at = stage
      /\ [f[Depth] EXCEPT !.at = stage].ps = f[Depth].ps
      /\ [f[Depth] EXCEPT !.at = stage].on = f[Depth].on
  BY <1>2 DEF Frames
<1>6. frames' = [frames EXCEPT ![current] = g]
  BY DEF GoOn, Depth
<1>7. /\ frames' \in [Tasks -> Seq(Frames)]
      /\ frames'[current] = g
      /\ \A t \in Tasks : t # current => frames'[t] = frames[t]
  BY <1>4, <1>6 DEF Types
<1> HIDE DEF g
<1> QED
  BY <1>1, <1>4, <1>5, <1>7

(* An exception adds one frame, the last. *)
LEMMA EnterFrames ==
  ASSUME Types, NEW stage \in Stages, Enter(stage)
  PROVE  /\ frames' \in [Tasks -> Seq(Frames)]
         /\ \A t \in Tasks : t # current => frames'[t] = frames[t]
         /\ Len(frames'[current]) = Depth + 1
         /\ \A j \in 1..Depth : frames'[current][j] = frames[current][j]
         /\ frames'[current][Depth + 1] = [at |-> stage, ps |-> pstate, on |-> sp]
<1>1. frames[current] \in Seq(Frames) /\ Depth = Len(frames[current])
  BY DEF Types, Depth
<1>2. [at |-> stage, ps |-> pstate, on |-> sp] \in Frames
  BY DEF Types, Frames, Stages
<1>3. frames' = [frames EXCEPT ![current] = Append(frames[current], [at |-> stage, ps |-> pstate, on |-> sp])]
  BY DEF Enter
<1> QED
  BY <1>1, <1>2, <1>3 DEF Types

(* eret takes the last frame off the stack, if it is its own. *)
LEMMA EretFrames ==
  ASSUME Types, Eret, elr = Depth
  PROVE  /\ frames' \in [Tasks -> Seq(Frames)]
         /\ \A t \in Tasks : t # current => frames'[t] = frames[t]
         /\ Len(frames'[current]) = Depth - 1
         /\ \A j \in 1..(Depth - 1) : frames'[current][j] = frames[current][j]
<1>1. /\ frames[current] \in Seq(Frames)
      /\ Depth = Len(frames[current]) /\ Depth \in Nat /\ Depth > 0
  BY DEF Types, Depth, Eret, At
<1>2. frames' = [frames EXCEPT ![current] = SubSeq(frames[current], 1, Depth - 1)]
  BY DEF Eret
<1>3. /\ SubSeq(frames[current], 1, Depth - 1) \in Seq(Frames)
      /\ Len(SubSeq(frames[current], 1, Depth - 1)) = Depth - 1
      /\ \A j \in 1..(Depth - 1) :
           SubSeq(frames[current], 1, Depth - 1)[j] = frames[current][j]
  BY <1>1
<1> QED
  BY <1>2, <1>3 DEF Types

(* A task that exits has no frames any more. *)
LEMMA ExitFrames ==
  ASSUME Types, Exit
  PROVE  /\ frames' \in [Tasks -> Seq(Frames)]
         /\ \A t \in Tasks : t # current => frames'[t] = frames[t]
         /\ Len(frames'[current]) = 0
BY DEF Types, Exit

(* The processor is given to the head of the queue; kernel_main stays in   *)
(* the queue unless it is the head.                                        *)
LEMMA SwitchQueue ==
  ASSUME Types, NEW q \in Seq(Tasks), q # <<>>, NEW c \in [Tasks -> PStates], SwitchTo(q, c)
  PROVE  /\ current' \in Tasks /\ ready' \in Seq(Tasks)
         /\ saved' = c /\ pstate' = c[current'] /\ spsr' = c[current'] /\ elr' = 0
         /\ saved_sp' = [saved_sp EXCEPT ![current] = sp] /\ sp' = saved_sp'[current']
         /\ sp' \in Stacks /\ saved_sp' \in [Tasks -> Stacks]
         /\ (\E i \in 1..Len(q) : q[i] = Idle) /\ current' # Idle
              => \E i \in 1..Len(ready') : ready'[i] = Idle
<1>1. /\ Head(q) \in Tasks /\ Head(q) = q[1] /\ Tail(q) \in Seq(Tasks)
      /\ Len(q) \in Nat \ {0} /\ Len(Tail(q)) = Len(q) - 1
      /\ \A i \in 1..(Len(q) - 1) : Tail(q)[i] = q[i + 1]
  OBVIOUS
<1>2. current' = Head(q) /\ ready' = Tail(q)
  BY DEF SwitchTo
<1>3. ASSUME NEW i \in 1..Len(q), q[i] = Idle, current' # Idle
      PROVE  \E k \in 1..Len(ready') : ready'[k] = Idle
  <2>1. i # 1
    BY <1>1, <1>2, <1>3
  <2>2. i - 1 \in 1..(Len(q) - 1) /\ (i - 1) + 1 = i
    BY <1>1, <2>1
  <2>3. Tail(q)[i - 1] = Idle
    BY <1>1, <1>3, <2>2
  <2> QED
    BY <1>1, <1>2, <2>2, <2>3
<1>4. saved_sp' \in [Tasks -> Stacks] /\ sp' \in Stacks
  BY <1>1 DEF SwitchTo, Types
<1> QED
  BY <1>1, <1>2, <1>3, <1>4 DEF SwitchTo

-----------------------------------------------------------------------------
(* The initial state                                                       *)

(* The invariant holds when the kernel is entered. *)
LEMMA InitInv == Init => IInv
<1> SUFFICES ASSUME Init PROVE IInv
  OBVIOUS
<1>1. /\ el \in {1, 2} /\ timely \in BOOLEAN /\ Idle \in Tasks /\ MaxNest \in Nat
      /\ Masked(el) \in PStates /\ Masked(el).i = TRUE /\ Masked(el).el = el
  BY ExceptionsAssumption DEF Init, Masked, PStates
<1>2. \A t \in Tasks : frames[t] = <<>> /\ Len(frames[t]) = 0
  BY DEF Init
<1>3. /\ frames \in [Tasks -> Seq(Frames)] /\ saved \in [Tasks -> PStates]
      /\ sp \in Stacks /\ saved_sp \in [Tasks -> Stacks]
      /\ \A t \in Tasks : Len(frames[t]) <= MaxNest
      /\ ready \in Seq(Tasks) /\ current \in Tasks
  <2>1. <<>> \in Seq(Frames) /\ <<>> \in Seq(Tasks)
    OBVIOUS
  <2> QED
    BY <1>1, <1>2, <2>1 DEF Init, Stacks, KernelStack
<1>a. Types
  BY <1>1, <1>3 DEF Init, Types
<1>4. BootOrder
  BY <1>1, <1>2 DEF Init, BootOrder
<1>5. ActiveInIdle
  BY <1>1, <1>2 DEF Init, ActiveInIdle
<1>6. TasksInCalls
  BY <1>1, <1>2 DEF Init, TasksInCalls
<1>7. Levels
  BY <1>1, <1>2 DEF Init, Levels
<1>8. Returns
  BY <1>1, <1>2 DEF Init, Returns, At, Depth
<1> QED
  BY <1>a, <1>4, <1>5, <1>6, <1>7, <1>8 DEF IInv

-----------------------------------------------------------------------------
(* The actions, one lemma each                                             *)

(* kernel_main's initialisation: there are no handlers yet, and it opens   *)
(* interrupts after the timer is registered.                               *)
LEMMA BootInv == IInv /\ Boot => IInv'
<1> SUFFICES ASSUME IInv, Boot PROVE IInv'
  OBVIOUS
<1> USE DEF gic, cpu, task, world
<1>1. /\ boot \notin {"run", "lost"}
      /\ UNCHANGED <<el, timely, frames, saved, sp, saved_sp, current, ready, spsr, elr>>
      /\ boot' \in {"hypervisor", "gic", "irq", "timer", "sched", "run"}
  BY DEF Boot, BootHypervisor, BootGic, BootIrq, BootTimer, BootUnmask
<1>2. /\ \A t \in Tasks : Len(frames[t]) = 0
      /\ Idle \in Tasks /\ current \in Tasks
  BY <1>1, ExceptionsAssumption DEF IInv, BootOrder, Types
<1>3. current = Idle /\ ~ active
  BY <1>2 DEF IInv, TasksInCalls, ActiveInIdle
<1>4. /\ pstate' = IF boot' = "run" THEN Open(el) ELSE pstate
      /\ Open(el) \in PStates /\ Open(el).el = el
  BY DEF Boot, BootHypervisor, BootGic, BootIrq, BootTimer, BootUnmask, IInv, Types, Open, PStates
<1>5. active' = FALSE /\ enabled' \in BOOLEAN /\ registered' \in BOOLEAN
  <2>1. active = FALSE
    BY <1>3 DEF IInv, Types
  <2>2. enabled \in BOOLEAN /\ registered \in BOOLEAN /\ RegisterEnables \in BOOLEAN
    BY ExceptionsAssumption DEF IInv, Types
  <2>3. CASE BootGic
    BY <2>2, <2>3 DEF BootGic
  <2>4. CASE BootIrq
    BY <2>1, <2>2, <2>4 DEF BootIrq
  <2>5. CASE BootTimer
    BY <2>1, <2>2, <2>5, Zenon DEF BootTimer, Register
  <2>6. CASE BootHypervisor \/ BootUnmask
    BY <2>1, <2>2, <2>6 DEF BootHypervisor, BootUnmask
  <2> QED
    BY <2>3, <2>4, <2>5, <2>6 DEF Boot
<1>6. line' \in {line, "armed"}
  BY DEF Boot, BootHypervisor, BootGic, BootIrq, BootTimer, BootUnmask
<1>7. boot' \in {"sched", "run"} => registered'
  BY DEF Boot, BootHypervisor, BootGic, BootIrq, BootTimer, BootUnmask, Register, IInv, BootOrder
<1>8. Types'
  <2>1. pstate' \in PStates
    BY <1>4 DEF IInv, Types
  <2>2. line' \in {"off", "armed", "due", "taken"}
    BY <1>6 DEF IInv, Types
  <2>3. boot' \in {"hypervisor", "gic", "irq", "timer", "sched", "run", "lost"}
    BY <1>1
  <2> QED
    BY <1>1, <1>5, <2>1, <2>2, <2>3, Zenon DEF IInv, Types
<1>9. BootOrder'
  BY <1>1, <1>2, <1>4, <1>7 DEF IInv, BootOrder
<1>10. ActiveInIdle'
  BY <1>1, <1>2, <1>3, <1>5, <1>6 DEF IInv, ActiveInIdle
<1>11. TasksInCalls'
  BY <1>1, <1>2, <1>3 DEF IInv, TasksInCalls
<1>12. Levels'
  BY <1>1, <1>2, <1>3, <1>4 DEF IInv, Levels
<1>13. Returns'
  BY <1>1, <1>2, <1>3, <1>5 DEF IInv, Returns, At, Depth
<1> QED
  BY <1>8, <1>9, <1>10, <1>11, <1>12, <1>13 DEF IInv

(* The timer's interval ends: not while a handler that returns in time     *)
(* comes to its eret.                                                      *)
LEMMA ExpireInv == IInv /\ Expire => IInv'
<1> SUFFICES ASSUME IInv, Expire PROVE IInv'
  OBVIOUS
<1> USE DEF gic, cpu, task, world, Expire
<1>1. line = "armed" /\ line' = "due"
  OBVIOUS
<1>2. Types' /\ BootOrder' /\ ActiveInIdle' /\ TasksInCalls' /\ Levels'
  BY <1>1 DEF IInv, Types, BootOrder, ActiveInIdle, TasksInCalls, Levels
<1>3. ASSUME timely, el = 1, NEW j \in 1..Len(frames[Idle])
      PROVE  frames[Idle][j].at \notin {"eoi", "restore", "eret"}
  <2>1. j = Len(frames[Idle]) /\ j > 0
    BY <1>3, ExceptionsAssumption DEF IInv, Types, Returns
  <2>2. CASE current = Idle
    BY <1>3, <2>1, <2>2 DEF At, Depth
  <2>3. CASE current # Idle
    BY <2>1, <2>3 DEF IInv, TasksInCalls
  <2> QED
    BY <2>2, <2>3
<1>4. Returns'
  BY <1>3 DEF IInv, Returns, At, Depth
<1> QED
  BY <1>2, <1>4 DEF IInv

(* Whoever is in a handler, the system is running. *)
LEMMA InHandler ==
  ASSUME IInv, Depth > 0, boot # "lost"
  PROVE  boot = "run" /\ registered
BY DEF IInv, Types, BootOrder, Depth

(* Arithmetic about the depth of a thread in at most one handler.          *)
LEMMA OnlyOne == \A n \in Nat : n > 0 /\ n <= 1 => n = 1
OBVIOUS

(* A task in a handler is in one, and eret would return from it.           *)
LEMMA TaskDepth ==
  ASSUME IInv, Depth > 0, current # Idle
  PROVE  Depth = 1 /\ elr = 1
<1>1. current \in Tasks /\ frames[current] \in Seq(Frames) /\ Len(frames[current]) > 0
  BY DEF IInv, Types, Depth
<1>2. Len(frames[current]) <= 1
  BY <1>1 DEF IInv, TasksInCalls
<1>3. Len(frames[current]) = 1
  <2>1. Len(frames[current]) \in Nat /\ Len(frames[current]) > 0
    BY <1>1
  <2> QED
    BY <1>2, <2>1, OnlyOne, Zenon
<1>4. elr = 1
  BY <1>3 DEF IInv, TasksInCalls
<1> QED
  BY <1>3, <1>4 DEF Depth

(* The timer's handler is kernel_main's, the last, and active.             *)
LEMMA TimerHandler ==
  ASSUME IInv, NEW stage \in InTimer, At(stage)
  PROVE  /\ current = Idle /\ active /\ Depth = Len(frames[Idle])
         /\ Depth \in Nat /\ Depth > 0 /\ frames[Idle][Depth].at = stage
<1>1. /\ current \in Tasks /\ frames[current] \in Seq(Frames)
      /\ Depth = Len(frames[current]) /\ Depth \in Nat /\ Depth > 0
      /\ Depth \in 1..Len(frames[current])
      /\ frames[current][Depth].at = stage
  BY DEF IInv, Types, At, Depth
<1>2. current = Idle
  BY <1>1 DEF IInv, TasksInCalls
<1> QED
  BY <1>1, <1>2 DEF IInv, ActiveInIdle

(* An interrupt is taken by kernel_main, with the timer's entry in the     *)
(* table; if handlers return in time, outside of any handler.              *)
LEMMA TakeInv == IInv /\ Take => IInv'
<1> SUFFICES ASSUME IInv, Take PROVE IInv'
  OBVIOUS
<1> USE DEF gic, cpu, task, world
<1>1. /\ ~ active /\ line \in {"due", "taken"} /\ el = 1 /\ ~ pstate.i
      /\ boot # "lost" /\ Depth < MaxNest
      /\ active' = TRUE /\ line' = "taken"
      /\ UNCHANGED <<boot, registered, enabled, el, timely, saved, sp, saved_sp, current, ready>>
  BY DEF Take, Taken, Signalled
<1>2. boot = "run" /\ registered /\ current = Idle
  BY <1>1 DEF IInv, Types, BootOrder, TasksInCalls
<1>3. Enter("schedule") /\ "schedule" \in Stages
  BY <1>2 DEF Take, IrqHandle, Stages
<1>4. /\ Idle \in Tasks /\ frames[Idle] \in Seq(Frames)
      /\ Depth = Len(frames[Idle]) /\ Depth \in Nat
  BY <1>2 DEF IInv, Types, Depth
<1>5. /\ frames' \in [Tasks -> Seq(Frames)]
      /\ \A t \in Tasks : t # Idle => frames'[t] = frames[t]
      /\ Len(frames'[Idle]) = Depth + 1
      /\ \A j \in 1..Depth : frames'[Idle][j] = frames[Idle][j]
      /\ frames'[Idle][Depth + 1] = [at |-> "schedule", ps |-> pstate, on |-> sp]
  BY <1>2, <1>3, EnterFrames DEF IInv
<1>6. /\ spsr' = pstate /\ pstate' = Masked(el) /\ elr' = Depth + 1
      /\ Masked(el) \in PStates /\ Masked(el).el = el
  BY <1>1, <1>3 DEF Enter, Masked, PStates
<1>7. \A j \in 1..Len(frames'[Idle]) : j \in 1..Depth \/ j = Depth + 1
  BY <1>4, <1>5
<1>8. Types'
  <2>1. \A t \in Tasks : Len(frames'[t]) <= MaxNest
    <3>1. Depth + 1 <= MaxNest
      BY <1>1, <1>4, ExceptionsAssumption
    <3>2. \A t \in Tasks : t # Idle => Len(frames'[t]) <= MaxNest
      BY <1>5 DEF IInv, Types
    <3> QED
      BY <1>5, <3>1, <3>2
  <2>2. elr' \in Nat /\ pstate' \in PStates /\ spsr' \in PStates
    BY <1>4, <1>6 DEF IInv, Types
  <2> QED
    BY <1>1, <1>5, <2>1, <2>2 DEF IInv, Types
<1>9. BootOrder'
  BY <1>1, <1>2 DEF BootOrder
<1>10. ActiveInIdle'
  BY <1>1, <1>4, <1>5, <1>7 DEF IInv, ActiveInIdle, InTimer
<1>11. TasksInCalls'
  BY <1>1, <1>2, <1>5 DEF IInv, TasksInCalls
<1>12. Levels'
  <2>1. pstate.el = el
    BY <1>2 DEF IInv, Levels
  <2>2. \A j \in 1..Len(frames'[Idle]) : frames'[Idle][j].ps.el = el
    BY <1>4, <1>5, <1>7, <2>1 DEF IInv, Levels
  <2> QED
    BY <1>1, <1>2, <1>6, <2>1, <2>2 DEF IInv, Levels
<1>13. timely => Depth = 0
  <2> SUFFICES ASSUME timely, Depth # 0 PROVE FALSE
    OBVIOUS
  <2>1. Depth \in 1..Len(frames[Idle]) /\ frames[Idle][Depth] \in Frames
    BY <1>4
  <2>2. frames[Idle][Depth].at \notin InTimer \union {"exit", "call"}
    BY <1>1, <2>1 DEF IInv, ActiveInIdle, Returns
  <2>3. frames[Idle][Depth].at \in {"restore", "eret"}
    BY <2>1, <2>2 DEF Frames, InTimer
  <2> QED
    BY <1>1, <2>1, <2>3 DEF IInv, Returns
<1>14. Returns'
  BY <1>1, <1>2, <1>4, <1>5, <1>7, <1>13 DEF IInv, Returns, At, Depth
<1> QED
  BY <1>8, <1>9, <1>10, <1>11, <1>12, <1>14 DEF IInv

(* The timer's handler goes on without a switch, to re-arm the timer and   *)
(* to the end of the interrupt.                                            *)
LEMMA TimerStepInv == IInv /\ (KeepRunning \/ Rearm \/ EndOfInterrupt) => IInv'
<1> SUFFICES ASSUME IInv, KeepRunning \/ Rearm \/ EndOfInterrupt PROVE IInv'
  OBVIOUS
<1> USE DEF gic, cpu, task, world
<1>1. PICK stage \in InTimer : At(stage) /\ \/ KeepRunning /\ stage = "schedule"
                                            \/ Rearm /\ stage = "rearm"
                                            \/ EndOfInterrupt /\ stage = "eoi"
  BY DEF KeepRunning, Rearm, EndOfInterrupt, InTimer
<1>2. /\ current = Idle /\ active /\ Depth = Len(frames[Idle])
      /\ Depth \in Nat /\ Depth > 0 /\ frames[Idle][Depth].at = stage
      /\ Depth \in 1..Len(frames[Idle])
  BY <1>1, TimerHandler
<1>3. PICK to \in {"rearm", "eoi", "restore"} :
        /\ GoOn(to)
        /\ \/ to = "rearm" /\ line' = line /\ active' = active /\ stage = "schedule"
           \/ to = "eoi" /\ line' = "armed" /\ active' = active
           \/ to = "restore" /\ line' = line /\ active' = FALSE /\ stage = "eoi"
  BY <1>1 DEF KeepRunning, Rearm, EndOfInterrupt
<1>4. UNCHANGED <<boot, registered, enabled, el, timely, pstate, spsr, elr, saved, sp, saved_sp, current, ready>>
  BY DEF KeepRunning, Rearm, EndOfInterrupt
<1>5. /\ frames' \in [Tasks -> Seq(Frames)]
      /\ \A t \in Tasks : /\ Len(frames'[t]) = Len(frames[t])
                          /\ t # Idle => frames'[t] = frames[t]
      /\ \A j \in 1..Depth :
           /\ frames'[Idle][j].ps = frames[Idle][j].ps
           /\ frames'[Idle][j].at = IF j = Depth THEN to ELSE frames[Idle][j].at
  BY <1>2, <1>3, GoOnFrames DEF IInv, Stages
<1>6. Types'
  <2>1. active' \in BOOLEAN /\ line' \in {"off", "armed", "due", "taken"}
    BY <1>3 DEF IInv, Types
  <2> QED
    BY <1>4, <1>5, <2>1, Zenon DEF IInv, Types
<1>7. BootOrder'
  BY <1>4, <1>5 DEF IInv, BootOrder
<1>8. Idle \in Tasks /\ Len(frames'[Idle]) = Depth /\ (to \in InTimer <=> to # "restore")
  BY <1>2, <1>5, ExceptionsAssumption DEF InTimer
<1>9. ActiveInIdle'
  <2>1. \A j \in 1..Len(frames'[Idle]) :
          /\ frames'[Idle][j].at \in InTimer <=> active' /\ j = Depth
          /\ frames'[Idle][j].at # "exit"
    BY <1>2, <1>3, <1>5, <1>8 DEF IInv, ActiveInIdle, InTimer
  <2>2. line' = "taken" => active' /\ frames'[Idle][Depth].at # "eoi"
    BY <1>2, <1>3, <1>5 DEF IInv, ActiveInIdle
  <2> QED
    BY <1>2, <1>8, <2>1, <2>2 DEF ActiveInIdle
<1>10. TasksInCalls'
  BY <1>2, <1>4, <1>5 DEF IInv, TasksInCalls
<1>11. Levels'
  BY <1>2, <1>4, <1>5, <1>8 DEF IInv, Levels
<1>12. Returns'
  <2>1. timely => el = 1
    BY <1>2 DEF IInv, Returns, Types
  <2>2. timely => Depth = 1
    <3>1. timely => Len(frames[Idle]) <= 1
      BY Zenon DEF IInv, Returns
    <3>2. Depth \in Nat /\ Depth > 0 /\ (timely => Depth <= 1)
      BY <1>2, <3>1
    <3> QED
      BY <3>2, OnlyOne
  <2>3. to \in {"eoi", "restore", "eret"} /\ timely => line' = "armed"
    BY <1>2, <1>3, <2>1 DEF IInv, Returns
  <2>4. frames'[Idle][Depth].at = to /\ to # "call" /\ to # "eret"
    BY <1>2, <1>3, <1>5
  <2>5. ~ At("eret")'
    BY <1>2, <1>4, <1>8, <2>4 DEF At, Depth
  <2> QED
    BY <1>4, <1>8, <2>1, <2>2, <2>3, <2>4, <2>5 DEF IInv, Returns
<1> QED
  BY <1>6, <1>7, <1>9, <1>10, <1>11, <1>12 DEF IInv

(* A switch inside the timer's handler: kernel_main waits before the       *)
(* re-arming, or gets the processor back at once.                          *)
LEMMA PreemptInv == IInv /\ Preempt => IInv'
<1> SUFFICES ASSUME IInv, Preempt PROVE IInv'
  OBVIOUS
<1> USE DEF gic, cpu, task, world
<1> DEFINE q == Append(ready, current)
           c == [saved EXCEPT ![current] = spsr]
<1>1. /\ At("schedule") /\ GoOn("rearm") /\ SwitchTo(q, c)
      /\ UNCHANGED <<boot, registered, enabled, active, line, el, timely>>
  BY DEF Preempt
<1>2. /\ current = Idle /\ active /\ Depth = Len(frames[Idle])
      /\ Depth \in Nat /\ Depth > 0 /\ Depth \in 1..Len(frames[Idle])
      /\ frames[Idle][Depth].at = "schedule"
  BY <1>1, TimerHandler DEF InTimer
<1>3. /\ frames' \in [Tasks -> Seq(Frames)]
      /\ \A t \in Tasks : /\ Len(frames'[t]) = Len(frames[t])
                          /\ t # Idle => frames'[t] = frames[t]
      /\ \A j \in 1..Depth :
           /\ frames'[Idle][j].ps = frames[Idle][j].ps
           /\ frames'[Idle][j].at = IF j = Depth THEN "rearm" ELSE frames[Idle][j].at
  BY <1>1, <1>2, GoOnFrames DEF IInv, Stages
<1>4. /\ Idle \in Tasks /\ ready \in Seq(Tasks) /\ q \in Seq(Tasks) /\ q # <<>>
      /\ \E i \in 1..Len(q) : q[i] = Idle
  <2>1. ready \in Seq(Tasks) /\ Idle \in Tasks
    BY ExceptionsAssumption DEF IInv, Types
  <2>2. /\ q \in Seq(Tasks) /\ Len(q) = Len(ready) + 1 /\ Len(ready) \in Nat
        /\ q[Len(ready) + 1] = Idle
    BY <1>2, <2>1
  <2> QED
    BY <2>1, <2>2
<1>5. c \in [Tasks -> PStates] /\ c[Idle] = spsr /\ spsr.el = el
  BY <1>2, <1>4 DEF IInv, Types, Levels
<1> HIDE DEF q, c
<1>6. /\ current' \in Tasks /\ ready' \in Seq(Tasks)
      /\ saved' = c /\ pstate' = c[current'] /\ spsr' = c[current'] /\ elr' = 0
      /\ sp' \in Stacks /\ saved_sp' \in [Tasks -> Stacks]
      /\ current' # Idle => \E i \in 1..Len(ready') : ready'[i] = Idle
  BY <1>1, <1>4, <1>5, SwitchQueue DEF IInv
<1>7. Len(frames'[Idle]) = Depth /\ frames'[Idle][Depth].at = "rearm"
  BY <1>2, <1>3, <1>4
<1>8. Types'
  <2>1. saved' \in [Tasks -> PStates] /\ pstate' \in PStates /\ spsr' \in PStates /\ elr' \in Nat
    BY <1>5, <1>6
  <2>2. \A t \in Tasks : Len(frames'[t]) <= MaxNest
    BY <1>3 DEF IInv, Types
  <2> QED
    BY <1>1, <1>3, <1>6, <2>1, <2>2, Zenon DEF IInv, Types
<1>9. BootOrder'
  BY <1>1, <1>2, InHandler DEF IInv, BootOrder, Types
<1>10. ActiveInIdle'
  BY <1>1, <1>2, <1>3, <1>7 DEF IInv, ActiveInIdle, InTimer
<1>11. \A t \in Tasks \ {Idle} : Len(frames'[t]) = 0
  BY <1>2, <1>3 DEF IInv, TasksInCalls
<1>12. TasksInCalls'
  <2>1. \A t \in Tasks \ {Idle} : \A j \in 1..Len(frames'[t]) : FALSE
    BY <1>11
  <2>2. active' /\ (current' # Idle => Len(frames'[current']) = 0)
    BY <1>1, <1>2, <1>6, <1>11
  <2> QED
    <3>1. current' # Idle => /\ active' /\ frames'[Idle][Len(frames'[Idle])].at = "rearm"
                             /\ \E i \in 1..Len(ready') : ready'[i] = Idle
      BY <1>6, <1>7, <2>2
    <3>2. \A t \in Tasks \ {Idle} :
            /\ t # current' => Len(frames'[t]) = 0
            /\ Len(frames'[t]) <= 1
            /\ \A j \in 1..Len(frames'[t]) : frames'[t][j].at \notin InTimer
      BY <1>11, <2>1
    <3>3. ~ (current' # Idle /\ Len(frames'[current']) = 1)
      BY <2>2
    <3> QED
      BY <3>1, <3>2, <3>3, Zenon DEF TasksInCalls
<1>13. Levels'
  <2>1. current' = Idle => pstate'.el = el' /\ spsr'.el = el'
    BY <1>1, <1>5, <1>6
  <2>2. current' # Idle => Len(frames'[current']) = 0
    BY <1>6, <1>11
  <2>3. saved'[Idle].el = el'
    BY <1>1, <1>5, <1>6
  <2>4. \A j \in 1..Len(frames'[Idle]) : frames'[Idle][j].ps.el = el'
    BY <1>1, <1>2, <1>3, <1>7 DEF IInv, Levels
  <2> QED
    BY <2>1, <2>2, <2>3, <2>4 DEF Levels
<1>14. Returns'
  <2>1. ~ At("eret")'
    BY <1>6, <1>7, <1>11 DEF At, Depth
  <2>2. timely => el # 2 /\ Depth <= 1
    BY <1>2, Zenon DEF IInv, Returns
  <2> QED
    BY <1>1, <1>2, <1>7, <2>1, <2>2 DEF IInv, Returns
<1> QED
  BY <1>8, <1>9, <1>10, <1>12, <1>13, <1>14 DEF IInv

(* A system or hypervisor call returns to the vectors. *)
LEMMA CallReturnsInv == IInv /\ CallReturns => IInv'
<1> SUFFICES ASSUME IInv, CallReturns PROVE IInv'
  OBVIOUS
<1> USE DEF gic, cpu, task, world
<1>1. /\ At("call") /\ GoOn("restore")
      /\ UNCHANGED <<boot, registered, enabled, active, line, el, timely, pstate, spsr, elr,
                     saved, sp, saved_sp, current, ready>>
  BY DEF CallReturns
<1>2. /\ current \in Tasks /\ Idle \in Tasks /\ Depth = Len(frames[current])
      /\ Depth \in Nat /\ Depth > 0 /\ Depth \in 1..Len(frames[current])
      /\ frames[current][Depth].at = "call"
  BY <1>1, ExceptionsAssumption DEF At, Depth, IInv, Types
<1>3. /\ frames' \in [Tasks -> Seq(Frames)]
      /\ \A t \in Tasks : /\ Len(frames'[t]) = Len(frames[t])
                          /\ t # current => frames'[t] = frames[t]
      /\ \A j \in 1..Depth :
           /\ frames'[current][j].ps = frames[current][j].ps
           /\ frames'[current][j].at = IF j = Depth THEN "restore" ELSE frames[current][j].at
  BY <1>1, <1>2, GoOnFrames DEF IInv, Stages
<1>4. Len(frames'[current]) = Depth /\ frames'[current][Depth].at = "restore"
  BY <1>2, <1>3
<1>5. Types' /\ BootOrder'
  <2>1. Types'
    BY <1>1, <1>3, Zenon DEF IInv, Types
  <2> QED
    BY <1>1, <1>3, <2>1 DEF IInv, BootOrder
<1>6. CASE current = Idle
  <2>1. ~ active
    BY <1>2, <1>6 DEF IInv, ActiveInIdle, InTimer
  <2>2. ActiveInIdle'
    BY <1>1, <1>2, <1>3, <1>4, <1>6, <2>1 DEF IInv, ActiveInIdle, InTimer
  <2>3. TasksInCalls'
    BY <1>1, <1>3, <1>6 DEF IInv, TasksInCalls
  <2>4. Levels'
    BY <1>1, <1>2, <1>3, <1>4, <1>6 DEF IInv, Levels
  <2>5. ~ At("eret")'
    BY <1>1, <1>4 DEF At, Depth
  <2>6. timely => el = 2
    BY <1>2, <1>6 DEF IInv, Types, Returns
  <2>7. Returns'
    BY <1>1, <1>2, <1>3, <1>4, <1>6, <2>1, <2>5, <2>6 DEF IInv, Returns
  <2> QED
    BY <1>5, <2>2, <2>3, <2>4, <2>7 DEF IInv
<1>7. CASE current # Idle
  <2>1. frames'[Idle] = frames[Idle] /\ Depth = 1
    <3>1. frames'[Idle] = frames[Idle]
      BY <1>2, <1>3, <1>7
    <3>2. Depth = 1
      BY <1>2, <1>7, TaskDepth
    <3> QED
      BY <3>1, <3>2
  <2>2. ActiveInIdle'
    BY <1>1, <2>1 DEF IInv, ActiveInIdle
  <2>3. TasksInCalls'
    BY <1>1, <1>2, <1>3, <1>4, <1>7, <2>1 DEF IInv, TasksInCalls, InTimer
  <2>4. Levels'
    BY <1>1, <1>2, <1>3, <1>7, <2>1 DEF IInv, Levels
  <2>5. ~ At("eret")'
    BY <1>1, <1>4 DEF At, Depth
  <2>6. Returns'
    BY <1>1, <2>1, <2>5 DEF IInv, Returns
  <2> QED
    BY <1>5, <2>2, <2>3, <2>4, <2>6 DEF IInv
<1> QED
  BY <1>6, <1>7

(* ELR_EL1 and SPSR_EL1 are loaded from the last frame.                    *)
LEMMA RestoreInv == IInv /\ Restore => IInv'
<1> SUFFICES ASSUME IInv, Restore PROVE IInv'
  OBVIOUS
<1> USE DEF gic, cpu, task, world
<1>1. /\ At("restore") /\ GoOn("eret")
      /\ UNCHANGED <<boot, registered, enabled, active, line, el, timely, pstate,
                     saved, sp, saved_sp, current, ready>>
      /\ el = 1 => elr' = Depth /\ spsr' = frames[current][Depth].ps
      /\ el # 1 => elr' = elr /\ spsr' = spsr
  BY DEF Restore
<1>2. /\ current \in Tasks /\ Idle \in Tasks /\ Depth = Len(frames[current])
      /\ Depth \in Nat /\ Depth > 0 /\ Depth \in 1..Len(frames[current])
      /\ frames[current][Depth].at = "restore"
      /\ frames[current][Depth] \in Frames
  BY <1>1, ExceptionsAssumption DEF At, Depth, IInv, Types
<1>3. /\ frames' \in [Tasks -> Seq(Frames)]
      /\ \A t \in Tasks : /\ Len(frames'[t]) = Len(frames[t])
                          /\ t # current => frames'[t] = frames[t]
      /\ \A j \in 1..Depth :
           /\ frames'[current][j].ps = frames[current][j].ps
           /\ frames'[current][j].at = IF j = Depth THEN "eret" ELSE frames[current][j].at
  BY <1>1, <1>2, GoOnFrames DEF IInv, Stages
<1>4. /\ Len(frames'[current]) = Depth /\ frames'[current][Depth].at = "eret"
      /\ Depth' = Depth
  BY <1>1, <1>2, <1>3 DEF Depth
<1>5. el \in {1, 2}
  BY DEF IInv, Types
<1>6. Types'
  <2>1. elr' \in Nat /\ spsr' \in PStates
    BY <1>1, <1>2 DEF IInv, Types, Frames
  <2> QED
    BY <1>1, <1>3, <2>1, Zenon DEF IInv, Types
<1>7. BootOrder'
  BY <1>1, <1>3 DEF IInv, BootOrder
<1>8. timely /\ At("eret")' => elr' = Depth' /\ spsr' = frames'[current'][Depth'].ps
  <2>1. CASE el = 1
    BY <1>1, <1>2, <1>3, <1>4, <2>1
  <2>2. ASSUME el = 2, timely PROVE elr' = Depth /\ spsr' = frames'[current][Depth].ps
    <3>1. current = Idle /\ Len(frames[Idle]) <= 1
      BY <2>2 DEF IInv, Returns, TasksInCalls
    <3>2. elr = 1 /\ spsr = frames[Idle][Depth].ps
      BY <1>2, <2>2, <3>1 DEF IInv, Returns
    <3>3. Depth = 1
      <4>1. Len(frames[Idle]) \in Nat /\ Len(frames[Idle]) > 0 /\ Depth = Len(frames[Idle])
        BY <1>2, <3>1
      <4> QED
        BY <3>1, <4>1, OnlyOne, Zenon
    <3> QED
      BY <1>1, <1>2, <1>3, <2>2, <3>1, <3>2, <3>3
  <2> QED
    BY <1>1, <1>4, <1>5, <2>1, <2>2
<1>9. CASE current = Idle
  <2>1. ~ active
    BY <1>2, <1>9 DEF IInv, ActiveInIdle, InTimer
  <2>2. ActiveInIdle'
    BY <1>1, <1>2, <1>3, <1>4, <1>9, <2>1 DEF IInv, ActiveInIdle, InTimer
  <2>3. TasksInCalls'
    BY <1>1, <1>3, <1>9 DEF IInv, TasksInCalls
  <2>4. Levels'
    <3>1. spsr'.el = el
      BY <1>1, <1>2, <1>9 DEF IInv, Levels
    <3>2. \A j \in 1..Len(frames'[Idle]) : frames'[Idle][j].ps.el = el
      BY <1>2, <1>3, <1>4, <1>9 DEF IInv, Levels
    <3> QED
      BY <1>1, <1>9, <3>1, <3>2 DEF IInv, Levels
  <2>5. ASSUME timely, el' = 1, NEW j \in 1..Len(frames'[Idle])
        PROVE  /\ frames'[Idle][j].at # "call"
               /\ frames'[Idle][j].at \in {"eoi", "restore", "eret"} => line' = "armed"
    BY <1>1, <1>2, <1>3, <1>4, <1>9, <2>5 DEF IInv, Returns
  <2>6. ASSUME timely, el' = 2
        PROVE  /\ ~ active'
               /\ \A j \in 1..Len(frames'[Idle]) : elr' = 1 /\ spsr' = frames'[Idle][j].ps
    BY <1>1, <1>2, <1>3, <1>4, <1>9, <2>1, <2>6 DEF IInv, Returns
  <2>7. timely => boot' # "lost" /\ Len(frames'[Idle]) <= 1
    BY <1>1, <1>2, <1>3 DEF IInv, Returns
  <2>8. Returns'
    BY <1>1, <1>8, <2>5, <2>6, <2>7 DEF Returns
  <2> QED
    BY <1>6, <1>7, <2>2, <2>3, <2>4, <2>8 DEF IInv
<1>10. CASE current # Idle
  <2>1. frames'[Idle] = frames[Idle] /\ active
    BY <1>2, <1>3, <1>10 DEF IInv, TasksInCalls
  <2>2. Depth = 1
    BY <1>2, <1>10, TaskDepth
  <2>3. ActiveInIdle'
    BY <1>1, <2>1 DEF IInv, ActiveInIdle
  <2>4. TasksInCalls'
    <3>1. elr' = 1
      <4>1. elr = 1
        BY <1>2, <1>10, <2>2 DEF IInv, TasksInCalls
      <4> QED
        BY <1>1, <2>2, <4>1
    <3>2. \A t \in Tasks \ {Idle} : \A j \in 1..Len(frames'[t]) : frames'[t][j].at \notin InTimer
      BY <1>2, <1>3, <1>4, <2>2 DEF IInv, TasksInCalls, InTimer
    <3> QED
      BY <1>1, <1>3, <2>1, <3>1, <3>2 DEF IInv, TasksInCalls
  <2>5. Levels'
    BY <1>1, <1>2, <1>3, <1>10, <2>1 DEF IInv, Levels
  <2>6. Returns'
    BY <1>1, <1>8, <2>1 DEF IInv, Returns
  <2> QED
    BY <1>6, <1>7, <2>3, <2>4, <2>5, <2>6 DEF IInv
<1> QED
  BY <1>9, <1>10

(* eret with the registers of another frame is taken by kernel_main only,  *)
(* and only when handlers are late.                                        *)
LEMMA EretLostInv == IInv /\ boot # "lost" /\ Eret /\ elr # Depth => IInv'
<1> SUFFICES ASSUME IInv, boot # "lost", Eret, elr # Depth PROVE IInv'
  OBVIOUS
<1> USE DEF gic, cpu, task, world
<1>1. /\ At("eret") /\ pstate' = spsr /\ boot' = "lost"
      /\ UNCHANGED <<registered, enabled, active, line, el, timely, spsr, elr, frames,
                     saved, sp, saved_sp, current, ready>>
  BY DEF Eret
<1>2. /\ current \in Tasks /\ Depth = Len(frames[current]) /\ Depth \in Nat /\ Depth > 0
      /\ registered
  BY <1>1, InHandler DEF At, Depth, IInv, Types
<1>3. current = Idle
  BY <1>2, TaskDepth
<1>4. ~ timely
  BY <1>1 DEF IInv, Returns
<1>5. Types'
  <2>1. boot' \in {"hypervisor", "gic", "irq", "timer", "sched", "run", "lost"} /\ pstate' \in PStates
    BY <1>1 DEF IInv, Types
  <2> QED
    BY <1>1, <2>1, Zenon DEF IInv, Types
<1>6. BootOrder'
  BY <1>1, <1>2 DEF BootOrder
<1>7. ActiveInIdle' /\ TasksInCalls'
  BY <1>1 DEF IInv, ActiveInIdle, TasksInCalls
<1>8. Levels'
  BY <1>1, <1>3 DEF IInv, Levels
<1>9. Returns'
  BY <1>1, <1>4 DEF Returns
<1> QED
  BY <1>5, <1>6, <1>7, <1>8, <1>9 DEF IInv

(* eret ends the last handler of the thread.                               *)
LEMMA EretOwnInv == IInv /\ Eret /\ elr = Depth => IInv'
<1> SUFFICES ASSUME IInv, Eret, elr = Depth PROVE IInv'
  OBVIOUS
<1> USE DEF gic, cpu, task, world
<1>1. /\ At("eret") /\ pstate' = spsr
      /\ UNCHANGED <<boot, registered, enabled, active, line, el, timely, spsr, elr,
                     saved, sp, saved_sp, current, ready>>
  BY DEF Eret
<1>2. /\ current \in Tasks /\ Idle \in Tasks /\ Depth = Len(frames[current])
      /\ Depth \in Nat /\ Depth > 0 /\ Depth \in 1..Len(frames[current])
      /\ frames[current][Depth].at = "eret"
  BY <1>1, ExceptionsAssumption DEF At, Depth, IInv, Types
<1>3. /\ frames' \in [Tasks -> Seq(Frames)]
      /\ \A t \in Tasks : t # current => frames'[t] = frames[t]
      /\ Len(frames'[current]) = Depth - 1
      /\ \A j \in 1..(Depth - 1) : frames'[current][j] = frames[current][j]
  BY EretFrames DEF IInv
<1>4. \A t \in Tasks : Len(frames'[t]) <= Len(frames[t])
  BY <1>2, <1>3
<1>5. Types'
  <2>1. pstate' \in PStates
    BY <1>1 DEF IInv, Types
  <2>2. \A t \in Tasks : Len(frames'[t]) <= MaxNest
    BY <1>2, <1>3, <1>4, ExceptionsAssumption DEF IInv, Types
  <2> QED
    BY <1>1, <1>3, <2>1, <2>2, Zenon DEF IInv, Types
<1>6. BootOrder'
  <2>1. boot \in {"run", "lost"}
    BY <1>2 DEF IInv, BootOrder
  <2> QED
    BY <1>1, <2>1 DEF IInv, BootOrder
<1>7. CASE current = Idle
  <2>1. ~ active
    BY <1>2, <1>7 DEF IInv, ActiveInIdle, InTimer
  <2>2. \A j \in 1..Len(frames'[Idle]) : j \in 1..Depth /\ j # Depth /\ frames'[Idle][j] = frames[Idle][j]
    BY <1>2, <1>3, <1>7
  <2>3. ActiveInIdle'
    BY <1>1, <1>2, <1>7, <2>1, <2>2 DEF IInv, ActiveInIdle
  <2>4. TasksInCalls'
    BY <1>1, <1>3, <1>7 DEF IInv, TasksInCalls
  <2>5. Levels'
    BY <1>1, <1>2, <1>7, <2>2 DEF IInv, Levels
  <2>6. timely => boot # "lost" /\ Len(frames'[Idle]) = 0
    BY <1>2, <1>3, <1>7 DEF IInv, Returns
  <2>7. Returns'
    BY <1>1, <1>7, <2>1, <2>6 DEF Returns, At, Depth
  <2> QED
    BY <1>5, <1>6, <2>3, <2>4, <2>5, <2>7 DEF IInv
<1>8. CASE current # Idle
  <2>1. frames'[Idle] = frames[Idle]
    BY <1>2, <1>3, <1>8
  <2>2. Len(frames'[current]) = 0
    <3>1. Depth = 1
      BY <1>2, <1>8, TaskDepth
    <3> QED
      BY <1>3, <3>1
  <2>3. ActiveInIdle'
    BY <1>1, <2>1 DEF IInv, ActiveInIdle
  <2>4. TasksInCalls'
    BY <1>1, <1>2, <1>3, <1>8, <2>1, <2>2 DEF IInv, TasksInCalls
  <2>5. Levels'
    BY <1>1, <1>8, <2>1, <2>2 DEF IInv, Levels
  <2>6. Returns'
    BY <1>1, <2>1, <2>2 DEF IInv, Returns, At, Depth
  <2> QED
    BY <1>5, <1>6, <2>3, <2>4, <2>5, <2>6 DEF IInv
<1> QED
  BY <1>7, <1>8

(* kernel_main creates a task: nothing of its own changes.                 *)
LEMMA CreateInv == \A t \in Tasks : IInv /\ Create(t) => IInv'
<1> SUFFICES ASSUME NEW t \in Tasks, IInv, Create(t) PROVE IInv'
  OBVIOUS
<1> USE DEF gic, cpu, task, world
<1>1. /\ current = Idle /\ t # Idle
      /\ ready' = Append(ready, t)
      /\ UNCHANGED <<boot, registered, enabled, active, line, el, timely, pstate, spsr, elr,
                     frames, sp, current>>
  BY DEF Create
<1>2. PICK i \in TaskMasks :
        saved' = [saved EXCEPT ![t] = [i |-> i, el |-> IF t \in UserTasks THEN 0 ELSE 1]]
  BY DEF Create
<1>3. [i |-> i, el |-> IF t \in UserTasks THEN 0 ELSE 1] \in PStates
  BY ExceptionsAssumption DEF PStates
<1>4. Idle \in Tasks /\ saved' \in [Tasks -> PStates] /\ saved'[Idle] = saved[Idle]
  BY <1>1, <1>2, <1>3, ExceptionsAssumption DEF IInv, Types
<1>5. Types'
  <2>1. ready' \in Seq(Tasks)
    BY <1>1 DEF IInv, Types
  <2>2. saved_sp' \in [Tasks -> Stacks]
    <3>1. \E s \in Stacks : saved_sp' = [saved_sp EXCEPT ![t] = s]
      BY DEF Create, Stacks, UserStack, KernelStack
    <3> QED
      BY <3>1 DEF IInv, Types
  <2> QED
    BY <1>1, <1>4, <2>1, <2>2, Zenon DEF IInv, Types
<1>6. BootOrder' /\ ActiveInIdle'
  BY <1>1 DEF IInv, BootOrder, ActiveInIdle
<1>7. TasksInCalls'
  BY <1>1 DEF IInv, TasksInCalls
<1>8. Levels'
  BY <1>1, <1>4 DEF IInv, Levels
<1>9. Returns'
  BY <1>1 DEF IInv, Returns, At, Depth
<1> QED
  BY <1>5, <1>6, <1>7, <1>8, <1>9 DEF IInv

(* A system call adds the task's only frame.                               *)
LEMMA SystemCallInv == \A stage \in {"call", "exit"} : IInv /\ SystemCall(stage) => IInv'
<1> SUFFICES ASSUME NEW stage \in {"call", "exit"}, IInv, SystemCall(stage) PROVE IInv'
  OBVIOUS
<1> USE DEF gic, cpu, task, world
<1>1. /\ boot = "run" /\ Depth = 0 /\ current # Idle /\ Enter(stage)
      /\ UNCHANGED <<boot, registered, enabled, active, line, el, timely,
                     saved, sp, saved_sp, current, ready>>
  BY DEF SystemCall, InThread
<1>2. /\ current \in Tasks /\ Idle \in Tasks /\ stage \in Stages
      /\ stage \notin InTimer /\ stage # "eret" /\ active
  BY <1>1, ExceptionsAssumption DEF Stages, InTimer, IInv, Types, TasksInCalls
<1>3. /\ frames' \in [Tasks -> Seq(Frames)]
      /\ \A t \in Tasks : t # current => frames'[t] = frames[t]
      /\ Len(frames'[current]) = 1
      /\ frames'[current][1] = [at |-> stage, ps |-> pstate, on |-> sp]
  BY <1>1, <1>2, EnterFrames DEF IInv
<1>4. /\ spsr' = pstate /\ pstate' = Masked(el) /\ elr' = 1
      /\ Masked(el) \in PStates /\ Masked(el).el = el
  BY <1>1 DEF Enter, Masked, PStates, IInv, Types
<1>5. Types'
  <2>1. \A t \in Tasks : Len(frames'[t]) <= MaxNest
    <3>1. 1 <= MaxNest
      BY ExceptionsAssumption
    <3>2. \A t \in Tasks : t # current => Len(frames'[t]) <= MaxNest
      BY <1>3 DEF IInv, Types
    <3> QED
      BY <1>3, <3>1, <3>2
  <2>2. elr' \in Nat /\ pstate' \in PStates /\ spsr' \in PStates
    BY <1>4 DEF IInv, Types
  <2> QED
    BY <1>1, <1>3, <2>1, <2>2, Zenon DEF IInv, Types
<1>6. BootOrder'
  BY <1>1 DEF IInv, BootOrder
<1>7. frames'[Idle] = frames[Idle]
  BY <1>1, <1>2, <1>3
<1>8. ActiveInIdle'
  BY <1>1, <1>7 DEF IInv, ActiveInIdle
<1>9. TasksInCalls'
  <2>1. \A t \in Tasks \ {Idle} :
          /\ t # current => Len(frames'[t]) = 0
          /\ Len(frames'[t]) <= 1
          /\ \A j \in 1..Len(frames'[t]) : frames'[t][j].at \notin InTimer
    <3>1. frames'[current][1].at \notin InTimer
      BY <1>2, <1>3
    <3>2. \A j \in 1..Len(frames'[current]) : j = 1
      BY <1>3
    <3>3. \A t \in Tasks \ {Idle} : t # current => Len(frames'[t]) = 0
      BY <1>3 DEF IInv, TasksInCalls
    <3>4. ASSUME NEW t \in Tasks \ {Idle}
          PROVE  Len(frames'[t]) <= 1 /\ \A j \in 1..Len(frames'[t]) : frames'[t][j].at \notin InTimer
      <4>1. CASE t = current
        <5>1. Len(frames'[t]) = 1
          BY <1>3, <4>1
        <5>2. \A j \in 1..Len(frames'[t]) : frames'[t][j].at \notin InTimer
          BY <3>1, <3>2, <4>1
        <5> QED
          BY <5>1, <5>2
      <4>2. CASE t # current
        <5>1. Len(frames'[t]) = 0
          BY <3>3, <3>4, <4>2
        <5> QED
          BY <5>1
      <4> QED
        BY <4>1, <4>2
    <3> QED
      BY <3>3, <3>4
  <2> QED
    BY <1>1, <1>4, <1>7, <2>1 DEF IInv, TasksInCalls
<1>10. Levels'
  BY <1>1, <1>4, <1>7 DEF IInv, Levels
<1>11. Returns'
  <2>1. ~ At("eret")'
    BY <1>1, <1>2, <1>3 DEF At, Depth
  <2>2. timely => el # 2
    BY <1>2, Zenon DEF IInv, Returns
  <2> QED
    BY <1>1, <1>7, <2>1, <2>2 DEF IInv, Returns
<1> QED
  BY <1>5, <1>6, <1>8, <1>9, <1>10, <1>11 DEF IInv

(* kernel_main's hypervisor call, at EL2, is its only handler.             *)
LEMMA HypervisorCallInv == IInv /\ HypervisorCall => IInv'
<1> SUFFICES ASSUME IInv, HypervisorCall PROVE IInv'
  OBVIOUS
<1> USE DEF gic, cpu, task, world
<1>1. /\ boot = "run" /\ Depth = 0 /\ current = Idle /\ el = 2 /\ Enter("call")
      /\ UNCHANGED <<boot, registered, enabled, active, line, el, timely,
                     saved, sp, saved_sp, current, ready>>
  BY DEF HypervisorCall, InThread
<1>2. Idle \in Tasks /\ "call" \in Stages /\ Len(frames[Idle]) = 0
  BY <1>1, ExceptionsAssumption DEF Stages, Depth
<1>3. /\ frames' \in [Tasks -> Seq(Frames)]
      /\ \A t \in Tasks : t # Idle => frames'[t] = frames[t]
      /\ Len(frames'[Idle]) = 1
      /\ frames'[Idle][1] = [at |-> "call", ps |-> pstate, on |-> sp]
  BY <1>1, <1>2, EnterFrames DEF IInv
<1>4. /\ spsr' = pstate /\ pstate' = Masked(el) /\ elr' = 1
      /\ Masked(el) \in PStates /\ Masked(el).el = el
  BY <1>1 DEF Enter, Masked, PStates, IInv, Types
<1>5. ~ active
  BY <1>2 DEF IInv, ActiveInIdle
<1>6. \A j \in 1..Len(frames'[Idle]) : j = 1
  BY <1>3
<1>7. Types'
  <2>1. \A t \in Tasks : Len(frames'[t]) <= MaxNest
    <3>1. 1 <= MaxNest
      BY ExceptionsAssumption
    <3>2. \A t \in Tasks : t # Idle => Len(frames'[t]) <= MaxNest
      BY <1>3 DEF IInv, Types
    <3> QED
      BY <1>3, <3>1, <3>2
  <2>2. elr' \in Nat /\ pstate' \in PStates /\ spsr' \in PStates
    BY <1>4 DEF IInv, Types
  <2> QED
    BY <1>1, <1>3, <2>1, <2>2, Zenon DEF IInv, Types
<1>8. BootOrder'
  BY <1>1 DEF IInv, BootOrder
<1>9. ActiveInIdle'
  BY <1>1, <1>3, <1>5, <1>6 DEF IInv, ActiveInIdle, InTimer
<1>10. TasksInCalls'
  BY <1>1, <1>3 DEF IInv, TasksInCalls
<1>11. Levels'
  <2>1. pstate.el = el
    BY <1>1 DEF IInv, Levels
  <2>2. \A j \in 1..Len(frames'[Idle]) : frames'[Idle][j].ps.el = el
    BY <1>3, <1>6, <2>1
  <2> QED
    BY <1>1, <1>4, <2>1, <2>2 DEF IInv, Levels
<1>12. Returns'
  <2>1. ~ At("eret")'
    BY <1>1, <1>3 DEF At, Depth
  <2>2. \A j \in 1..Len(frames'[Idle]) : elr' = 1 /\ spsr' = frames'[Idle][j].ps
    BY <1>3, <1>4, <1>6
  <2>3. timely => boot' # "lost" /\ Len(frames'[Idle]) <= 1
    BY <1>1, <1>3
  <2> QED
    BY <1>1, <1>5, <2>1, <2>2, <2>3 DEF Returns
<1> QED
  BY <1>7, <1>8, <1>9, <1>10, <1>11, <1>12 DEF IInv

(* A task exits: kernel_main is in the queue, so somebody gets the         *)
(* processor, and it is kernel_main or a task outside of any handler.      *)
LEMMA ExitInv == IInv /\ Exit => IInv'
<1> SUFFICES ASSUME IInv, Exit PROVE IInv'
  OBVIOUS
<1> USE DEF gic, cpu, task, world
<1> DEFINE c == [saved EXCEPT ![current] = spsr]
<1>1. /\ At("exit") /\ SwitchTo(ready, c)
      /\ UNCHANGED <<boot, registered, enabled, active, line, el, timely>>
  BY DEF Exit
<1>2. /\ current \in Tasks /\ Idle \in Tasks /\ Depth = Len(frames[current])
      /\ Depth \in Nat /\ Depth > 0 /\ Depth \in 1..Len(frames[current])
      /\ frames[current][Depth].at = "exit"
  BY <1>1, ExceptionsAssumption DEF At, Depth, IInv, Types
<1>3. current # Idle
  BY <1>2 DEF IInv, ActiveInIdle
<1>4. /\ active /\ frames[Idle][Len(frames[Idle])].at = "rearm"
      /\ \E i \in 1..Len(ready) : ready[i] = Idle
  BY <1>3 DEF IInv, TasksInCalls
<1>5. ready \in Seq(Tasks) /\ ready # <<>>
  BY <1>4 DEF IInv, Types
<1>6. c \in [Tasks -> PStates] /\ c[Idle] = saved[Idle] /\ saved[Idle].el = el
  BY <1>2, <1>3 DEF IInv, Types, Levels
<1> HIDE DEF c
<1>7. /\ current' \in Tasks /\ ready' \in Seq(Tasks)
      /\ saved' = c /\ pstate' = c[current'] /\ spsr' = c[current'] /\ elr' = 0
      /\ sp' \in Stacks /\ saved_sp' \in [Tasks -> Stacks]
      /\ current' # Idle => \E i \in 1..Len(ready') : ready'[i] = Idle
  BY <1>1, <1>4, <1>5, <1>6, SwitchQueue DEF IInv
<1>8. /\ frames' \in [Tasks -> Seq(Frames)]
      /\ \A t \in Tasks : t # current => frames'[t] = frames[t]
      /\ Len(frames'[current]) = 0
  BY ExitFrames DEF IInv
<1>9. frames'[Idle] = frames[Idle] /\ \A t \in Tasks \ {Idle} : Len(frames'[t]) = 0
  BY <1>2, <1>3, <1>8 DEF IInv, TasksInCalls
<1>10. Types'
  <2>1. saved' \in [Tasks -> PStates] /\ pstate' \in PStates /\ spsr' \in PStates /\ elr' \in Nat
    BY <1>6, <1>7
  <2>2. \A t \in Tasks : Len(frames'[t]) <= MaxNest
    <3>1. 0 <= MaxNest
      BY ExceptionsAssumption
    <3>2. \A t \in Tasks : t # current => Len(frames'[t]) <= MaxNest
      BY <1>8 DEF IInv, Types
    <3> QED
      BY <1>8, <3>1, <3>2
  <2> QED
    BY <1>1, <1>7, <1>8, <2>1, <2>2, Zenon DEF IInv, Types
<1>11. BootOrder'
  BY <1>1, <1>2, InHandler DEF IInv, BootOrder, Types, Depth
<1>12. ActiveInIdle'
  BY <1>1, <1>9 DEF IInv, ActiveInIdle
<1>13. TasksInCalls'
  <2>1. \A t \in Tasks \ {Idle} : \A j \in 1..Len(frames'[t]) : FALSE
    BY <1>9
  <2>2. \A t \in Tasks \ {Idle} :
          /\ t # current' => Len(frames'[t]) = 0
          /\ Len(frames'[t]) <= 1
          /\ \A j \in 1..Len(frames'[t]) : frames'[t][j].at \notin InTimer
    BY <1>9, <2>1
  <2>3. current' # Idle => Len(frames'[current']) = 0
    BY <1>7, <1>9
  <2>4. ~ (current' # Idle /\ Len(frames'[current']) = 1)
    BY <2>3
  <2>5. current' # Idle => /\ active' /\ frames'[Idle][Len(frames'[Idle])].at = "rearm"
                           /\ \E i \in 1..Len(ready') : ready'[i] = Idle
    BY <1>1, <1>4, <1>7, <1>9
  <2> QED
    BY <2>2, <2>4, <2>5, Zenon DEF TasksInCalls
<1>14. Levels'
  <2>1. current' = Idle => pstate'.el = el' /\ spsr'.el = el'
    BY <1>1, <1>6, <1>7
  <2>2. current' # Idle => Len(frames'[current']) = 0
    BY <1>7, <1>9
  <2>3. saved'[Idle].el = el'
    BY <1>1, <1>6, <1>7
  <2>4. \A j \in 1..Len(frames'[Idle]) : frames'[Idle][j].ps.el = el'
    BY <1>1, <1>9 DEF IInv, Levels
  <2> QED
    BY <2>1, <2>2, <2>3, <2>4 DEF Levels
<1>15. Returns'
  <2>1. ~ At("eret")'
    BY <1>4, <1>7, <1>9 DEF At, Depth
  <2>2. timely => el # 2
    BY <1>4, Zenon DEF IInv, Returns
  <2> QED
    BY <1>1, <1>9, <2>1, <2>2 DEF IInv, Returns
<1> QED
  BY <1>10, <1>11, <1>12, <1>13, <1>14, <1>15 DEF IInv


(* Every step keeps the invariant.                                         *)
LEMMA NextInv == IInv /\ [Next]_vars => IInv'
<1>1. IInv /\ Next => IInv'
  <2> SUFFICES ASSUME IInv, Next PROVE IInv'
    OBVIOUS
  <2>1. CASE Boot \/ Expire \/ Take \/ HypervisorCall
    BY <2>1, BootInv, ExpireInv, TakeInv, HypervisorCallInv
  <2>2. CASE boot # "lost" /\ Handler
    <3>1. CASE KeepRunning \/ Preempt \/ Rearm \/ EndOfInterrupt
      BY <3>1, TimerStepInv, PreemptInv
    <3>2. CASE Restore \/ CallReturns \/ Exit
      BY <3>2, RestoreInv, CallReturnsInv, ExitInv
    <3>3. CASE Eret
      BY <2>2, <3>3, EretOwnInv, EretLostInv
    <3> QED
      BY <2>2, <3>1, <3>2, <3>3 DEF Handler
  <2>3. CASE \E t \in Tasks : Create(t)
    BY <2>3, CreateInv
  <2>4. CASE \E stage \in {"call", "exit"} : SystemCall(stage)
    BY <2>4, SystemCallInv
  <2> QED
    BY <2>1, <2>2, <2>3, <2>4 DEF Next
<1>2. IInv /\ UNCHANGED vars => IInv'
  <2> SUFFICES ASSUME IInv, UNCHANGED vars PROVE IInv'
    OBVIOUS
  <2> USE DEF vars, gic, cpu, task, world
  <2>1. Types' /\ BootOrder' /\ ActiveInIdle' /\ TasksInCalls' /\ Levels'
    BY DEF IInv, Types, BootOrder, ActiveInIdle, TasksInCalls, Levels
  <2>2. Returns'
    BY DEF IInv, Returns, At, Depth
  <2> QED
    BY <2>1, <2>2 DEF IInv
<1> QED
  BY <1>1, <1>2

(* In every reachable state: kernel_main is the only one the timer         *)
(* interrupts, and tasks run while it waits in the timer's handler.        *)
THEOREM Invariance == Spec => []IInv
BY InitInv, NextInv, PTL DEF Spec

-----------------------------------------------------------------------------
(* What follows from it                                                    *)

(* The timer's handlers before their end of interrupt: the last handler of *)
(* kernel_main while the interrupt is active, and no other.                *)
LEMMA UnfinishedIs ==
  ASSUME IInv
  PROVE  Unfinished = IF active THEN {<<Idle, Len(frames[Idle])>>} ELSE {}
<1>1. /\ Idle \in Tasks /\ frames[Idle] \in Seq(Frames)
      /\ Len(frames[Idle]) \in Nat /\ Len(frames[Idle]) <= MaxNest
      /\ MaxNest \in Nat
  BY ExceptionsAssumption DEF IInv, Types
<1>2. ASSUME NEW u \in Unfinished
      PROVE  active /\ u = <<Idle, Len(frames[Idle])>>
  <2>1. PICK t \in Tasks, j \in 1..MaxNest : u = <<t, j>>
    BY DEF Unfinished
  <2>2. j \in 1..Len(frames[t]) /\ frames[t][j].at \in InTimer
    <3>1. j <= Len(frames[t]) /\ frames[t][j].at \in InTimer
      BY <2>1 DEF Unfinished, InTimer
    <3>2. Len(frames[t]) \in Nat
      BY DEF IInv, Types
    <3> QED
      BY <3>1, <3>2
  <2>3. t = Idle
    BY <2>2 DEF IInv, TasksInCalls
  <2>4. active /\ j = Len(frames[Idle])
    BY <2>2, <2>3 DEF IInv, ActiveInIdle
  <2> QED
    BY <2>1, <2>3, <2>4
<1>3. ASSUME active PROVE <<Idle, Len(frames[Idle])>> \in Unfinished
  <2>1. Len(frames[Idle]) > 0
    BY <1>3 DEF IInv, ActiveInIdle
  <2>2. Len(frames[Idle]) \in 1..Len(frames[Idle]) /\ Len(frames[Idle]) \in 1..MaxNest
    BY <1>1, <2>1
  <2>3. frames[Idle][Len(frames[Idle])].at \in InTimer
    BY <1>3, <2>2 DEF IInv, ActiveInIdle
  <2> QED
    BY <1>1, <2>2, <2>3 DEF Unfinished, InTimer
<1> QED
  BY <1>2, <1>3

(* schedule(), which has no lock, is never entered by the timer while it   *)
(* is in progress, whatever threads wait inside it: at most one of them is *)
(* in the handler of handle_irq_exception() before the end of interrupt.   *)
THEOREM HandlerNotReenteredCorrect == Spec => []HandlerNotReentered
<1>1. IInv => HandlerNotReentered
  <2> SUFFICES ASSUME IInv PROVE HandlerNotReentered
    OBVIOUS
  <2>1. CASE active
    <3>1. Unfinished = {<<Idle, Len(frames[Idle])>>}
      BY <2>1, UnfinishedIs
    <3>2. Cardinality({<<Idle, Len(frames[Idle])>>}) = 1
      BY FS_Singleton
    <3> QED
      BY <2>1, <3>1, <3>2 DEF HandlerNotReentered
  <2>2. CASE ~ active
    BY <2>2, UnfinishedIs, FS_EmptySet DEF HandlerNotReentered
  <2> QED
    BY <2>1, <2>2
<1> QED
  BY <1>1, Invariance, PTL

(* Only kernel_main's thread is ever in the timer's handler, also if the   *)
(* PSTATE task_create() gives to tasks opened interrupts.                  *)
THEOREM OnlyIdleInterruptedCorrect == Spec => []OnlyIdleInterrupted
<1>1. IInv => OnlyIdleInterrupted
  <2> SUFFICES ASSUME IInv, NEW u \in Unfinished PROVE u[1] = Idle
    BY DEF OnlyIdleInterrupted
  <2>1. u = <<Idle, Len(frames[Idle])>>
    BY UnfinishedIs
  <2> QED
    BY <2>1
<1> QED
  BY <1>1, Invariance, PTL

(* No exception before kernel_main has done irq_init(), timer_init() and   *)
(* sched_init().                                                           *)
THEOREM InitialisedFirstCorrect == Spec => []InitialisedFirst
<1>1. IInv => InitialisedFirst
  <2> SUFFICES ASSUME IInv, NEW t \in Tasks, frames[t] # <<>>
               PROVE  registered /\ boot \in {"run", "lost"}
    BY DEF InitialisedFirst
  <2>1. frames[t] \in Seq(Frames) /\ Len(frames[t]) # 0
    BY DEF IInv, Types
  <2>2. boot \in {"run", "lost"}
    BY <2>1 DEF IInv, BootOrder
  <2> QED
    BY <2>2 DEF IInv, BootOrder
<1> QED
  BY <1>1, Invariance, PTL

(* Nothing of the kernel runs at EL0, although switch_context() takes      *)
(* PSTATE from the context of whoever it resumes.                          *)
THEOREM HandlerPrivilegedCorrect == Spec => []HandlerPrivileged
<1>1. IInv => HandlerPrivileged
  BY DEF IInv, Types, Levels, HandlerPrivileged, Depth
<1> QED
  BY <1>1, Invariance, PTL

(* eret of restore_context finds its own registers if handlers are in time. *)
THEOREM EretReturnsToOwnCorrect == Spec => []EretReturnsToOwn
<1>1. IInv => EretReturnsToOwn
  BY DEF IInv, Returns, EretReturnsToOwn
<1> QED
  BY <1>1, Invariance, PTL

(* timer_irq_handler() re-arms the timer before the end of interrupt, so   *)
(* the interrupt that is taken next is another expiry.                     *)
THEOREM OneTickPerExpiryCorrect == Spec => OneTickPerExpiry
<1>1. IInv /\ [Next]_vars => [active' /\ ~ active => line = "due"]_vars
  <2> SUFFICES ASSUME IInv, Next, active', ~ active PROVE line = "due"
    BY DEF vars, gic
  <2>1. Take
    BY DEF Next, Boot, BootHypervisor, BootGic, BootIrq, BootTimer, BootUnmask, Expire, Handler,
           KeepRunning, Preempt, Rearm, EndOfInterrupt, Restore, Eret, CallReturns, Exit,
           Create, SystemCall, HypervisorCall, gic
  <2>2. line \in {"due", "taken"}
    BY <2>1 DEF Take, Taken, Signalled
  <2>3. line # "taken"
    BY DEF IInv, ActiveInIdle
  <2> QED
    BY <2>2, <2>3
<1> QED
  BY <1>1, Invariance, PTL DEF Spec, OneTickPerExpiry

-----------------------------------------------------------------------------
(* The ready queue has room                                                *)

Once(q) == \A i, j \in 1..Len(q) : q[i] = q[j] => i = j

Absent(q, t) == \A i \in 1..Len(q) : q[i] # t

\* What TypeOK asks for beyond Types: no thread is in the queue twice, the
\* running one not at all.
Rest ==
  /\ Once(ready) /\ Absent(ready, current)
  /\ elr <= MaxNest
  /\ el \in BootLevels /\ timely \in TimelyReturns

(* A thread that was not in the queue joins it. *)
LEMMA AppendOnce ==
  ASSUME NEW q \in Seq(Tasks), NEW t \in Tasks, Once(q), Absent(q, t)
  PROVE  /\ Append(q, t) \in Seq(Tasks) /\ Append(q, t) # <<>>
         /\ Once(Append(q, t))
         /\ \A s \in Tasks : s # t /\ Absent(q, s) => Absent(Append(q, t), s)
<1>1. /\ Append(q, t) \in Seq(Tasks) /\ Len(q) \in Nat
      /\ Len(Append(q, t)) = Len(q) + 1
      /\ \A i \in 1..Len(q) : Append(q, t)[i] = q[i]
      /\ Append(q, t)[Len(q) + 1] = t
  OBVIOUS
<1>2. Once(Append(q, t))
  BY <1>1 DEF Once, Absent
<1>3. \A s \in Tasks : s # t /\ Absent(q, s) => Absent(Append(q, t), s)
  BY <1>1 DEF Absent
<1>4. Append(q, t) # <<>>
  BY <1>1
<1> QED
  BY <1>1, <1>2, <1>3, <1>4

(* The thread a switch takes from the head is in the queue no longer. *)
LEMMA SwitchOnce ==
  ASSUME NEW q \in Seq(Tasks), q # <<>>, Once(q), NEW c, SwitchTo(q, c)
  PROVE  Once(ready') /\ Absent(ready', current')
<1>1. /\ Head(q) = q[1] /\ Len(q) \in Nat \ {0} /\ Len(Tail(q)) = Len(q) - 1
      /\ \A i \in 1..(Len(q) - 1) : Tail(q)[i] = q[i + 1]
  OBVIOUS
<1>2. \A i \in 1..(Len(q) - 1) : i + 1 \in 1..Len(q) /\ i + 1 # 1 /\ 1 \in 1..Len(q)
  BY <1>1
<1>3. Once(Tail(q))
  BY <1>1, <1>2 DEF Once
<1>4. Absent(Tail(q), Head(q))
  BY <1>1, <1>2 DEF Once, Absent
<1> QED
  BY <1>3, <1>4 DEF SwitchTo

(* The queue of schedule() and task_exit() never has a thread twice, and   *)
(* eret never has the depth of a frame beyond the bound.                   *)
LEMMA NextRest == IInv /\ Rest /\ [Next]_vars => Rest'
<1> SUFFICES ASSUME IInv, Rest, [Next]_vars PROVE Rest'
  OBVIOUS
<1> USE DEF gic, cpu, task, world
<1>1. /\ ready \in Seq(Tasks) /\ current \in Tasks /\ MaxNest \in Nat \ {0}
      /\ Depth \in Nat /\ Depth <= MaxNest
  BY ExceptionsAssumption DEF IInv, Types, Depth
<1>2. CASE Boot \/ Expire \/ KeepRunning \/ Rearm \/ EndOfInterrupt \/ Eret \/ CallReturns
  BY <1>2 DEF Boot, BootHypervisor, BootGic, BootIrq, BootTimer, BootUnmask, Expire,
              KeepRunning, Rearm, EndOfInterrupt, Eret, CallReturns, Rest
<1>3. CASE Take \/ HypervisorCall \/ \E stage \in {"call", "exit"} : SystemCall(stage)
  <2>1. UNCHANGED <<ready, current, el, timely>> /\ elr' = Depth + 1
    BY <1>3 DEF Take, HypervisorCall, SystemCall, Enter
  <2>2. Depth < MaxNest
    <3>1. CASE Take
      BY <3>1 DEF Take, Taken
    <3>2. CASE ~ Take
      <4>1. Depth = 0
        BY <1>3, <3>2 DEF HypervisorCall, SystemCall, InThread
      <4> QED
        BY <1>1, <4>1
    <3> QED
      BY <3>1, <3>2
  <2>3. Depth + 1 <= MaxNest
    BY <1>1, <2>2
  <2> QED
    BY <2>1, <2>3 DEF Rest
<1>4. CASE Restore
  BY <1>1, <1>4 DEF Restore, Rest
<1>5. CASE \E t \in Tasks : Create(t)
  <2>1. PICK t \in Tasks : Create(t)
    BY <1>5
  <2>2. /\ t # current /\ Absent(ready, t) /\ ready' = Append(ready, t)
        /\ UNCHANGED <<current, elr, el, timely>>
    BY <2>1 DEF Create, Absent
  <2> QED
    BY <1>1, <2>2, AppendOnce DEF Rest
<1>6. CASE Preempt
  <2> DEFINE q == Append(ready, current)
  <2>1. /\ SwitchTo(q, [saved EXCEPT ![current] = spsr]) /\ UNCHANGED <<el, timely>>
    BY <1>6 DEF Preempt
  <2>2. q \in Seq(Tasks) /\ q # <<>> /\ Once(q)
    BY <1>1, AppendOnce DEF Rest
  <2>3. Once(ready') /\ Absent(ready', current')
    BY <2>1, <2>2, SwitchOnce
  <2>4. elr' = 0
    BY <2>1 DEF SwitchTo
  <2> QED
    BY <1>1, <2>1, <2>3, <2>4 DEF Rest
<1>7. CASE Exit
  <2>1. SwitchTo(ready, [saved EXCEPT ![current] = spsr]) /\ UNCHANGED <<el, timely>>
    BY <1>7 DEF Exit
  <2>2. ready # <<>>
    <3>1. Depth \in 1..Len(frames[current]) /\ frames[current][Depth].at = "exit"
      BY <1>1, <1>7 DEF Exit, At, Depth
    <3>2. current # Idle
      BY <3>1 DEF IInv, ActiveInIdle
    <3>3. \E i \in 1..Len(ready) : ready[i] = Idle
      BY <3>2 DEF IInv, TasksInCalls
    <3> QED
      BY <3>3
  <2>3. Once(ready') /\ Absent(ready', current')
    BY <1>1, <2>1, <2>2, SwitchOnce DEF Rest
  <2>4. elr' = 0
    BY <2>1 DEF SwitchTo
  <2> QED
    BY <1>1, <2>1, <2>3, <2>4 DEF Rest
<1>8. CASE UNCHANGED vars
  BY <1>8 DEF vars, Rest
<1> QED
  BY <1>2, <1>3, <1>4, <1>5, <1>6, <1>7, <1>8 DEF Next, Handler

(* A queue without repetition and without the running thread is shorter    *)
(* than the number of threads.                                             *)
LEMMA QueueShort ==
  ASSUME Types, Rest
  PROVE  Len(ready) < Cardinality(Tasks)
<1> DEFINE S == 1..Len(ready)
           T == Tasks \ {current}
           f == [i \in S |-> ready[i]]
<1>1. /\ ready \in Seq(Tasks) /\ current \in Tasks /\ Len(ready) \in Nat
      /\ IsFiniteSet(Tasks)
  BY ExceptionsAssumption DEF Types
<1>2. /\ IsFiniteSet(S) /\ Cardinality(S) = Len(ready)
  <2>1. Len(ready) \in Int /\ 1 \in Int
    BY <1>1
  <2>2. IsFiniteSet(S) /\ Cardinality(S) = IF 1 > Len(ready) THEN 0 ELSE Len(ready) - 1 + 1
    BY <2>1, FS_Interval
  <2> QED
    BY <1>1, <2>2
<1>3. /\ IsFiniteSet(T) /\ Cardinality(T) = Cardinality(Tasks) - 1
      /\ Cardinality(Tasks) \in Nat
  BY <1>1, FS_RemoveElement, FS_CardinalityType
<1>4. f \in [S -> T]
  BY <1>1 DEF Rest, Absent
<1>5. \A i, j \in S : f[i] = f[j] => i = j
  BY DEF Rest, Once
<1> HIDE DEF S, T, f
<1>6. ~ (Cardinality(T) < Cardinality(S))
  BY <1>2, <1>3, <1>4, <1>5, FS_PigeonHole
<1> QED
  BY <1>1, <1>2, <1>3, <1>6

(* The types; the queue schedule() and task_exit() use holds every thread  *)
(* once at most.                                                           *)
THEOREM TypeCorrect == Spec => []TypeOK
<1>1. Init => Rest
  BY ExceptionsAssumption DEF Init, Rest, Once, Absent
<1>2. IInv /\ Rest => TypeOK
  <2> SUFFICES ASSUME IInv, Rest PROVE TypeOK
    OBVIOUS
  <2>1. Len(ready) < Cardinality(Tasks)
    BY QueueShort DEF IInv
  <2>2. elr \in 0..MaxNest
    BY ExceptionsAssumption DEF IInv, Types, Rest
  <2>3. \A t \in Tasks : /\ Len(frames[t]) <= MaxNest
                         /\ \A j \in 1..Len(frames[t]) : frames[t][j] \in Frames
    BY DEF IInv, Types
  <2> QED
    BY <2>1, <2>2, <2>3 DEF IInv, Types, Rest, TypeOK
<1> QED
  BY <1>1, <1>2, NextRest, Invariance, PTL DEF Spec

-----------------------------------------------------------------------------
(* Handlers and their stacks                                               *)

\* The stack a thread's context starts with.
OwnStack(t) == IF t \in UserTasks THEN UserStack(t) ELSE KernelStack(t)

FrameStacks == \A t \in Tasks : \A j \in 1..Len(frames[t]) : frames[t][j].on = OwnStack(t)

Own ==
  /\ sp = OwnStack(current)
  /\ \A i \in 1..Len(ready) : saved_sp[ready[i]] = OwnStack(ready[i])
  /\ FrameStacks

(* A handler that goes on stays on its stack. *)
LEMMA GoOnOwn ==
  ASSUME Types, FrameStacks, NEW from, At(from), NEW stage \in Stages, GoOn(stage)
  PROVE  FrameStacks'
<1>1. Depth > 0 /\ Depth = Len(frames[current]) /\ current \in Tasks
  BY DEF At, Depth, Types
<1>2. /\ \A t \in Tasks : /\ Len(frames'[t]) = Len(frames[t])
                          /\ t # current => frames'[t] = frames[t]
      /\ \A j \in 1..Depth : frames'[current][j].on = frames[current][j].on
  BY <1>1, GoOnFrames
<1> QED
  BY <1>1, <1>2 DEF FrameStacks, OwnStack

(* The vectors save the context on the stack of the thread they interrupt. *)
LEMMA EnterOwn ==
  ASSUME Types, FrameStacks, sp = OwnStack(current), NEW stage \in Stages, Enter(stage)
  PROVE  FrameStacks'
<1>1. /\ \A t \in Tasks : t # current => frames'[t] = frames[t]
      /\ Len(frames'[current]) = Depth + 1
      /\ \A j \in 1..Depth : frames'[current][j] = frames[current][j]
      /\ frames'[current][Depth + 1] = [at |-> stage, ps |-> pstate, on |-> sp]
  BY EnterFrames
<1>2. Depth = Len(frames[current]) /\ Depth \in Nat /\ current \in Tasks
  BY DEF Types, Depth
<1>3. \A j \in 1..Len(frames'[current]) : j \in 1..Depth \/ j = Depth + 1
  BY <1>1, <1>2
<1>4. \A j \in 1..Len(frames'[current]) : frames'[current][j].on = OwnStack(current)
  BY <1>1, <1>2, <1>3 DEF FrameStacks
<1>5. \A t \in Tasks : t # current =>
        \A j \in 1..Len(frames'[t]) : frames'[t][j].on = OwnStack(t)
  BY <1>1 DEF FrameStacks
<1>6. \A t \in Tasks : \A j \in 1..Len(frames'[t]) : frames'[t][j].on = OwnStack(t)
  BY <1>4, <1>5
<1> QED
  BY <1>6 DEF FrameStacks, OwnStack, UserStack, KernelStack

(* switch_context() saves the stack pointer and loads the next thread's.   *)
LEMMA SwitchOwn ==
  ASSUME Types, NEW q \in Seq(Tasks), q # <<>>, NEW c, SwitchTo(q, c),
         sp = OwnStack(current),
         \A i \in 1..Len(q) : q[i] = current \/ saved_sp[q[i]] = OwnStack(q[i])
  PROVE  /\ sp' = OwnStack(current')
         /\ \A i \in 1..Len(ready') : saved_sp'[ready'[i]] = OwnStack(ready'[i])
<1>1. /\ Head(q) = q[1] /\ Len(q) \in Nat \ {0} /\ Len(Tail(q)) = Len(q) - 1
      /\ \A i \in 1..(Len(q) - 1) : Tail(q)[i] = q[i + 1] /\ i + 1 \in 1..Len(q)
      /\ 1 \in 1..Len(q) /\ \A i \in 1..Len(q) : q[i] \in Tasks
  OBVIOUS
<1>2. saved_sp' = [saved_sp EXCEPT ![current] = sp] /\ current \in Tasks
  BY DEF SwitchTo, Types
<1>3. \A i \in 1..Len(q) : saved_sp'[q[i]] = OwnStack(q[i])
  BY <1>1, <1>2 DEF Types
<1>4. current' = Head(q) /\ ready' = Tail(q) /\ sp' = saved_sp'[Head(q)]
  BY DEF SwitchTo
<1> QED
  BY <1>1, <1>3, <1>4

(* Every step keeps handlers and stack pointers on the thread's own stack. *)
LEMMA NextOwn == IInv /\ Own /\ [Next]_vars => Own'
<1> SUFFICES ASSUME IInv, Own, [Next]_vars PROVE Own'
  OBVIOUS
<1> USE DEF gic, cpu, task, world
<1>1. /\ ready \in Seq(Tasks) /\ current \in Tasks
      /\ Types /\ FrameStacks /\ sp = OwnStack(current)
  BY DEF IInv, Types, Own
<1>2. CASE Boot \/ Expire \/ UNCHANGED vars
  BY <1>2 DEF Boot, BootHypervisor, BootGic, BootIrq, BootTimer, BootUnmask, Expire, vars,
              Own, FrameStacks, OwnStack
<1>3. CASE KeepRunning \/ Rearm \/ EndOfInterrupt \/ Restore \/ CallReturns
  <2>1. PICK from \in Stages, stage \in Stages : At(from) /\ GoOn(stage)
    BY <1>3 DEF KeepRunning, Rearm, EndOfInterrupt, Restore, CallReturns, Stages
  <2>2. UNCHANGED <<ready, current, sp, saved_sp>>
    BY <1>3 DEF KeepRunning, Rearm, EndOfInterrupt, Restore, CallReturns
  <2>3. FrameStacks'
    BY <1>1, <2>1, GoOnOwn
  <2> QED
    BY <2>2, <2>3 DEF Own, OwnStack
<1>4. CASE Take \/ HypervisorCall \/ \E stage \in {"call", "exit"} : SystemCall(stage)
  <2>1. PICK stage \in Stages : Enter(stage)
    BY <1>4 DEF Take, IrqHandle, HypervisorCall, SystemCall, Stages
  <2>2. UNCHANGED <<ready, current, sp, saved_sp>>
    BY <1>4 DEF Take, HypervisorCall, SystemCall
  <2>3. FrameStacks'
    BY <1>1, <2>1, EnterOwn
  <2> QED
    BY <2>2, <2>3 DEF Own, OwnStack
<1>5. CASE Eret
  <2>1. UNCHANGED <<ready, current, sp, saved_sp>>
    BY <1>5 DEF Eret
  <2>2. CASE elr = Depth
    <3>1. /\ \A t \in Tasks : t # current => frames'[t] = frames[t]
          /\ Len(frames'[current]) = Depth - 1
          /\ \A j \in 1..(Depth - 1) : frames'[current][j] = frames[current][j]
      BY <1>1, <1>5, <2>2, EretFrames
    <3>2. Depth = Len(frames[current]) /\ Depth \in Nat
      BY <1>1 DEF Depth, Types
    <3>3. \A t \in Tasks : \A j \in 1..Len(frames'[t]) :
            j \in 1..Len(frames[t]) /\ frames'[t][j] = frames[t][j]
      BY <3>1, <3>2
    <3>4. FrameStacks'
      BY <1>1, <3>3 DEF FrameStacks, OwnStack
    <3> QED
      BY <2>1, <3>4 DEF Own, OwnStack
  <2>3. CASE elr # Depth
    BY <1>5, <2>1, <2>3 DEF Eret, Own, FrameStacks, OwnStack
  <2> QED
    BY <2>2, <2>3
<1>6. CASE \E t \in Tasks : Create(t)
  <2>1. PICK t \in Tasks : Create(t)
    BY <1>6
  <2>2. /\ ready' = Append(ready, t) /\ Absent(ready, t)
        /\ saved_sp' = [saved_sp EXCEPT ![t] = OwnStack(t)]
        /\ UNCHANGED <<current, sp, frames>>
    BY <2>1 DEF Create, Absent, OwnStack
  <2>3. /\ Len(ready') = Len(ready) + 1 /\ Len(ready) \in Nat
        /\ \A i \in 1..Len(ready) : ready'[i] = ready[i] /\ ready[i] \in Tasks
        /\ ready'[Len(ready) + 1] = t
    BY <1>1, <2>2
  <2>4. \A i \in 1..Len(ready) : saved_sp'[ready'[i]] = OwnStack(ready'[i])
    BY <1>1, <2>2, <2>3 DEF Types, Own, Absent
  <2>5. saved_sp'[ready'[Len(ready) + 1]] = OwnStack(t)
    BY <1>1, <2>2, <2>3 DEF Types
  <2>6. \A i \in 1..Len(ready') : saved_sp'[ready'[i]] = OwnStack(ready'[i])
    BY <2>3, <2>4, <2>5
  <2> QED
    BY <2>2, <2>6 DEF Own, FrameStacks, OwnStack
<1>7. CASE Preempt
  <2> DEFINE q == Append(ready, current)
  <2>1. At("schedule") /\ GoOn("rearm") /\ "rearm" \in Stages
        /\ SwitchTo(q, [saved EXCEPT ![current] = spsr])
    BY <1>7 DEF Preempt, Stages
  <2>2. /\ q \in Seq(Tasks) /\ q # <<>> /\ Len(q) = Len(ready) + 1 /\ Len(ready) \in Nat
        /\ \A i \in 1..Len(ready) : q[i] = ready[i]
        /\ q[Len(ready) + 1] = current
    BY <1>1
  <2>3. \A i \in 1..Len(q) : q[i] = current \/ saved_sp[q[i]] = OwnStack(q[i])
    BY <2>2 DEF Own
  <2> HIDE DEF q
  <2>4. /\ sp' = OwnStack(current')
        /\ \A i \in 1..Len(ready') : saved_sp'[ready'[i]] = OwnStack(ready'[i])
    BY <1>1, <2>1, <2>2, <2>3, SwitchOwn
  <2>5. FrameStacks'
    BY <1>1, <2>1, GoOnOwn
  <2> QED
    BY <2>4, <2>5 DEF Own, OwnStack
<1>8. CASE Exit
  <2>1. SwitchTo(ready, [saved EXCEPT ![current] = spsr])
    BY <1>8 DEF Exit
  <2>2. ready # <<>>
    <3>1. Depth \in Nat /\ Depth \in 1..Len(frames[current]) /\ frames[current][Depth].at = "exit"
      BY <1>1, <1>8 DEF Exit, At, Depth, Types
    <3>2. current # Idle
      BY <3>1 DEF IInv, ActiveInIdle
    <3>3. \E i \in 1..Len(ready) : ready[i] = Idle
      BY <3>2 DEF IInv, TasksInCalls
    <3> QED
      BY <3>3
  <2>3. /\ sp' = OwnStack(current')
        /\ \A i \in 1..Len(ready') : saved_sp'[ready'[i]] = OwnStack(ready'[i])
    BY <1>1, <2>1, <2>2, SwitchOwn DEF Own
  <2>4. /\ \A t \in Tasks : t # current => frames'[t] = frames[t]
        /\ Len(frames'[current]) = 0
    BY <1>1, <1>8, ExitFrames
  <2>5. FrameStacks'
    BY <1>1, <2>4 DEF FrameStacks, OwnStack
  <2> QED
    BY <2>3, <2>5 DEF Own, OwnStack
<1> QED
  BY <1>2, <1>3, <1>4, <1>5, <1>6, <1>7, <1>8 DEF Next, Handler

(* A handler that goes on after switches finds its frames on the stack     *)
(* switch_context() gave it back, and no other thread's.                   *)
THEOREM FramesOnOwnStackCorrect == Spec => []FramesOnOwnStack
<1>1. Init => Own
  <2> SUFFICES ASSUME Init PROVE Own
    OBVIOUS
  <2>1. sp = OwnStack(Idle) /\ current = Idle /\ ready = <<>>
    BY ExceptionsAssumption DEF Init, OwnStack
  <2>2. \A t \in Tasks : Len(frames[t]) = 0
    BY DEF Init
  <2> QED
    BY <2>1, <2>2 DEF Own, FrameStacks
<1>2. IInv /\ Own => FramesOnOwnStack
  BY DEF IInv, Types, Own, FrameStacks, FramesOnOwnStack, Depth, OwnStack, UserStack, KernelStack
<1> QED
  BY <1>1, <1>2, NextOwn, Invariance, PTL DEF Spec
=====
