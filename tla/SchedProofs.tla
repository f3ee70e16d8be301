----------------------------- MODULE SchedProofs -----------------------------
(***************************************************************************)
(* The scheduler for any number of tasks, frames, tables and program       *)
(* sizes.  What the queue does is that of ReadyQueue, proved there; the    *)
(* rest of the invariant says which step of a creation holds which frames. *)
(***************************************************************************)
EXTENDS Sched, FiniteSetTheorems, TLAPS

RQ == INSTANCE ReadyQueueProofs WITH Tasks <- Slots, Idle <- IdleSlot

-----------------------------------------------------------------------------
(* The queue's part of a step                                              *)

(* The assumptions ReadyQueue makes of its constants. *)
LEMMA SlotsAre == IdleSlot \in Slots /\ NULL \notin Slots /\ RQ!IsFiniteSet(Slots)
<1>1. MaxTasks \in Nat /\ 1 \in 1..MaxTasks /\ NULL \notin 1..MaxTasks
  BY SchedAssumption
<1>2. IsFiniteSet(1..MaxTasks)
  BY <1>1, FS_Interval
<1>3. RQ!IsFiniteSet(1..MaxTasks)
  BY <1>2 DEF IsFiniteSet, RQ!IsFiniteSet
<1> QED
  BY <1>1, <1>3 DEF Slots, IdleSlot

(* The steps that leave the queue's variables alone. *)
LEMMA OtherSteps ==
  ASSUME Next
  PROVE  \/ UNCHANGED queue
         \/ TickExpired \/ (\E s \in Slots : Exit(s))
         \/ ScanFinds \/ NoKernelStack \/ FreeKernelStack \/ FreeUserStack \/ Fill \/ Link
BY DEF Next, Tick, TickInSlice, Yield, Sleep, SleepPoll, Create, ScanGoesOn, GetKernelStack,
       GetUserStack, NoUserStack, GetProgram, NoProgram, BuildTables, NoTables, GiveBack

(* Every step of the scheduler is one of its queue, or leaves that alone.  *)
LEMMA QueueSteps ==
  ASSUME entry \in Slots, [Next]_vars
  PROVE  [RQ!Next]_(RQ!vars)
<1>1. UNCHANGED queue => UNCHANGED RQ!vars
  BY DEF queue, RQ!vars, RQ!list
<1>2. CASE UNCHANGED queue
  BY <1>1, <1>2
<1>3. CASE TickExpired
  <2>1. Q!Tick
    BY <1>3 DEF TickExpired
  <2>2. RQ!Tick
    BY <2>1 DEF Q!Tick, Q!Dispatch, Q!Add, Q!Links, Q!SetLinks, Q!Remove, Q!InWindow,
                RQ!Tick, RQ!Dispatch, RQ!Add, RQ!Links, RQ!SetLinks, RQ!Remove, RQ!InWindow
  <2> QED
    BY <2>2 DEF RQ!Next
<1>4. ASSUME NEW s \in Slots, Exit(s) PROVE RQ!Next
  <2>1. Q!Exit
    BY <1>4 DEF Exit
  <2>2. RQ!Exit
    BY <2>1 DEF Q!Exit, Q!Dispatch, Q!Links, Q!SetLinks, Q!Remove,
                RQ!Exit, RQ!Dispatch, RQ!Links, RQ!SetLinks, RQ!Remove
  <2> QED
    BY <2>2 DEF RQ!Next
<1>5. CASE ScanFinds
  <2>1. Q!Choose(entry)
    BY <1>5 DEF ScanFinds
  <2>2. RQ!Choose(entry)
    BY <2>1 DEF Q!Choose, Q!list, RQ!Choose, RQ!list
  <2> QED
    BY <2>2 DEF RQ!Next
<1>6. Q!GiveUp => RQ!GiveUp
  BY DEF Q!GiveUp, Q!list, RQ!GiveUp, RQ!list
<1>7. CASE NoKernelStack \/ FreeKernelStack \/ FreeUserStack
  <2>1. Q!GiveUp \/ UNCHANGED queue
    BY <1>7 DEF NoKernelStack, FreeKernelStack, FreeUserStack
  <2> QED
    BY <1>1, <1>6, <2>1 DEF RQ!Next
<1>8. CASE Fill
  BY <1>8 DEF Fill, Q!Fill, Q!list, RQ!Fill, RQ!list, RQ!Next
<1>9. CASE Link
  BY <1>9 DEF Link, Q!LinkPrev, Q!LinkNext, Q!SetTail, Q!SetHead,
              RQ!LinkPrev, RQ!LinkNext, RQ!SetTail, RQ!SetHead, RQ!Next
<1>10. CASE UNCHANGED vars
  BY <1>1, <1>10 DEF vars
<1> QED
  BY <1>2, <1>3, <1>4, <1>5, <1>7, <1>8, <1>9, <1>10, OtherSteps

\* What the queue keeps whatever ticks do to its list.
QueueSound == RQ!Sound

(* The queue is sound at first ...                                         *)
LEMMA InitQueue ==
  ASSUME Init
  PROVE  QueueSound /\ RQ!IInv
<1>1. RQ!Init
  BY DEF Init, Q!Init, RQ!Init
<1> QED
  BY <1>1, SlotsAre, RQ!InitSound, RQ!InitIInv DEF QueueSound

(* ... and every step keeps it so, and its list whole until it is torn.    *)
LEMMA StepQueue ==
  ASSUME QueueSound, entry \in Slots, [Next]_vars
  PROVE  QueueSound' /\ (RQ!IInv => RQ!IInv')
<1>1. [RQ!Next]_(RQ!vars)
  BY QueueSteps
<1>2. RQ!Sound'
  BY <1>1, SlotsAre, RQ!StepSound DEF QueueSound
<1>3. ASSUME RQ!IInv PROVE RQ!IInv'
  BY <1>1, <1>3, SlotsAre, RQ!StepIInv
<1> QED
  BY <1>2, <1>3 DEF QueueSound

(* What a sound queue says in the scheduler's own terms.                   *)
LEMMA QueueIs ==
  ASSUME QueueSound
  PROVE  /\ next \in [Slots -> Slots \union {NULL}] /\ prev \in [Slots -> Slots \union {NULL}]
         /\ head \in Slots \union {NULL} /\ tail \in Slots \union {NULL}
         /\ state \in [Slots -> {"READY", "RUNNING", "TERMINATED"}]
         /\ current \in Slots
         /\ at \in {"wfi", "fill", "prev", "next", "tail", "head"}
         /\ new \in Slots \union {NULL}
         /\ gone \subseteq Slots /\ torn \in BOOLEAN
         /\ OneRunning /\ IdleSlot \notin gone
         /\ \A s \in Slots : state[s] = "TERMINATED" => s \in gone
         /\ at # "wfi" => new \in Slots /\ new # IdleSlot
         /\ at = "fill" => new \in gone
BY DEF QueueSound, RQ!Sound, RQ!Types, RQ!Entries, OneRunning

(* A tick that ends the slice switches to the head of the list, if there   *)
(* is one.                                                                 *)
LEMMA TickIs ==
  ASSUME QueueSound, TickExpired
  PROVE  /\ current' \in Slots /\ at' = at /\ new' = new /\ gone' = gone
         /\ state' = [[state EXCEPT ![current] = "READY"] EXCEPT ![current'] = "RUNNING"]
         /\ current' = IF head = NULL THEN current ELSE head
<1>1. RQ!Tick
  BY DEF TickExpired, Q!Tick, Q!Dispatch, Q!Add, Q!Links, Q!SetLinks, Q!Remove, Q!InWindow,
         RQ!Tick, RQ!Dispatch, RQ!Add, RQ!Links, RQ!SetLinks, RQ!Remove, RQ!InWindow
<1> QED
  BY <1>1, SlotsAre, RQ!TickIs DEF QueueSound

(* So does an exit.                                                        *)
LEMMA ExitIs ==
  ASSUME QueueSound, NEW s \in Slots, Exit(s)
  PROVE  /\ s = current /\ current' \in Slots /\ s # IdleSlot /\ s \notin gone
         /\ head = NULL => /\ state' = [state EXCEPT ![s] = "TERMINATED"]
                           /\ current' = s
         /\ head # NULL => /\ current' = head
                           /\ state' = [[state EXCEPT ![s] = "TERMINATED"]
                                          EXCEPT ![head] = "RUNNING"]
         /\ at' = at /\ new' = new /\ gone' = gone \union {s} /\ torn' = torn
<1>1. s = current /\ Q!Exit
  BY DEF Exit
<1>2. RQ!Exit
  BY <1>1 DEF Q!Exit, Q!Dispatch, Q!Links, Q!SetLinks, Q!Remove,
              RQ!Exit, RQ!Dispatch, RQ!Links, RQ!SetLinks, RQ!Remove
<1>3. /\ current' \in Slots /\ current # IdleSlot /\ current \notin gone
      /\ head = NULL => /\ state' = [state EXCEPT ![current] = "TERMINATED"]
                        /\ current' = current
      /\ head # NULL => /\ current' = head
                        /\ state' = [[state EXCEPT ![current] = "TERMINATED"]
                                       EXCEPT ![head] = "RUNNING"]
      /\ at' = at /\ new' = new /\ gone' = gone \union {current} /\ torn' = torn
  BY <1>2, SlotsAre, RQ!ExitIs DEF QueueSound
<1> QED
  BY <1>1, <1>3

-----------------------------------------------------------------------------
(* The rest of the invariant                                               *)

Stages == {"none", "scan", "kernel stack", "user stack", "program", "tables",
           "fill", "free kernel stack", "free user stack", "hung"}

FieldTypes ==
  /\ level \in [Slots -> {"KERNEL", "USER"}]
  /\ slice \in [Slots -> 0..TimeSlice]
  /\ kstack \in [Slots -> Frames \union {NULL}]
  /\ ustack \in [Slots -> Frames \union {NULL}]
  /\ page_table \in [Slots -> 0..Tables]
  /\ user_pgd \in 0..Tables
  /\ thread \in [Slots -> {"run", "sleep"}]
  /\ left \in [Slots -> 0..MaxSleep]

MemTypes ==
  /\ free \subseteq Frames
  /\ tables \in 0..Tables
  /\ maps \in [1..Tables -> SUBSET Frames]

MakingTypes ==
  /\ making \in Stages
  /\ entry \in Slots
  /\ size \in ImagePages \union {0}
  /\ got.kernel \in Frames \union {NULL} /\ got.user \in Frames \union {NULL}
  /\ got.program \in SUBSET Frames /\ got.pgd \in 0..Tables
  /\ got = [kernel |-> got.kernel, user |-> got.user,
            program |-> got.program, pgd |-> got.pgd]

\* kernel_main is in a creator as far as the ready queue has it there.
Stage ==
  /\ at = "fill" <=> making \notin {"none", "scan"}
  /\ making = "scan" => at = "wfi"

\* What a creator has got when it comes to each of its steps.
Locals ==
  /\ got.kernel = NULL <=> making \in {"none", "scan", "kernel stack", "free user stack"}
  /\ making \in {"none", "scan", "kernel stack", "user stack"} => got.user = NULL
  /\ making \in {"program", "tables", "free user stack"} => got.user # NULL
  /\ making \in {"user stack", "program", "tables"} => size # 0
  /\ got.program # {} => making \in {"tables", "hung", "fill"}
  /\ got.pgd # 0 => making = "fill"
  /\ making = "fill" /\ size = 0 => got.user = NULL /\ got.program = {} /\ got.pgd = 0
  /\ making = "fill" /\ size # 0 => /\ got.user # NULL /\ got.pgd \in 1..tables
                                    /\ maps[got.pgd] = got.program \union {got.user}

\* What it has stored of that in the entry.
Stored ==
  /\ making \in {"user stack", "program", "tables", "fill"} => kstack[new] = got.kernel
  /\ making \in {"program", "tables"} \/ (making = "fill" /\ size # 0) => ustack[new] = got.user

\* Nobody shares frames, none is lost, and the table of an entry, live or not, is one that
\* has been made; TTBR0_EL1 holds the current task's.
Memory ==
  /\ FramesExclusive /\ FramesAccounted
  /\ got.kernel # NULL => got.kernel # got.user /\ got.kernel \notin got.program
  /\ \A s \in Slots : page_table[s] <= tables
  /\ \A s \in Slots : level[s] = "KERNEL" <=> page_table[s] = 0
  /\ user_pgd = page_table[current]

IInv == /\ QueueSound /\ FieldTypes /\ MemTypes /\ MakingTypes
        /\ Stage /\ Locals /\ Stored /\ Memory

(* The parts together give the type invariant.                             *)
LEMMA TypesAre ==
  ASSUME QueueSound, FieldTypes, MemTypes, MakingTypes
  PROVE  TypeOK
<1>1. got \in [kernel : Frames \union {NULL}, user : Frames \union {NULL},
               program : SUBSET Frames, pgd : 0..Tables]
  BY DEF MakingTypes
<1> QED
  BY <1>1, QueueIs DEF TypeOK, FieldTypes, MemTypes, MakingTypes, Stages

(* The steps of a creation leave the rest of what they do not name alone.  *)
LEMMA GotIs ==
  ASSUME MakingTypes
  PROVE  /\ \A f : [got EXCEPT !.kernel = f] = [kernel |-> f, user |-> got.user,
                                               program |-> got.program, pgd |-> got.pgd]
         /\ \A f : [got EXCEPT !.user = f] = [kernel |-> got.kernel, user |-> f,
                                             program |-> got.program, pgd |-> got.pgd]
         /\ \A F : [got EXCEPT !.program = F] = [kernel |-> got.kernel, user |-> got.user,
                                                program |-> F, pgd |-> got.pgd]
         /\ \A t : [got EXCEPT !.pgd = t] = [kernel |-> got.kernel, user |-> got.user,
                                            program |-> got.program, pgd |-> t]
<1> DEFINE k == got.kernel
           u == got.user
           p == got.program
           d == got.pgd
<1>1. got = [kernel |-> k, user |-> u, program |-> p, pgd |-> d]
  BY DEF MakingTypes
<1> HIDE DEF k, u, p, d
<1> QED
  BY <1>1 DEF k, u, p, d

-----------------------------------------------------------------------------
(* The types                                                               *)

(* Every step keeps the types of the fields ...                            *)
LEMMA StepFields ==
  ASSUME IInv, Next
  PROVE  FieldTypes'
<1>1. /\ FieldTypes /\ MemTypes /\ MakingTypes /\ current \in Slots /\ NULL \notin Slots
      /\ TimeSlice \in Nat \ {0} /\ TimeSlice \in 0..TimeSlice /\ 0 \in 0..TimeSlice
      /\ 0 \in 0..MaxSleep /\ MaxSleep \in Nat
  BY QueueIs, SlotsAre, SchedAssumption DEF IInv
<1>2. ASSUME TickClock PROVE left' \in [Slots -> 0..MaxSleep]
  BY <1>1, <1>2 DEF TickClock, FieldTypes
<1>3. ASSUME NEW n \in Slots PROVE TableFor(n) \in 0..Tables
  <2>1. page_table[n] \in 0..Tables /\ user_pgd \in 0..Tables /\ 0 \in 0..Tables
    BY <1>1, SchedAssumption DEF FieldTypes
  <2> QED
    BY <2>1 DEF TableFor
<1>4. CASE TickInSlice
  <2>1. slice' \in [Slots -> 0..TimeSlice]
    <3>1. slice[current] - 1 \in 0..TimeSlice
      BY <1>1, <1>4 DEF TickInSlice, FieldTypes
    <3> QED
      BY <1>1, <1>4, <3>1 DEF TickInSlice, FieldTypes
  <2> QED
    BY <1>1, <1>2, <1>4, <2>1 DEF TickInSlice, FieldTypes
<1>5. CASE TickExpired
  <2>1. current' \in Slots
    BY <1>5, TickIs DEF IInv
  <2>2. slice' \in [Slots -> 0..TimeSlice]
    BY <1>1, <1>5 DEF TickExpired, FieldTypes
  <2> QED
    BY <1>1, <1>2, <1>3, <1>5, <2>1, <2>2 DEF TickExpired, FieldTypes
<1>6. ASSUME NEW s \in Slots, Exit(s) PROVE FieldTypes'
  <2>1. current' \in Slots
    BY <1>6, ExitIs DEF IInv
  <2>2. slice' \in [Slots -> 0..TimeSlice] /\ user_pgd' \in 0..Tables
    BY <1>1, <1>3, <1>6, <2>1 DEF Exit, FieldTypes
  <2> QED
    BY <1>1, <1>6, <2>2 DEF Exit, FieldTypes, flow
<1>7. CASE Yield
  BY <1>1, <1>7 DEF Yield, FieldTypes, flow
<1>8. ASSUME NEW n \in 0..MaxSleep, Sleep(n) PROVE FieldTypes'
  BY <1>1, <1>8 DEF Sleep, FieldTypes, fields
<1>9. ASSUME NEW s \in Slots, SleepPoll(s) PROVE FieldTypes'
  BY <1>1, <1>9 DEF SleepPoll, FieldTypes
<1>10. CASE GetKernelStack
  BY <1>1, <1>10 DEF GetKernelStack, FieldTypes, MemTypes, flow
<1>11. CASE GetUserStack
  BY <1>1, <1>11 DEF GetUserStack, FieldTypes, MemTypes, flow
<1>12. CASE Fill
  BY <1>1, <1>12 DEF Fill, FieldTypes, MakingTypes
<1>13. ASSUME UNCHANGED <<fields, user_pgd, flow>> PROVE FieldTypes'
  BY <1>1, <1>13 DEF FieldTypes, fields, flow
<1> QED
  BY <1>4, <1>5, <1>6, <1>7, <1>8, <1>9, <1>10, <1>11, <1>12, <1>13
  DEF Next, Tick, Create, ScanFinds, ScanGoesOn, NoKernelStack, NoUserStack, GetProgram,
      NoProgram, BuildTables, NoTables, GiveBack, FreeKernelStack, FreeUserStack, Link

(* ... of the allocators ...                                               *)
LEMMA StepMem ==
  ASSUME IInv, Next
  PROVE  MemTypes' /\ tables <= tables'
<1>1. FieldTypes /\ MemTypes /\ MakingTypes /\ Locals /\ Tables \in Nat /\ current \in Slots
  BY QueueIs, SchedAssumption DEF IInv
<1>2. tables <= tables /\ tables <= Tables
  BY <1>1 DEF MemTypes
<1>3. ASSUME NEW s \in Slots, Exit(s) PROVE MemTypes' /\ tables <= tables'
  <2>1. {kstack[s], ustack[s]} \ {NULL} \subseteq Frames
    BY <1>1 DEF FieldTypes
  <2> QED
    BY <1>1, <1>2, <1>3, <2>1 DEF Exit, MemTypes
<1>4. CASE BuildTables
  <2>1. got.user # NULL
    BY <1>1, <1>4 DEF BuildTables, Making, Locals
  <2>2. got.program \union {got.user} \subseteq Frames
    BY <1>1, <2>1 DEF MakingTypes
  <2>3. tables' \in 0..Tables /\ tables <= tables'
    BY <1>1, <1>4 DEF BuildTables, MemTypes, TABLES_PER_USER
  <2>4. maps' \in [1..Tables -> SUBSET Frames]
    BY <1>1, <1>4, <2>2 DEF BuildTables, MemTypes
  <2> QED
    BY <1>1, <1>4, <2>3, <2>4 DEF BuildTables, MemTypes
<1>5. CASE NoTables
  BY <1>1, <1>2, <1>5 DEF NoTables, MemTypes
<1>6. CASE FreeKernelStack
  <2>1. got.kernel \in Frames
    BY <1>1, <1>6 DEF FreeKernelStack, Making, Locals, MakingTypes
  <2> QED
    BY <1>1, <1>2, <1>6, <2>1 DEF FreeKernelStack, MemTypes
<1>7. CASE FreeUserStack
  <2>1. got.user \in Frames
    BY <1>1, <1>7 DEF FreeUserStack, Making, Locals, MakingTypes
  <2> QED
    BY <1>1, <1>2, <1>7, <2>1 DEF FreeUserStack, MemTypes
<1>8. CASE GetKernelStack
  BY <1>1, <1>2, <1>8 DEF GetKernelStack, MemTypes
<1>9. CASE GetUserStack
  BY <1>1, <1>2, <1>9 DEF GetUserStack, MemTypes
<1>10. CASE GetProgram
  BY <1>1, <1>2, <1>10 DEF GetProgram, MemTypes
<1>11. ASSUME UNCHANGED mem PROVE MemTypes' /\ tables <= tables'
  BY <1>1, <1>2, <1>11 DEF MemTypes, mem
<1> QED
  BY <1>3, <1>4, <1>5, <1>6, <1>7, <1>8, <1>9, <1>10, <1>11
  DEF Next, Tick, TickInSlice, TickExpired, Yield, Sleep, SleepPoll, Create, ScanFinds,
      ScanGoesOn, NoKernelStack, NoUserStack, NoProgram, GiveBack, Fill, Link

(* ... and of the creator's locals.                                        *)
LEMMA StepMaking ==
  ASSUME IInv, Next
  PROVE  MakingTypes'
<1>1. /\ MemTypes /\ MakingTypes /\ Tables \in Nat /\ 1 \in Slots /\ MaxTasks \in Nat
      /\ Slots = 1..MaxTasks
  BY SchedAssumption DEF IInv, Slots
<1>2. /\ Nothing.kernel = NULL /\ Nothing.user = NULL /\ Nothing.program = {} /\ Nothing.pgd = 0
      /\ Nothing = [kernel |-> NULL, user |-> NULL, program |-> {}, pgd |-> 0]
      /\ 0 \in 0..Tables
  BY <1>1 DEF Nothing
<1>3. ASSUME making' \in Stages, entry' \in Slots, size' \in ImagePages \union {0},
             UNCHANGED got
      PROVE  MakingTypes'
  BY <1>1, <1>3 DEF MakingTypes
<1>4. ASSUME NEW n \in ImagePages \union {0}, Create(n) PROVE MakingTypes'
  BY <1>1, <1>3, <1>4 DEF Create, Stages, MakingTypes
<1>5. CASE ScanFinds
  BY <1>1, <1>3, <1>5 DEF ScanFinds, Stages, MakingTypes
<1>6. CASE ScanGoesOn
  <2>1. entry' \in Slots
    <3>1. entry \in 1..MaxTasks /\ entry' = IF entry < MaxTasks THEN entry + 1 ELSE 1
      BY <1>1, <1>6 DEF ScanGoesOn, MakingTypes
    <3> QED
      BY <1>1, <3>1
  <2> QED
    BY <1>1, <1>3, <1>6, <2>1 DEF ScanGoesOn, Stages, MakingTypes
<1>7. CASE NoKernelStack \/ NoUserStack \/ NoProgram \/ NoTables
  BY <1>1, <1>3, <1>7 DEF NoKernelStack, NoUserStack, NoProgram, NoTables, Stages, MakingTypes
<1>8. CASE GetKernelStack
  <2>1. PICK f \in Frames : got' = [kernel |-> f, user |-> got.user,
                                    program |-> got.program, pgd |-> got.pgd]
    BY <1>1, <1>8, GotIs DEF GetKernelStack, MemTypes
  <2>2. making' \in Stages /\ entry' = entry /\ size' = size
    BY <1>8 DEF GetKernelStack, Stages
  <2> QED
    BY <1>1, <2>1, <2>2 DEF MakingTypes
<1>9. CASE GetUserStack
  <2>1. PICK f \in Frames : got' = [kernel |-> got.kernel, user |-> f,
                                    program |-> got.program, pgd |-> got.pgd]
    BY <1>1, <1>9, GotIs DEF GetUserStack, MemTypes
  <2>2. making' \in Stages /\ entry' = entry /\ size' = size
    BY <1>9 DEF GetUserStack, Stages
  <2> QED
    BY <1>1, <2>1, <2>2 DEF MakingTypes
<1>10. CASE GetProgram
  <2>1. PICK F \in SUBSET Frames : got' = [kernel |-> got.kernel, user |-> got.user,
                                           program |-> F, pgd |-> got.pgd]
    BY <1>1, <1>10, GotIs DEF GetProgram, MemTypes
  <2>2. making' \in Stages /\ entry' = entry /\ size' = size
    BY <1>10 DEF GetProgram, Stages
  <2> QED
    BY <1>1, <2>1, <2>2 DEF MakingTypes
<1>11. CASE BuildTables
  <2>1. got' = [kernel |-> got.kernel, user |-> got.user,
                program |-> got.program, pgd |-> tables + 1]
    BY <1>1, <1>11, GotIs DEF BuildTables
  <2>2. making' \in Stages /\ entry' = entry /\ size' = size /\ tables + 1 \in 0..Tables
    BY <1>1, <1>11 DEF BuildTables, Stages, TABLES_PER_USER, MemTypes
  <2> QED
    BY <1>1, <2>1, <2>2 DEF MakingTypes
<1>12. CASE FreeKernelStack
  <2>1. got' = [kernel |-> NULL, user |-> got.user, program |-> got.program, pgd |-> got.pgd]
    BY <1>1, <1>12, GotIs DEF FreeKernelStack
  <2>2. making' \in Stages /\ entry' = entry /\ size' \in ImagePages \union {0}
    BY <1>1, <1>12 DEF FreeKernelStack, Stages, MakingTypes
  <2> QED
    BY <1>1, <2>1, <2>2 DEF MakingTypes
<1>13. CASE FreeUserStack
  <2>1. got' = [kernel |-> got.kernel, user |-> NULL, program |-> got.program, pgd |-> got.pgd]
    BY <1>1, <1>13, GotIs DEF FreeUserStack
  <2>2. making' \in Stages /\ entry' = entry /\ size' \in ImagePages \union {0}
    BY <1>1, <1>13 DEF FreeUserStack, Stages, MakingTypes
  <2> QED
    BY <1>1, <2>1, <2>2 DEF MakingTypes
<1>14. CASE Fill
  <2>1. making' = "none" /\ size' = 0 /\ got' = Nothing /\ entry' = entry
    BY <1>14 DEF Fill
  <2> QED
    BY <1>1, <1>2, <2>1 DEF MakingTypes, Stages
<1>15. ASSUME UNCHANGED creator PROVE MakingTypes'
  BY <1>1, <1>15 DEF MakingTypes, creator
<1> QED
  BY <1>4, <1>5, <1>6, <1>7, <1>8, <1>9, <1>10, <1>11, <1>12, <1>13, <1>14, <1>15
  DEF Next, Tick, TickInSlice, TickExpired, Yield, Sleep, SleepPoll, Exit, GiveBack, Link

-----------------------------------------------------------------------------
(* Where a creation is and what it has got                                 *)

(* A creation goes on as the ready queue has it. *)
LEMMA StepStage ==
  ASSUME IInv, Next
  PROVE  Stage'
<1>1. Stage
  BY DEF IInv
<1>2. ASSUME UNCHANGED <<at, making>> PROVE Stage'
  BY <1>1, <1>2 DEF Stage
<1>3. CASE TickExpired
  BY <1>2, <1>3, TickIs DEF IInv, TickExpired, creator
<1>4. ASSUME NEW s \in Slots, Exit(s) PROVE Stage'
  BY <1>2, <1>4, ExitIs DEF IInv, Exit, creator
<1>5. ASSUME NEW n \in ImagePages \union {0}, Create(n) PROVE Stage'
  BY <1>1, <1>5 DEF Create, Making, Stage, queue
<1>6. CASE ScanFinds
  BY <1>6 DEF ScanFinds, Q!Choose, Stage
<1>7. CASE ScanGoesOn
  BY <1>1, <1>7 DEF ScanGoesOn, Making, Stage, queue
<1>8. CASE NoKernelStack \/ FreeUserStack
  BY <1>8 DEF NoKernelStack, FreeUserStack, Q!GiveUp, Stage
<1>9. CASE FreeKernelStack
  BY <1>1, <1>9 DEF FreeKernelStack, Making, Q!GiveUp, Stage, queue
<1>10. CASE Fill
  BY <1>10 DEF Fill, Q!Fill, Stage
<1>11. CASE Link
  BY <1>1, <1>11 DEF Link, Q!LinkPrev, Q!LinkNext, Q!SetTail, Q!SetHead, Stage, creator
<1>12. CASE GetKernelStack \/ GetUserStack \/ GetProgram \/ BuildTables \/ NoTables
              \/ NoUserStack \/ NoProgram
  BY <1>1, <1>12 DEF GetKernelStack, GetUserStack, GetProgram, BuildTables, NoTables,
                     NoUserStack, NoProgram, Making, Stage, queue
<1> QED
  BY <1>2, <1>3, <1>4, <1>5, <1>6, <1>7, <1>8, <1>9, <1>10, <1>11, <1>12
  DEF Next, Tick, TickInSlice, Yield, Sleep, SleepPoll, GiveBack, queue, creator

(* What has been got at each step. *)
LEMMA StepLocals ==
  ASSUME IInv, Next
  PROVE  Locals'
<1>1. /\ Locals /\ MakingTypes /\ MemTypes /\ NULL \notin Frames /\ Tables \in Nat
  BY SchedAssumption DEF IInv
<1>2. ASSUME UNCHANGED <<making, size, got>>, UNCHANGED <<maps, tables>> PROVE Locals'
  BY <1>1, <1>2 DEF Locals
<1>3. ASSUME making' \in {"none", "scan", "kernel stack"}, got' = Nothing PROVE Locals'
  <2>1. got'.kernel = NULL /\ got'.user = NULL /\ got'.program = {} /\ got'.pgd = 0
    BY <1>3 DEF Nothing
  <2> QED
    BY <1>3, <2>1 DEF Locals
<1>4. ASSUME making \in {"none", "scan", "kernel stack"} PROVE got = Nothing
  <2>1. got.kernel = NULL /\ got.user = NULL /\ got.program = {} /\ got.pgd = 0
    BY <1>1, <1>4 DEF Locals
  <2> QED
    BY <1>1, <2>1 DEF Nothing, MakingTypes
<1>5. ASSUME NEW n \in ImagePages \union {0}, Create(n) PROVE Locals'
  BY <1>3, <1>4, <1>5 DEF Create, Making
<1>6. CASE ScanFinds \/ ScanGoesOn \/ NoKernelStack
  BY <1>3, <1>4, <1>6 DEF ScanFinds, ScanGoesOn, NoKernelStack, Making
<1>7. CASE GetKernelStack
  <2>1. PICK f \in Frames : got' = [kernel |-> f, user |-> got.user,
                                    program |-> got.program, pgd |-> got.pgd]
    BY <1>1, <1>7, GotIs DEF GetKernelStack, MemTypes
  <2>2. making' = (IF size = 0 THEN "fill" ELSE "user stack") /\ size' = size
    BY <1>7 DEF GetKernelStack
  <2>3. making = "kernel stack"
    BY <1>7 DEF GetKernelStack, Making
  <2>4. /\ got'.kernel = f /\ got'.user = got.user /\ got'.program = got.program
        /\ got'.pgd = got.pgd
    BY <2>1
  <2>5. f # NULL
    BY <1>1
  <2> QED
    BY <1>1, <2>2, <2>3, <2>4, <2>5 DEF Locals
<1>8. CASE GetUserStack
  <2>1. PICK f \in Frames : got' = [kernel |-> got.kernel, user |-> f,
                                    program |-> got.program, pgd |-> got.pgd]
    BY <1>1, <1>8, GotIs DEF GetUserStack, MemTypes
  <2>2. making = "user stack" /\ making' = "program" /\ size' = size
    BY <1>8 DEF GetUserStack, Making
  <2>3. /\ got'.kernel = got.kernel /\ got'.user = f /\ got'.program = got.program
        /\ got'.pgd = got.pgd
    BY <2>1
  <2>4. f # NULL
    BY <1>1
  <2> QED
    BY <1>1, <2>2, <2>3, <2>4 DEF Locals
<1>9. CASE GetProgram
  <2>1. PICK F \in SUBSET Frames : got' = [kernel |-> got.kernel, user |-> got.user,
                                           program |-> F, pgd |-> got.pgd]
    BY <1>1, <1>9, GotIs DEF GetProgram, MemTypes
  <2>2. making = "program" /\ making' = "tables" /\ size' = size
    BY <1>9 DEF GetProgram, Making
  <2>3. /\ got'.kernel = got.kernel /\ got'.user = got.user /\ got'.program = F
        /\ got'.pgd = got.pgd
    BY <2>1
  <2> QED
    BY <1>1, <2>2, <2>3 DEF Locals
<1>10. CASE BuildTables
  <2> DEFINE t == tables + 1
  <2>1. got' = [kernel |-> got.kernel, user |-> got.user, program |-> got.program, pgd |-> t]
    BY <1>1, <1>10, GotIs DEF BuildTables
  <2>2. making = "tables" /\ making' = "fill" /\ size' = size
    BY <1>10 DEF BuildTables, Making
  <2>3. t \in 1..tables' /\ t \in 1..Tables /\ t # 0
    BY <1>1, <1>10 DEF BuildTables, MemTypes, TABLES_PER_USER
  <2>4. maps' = [maps EXCEPT ![t] = got.program \union {got.user}]
    BY <1>10 DEF BuildTables
  <2> HIDE DEF t
  <2>5. /\ got'.kernel = got.kernel /\ got'.user = got.user /\ got'.program = got.program
        /\ got'.pgd = t
    BY <2>1
  <2>6. maps'[t] = got'.program \union {got'.user}
    BY <1>1, <2>3, <2>4, <2>5 DEF MemTypes
  <2> QED
    BY <1>1, <2>2, <2>3, <2>5, <2>6 DEF Locals
<1>11. CASE NoTables
  BY <1>1, <1>11 DEF NoTables, Making, Locals
<1>12. CASE NoUserStack
  BY <1>1, <1>12 DEF NoUserStack, Making, Locals
<1>13. CASE NoProgram
  BY <1>1, <1>13 DEF NoProgram, Making, Locals
<1>14. CASE FreeKernelStack
  <2>1. got' = [kernel |-> NULL, user |-> got.user, program |-> got.program, pgd |-> got.pgd]
    BY <1>1, <1>14, GotIs DEF FreeKernelStack
  <2>2. /\ got'.kernel = NULL /\ got'.user = got.user /\ got'.program = got.program
        /\ got'.pgd = got.pgd
    BY <2>1
  <2>3. making = "free kernel stack" /\ making' = IF got.user = NULL THEN "none" ELSE "free user stack"
    BY <1>14 DEF FreeKernelStack, Making
  <2> QED
    BY <1>1, <2>2, <2>3 DEF Locals
<1>15. CASE FreeUserStack
  <2>1. got' = [kernel |-> got.kernel, user |-> NULL, program |-> got.program, pgd |-> got.pgd]
    BY <1>1, <1>15, GotIs DEF FreeUserStack
  <2>2. /\ got'.kernel = got.kernel /\ got'.user = NULL /\ got'.program = got.program
        /\ got'.pgd = got.pgd
    BY <2>1
  <2>3. making = "free user stack" /\ making' = "none"
    BY <1>15 DEF FreeUserStack, Making
  <2> QED
    BY <1>1, <2>2, <2>3 DEF Locals
<1>16. CASE Fill
  BY <1>3, <1>16 DEF Fill
<1>17. ASSUME UNCHANGED creator, UNCHANGED <<maps, tables>> PROVE Locals'
  BY <1>2, <1>17 DEF creator
<1> QED
  BY <1>5, <1>6, <1>7, <1>8, <1>9, <1>10, <1>11, <1>12, <1>13, <1>14, <1>15, <1>16, <1>17
  DEF Next, Tick, TickInSlice, TickExpired, Yield, Sleep, SleepPoll, Exit, GiveBack, Link, mem

(* What has been stored of it. *)
LEMMA StepStored ==
  ASSUME IInv, Next
  PROVE  Stored'
<1>1. /\ Stored /\ MakingTypes /\ MemTypes /\ FieldTypes /\ Stage
      /\ at = "fill" => new \in Slots /\ new \in gone
  BY QueueIs DEF IInv
<1>2. making \in {"kernel stack", "user stack", "program", "tables", "fill"}
        => new \in Slots /\ new \in gone
  BY <1>1 DEF Stage
<1>3. ASSUME UNCHANGED <<making, size, got, new, kstack, ustack>> PROVE Stored'
  BY <1>1, <1>3 DEF Stored
<1>4. ASSUME making' \notin {"user stack", "program", "tables", "fill"} PROVE Stored'
  BY <1>4 DEF Stored
<1>5. CASE TickExpired
  BY <1>3, <1>5, TickIs DEF IInv, TickExpired, creator
<1>6. ASSUME NEW s \in Slots, Exit(s) PROVE Stored'
  <2>1. s \notin gone /\ new' = new
    BY <1>6, ExitIs DEF IInv
  <2>2. /\ kstack' = [kstack EXCEPT ![s] = NULL] /\ ustack' = [ustack EXCEPT ![s] = NULL]
        /\ making' = making /\ size' = size /\ got' = got
    BY <1>6 DEF Exit, creator
  <2>3. new \in gone => kstack'[new] = kstack[new] /\ ustack'[new] = ustack[new]
    BY <1>1, <2>1, <2>2 DEF FieldTypes
  <2> QED
    BY <1>1, <1>2, <2>1, <2>2, <2>3 DEF Stored
<1>7. CASE GetKernelStack
  <2>1. PICK f \in free : /\ kstack' = [kstack EXCEPT ![new] = f]
                          /\ got' = [got EXCEPT !.kernel = f]
    BY <1>7 DEF GetKernelStack
  <2>2. /\ making = "kernel stack" /\ new' = new /\ size' = size /\ ustack' = ustack
        /\ making' = IF size = 0 THEN "fill" ELSE "user stack"
    BY <1>7 DEF GetKernelStack, Making, queue
  <2>3. got'.kernel = f
    BY <1>1, <2>1, GotIs
  <2>4. kstack'[new] = f
    BY <1>1, <1>2, <2>1, <2>2 DEF FieldTypes
  <2> QED
    BY <2>2, <2>3, <2>4 DEF Stored
<1>8. CASE GetUserStack
  <2>1. PICK f \in free : /\ ustack' = [ustack EXCEPT ![new] = f]
                          /\ got' = [got EXCEPT !.user = f]
    BY <1>8 DEF GetUserStack
  <2>2. /\ making = "user stack" /\ new' = new /\ size' = size /\ kstack' = kstack
        /\ making' = "program"
    BY <1>8 DEF GetUserStack, Making, queue
  <2>3. got'.user = f /\ got'.kernel = got.kernel
    BY <1>1, <2>1, GotIs
  <2>4. ustack'[new] = f
    BY <1>1, <1>2, <2>1, <2>2 DEF FieldTypes
  <2> QED
    BY <1>1, <2>2, <2>3, <2>4 DEF Stored
<1>9. CASE GetProgram
  <2>1. PICK F \in SUBSET free : got' = [got EXCEPT !.program = F]
    BY <1>9 DEF GetProgram
  <2>2. /\ making = "program" /\ new' = new /\ size' = size /\ kstack' = kstack
        /\ making' = "tables" /\ ustack' = ustack
    BY <1>9 DEF GetProgram, Making, queue, fields
  <2>3. got'.user = got.user /\ got'.kernel = got.kernel
    BY <1>1, <2>1, GotIs
  <2> QED
    BY <1>1, <2>2, <2>3 DEF Stored
<1>10. CASE BuildTables
  <2>1. /\ making = "tables" /\ new' = new /\ size' = size /\ kstack' = kstack
        /\ making' = "fill" /\ ustack' = ustack
        /\ got' = [got EXCEPT !.pgd = tables + 1]
    BY <1>10 DEF BuildTables, Making, queue, fields
  <2>2. got'.user = got.user /\ got'.kernel = got.kernel
    BY <1>1, <2>1, GotIs
  <2> QED
    BY <1>1, <2>1, <2>2 DEF Stored
<1>11. CASE Link
  <2>1. making' = making
    BY <1>11 DEF Link, creator
  <2>2. making \in {"none", "scan"}
    BY <1>1, <1>11 DEF Link, Q!LinkPrev, Q!LinkNext, Q!SetTail, Q!SetHead, Stage
  <2> QED
    BY <1>4, <2>1, <2>2
<1>12. CASE TickInSlice \/ Yield
  BY <1>3, <1>12 DEF TickInSlice, Yield, queue, creator
<1>13. ASSUME NEW n \in 0..MaxSleep, Sleep(n) PROVE Stored'
  BY <1>3, <1>13 DEF Sleep, queue, creator, fields
<1>14. ASSUME NEW s \in Slots, SleepPoll(s) PROVE Stored'
  BY <1>3, <1>14 DEF SleepPoll, queue, creator
<1>15. CASE ScanFinds \/ ScanGoesOn \/ NoKernelStack \/ NoUserStack \/ NoProgram \/ NoTables
              \/ FreeKernelStack \/ FreeUserStack \/ Fill
  BY <1>4, <1>15 DEF ScanFinds, ScanGoesOn, NoKernelStack, NoUserStack, NoProgram, NoTables,
                     FreeKernelStack, FreeUserStack, Fill, Making
<1>16. ASSUME NEW n \in ImagePages \union {0}, Create(n) PROVE Stored'
  BY <1>4, <1>16 DEF Create
<1> QED
  BY <1>5, <1>6, <1>7, <1>8, <1>9, <1>10, <1>11, <1>12, <1>13, <1>14, <1>15, <1>16
  DEF Next, Tick, GiveBack

-----------------------------------------------------------------------------
(* Frames and address spaces                                               *)

(* A step that leaves the live tasks' holdings alone and moves frames only *)
(* between the allocator and a creation keeps them exclusive.              *)
LEMMA SameHoldings ==
  ASSUME FramesExclusive, Live' \subseteq Live,
         free' \union InHand' \subseteq free \union InHand, InHand' \intersect free' = {},
         \A s \in Live : /\ kstack'[s] = kstack[s] /\ ustack'[s] = ustack[s]
                         /\ Holds(s)' = Holds(s)
  PROVE  FramesExclusive'
BY DEF FramesExclusive

(* A new live task that holds what the creation had keeps them exclusive.  *)
LEMMA NewHoldings ==
  ASSUME FramesExclusive, NEW s \in Slots, s \notin Live, Live' = Live \union {s},
         free' = free, InHand' = {}, Holds(s)' \subseteq InHand,
         kstack'[s] \in Frames, kstack'[s] # ustack'[s],
         \A t \in Live : /\ kstack'[t] = kstack[t] /\ ustack'[t] = ustack[t]
                         /\ Holds(t)' = Holds(t)
  PROVE  FramesExclusive'
<1>1. \A t \in Live' : kstack'[t] \in Frames /\ kstack'[t] # ustack'[t]
  BY DEF FramesExclusive
<1>2. \A t \in Live' : Holds(t)' \intersect (free' \union InHand') = {}
  BY DEF FramesExclusive
<1>3. ASSUME NEW t \in Live', NEW r \in Live', t # r
      PROVE  Holds(t)' \intersect Holds(r)' = {}
  <2>1. CASE t # s /\ r # s
    BY <1>3, <2>1 DEF FramesExclusive
  <2>2. CASE t = s
    BY <1>3, <2>2 DEF FramesExclusive
  <2>3. CASE r = s
    BY <1>3, <2>3 DEF FramesExclusive
  <2> QED
    BY <2>1, <2>2, <2>3
<1> QED
  BY <1>1, <1>2, <1>3 DEF FramesExclusive

(* A task that exits and gives back no more than it held keeps them so.    *)
LEMMA LessHoldings ==
  ASSUME FramesExclusive, NEW s \in Live, Live' = Live \ {s},
         InHand' = InHand, NEW F \in SUBSET Holds(s), free' = free \union F,
         \A t \in Live : t # s => /\ kstack'[t] = kstack[t] /\ ustack'[t] = ustack[t]
                                  /\ Holds(t)' = Holds(t)
  PROVE  FramesExclusive'
BY DEF FramesExclusive

(* Frames stay accounted for when none that is free, in hand or held by a  *)
(* live task leaves all of these.                                          *)
LEMMA NoneLost ==
  ASSUME FramesAccounted, tables \in Nat, tables' \in Nat, tables <= tables',
         \A t \in 1..tables : maps'[t] = maps[t],
         \A f \in free \union InHand : f \in free' \/ f \in InHand'
                                           \/ \E s \in Live' : f \in Holds(s)',
         \A s \in Live : \A f \in Holds(s) :
           f \in free' \/ (\E r \in Live' : f \in Holds(r)') \/ (\E t \in 1..tables : f \in maps[t])
  PROVE  FramesAccounted'
<1>1. \A t \in 1..tables : t \in 1..tables'
  OBVIOUS
<1>2. ASSUME NEW f \in Frames
      PROVE  \/ f \in free' \/ f \in InHand'
             \/ (\E s \in Live' : f \in Holds(s)') \/ (\E t \in 1..tables' : f \in maps'[t])
  <2>1. \/ f \in free \union InHand
        \/ (\E s \in Live : f \in Holds(s)) \/ (\E t \in 1..tables : f \in maps[t])
    BY DEF FramesAccounted
  <2> QED
    BY <1>1, <2>1
<1> QED
  BY <1>2 DEF FramesAccounted

\* What a creation has got, by the fields.
HandOf(k, u, p) == ({k, u} \ {NULL}) \union p

(* The table that schedule() installs for a task is the task's own.        *)
LEMMA TableForIs ==
  ASSUME IInv, NEW n \in Slots
  PROVE  TableFor(n) = page_table[n]
<1>1. level[n] \in {"KERNEL", "USER"} /\ (level[n] = "KERNEL" <=> page_table[n] = 0)
  BY DEF IInv, Memory, FieldTypes
<1> QED
  BY <1>1 DEF TableFor

(* The steps that get frames, or give them back, in a creation. *)
LEMMA FramesMove ==
  ASSUME IInv, new \notin Live, UNCHANGED <<current, gone, level, page_table, tables, maps, user_pgd>>,
         \A s \in Slots : s # new => kstack'[s] = kstack[s] /\ ustack'[s] = ustack[s],
         free' \union InHand' = free \union InHand, InHand' \intersect free' = {},
         tables \in Nat,
         got'.kernel # NULL => got'.kernel # got'.user /\ got'.kernel \notin got'.program
  PROVE  Memory'
<1>1. Memory
  BY DEF IInv
<1>2. Live' = Live
  BY DEF Live
<1>3. \A s \in Live : s \in Slots /\ s # new
  BY DEF Live
<1>4. \A s \in Live : /\ kstack'[s] = kstack[s] /\ ustack'[s] = ustack[s]
                      /\ Holds(s)' = Holds(s)
  BY <1>3 DEF Holds
<1>5. FramesExclusive'
  BY <1>1, <1>2, <1>4, SameHoldings DEF Memory
<1>6. FramesAccounted'
  BY <1>1, <1>2, <1>4, NoneLost DEF Memory
<1> QED
  BY <1>1, <1>5, <1>6 DEF Memory

(* The steps that leave the frames alone. *)
LEMMA FramesStay ==
  ASSUME IInv, UNCHANGED <<gone, level, kstack, ustack, page_table, free, maps, got>>,
         tables \in Nat, tables' \in Nat, tables <= tables',
         current' \in Slots, user_pgd' = page_table[current']
  PROVE  Memory'
<1>1. Memory /\ \A s \in Slots : page_table[s] \in Nat
  BY DEF IInv, FieldTypes
<1>2. FramesExclusive'
  BY <1>1 DEF Memory, FramesExclusive, Live, Holds, InHand
<1>3. \A s \in Slots : page_table[s] <= tables'
  BY <1>1 DEF Memory
<1>4. FramesAccounted'
  <2>1. InHand' = InHand /\ Live' = Live /\ \A s \in Live : Holds(s)' = Holds(s)
    BY DEF InHand, Live, Holds
  <2> QED
    BY <1>1, <2>1, NoneLost DEF Memory
<1> QED
  BY <1>1, <1>2, <1>3, <1>4 DEF Memory

(* Every step keeps frames exclusive and the tables the tasks' own. *)
LEMMA StepMemory ==
  ASSUME IInv, Next
  PROVE  Memory'
<1>1. /\ QueueSound /\ FieldTypes /\ MemTypes /\ MakingTypes /\ Stage /\ Locals /\ Stored
      /\ Memory /\ FramesExclusive
      /\ current \in Slots /\ gone \subseteq Slots
      /\ NULL \notin Frames /\ Tables \in Nat
      /\ tables \in Nat /\ tables' \in Nat /\ tables <= tables
  BY QueueIs, StepMem, SchedAssumption DEF IInv, Memory, MemTypes
<1>2. making \notin {"none", "scan"} => new \in Slots /\ new \in gone /\ new \notin Live
  BY <1>1, QueueIs DEF Stage, Live
<1>3. InHand = HandOf(got.kernel, got.user, got.program)
  BY DEF InHand, HandOf
<1>4. InHand' = HandOf(got'.kernel, got'.user, got'.program)
  BY DEF InHand, HandOf
<1>5. user_pgd = page_table[current] /\ InHand \intersect free = {}
  BY <1>1 DEF Memory, FramesExclusive
<1>6. ASSUME UNCHANGED <<gone, level, kstack, ustack, page_table, free, maps, got>>,
             UNCHANGED <<tables, current, user_pgd>>
      PROVE  Memory'
  BY <1>1, <1>5, <1>6, FramesStay
<1>7. CASE TickInSlice \/ Yield
  BY <1>6, <1>7 DEF TickInSlice, Yield, queue, mem, creator
<1>8. ASSUME NEW n \in 0..MaxSleep, Sleep(n) PROVE Memory'
  BY <1>6, <1>8 DEF Sleep, queue, mem, creator, fields
<1>9. ASSUME NEW s \in Slots, SleepPoll(s) PROVE Memory'
  BY <1>6, <1>9 DEF SleepPoll, queue, mem, creator
<1>10. ASSUME NEW n \in ImagePages \union {0}, Create(n) PROVE Memory'
  BY <1>6, <1>10 DEF Create, queue, mem, fields
<1>11. CASE ScanFinds
  BY <1>6, <1>11 DEF ScanFinds, Q!Choose, mem, fields
<1>12. CASE ScanGoesOn \/ NoUserStack \/ NoProgram
  BY <1>6, <1>12 DEF ScanGoesOn, NoUserStack, NoProgram, queue, mem, fields
<1>13. CASE NoKernelStack
  BY <1>6, <1>13 DEF NoKernelStack, Q!GiveUp, mem, fields
<1>14. CASE Link
  BY <1>6, <1>14 DEF Link, Q!LinkPrev, Q!LinkNext, Q!SetTail, Q!SetHead, mem, fields, creator
<1>15. CASE NoTables
  <2>1. tables <= tables'
    BY <1>15, StepMem
  <2> QED
    BY <1>1, <1>5, <1>15, <2>1, FramesStay DEF NoTables, queue, fields
<1>16. CASE TickExpired
  <2>1. current' \in Slots /\ gone' = gone
    BY <1>1, <1>16, TickIs
  <2>2. user_pgd' = page_table[current']
    <3>1. user_pgd' = TableFor(current')
      BY <1>16 DEF TickExpired
    <3>2. \A n \in Slots : TableFor(n) = page_table[n]
      BY TableForIs
    <3> QED
      BY <2>1, <3>1, <3>2
  <2> QED
    BY <1>1, <1>16, <2>1, <2>2, FramesStay DEF TickExpired, mem, creator
<1>17. ASSUME NEW s \in Slots, Exit(s) PROVE Memory'
  <2>1. s = current /\ s \notin gone /\ gone' = gone \union {s} /\ current' \in Slots
        /\ (head = NULL => current' = s)
    BY <1>1, <1>17, ExitIs
  <2>2. /\ free' = free \union ({kstack[s], ustack[s]} \ {NULL})
        /\ kstack' = [kstack EXCEPT ![s] = NULL] /\ ustack' = [ustack EXCEPT ![s] = NULL]
        /\ level' = level /\ page_table' = page_table /\ tables' = tables /\ maps' = maps
        /\ got' = got
        /\ user_pgd' = IF head = NULL THEN user_pgd ELSE TableFor(current')
    BY <1>17 DEF Exit, creator
  <2>3. user_pgd' = page_table[current']
    <3>1. \A n \in Slots : TableFor(n) = page_table[n]
      BY TableForIs
    <3> QED
      BY <1>5, <2>1, <2>2, <3>1
  <2>4. s \in Live /\ Live' = Live \ {s}
    BY <2>1 DEF Live
  <2>5. InHand' = InHand
    BY <1>3, <1>4, <2>2
  <2>6. \A t \in Slots : t # s => kstack'[t] = kstack[t] /\ ustack'[t] = ustack[t]
    BY <1>1, <2>2 DEF FieldTypes
  <2>7. \A t \in Live : t # s => /\ kstack'[t] = kstack[t] /\ ustack'[t] = ustack[t]
                                 /\ Holds(t)' = Holds(t)
    BY <2>2, <2>6 DEF Holds, Live
  <2>8. ({kstack[s], ustack[s]} \ {NULL}) \in SUBSET Holds(s)
    BY DEF Holds
  <2>9. FramesExclusive'
    BY <1>1, <2>2, <2>4, <2>5, <2>7, <2>8, LessHoldings
  <2>10. FramesAccounted'
    <3>1. ASSUME NEW f \in Holds(s) PROVE f \in free' \/ \E t \in 1..tables : f \in maps[t]
      <4>1. CASE f \in {kstack[s], ustack[s]} \ {NULL}
        BY <2>2, <4>1
      <4>2. CASE f \notin {kstack[s], ustack[s]} \ {NULL}
        <5>1. page_table[s] # 0 /\ f \in maps[page_table[s]]
          BY <3>1, <4>2 DEF Holds
        <5>2. page_table[s] \in 1..tables
          BY <1>1, <5>1 DEF FieldTypes, Memory
        <5> QED
          BY <5>1, <5>2
      <4> QED
        BY <4>1, <4>2
    <3>2. ASSUME NEW t \in Live, NEW f \in Holds(t)
          PROVE  f \in free' \/ (\E r \in Live' : f \in Holds(r)')
                 \/ (\E d \in 1..tables : f \in maps[d])
      BY <2>4, <2>7, <3>1
    <3>3. FramesAccounted
      BY <1>1 DEF Memory
    <3> QED
      BY <1>1, <2>2, <2>5, <3>2, <3>3, NoneLost
  <2> QED
    BY <1>1, <2>2, <2>3, <2>9, <2>10 DEF Memory
<1>18. CASE GetKernelStack
  <2>1. PICK f \in free : /\ kstack' = [kstack EXCEPT ![new] = f] /\ free' = free \ {f}
                          /\ got' = [got EXCEPT !.kernel = f]
    BY <1>18 DEF GetKernelStack
  <2>2. /\ making = "kernel stack" /\ new \notin Live
        /\ UNCHANGED <<current, gone, level, page_table, tables, maps, user_pgd, ustack>>
    BY <1>2, <1>18 DEF GetKernelStack, Making, queue
  <2>3. got'.kernel = f /\ got'.user = got.user /\ got'.program = got.program
    BY <1>1, <2>1, GotIs
  <2>4. got.kernel = NULL /\ got.user = NULL /\ got.program = {}
    BY <1>1, <2>2 DEF Locals
  <2>5. f # NULL
    BY <1>1 DEF MemTypes
  <2>6. InHand' = {f} /\ InHand = {}
    BY <1>3, <1>4, <2>3, <2>4, <2>5 DEF HandOf
  <2>7. \A s \in Slots : s # new => kstack'[s] = kstack[s] /\ ustack'[s] = ustack[s]
    BY <1>1, <2>1, <2>2 DEF FieldTypes
  <2> QED
    BY <1>1, <2>1, <2>2, <2>3, <2>4, <2>5, <2>6, <2>7, FramesMove
<1>19. CASE GetUserStack
  <2>1. PICK f \in free : /\ ustack' = [ustack EXCEPT ![new] = f] /\ free' = free \ {f}
                          /\ got' = [got EXCEPT !.user = f]
    BY <1>19 DEF GetUserStack
  <2>2. /\ making = "user stack" /\ new \notin Live
        /\ UNCHANGED <<current, gone, level, page_table, tables, maps, user_pgd, kstack>>
    BY <1>2, <1>19 DEF GetUserStack, Making, queue
  <2>3. got'.kernel = got.kernel /\ got'.user = f /\ got'.program = got.program
    BY <1>1, <2>1, GotIs
  <2>4. got.kernel # NULL /\ got.user = NULL /\ got.program = {}
    BY <1>1, <2>2 DEF Locals
  <2>5. f # NULL
    BY <1>1 DEF MemTypes
  <2>6. InHand' = {got.kernel, f} /\ InHand = {got.kernel}
    BY <1>3, <1>4, <2>3, <2>4, <2>5 DEF HandOf
  <2>7. \A s \in Slots : s # new => kstack'[s] = kstack[s] /\ ustack'[s] = ustack[s]
    BY <1>1, <2>1, <2>2 DEF FieldTypes
  <2>8. got.kernel # f
    BY <1>5, <2>6
  <2> QED
    BY <1>1, <1>5, <2>1, <2>2, <2>3, <2>4, <2>5, <2>6, <2>7, <2>8, FramesMove
<1>20. CASE GetProgram
  <2>1. PICK F \in SUBSET free : /\ free' = free \ F
                                 /\ got' = [got EXCEPT !.program = F]
    BY <1>20 DEF GetProgram
  <2>2. /\ making = "program" /\ new \notin Live
        /\ UNCHANGED <<current, gone, level, page_table, tables, maps, user_pgd, kstack, ustack>>
    BY <1>2, <1>20 DEF GetProgram, Making, queue, fields
  <2>3. got'.kernel = got.kernel /\ got'.user = got.user /\ got'.program = F
    BY <1>1, <2>1, GotIs
  <2>4. got.kernel # NULL /\ got.program = {}
    BY <1>1, <2>2 DEF Locals
  <2>5. got.kernel # got.user
    BY <1>1, <2>4 DEF Memory
  <2>6. InHand' = InHand \union F /\ got.kernel \in InHand
    BY <1>3, <1>4, <2>3, <2>4 DEF HandOf
  <2>7. got.kernel \notin F
    BY <1>5, <2>6
  <2> QED
    BY <1>1, <1>5, <2>1, <2>2, <2>3, <2>5, <2>6, <2>7, FramesMove
<1>21. CASE BuildTables
  <2>1. /\ UNCHANGED <<gone, current, level, kstack, ustack, page_table, free, user_pgd>>
        /\ maps' = [maps EXCEPT ![tables + 1] = got.program \union {got.user}]
        /\ got' = [got EXCEPT !.pgd = tables + 1]
    BY <1>21 DEF BuildTables, queue, fields
  <2>2. got'.kernel = got.kernel /\ got'.user = got.user /\ got'.program = got.program
    BY <1>1, <2>1, GotIs
  <2>3. InHand' = InHand /\ Live' = Live
    BY <1>3, <1>4, <2>1, <2>2 DEF Live
  <2>4. tables <= tables'
    BY <1>21, StepMem
  <2>5. ASSUME NEW s \in Slots, page_table[s] # 0 PROVE maps'[page_table[s]] = maps[page_table[s]]
    <3>1. page_table[s] \in 1..Tables /\ page_table[s] <= tables
      BY <1>1, <2>5 DEF FieldTypes, Memory
    <3> QED
      BY <1>1, <2>1, <3>1 DEF MemTypes
  <2>6. \A s \in Live : Holds(s)' = Holds(s)
    BY <2>1, <2>5 DEF Holds, Live
  <2>7. FramesExclusive'
    BY <1>1, <1>5, <2>1, <2>3, <2>6, SameHoldings
  <2>8. \A s \in Slots : page_table[s] <= tables'
    BY <1>1, <2>4 DEF Memory, FieldTypes
  <2>9. FramesAccounted'
    <3>1. \A t \in 1..tables : maps'[t] = maps[t]
      <4>1. \A t \in 1..tables : t \in 1..Tables /\ t # tables + 1
        BY <1>1 DEF MemTypes
      <4> QED
        BY <1>1, <2>1, <4>1 DEF MemTypes
    <3>2. FramesAccounted
      BY <1>1 DEF Memory
    <3> QED
      BY <1>1, <2>1, <2>3, <2>4, <2>6, <3>1, <3>2, NoneLost
  <2> QED
    BY <1>1, <2>1, <2>2, <2>7, <2>8, <2>9 DEF Memory
<1>22. CASE FreeKernelStack
  <2>1. /\ free' = free \union {got.kernel}
        /\ got' = [got EXCEPT !.kernel = NULL]
        /\ UNCHANGED <<current, gone, level, page_table, tables, maps, user_pgd, kstack, ustack>>
    BY <1>22 DEF FreeKernelStack, queue, fields, Q!GiveUp
  <2>2. making = "free kernel stack" /\ new \notin Live
    BY <1>2, <1>22 DEF FreeKernelStack, Making
  <2>3. got'.kernel = NULL /\ got'.user = got.user /\ got'.program = got.program
    BY <1>1, <2>1, GotIs
  <2>4. got.kernel # NULL /\ got.program = {}
    BY <1>1, <2>2 DEF Locals
  <2>5. got.kernel # got.user
    BY <1>1, <2>4 DEF Memory
  <2>6. InHand' = {got.user} \ {NULL} /\ InHand = {got.kernel} \union ({got.user} \ {NULL})
    BY <1>3, <1>4, <2>3, <2>4 DEF HandOf
  <2>7. InHand' \intersect free' = {}
    BY <1>5, <2>1, <2>5, <2>6
  <2> QED
    BY <1>1, <2>1, <2>2, <2>3, <2>6, <2>7, FramesMove
<1>23. CASE FreeUserStack
  <2>1. /\ free' = free \union {got.user}
        /\ got' = [got EXCEPT !.user = NULL]
        /\ UNCHANGED <<current, gone, level, page_table, tables, maps, user_pgd, kstack, ustack>>
    BY <1>23 DEF FreeUserStack, fields, Q!GiveUp
  <2>2. making = "free user stack" /\ new \notin Live
    BY <1>2, <1>23 DEF FreeUserStack, Making
  <2>3. got'.kernel = got.kernel /\ got'.user = NULL /\ got'.program = got.program
    BY <1>1, <2>1, GotIs
  <2>4. got.kernel = NULL /\ got.user # NULL /\ got.program = {}
    BY <1>1, <2>2 DEF Locals
  <2>5. InHand' = {} /\ InHand = {got.user}
    BY <1>3, <1>4, <2>3, <2>4 DEF HandOf
  <2> QED
    BY <1>1, <2>1, <2>2, <2>3, <2>4, <2>5, FramesMove
<1>24. CASE Fill
  <2>1. /\ making = "fill" /\ at = "fill" /\ current = IdleSlot /\ new \in Slots /\ new # IdleSlot
        /\ new \notin Live
    BY <1>1, <1>2, <1>24, QueueIs DEF Fill, Making, Q!Fill
  <2>2. /\ gone' = gone \ {new} /\ current' = current /\ kstack' = kstack
        /\ level' = [level EXCEPT ![new] = IF size = 0 THEN "KERNEL" ELSE "USER"]
        /\ page_table' = [page_table EXCEPT ![new] = got.pgd]
        /\ ustack' = (IF size = 0 THEN [ustack EXCEPT ![new] = NULL] ELSE ustack)
        /\ got' = Nothing /\ free' = free /\ tables' = tables /\ maps' = maps
        /\ user_pgd' = user_pgd
    BY <1>24 DEF Fill, Q!Fill, mem
  <2>3. got'.kernel = NULL /\ got'.user = NULL /\ got'.program = {}
    BY <2>2 DEF Nothing
  <2>4. InHand' = {}
    BY <1>4, <2>3 DEF HandOf
  <2>5. Live' = Live \union {new}
    BY <2>1, <2>2 DEF Live
  <2>6. \A s \in Slots : s # new => ustack'[s] = ustack[s] /\ page_table'[s] = page_table[s]
    BY <1>1, <2>2 DEF FieldTypes
  <2>7. \A s \in Live : /\ kstack'[s] = kstack[s] /\ ustack'[s] = ustack[s]
                        /\ Holds(s)' = Holds(s)
    BY <2>1, <2>2, <2>6 DEF Holds, Live
  <2>8. page_table'[new] = got.pgd /\ level'[new] = IF size = 0 THEN "KERNEL" ELSE "USER"
    BY <1>1, <2>1, <2>2 DEF FieldTypes
  <2>9. got.kernel # NULL /\ got.kernel \in Frames /\ kstack[new] = got.kernel
        /\ got.kernel # got.user
    BY <1>1, <2>1 DEF Locals, Stored, Memory, MakingTypes
  <2>10. ustack'[new] = IF size = 0 THEN NULL ELSE got.user
    BY <1>1, <2>1, <2>2 DEF FieldTypes, Stored
  <2>11. /\ size = 0 => got.user = NULL /\ got.program = {} /\ got.pgd = 0
         /\ size # 0 => got.user # NULL /\ got.pgd # 0 /\ got.pgd <= tables
                        /\ maps[got.pgd] = got.program \union {got.user}
    BY <1>1, <2>1 DEF Locals
  <2>12. PICK t \in Slots : t = new
    BY <2>1
  <2>13. Holds(t)' = InHand
    <3>1. InHand = ({got.kernel, got.user} \ {NULL}) \union got.program
      BY <1>3 DEF HandOf
    <3>2. Holds(t)' = ({kstack'[t], ustack'[t]} \ {NULL})
                        \union (IF page_table'[t] = 0 THEN {} ELSE maps'[page_table'[t]])
      BY DEF Holds
    <3>3. kstack'[t] = got.kernel
      BY <2>2, <2>9, <2>12
    <3>4. CASE size = 0
      <4>1. ustack'[t] = NULL /\ page_table'[t] = 0
        BY <2>8, <2>10, <2>11, <2>12, <3>4
      <4> QED
        BY <2>11, <3>1, <3>2, <3>3, <3>4, <4>1
    <3>5. CASE size # 0
      <4>1. ustack'[t] = got.user /\ page_table'[t] = got.pgd
        BY <2>8, <2>10, <2>12, <3>5
      <4>2. maps'[page_table'[t]] = got.program \union {got.user}
        BY <2>2, <2>11, <3>5, <4>1
      <4> QED
        BY <2>11, <3>1, <3>2, <3>3, <3>5, <4>1, <4>2
    <3> QED
      BY <3>4, <3>5
  <2>18. kstack'[t] \in Frames /\ kstack'[t] # ustack'[t]
    BY <1>1, <2>2, <2>9, <2>10, <2>12
  <2>19. t \notin Live /\ Live' = Live \union {t}
    BY <2>1, <2>5, <2>12
  <2>14. FramesExclusive'
    BY <1>1, <2>2, <2>4, <2>7, <2>13, <2>18, <2>19, NewHoldings
  <2>15. \A s \in Slots : page_table'[s] <= tables'
    BY <1>1, <2>2, <2>6, <2>8, <2>11 DEF Memory
  <2>16. \A s \in Slots : level'[s] = "KERNEL" <=> page_table'[s] = 0
    <3>1. \A s \in Slots : s # new => level'[s] = level[s]
      BY <1>1, <2>2 DEF FieldTypes
    <3> QED
      BY <1>1, <2>6, <2>8, <2>11, <3>1 DEF Memory
  <2>17. user_pgd' = page_table'[current']
    BY <1>5, <2>1, <2>2, <2>6
  <2>20. FramesAccounted'
    <3>1. FramesAccounted
      BY <1>1 DEF Memory
    <3> QED
      BY <1>1, <2>2, <2>7, <2>13, <2>19, <3>1, NoneLost
  <2> QED
    BY <2>3, <2>14, <2>15, <2>16, <2>17, <2>20 DEF Memory
<1> QED
  BY <1>7, <1>8, <1>9, <1>10, <1>11, <1>12, <1>13, <1>14, <1>15, <1>16, <1>17, <1>18, <1>19,
     <1>20, <1>21, <1>22, <1>23, <1>24
  DEF Next, Tick, GiveBack

-----------------------------------------------------------------------------
(* The inductive invariant                                                 *)

(* The initial state satisfies it. *)
LEMMA InitIInv ==
  ASSUME Init
  PROVE  IInv
<1>1. /\ QueueSound /\ IdleSlot \in Slots /\ 1 \in Slots /\ NULL \notin Frames
      /\ TimeSlice \in 0..TimeSlice /\ 0 \in 0..TimeSlice /\ 0 \in 0..MaxSleep
      /\ Tables \in Nat /\ 0 \in 0..Tables /\ 1..0 = {}
  BY InitQueue, SlotsAre, SchedAssumption DEF IdleSlot
<1>2. /\ current = IdleSlot /\ gone = Slots \ {IdleSlot} /\ at = "wfi" /\ making = "none"
      /\ page_table = [s \in Slots |-> 0] /\ ustack = [s \in Slots |-> NULL]
      /\ user_pgd = 0 /\ tables = 0 /\ maps = [t \in 1..Tables |-> {}]
      /\ level = [s \in Slots |-> "KERNEL"] /\ size = 0 /\ entry = 1
      /\ got.kernel = NULL /\ got.user = NULL /\ got.program = {} /\ got.pgd = 0
      /\ got = [kernel |-> NULL, user |-> NULL, program |-> {}, pgd |-> 0]
  BY DEF Init, Q!Init, Nothing
<1>3. PICK f \in Frames : /\ kstack = [s \in Slots |-> IF s = IdleSlot THEN f ELSE NULL]
                          /\ free = Frames \ {f}
  BY DEF Init
<1>4. FieldTypes
  BY <1>1, <1>2, <1>3 DEF Init, FieldTypes
<1>5. MemTypes /\ MakingTypes
  BY <1>1, <1>2, <1>3 DEF MemTypes, MakingTypes, Stages
<1>6. Stage /\ Locals /\ Stored
  BY <1>2 DEF Stage, Locals, Stored
<1>7. Live = {IdleSlot} /\ InHand = {} /\ f # NULL
  BY <1>1, <1>2 DEF Live, InHand
<1>8. Holds(IdleSlot) = {f} /\ kstack[IdleSlot] = f /\ ustack[IdleSlot] = NULL
  BY <1>1, <1>2, <1>3, <1>7 DEF Holds
<1>9. FramesExclusive /\ FramesAccounted
  BY <1>1, <1>3, <1>7, <1>8 DEF FramesExclusive, FramesAccounted
<1>10. Memory
  BY <1>1, <1>2, <1>9 DEF Memory
<1> QED
  BY <1>1, <1>4, <1>5, <1>6, <1>10 DEF IInv

(* Every step keeps it. *)
LEMMA StepIInv ==
  ASSUME IInv, [Next]_vars
  PROVE  IInv'
<1>1. QueueSound'
  BY StepQueue DEF IInv, MakingTypes
<1>2. CASE Next
  BY <1>1, <1>2, StepFields, StepMem, StepMaking, StepStage, StepLocals, StepStored, StepMemory
  DEF IInv
<1>3. CASE UNCHANGED vars
  <2>1. /\ UNCHANGED <<at, new, current, gone>> /\ UNCHANGED <<level, slice, kstack, ustack, page_table>>
        /\ UNCHANGED <<free, tables, maps>> /\ user_pgd' = user_pgd /\ UNCHANGED <<thread, left>>
        /\ UNCHANGED <<making, entry, size, got>>
    BY <1>3 DEF vars, queue, fields, mem, flow, creator
  <2>2. FieldTypes' /\ MemTypes' /\ MakingTypes'
    BY <2>1 DEF IInv, FieldTypes, MemTypes, MakingTypes
  <2>3. Stage' /\ Locals' /\ Stored'
    BY <2>1 DEF IInv, Stage, Locals, Stored
  <2>4. Memory'
    BY <2>1 DEF IInv, Memory, FramesExclusive, FramesAccounted, Live, Holds, InHand
  <2> QED
    BY <1>1, <2>2, <2>3, <2>4 DEF IInv
<1> QED
  BY <1>2, <1>3

(* So it always holds. *)
LEMMA Always == Spec => []IInv
<1>1. Init => IInv
  BY InitIInv
<1>2. IInv /\ [Next]_vars => IInv'
  BY StepIInv
<1> QED
  BY <1>1, <1>2, PTL DEF Spec

(* So does the invariant of the ready queue's list. *)
LEMMA ListAlways == Spec => []RQ!IInv
<1>1. Init => RQ!IInv
  BY InitQueue
<1>2. IInv /\ RQ!IInv /\ [Next]_vars => RQ!IInv'
  BY StepQueue DEF IInv, MakingTypes
<1> QED
  BY <1>1, <1>2, Always, PTL DEF Spec

-----------------------------------------------------------------------------
(* The theorems                                                            *)

(* Every variable has its type: no slice goes below 0, no link leads out   *)
(* of the pool, no creation puts into the allocator what it has not got.   *)
THEOREM TypeCorrect == Spec => []TypeOK
<1>1. IInv => TypeOK
  BY TypesAre DEF IInv
<1> QED
  BY <1>1, Always, PTL

(* Never two tasks RUNNING, also on a list that a tick has torn.           *)
THEOREM OneRunningCorrect == Spec => []OneRunning
<1>1. IInv => OneRunning
  BY QueueIs DEF IInv
<1> QED
  BY <1>1, Always, PTL

(* Until a tick tears the list, whoever exits finds a successor, whatever  *)
(* kernel_main is doing in a creation.                                     *)
THEOREM ExitFindsSuccessorCorrect == Spec => []ExitFindsSuccessor
<1>1. RQ!IInv => ExitFindsSuccessor
  BY DEF RQ!IInv, RQ!Good, RQ!Types, RQ!Running, ExitFindsSuccessor
<1> QED
  BY <1>1, ListAlways, PTL

(* Between two ticks that end a slice, only its own exit takes the         *)
(* processor from a task.                                                  *)
THEOREM KeepsItsSliceCorrect == Spec => KeepsItsSlice
<1>1. ASSUME IInv, [Next]_vars
      PROVE  [current' # current => slice[current] <= 1 \/ state'[current] = "TERMINATED"]_vars
  <2> SUFFICES ASSUME Next, current' # current
               PROVE  slice[current] <= 1 \/ state'[current] = "TERMINATED"
    BY <1>1
  <2>1. CASE TickExpired
    BY <2>1 DEF TickExpired
  <2>2. ASSUME NEW s \in Slots, Exit(s) PROVE state'[current] = "TERMINATED"
    <3>1. /\ s = current /\ head # s
          /\ state' = [[state EXCEPT ![s] = "TERMINATED"] EXCEPT ![head] = "RUNNING"]
          /\ state \in [Slots -> {"READY", "RUNNING", "TERMINATED"}]
      BY <1>1, <2>2, ExitIs, QueueIs DEF IInv
    <3> QED
      BY <3>1
  <2>3. ASSUME UNCHANGED current PROVE FALSE
    BY <2>3
  <2> QED
    BY <2>1, <2>2, <2>3
    DEF Next, Tick, TickInSlice, Yield, Sleep, SleepPoll, Create, ScanFinds, Q!Choose, ScanGoesOn,
        GetKernelStack, NoKernelStack, GetUserStack, NoUserStack, GetProgram, NoProgram,
        BuildTables, NoTables, GiveBack, FreeKernelStack, FreeUserStack, Q!GiveUp, Fill, Q!Fill,
        Link, Q!LinkPrev, Q!LinkNext, Q!SetTail, Q!SetHead, queue
<1> QED
  BY <1>1, Always, PTL DEF Spec, KeepsItsSlice

(* No frame of a live task or of a creation is free or another's, whatever *)
(* error paths, exits in between and torn lists came before.               *)
THEOREM FramesExclusiveCorrect == Spec => []FramesExclusive
<1>1. IInv => FramesExclusive
  BY DEF IInv, Memory
<1> QED
  BY <1>1, Always, PTL

(* A live task runs on its own root table, and what that maps is not free. *)
THEOREM AddressSpaceCorrect == Spec => []AddressSpaceIsOwn
<1>1. ASSUME IInv PROVE AddressSpaceIsOwn
  <2>1. user_pgd = page_table[current] /\ FramesExclusive /\ current \in Slots
    BY <1>1, QueueIs DEF IInv, Memory
  <2>2. ASSUME user_pgd # 0, current \notin gone PROVE maps[user_pgd] \intersect free = {}
    <3>1. current \in Live /\ maps[user_pgd] \subseteq Holds(current)
      BY <2>1, <2>2 DEF Live, Holds
    <3> QED
      BY <2>1, <3>1 DEF FramesExclusive
  <2> QED
    BY <2>1, <2>2 DEF AddressSpaceIsOwn
<1> QED
  BY <1>1, Always, PTL

(* A frame is free, in hand, a live task's, or in a program once mapped:   *)
(* the error paths lose none.                                              *)
THEOREM FramesAccountedCorrect == Spec => []FramesAccounted
<1>1. IInv => FramesAccounted
  BY DEF IInv, Memory
<1> QED
  BY <1>1, Always, PTL

\* What TaskLife sees of states st.
LifeOf(st) == [s \in Slots |-> CASE st[s] = "READY" -> "ready"
                                 [] st[s] = "RUNNING" -> "running"
                                 [] OTHER -> "none"]

(* The steps of TaskLife in terms of the states. *)
LEMMA LifeSteps ==
  ASSUME state \in [Slots -> {"READY", "RUNNING", "TERMINATED"}]
  PROVE  /\ \A n \in Slots : /\ state[n] = "TERMINATED"
                             /\ state' = [state EXCEPT ![n] = "READY"]
                             => Life!Next
         /\ \A r \in Slots, n \in Slots, l \in {"READY", "TERMINATED"} :
              /\ state[r] = "RUNNING" /\ state[n] = "READY"
              /\ state' = [[state EXCEPT ![r] = l] EXCEPT ![n] = "RUNNING"]
              => Life!Next
<1>1. ASSUME NEW n \in Slots, state[n] = "TERMINATED", state' = [state EXCEPT ![n] = "READY"]
      PROVE  Life!Next
  <2>1. LifeOf(state)[n] = "none"
    BY <1>1 DEF LifeOf
  <2>2. LifeOf(state') = [LifeOf(state) EXCEPT ![n] = "ready"]
    BY <1>1 DEF LifeOf
  <2>3. Life!Spawn(n)
    BY <2>1, <2>2 DEF Life!Spawn, LifeOf
  <2> QED
    BY <2>3 DEF Life!Next
<1>2. ASSUME NEW r \in Slots, NEW n \in Slots, NEW l \in {"READY", "TERMINATED"},
             state[r] = "RUNNING", state[n] = "READY",
             state' = [[state EXCEPT ![r] = l] EXCEPT ![n] = "RUNNING"]
      PROVE  Life!Next
  <2> DEFINE k == IF l = "READY" THEN "ready" ELSE "none"
  <2>1. LifeOf(state)[n] = "ready" /\ LifeOf(state)[r] = "running" /\ n # r
    BY <1>2 DEF LifeOf
  <2>2. \A s \in Slots : state'[s] = IF s = n THEN "RUNNING" ELSE IF s = r THEN l ELSE state[s]
    BY <1>2
  <2>3. \A s \in Slots : LifeOf(state')[s] = [[LifeOf(state) EXCEPT ![r] = k] EXCEPT ![n] = "running"][s]
    BY <1>2, <2>2 DEF LifeOf
  <2>4. LifeOf(state') = [LifeOf(state) EXCEPT ![r] = k, ![n] = "running"]
    BY <2>3 DEF LifeOf
  <2>5. k \in {"ready", "none"}
    OBVIOUS
  <2> HIDE DEF k
  <2>6. Life!Dispatch(n)
    BY <2>1, <2>4, <2>5 DEF Life!Dispatch, LifeOf
  <2> QED
    BY <2>6 DEF Life!Next
<1> QED
  BY <1>1, <1>2

(* Until a tick tears the list, a step changes the states as TaskLife      *)
(* allows.                                                                 *)
LEMMA StepLife ==
  ASSUME IInv, RQ!IInv, Next, ~torn'
  PROVE  Life!Next \/ UNCHANGED <<state, torn>>
<1>1. /\ QueueSound /\ entry \in Slots /\ current \in Slots
      /\ state \in [Slots -> {"READY", "RUNNING", "TERMINATED"}]
      /\ torn \in BOOLEAN
      /\ current \notin gone => state[current] = "RUNNING"
  BY QueueIs DEF IInv, MakingTypes, OneRunning
<1>2. [RQ!Next]_(RQ!vars)
  BY <1>1, QueueSteps
<1>3. torn' = torn /\ ~torn
  <2>1. RQ!IInv => torn \in BOOLEAN
    BY DEF RQ!IInv
  <2>2. torn' \in BOOLEAN /\ (torn => torn')
    BY <1>1, <1>2, SlotsAre, RQ!TornStays
  <2> QED
    BY <1>1, <2>2
<1>4. RQ!Types /\ RQ!Running /\ RQ!Creates
  BY <1>3 DEF RQ!IInv, RQ!Good
<1>5. CASE TickExpired
  <2>1. RQ!Tick
    BY <1>5 DEF TickExpired, Q!Tick, Q!Dispatch, Q!Add, Q!Links, Q!SetLinks, Q!Remove, Q!InWindow,
                RQ!Tick, RQ!Dispatch, RQ!Add, RQ!Links, RQ!SetLinks, RQ!Remove, RQ!InWindow
  <2>2. head = NULL \/ (head \in Slots /\ state[head] = "READY")
    BY <1>2, <2>1, SlotsAre, RQ!HeadIsReady
  <2>3. /\ state' = [[state EXCEPT ![current] = "READY"] EXCEPT ![current'] = "RUNNING"]
        /\ current' = IF head = NULL THEN current ELSE head
    BY <1>1, <1>5, TickIs
  <2>4. state[current] = "RUNNING"
    BY <2>1 DEF RQ!Tick
  <2>5. CASE head = NULL
    <3>1. current' = current
      BY <2>3, <2>5
    <3>2. state' = [[state EXCEPT ![current] = "READY"] EXCEPT ![current] = "RUNNING"]
      BY <2>3, <3>1
    <3>3. state' = state
      BY <1>1, <2>4, <3>2
    <3> QED
      BY <1>3, <3>3
  <2>6. CASE head # NULL
    <3>1. current' = head
      BY <2>3, <2>6
    <3>2. state' = [[state EXCEPT ![current] = "READY"] EXCEPT ![head] = "RUNNING"]
      BY <2>3, <3>1
    <3> QED
      BY <1>1, <2>2, <2>4, <2>6, <3>2, LifeSteps
  <2> QED
    BY <2>5, <2>6
<1>6. ASSUME NEW s \in Slots, Exit(s) PROVE Life!Next
  <2>1. RQ!Exit
    BY <1>6 DEF Exit, Q!Exit, Q!Dispatch, Q!Links, Q!SetLinks, Q!Remove,
                RQ!Exit, RQ!Dispatch, RQ!Links, RQ!SetLinks, RQ!Remove
  <2>2. (head = NULL \/ (head \in Slots /\ state[head] = "READY")) /\ current' \notin gone'
    BY <1>2, <2>1, SlotsAre, RQ!HeadIsReady
  <2>3. /\ s = current /\ s \notin gone /\ gone' = gone \union {s}
        /\ head = NULL => current' = s
        /\ head # NULL => state' = [[state EXCEPT ![s] = "TERMINATED"] EXCEPT ![head] = "RUNNING"]
    BY <1>1, <1>6, ExitIs
  <2>4. head # NULL /\ state[s] = "RUNNING"
    BY <1>1, <2>2, <2>3
  <2> QED
    BY <1>1, <2>2, <2>3, <2>4, LifeSteps
<1>7. CASE Fill
  <2>1. at = "fill" /\ state' = [state EXCEPT ![new] = "READY"]
    BY <1>7 DEF Fill, Q!Fill
  <2>2. new \in Slots /\ state[new] = "TERMINATED"
    BY <1>4, <2>1 DEF RQ!Creates
  <2> QED
    BY <1>1, <2>1, <2>2, LifeSteps
<1>8. ASSUME state' = state PROVE UNCHANGED <<state, torn>>
  BY <1>3, <1>8
<1> QED
  BY <1>5, <1>6, <1>7, <1>8
  DEF Next, Tick, TickInSlice, Yield, Sleep, SleepPoll, Create, ScanFinds, Q!Choose, ScanGoesOn,
      GetKernelStack, NoKernelStack, GetUserStack, NoUserStack, GetProgram, NoProgram,
      BuildTables, NoTables, GiveBack, FreeKernelStack, FreeUserStack, Q!GiveUp,
      Link, Q!LinkPrev, Q!LinkNext, Q!SetTail, Q!SetHead, queue

(* Until a tick tears the list, all of the above implements the promise of *)
(* TaskLife: whoever gets the processor was READY.                         *)
THEOREM ImplementsTaskLife == Spec => LifeSafety
<1>1. Init => Life!Init
  <2> SUFFICES ASSUME Init PROVE Life!Init
    OBVIOUS
  <2>1. state = [s \in Slots |-> IF s = IdleSlot THEN "RUNNING" ELSE "TERMINATED"]
    BY DEF Init, Q!Init
  <2> QED
    BY <2>1 DEF Life!Init
<1>2. IInv /\ RQ!IInv /\ [Next]_vars => [torn' \/ Life!Next]_<<state, torn>>
  <2> SUFFICES ASSUME IInv, RQ!IInv, [Next]_vars, ~torn'
               PROVE  Life!Next \/ UNCHANGED <<state, torn>>
    OBVIOUS
  <2>1. CASE Next
    BY <2>1, StepLife
  <2>2. CASE UNCHANGED vars
    BY <2>2 DEF vars, queue
  <2> QED
    BY <2>1, <2>2
<1> QED
  BY <1>1, <1>2, Always, ListAlways, PTL DEF Spec, LifeSafety
=============================================================================
