------------------------------ MODULE Creation ------------------------------
(***************************************************************************)
(* task_create() and task_create_user() of kernel/sched/sched.c against    *)
(* the page allocator of kernel/mm/pmm.c, statement by statement.          *)
(*                                                                         *)
(* kernel_main creates tasks with interrupts open.  A tick may take the    *)
(* processor from it between any two statements, and the tasks that run    *)
(* until it continues may exit: task_exit() pushes their stacks on the     *)
(* free list kernel_main is in the middle of changing.  A task exits with  *)
(* interrupts masked, so kernel_main never runs between the two frees of   *)
(* one exit; who holds the processor otherwise is left to Sched.           *)
(*                                                                         *)
(* A step of kernel_main ends where it next reads or writes the head of    *)
(* the free list or an entry is seen by others; what it does to a page     *)
(* that is off the list, or behind the first one, concerns nobody else.    *)
(* The loops that look for a page read the head more than once at a time,  *)
(* which finds no more than the last of these reads does.                  *)
(*                                                                         *)
(* The `if` on *prev_ptr after such a loop reads the head once more in a   *)
(* build that loads it again (make DEBUG=1, -O0).  An exit before it makes *)
(* an empty list appear to have the page on it, and the head is set to     *)
(* that page's stale link.  The model goes on from there (spoiled), with   *)
(* the walk along a broken list as one step; the properties are about the  *)
(* time before, but for ListAlwaysSound, the claim that fails.             *)
(*                                                                         *)
(* The pages are those that are free once sched_init() has run.  Left out: *)
(* main_zone.free_pages, which loses updates in the same windows but is    *)
(* read by pmm_dump_stats() only, and page->order, which nothing reads.    *)
(***************************************************************************)
EXTENDS PageList

CONSTANTS
  MaxTasks,      \* entries of task_pool beside the idle task's
  NumPages,
  Orders,        \* orders of the blocks the user programs need
  MaxRoots,      \* user tables there is space for
  Reread,        \* the build loads *prev_ptr again after the loop
  NULL

MaxOrder == 3    \* the largest order task_create_user() asks for

Pages == 0..(NumPages - 1)

ASSUME CreationAssumption ==
  /\ MaxTasks \in Nat \ {0} /\ NumPages \in Nat \ {0} /\ MaxRoots \in Nat
  /\ Orders \subseteq 0..MaxOrder /\ \A k \in Orders : 2^k \in 1..NumPages
  /\ Reread \in BOOLEAN /\ NULL \notin Nat

VARIABLES
  flags, refcount, next, \* the fields of struct page
  head,                  \* free_lists[0]
  state, kstack, ustack, \* the fields of struct task
  programs,              \* the program blocks mapped by the tables built so far
  exiting,               \* the slot between the two frees of its exit, or NULL
  at,                    \* where kernel_main is
  task, order,           \* its locals: the slot, and the order of the program
                         \* (NULL in task_create())
  got, prog,             \* ... the pages it holds for stacks, and the block for
                         \* the program
  page, before, hit,     \* ... in alloc_pages() and free_pages(): the page, the
                         \* page whose next prev_ptr points to (NULL: the head)
                         \* and whether the loop found the page there
  rest                   \* ... the pages of the run still to be unlinked

VARIABLE spoiled         \* auxiliary: the head was overwritten for a page that
                         \* was not on the list

allocator == <<flags, refcount, next, head>>
pool      == <<state, kstack, ustack>>
search    == <<page, before, hit, rest>>
locals    == <<at, task, order, got, prog, search>>
vars      == <<allocator, pool, programs, exiting, locals, spoiled>>

Slots == 1..MaxTasks

Block(f, k) == f..(f + 2^k - 1)

Init ==
  /\ flags = [p \in Pages |-> "FREE"]
  /\ refcount = [p \in Pages |-> 0]
  /\ next = [p \in Pages |-> IF p = 0 THEN NULL ELSE p - 1]
  /\ head = NumPages - 1
  /\ state = [s \in Slots |-> "TERMINATED"]
  /\ kstack = [s \in Slots |-> NULL] /\ ustack = [s \in Slots |-> NULL]
  /\ programs = {} /\ exiting = NULL
  /\ at = "idle" /\ task = NULL /\ order = NULL
  /\ got = <<>> /\ prog = {}
  /\ page = NULL /\ before = NULL /\ hit = FALSE /\ rest = {}
  /\ spoiled = FALSE

\* The pages met from the head on, and one more than there are on a cycle.
free_list == Walk(head, next, NumPages + 1, NULL)

-----------------------------------------------------------------------------
(* task_exit(), with interrupts masked                                     *)

\* free_pages(p, 0) as a whole.
FreePage(p) ==
  LET left == IF refcount[p] > 0 THEN refcount[p] - 1 ELSE 0
  IN  /\ refcount' = [refcount EXCEPT ![p] = left]
      /\ IF left = 0
         THEN /\ flags' = [flags EXCEPT ![p] = "FREE"]
              /\ next' = [next EXCEPT ![p] = head] /\ head' = p
         ELSE UNCHANGED <<flags, next, head>>

\* The kernel stack goes back ...
Exit(s) ==
  /\ exiting = NULL /\ state[s] = "READY"
  /\ state' = [state EXCEPT ![s] = "TERMINATED"]
  /\ FreePage(kstack[s])
  /\ kstack' = [kstack EXCEPT ![s] = NULL]
  /\ exiting' = IF ustack[s] = NULL THEN NULL ELSE s
  /\ UNCHANGED <<ustack, programs, locals, spoiled>>

\* ... and the user stack, if there is one.
ExitUserStack ==
  /\ exiting # NULL
  /\ FreePage(ustack[exiting])
  /\ ustack' = [ustack EXCEPT ![exiting] = NULL]
  /\ exiting' = NULL
  /\ UNCHANGED <<state, kstack, programs, locals, spoiled>>

-----------------------------------------------------------------------------
(* kernel_main: alloc_pages()                                              *)

\* kernel_main executes its next statement.
Runs == exiting = NULL

\* Variant: a failed allocation returns 0 and nothing else.
FailReturns ==
  /\ at' = "idle" /\ got' = <<>>
  /\ UNCHANGED <<prog, search>>

\* A failed allocation: what the creator holds is given back, if anything.
Fail ==
  /\ at' = IF got = <<>> THEN "idle" ELSE "undo"
  /\ UNCHANGED <<got, prog, search>>

WantsOne == at \in {"kernel stack", "user stack"} \/ (at = "program" /\ order = 0)

\* alloc_pages(0): the head of the list is read ...
ReadHead ==
  /\ Runs /\ WantsOne /\ page = NULL
  /\ IF head = NULL THEN Fail
     ELSE /\ page' = head /\ before' = NULL /\ hit' = TRUE
          /\ UNCHANGED <<at, got, prog, rest>>
  /\ UNCHANGED <<allocator, pool, programs, exiting, task, order, spoiled>>

\* Variant: the search looks at one page too few.
FreeRunsShort(k) == {f \in 0..(NumPages - 2^k) :
                       \A p \in f..(f + 2^k - 2) : flags[p] = "FREE"}

\* Variant: the search goes one page beyond the last.
FreeRunsPastEnd(k) == {f \in 0..(NumPages - 2^k + 1) :
                         \A p \in Block(f, k) \intersect Pages : flags[p] = "FREE"}

\* alloc_pages(order): the search for a run of free pages.  Pages become free
\* while it goes on, never the reverse: a run it finds is free then, though
\* an earlier one may have become free behind it; and if it finds none there
\* was none when it began.
FreeRuns(k) == {f \in 0..(NumPages - 2^k) :
                  \A p \in Block(f, k) : flags[p] = "FREE"}

Search ==
  /\ Runs /\ at = "program" /\ order # 0 /\ prog = {}
  /\ \/ FreeRuns(order) = {} /\ Fail
     \/ /\ \E f \in FreeRuns(order) : prog' = Block(f, order) /\ rest' = prog'
        /\ UNCHANGED <<at, got, page, before, hit>>
  /\ UNCHANGED <<allocator, pool, programs, exiting, task, order, spoiled>>

\* Where a loop along list that looks for p ends, and whether it found p there.
EndsAt(list, p, b, found) ==
  \/ \E i \in 1..Len(list) : /\ list[i] = p /\ \A j \in 1..(i - 1) : list[j] # p
                             /\ b = (IF i = 1 THEN NULL ELSE list[i - 1])
                             /\ found
  \/ /\ \A i \in 1..Len(list) : list[i] # p
     /\ b = (IF list = <<>> THEN NULL ELSE list[Len(list)])
     /\ ~found

\* The loop that looks for the next page of the run goes along the list as the
\* head is when it last reads it; on a cycle without the page it never ends.
Find ==
  /\ Runs /\ at = "program" /\ rest # {} /\ page = NULL
  /\ \E p \in rest :
       /\ \A q \in rest : p <= q
       /\ IF Len(free_list) > NumPages /\ p \notin Entries(free_list)
          THEN at' = "hung" /\ UNCHANGED <<page, before, hit>>
          ELSE /\ page' = p /\ UNCHANGED at
               /\ \E b \in Pages \union {NULL}, found \in BOOLEAN :
                    EndsAt(free_list, p, b, found) /\ before' = b /\ hit' = found
  /\ UNCHANGED <<allocator, pool, programs, exiting, task, order, got, prog, rest, spoiled>>

\* *prev_ptr
Target == IF before = NULL THEN head ELSE next[before]

\* Variant: a page that is first on the list stays there.
UnlinksBehind == hit /\ before # NULL

\* *prev_ptr is overwritten: for one page always, in a run if it is not NULL.
Unlinks == WantsOne \/ (IF Reread THEN Target # NULL ELSE hit)

\* The page is taken and the creator keeps it; the last one of the program
\* completes the memory of a user task.
Take ==
  /\ Runs /\ page # NULL /\ at # "undo"
  /\ head' = IF Unlinks /\ before = NULL THEN next[page] ELSE head
  /\ next' = IF Unlinks /\ before # NULL
             THEN [next EXCEPT ![before] = next[page], ![page] = NULL]
             ELSE [next EXCEPT ![page] = NULL]
  /\ spoiled' = (spoiled \/ (Unlinks /\ ~hit))
  /\ flags' = [flags EXCEPT ![page] = "USED"]
  /\ refcount' = [refcount EXCEPT ![page] = 1]
  /\ page' = NULL /\ before' = NULL /\ hit' = FALSE /\ rest' = rest \ {page}
  /\ \/ /\ at = "kernel stack"
        /\ kstack' = [kstack EXCEPT ![task] = page]
        /\ got' = <<page>>
        /\ at' = IF order = NULL THEN "publish" ELSE "user stack"
        /\ UNCHANGED <<ustack, prog>>
     \/ /\ at = "user stack"
        /\ ustack' = [ustack EXCEPT ![task] = page]
        /\ got' = Append(got, page)
        /\ at' = "program"
        /\ UNCHANGED <<kstack, prog>>
     \/ /\ at = "program"
        /\ prog' = prog \union {page}
        /\ at' = IF rest' = {} THEN "tables" ELSE "program"
        /\ UNCHANGED <<kstack, ustack, got>>
  /\ UNCHANGED <<state, programs, exiting, task, order>>

-----------------------------------------------------------------------------
(* kernel_main: the creators                                               *)

\* The first free entry is chosen; without one the creators return 0.
Scan(k) ==
  /\ Runs /\ at = "idle"
  /\ \E s \in Slots : /\ state[s] = "TERMINATED"
                      /\ \A t \in 1..(s - 1) : state[t] # "TERMINATED"
                      /\ task' = s
  /\ order' = k /\ at' = "kernel stack"
  /\ UNCHANGED <<allocator, pool, programs, exiting, got, prog, search, spoiled>>

\* Variant: the program's pages are given back once they are mapped.
BuildTablesFreesProgram ==
  /\ Runs /\ at = "tables"
  /\ Cardinality(programs) < MaxRoots
  /\ at' = "publish" /\ programs' = programs \union {prog} /\ prog' = {}
  /\ flags' = [p \in Pages |-> IF p \in prog THEN "FREE" ELSE flags[p]]
  /\ UNCHANGED <<refcount, next, head, pool, exiting, task, order, got, search, spoiled>>

\* mmu_create_user_table() and the mappings.  Without space for the tables
\* alloc_page_table() stops kernel_main for good.
BuildTables ==
  /\ Runs /\ at = "tables"
  /\ IF Cardinality(programs) < MaxRoots
     THEN at' = "publish" /\ programs' = programs \union {prog} /\ prog' = {}
     ELSE at' = "hung" /\ UNCHANGED <<programs, prog>>
  /\ UNCHANGED <<allocator, pool, exiting, task, order, got, search, spoiled>>

\* Variant: task_create() leaves user_stack_base as it finds it.
PublishKeepsUserStack ==
  /\ Runs /\ at = "publish"
  /\ state' = [state EXCEPT ![task] = "READY"]
  /\ at' = "idle" /\ got' = <<>> /\ task' = NULL /\ order' = NULL
  /\ UNCHANGED <<allocator, kstack, ustack, programs, exiting, prog, search, spoiled>>

\* The rest of the entry is filled in and the task made ready.
Publish ==
  /\ Runs /\ at = "publish"
  /\ state' = [state EXCEPT ![task] = "READY"]
  /\ ustack' = IF order = NULL THEN [ustack EXCEPT ![task] = NULL] ELSE ustack
  /\ at' = "idle" /\ got' = <<>> /\ task' = NULL /\ order' = NULL
  /\ UNCHANGED <<allocator, kstack, programs, exiting, prog, search, spoiled>>

\* free_pages(p, 0) on an error path: the reference goes, the page is marked
\* and linked to the head of the list as it is then ...
UndoLink ==
  /\ Runs /\ at = "undo" /\ page = NULL
  /\ page' = Head(got)
  /\ refcount' = [refcount EXCEPT ![page'] = 0]
  /\ flags' = [flags EXCEPT ![page'] = "FREE"]
  /\ next' = [next EXCEPT ![page'] = head]
  /\ got' = Tail(got)
  /\ UNCHANGED <<head, pool, programs, exiting, at, task, order, prog, before, hit, rest,
                 spoiled>>

\* ... and becomes the head.
UndoPush ==
  /\ Runs /\ at = "undo" /\ page # NULL
  /\ head' = page /\ page' = NULL
  /\ at' = IF got = <<>> THEN "idle" ELSE "undo"
  /\ UNCHANGED <<flags, refcount, next, pool, programs, exiting, task, order, got, prog,
                 before, hit, rest, spoiled>>

Next ==
  \/ \E s \in Slots : Exit(s)
  \/ ExitUserStack
  \/ \E k \in Orders \union {NULL} : Scan(k)
  \/ ReadHead \/ Search \/ Find \/ Take \/ BuildTables \/ Publish
  \/ UndoLink \/ UndoPush

Spec == Init /\ [][Next]_vars

-----------------------------------------------------------------------------
(* Properties                                                              *)

(* Every variable has its type; no block reaches beyond the last page. *)
TypeOK ==
  /\ flags \in [Pages -> {"FREE", "USED"}]
  /\ refcount \in [Pages -> {0, 1}]
  /\ next \in [Pages -> Pages \union {NULL}] /\ head \in Pages \union {NULL}
  /\ state \in [Slots -> {"READY", "TERMINATED"}]
  /\ kstack \in [Slots -> Pages \union {NULL}]
  /\ ustack \in [Slots -> Pages \union {NULL}]
  /\ programs \subseteq SUBSET Pages /\ prog \subseteq Pages
  /\ exiting \in Slots \union {NULL} /\ task \in Slots \union {NULL}
  /\ at \in {"idle", "kernel stack", "user stack", "program", "tables", "publish",
             "undo", "hung"}
  /\ order \in Orders \union {NULL}
  /\ got \in Seq(Pages) /\ Len(got) <= 2
  /\ page \in Pages \union {NULL} /\ before \in Pages \union {NULL}
  /\ hit \in BOOLEAN /\ rest \subseteq prog /\ spoiled \in BOOLEAN

\* Who uses which pages: ready tasks and one that exits their stacks, a creator
\* what it was given so far, and the tables the programs they map.
Holding(by, of, B) == [by |-> by, of |-> of, pages |-> B]

Stacks ==
       {Holding("kernel stack", s, {kstack[s]}) : s \in {t \in Slots : state[t] = "READY"}}
  \union {Holding("user stack", s, {ustack[s]}) :
            s \in {t \in Slots : /\ state[t] = "READY" \/ t = exiting
                                 /\ ustack[t] # NULL}}
  \union {Holding("creator", i, {got[i]}) : i \in 1..Len(got)}

Programs == {Holding("tables", NULL, B) : B \in programs \union ({prog} \ {{}})}

Holdings == Stacks \union Programs

(* Until the head is spoiled a page has one holder: whichever statements   *)
(* of alloc_pages() and free_pages() in kernel_main an exit falls between, *)
(* and whatever pages that loses, none is handed out twice.                *)
OneHolder == ~spoiled => \A h, g \in Holdings : h # g => h.pages \intersect g.pages = {}

(* alloc_pages() "Remove from free list": the list never holds a page      *)
(* twice, or one that is in use.  This fails once a second read of the     *)
(* head takes a page that an exit has pushed for the one looked for.       *)
ListAlwaysSound ==
  /\ Distinct(free_list)
  /\ \A p \in Entries(free_list) : flags[p] = "FREE"

(* Nothing else spoils the list: the addresses of stacks that a failed     *)
(* task_create_user() leaves in the entry are not given back once more,    *)
(* and a head that is overwritten with a value read earlier does not bring *)
(* pages back that were taken since.                                       *)
ListSound == ~spoiled => ListAlwaysSound

(* Until then a stack that an exit or an error path will give back is      *)
(* marked USED and has one reference: free_pages() will push it, and only  *)
(* once.                                                                   *)
ReturnsOnce == ~spoiled => \A h \in Stacks, p \in Pages :
                 p \in h.pages => flags[p] = "USED" /\ refcount[p] = 1

(* A page that is marked USED has a holder: no error path of the creators  *)
(* loses what was allocated before the failure.  (A page may be lost the   *)
(* other way: FREE, but on no list.)                                       *)
Accounted == {p \in Pages : flags[p] = "USED"} \subseteq UNION {h.pages : h \in Holdings}

(* Until then the promise of PageOwner is kept in spite of the             *)
(* interleavings.                                                          *)
avail == {p \in Pages : flags[p] = "FREE"} \ prog
owned == {h.pages : h \in Holdings}

Owner == INSTANCE PageOwner WITH Reserved <- {}

OwnerSafety == Owner!Init /\ [][spoiled' \/ Owner!Next]_<<avail, owned, spoiled>>
=============================================================================
