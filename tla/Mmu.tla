-------------------------------- MODULE Mmu --------------------------------
(***************************************************************************)
(* Translation tables, kernel/mm/mmu.c: the bump allocator of tables, the  *)
(* four-level trees under the kernel's root and the users' roots, the      *)
(* software walk, the table in TTBR0_EL1 with the TLB it fills, and the    *)
(* walk the hardware does with the TCR_EL1 that mmu_enable() writes.       *)
(*                                                                         *)
(* A virtual page is the sequence of its four table indices.  A descriptor *)
(* is <<>> (invalid), <<"table", n>> or <<"page", frame>>; the attributes  *)
(* are left out.  A range is mapped page by page, as the code does.        *)
(***************************************************************************)
EXTENDS Naturals, Sequences, FiniteSets

CONSTANTS
  NumTables,     \* tables between __page_tables_start and __page_tables_end
  Index,         \* table indices (512 of them in the code)
  KernelPages,   \* virtual pages that mmu_init() maps to themselves
  UserPages,     \* virtual pages below USER_VA_SIZE: the first index is 0
  Frames,        \* frames given to user programs
  FirstLevel     \* level where the hardware starts its walk; T0SZ = 64 - 39
                 \* in TCR_EL1 makes it 1

VPages == KernelPages \union UserPages

ASSUME MmuAssumption ==
  /\ NumTables \in Nat \ {0}
  /\ Index \subseteq Nat
  /\ VPages \subseteq Index \X Index \X Index \X Index
  /\ \A v \in UserPages : v[1] = 0
  /\ FirstLevel \in {0, 1}

VARIABLES
  entries,            \* the tables
  next_page_table,    \* the next table the bump allocator hands out
  roots,              \* root tables: the kernel's, then the users'
  on,                 \* SCTLR_EL1.M
  current_user_pgd,   \* what TTBR0_EL1 holds, 0 for NULL
  tlb,                \* <<page, descriptor>> of cached translations
  installed,          \* roots that have been in TTBR0_EL1
  hung                \* a caller of alloc_page_table() waits for ever

space == <<entries, next_page_table>>
vars  == <<space, roots, on, current_user_pgd, tlb, installed, hung>>

Tables == 1..NumTables
kernel_pgd == 1

Empty == [i \in Index |-> <<>>]

\* mmu_init() has allocated the kernel's root.
Init ==
  /\ entries = [t \in Tables |-> Empty]
  /\ next_page_table = 2
  /\ roots = {kernel_pgd}
  /\ on = FALSE /\ current_user_pgd = 0
  /\ tlb = {} /\ installed = {} /\ hung = FALSE

-----------------------------------------------------------------------------
(* Building and walking a tree                                             *)

\* The tables being built: m.tables, the next free one m.next, and m.at, the
\* table reached on the way down, 0 when the space ran out.
Built(root) == [tables |-> entries, next |-> next_page_table, at |-> root]

\* Variant: the allocator hands out the same table again.
CreateReuses(m, i) ==
  IF m.at = 0 THEN m
  ELSE IF m.tables[m.at][i] # <<>> THEN [m EXCEPT !.at = m.tables[m.at][i][2]]
  ELSE IF m.next > NumTables THEN [m EXCEPT !.at = 0]
  ELSE [tables |-> [m.tables EXCEPT ![m.at][i] = <<"table", m.next>>],
        next |-> m.next, at |-> m.next]

\* get_or_create_table()
GetOrCreate(m, i) ==
  IF m.at = 0 THEN m
  ELSE IF m.tables[m.at][i] # <<>> THEN [m EXCEPT !.at = m.tables[m.at][i][2]]
  ELSE IF m.next > NumTables THEN [m EXCEPT !.at = 0]
  ELSE [tables |-> [m.tables EXCEPT ![m.at][i] = <<"table", m.next>>],
        next |-> m.next + 1, at |-> m.next]

\* map_page() and mmu_map_user_page(): three tables down, then the page entry.
MapIn(root, v, f) ==
  LET m == GetOrCreate(GetOrCreate(GetOrCreate(Built(root), v[1]), v[2]), v[3])
  IN  /\ next_page_table' = m.next
      /\ hung' = (m.at = 0)
      /\ entries' = IF m.at = 0 THEN m.tables
                    ELSE [m.tables EXCEPT ![m.at][v[4]] = <<"page", f>>]

\* One step of a walk from descriptor e.
Step(e, i) == IF e = <<>> THEN <<>> ELSE entries[e[2]][i]

\* mmu_get_physical()
Walk(root, v) ==
  Step(Step(Step(Step(<<"table", root>>, v[1]), v[2]), v[3]), v[4])

\* The walk of the hardware for a page below USER_VA_SIZE: from TTBR0_EL1.
HardwareWalk(v) ==
  IF current_user_pgd = 0 THEN <<>>
  ELSE LET root == <<"table", current_user_pgd>>
           top  == IF FirstLevel = 0 THEN Step(root, v[1]) ELSE root
           e    == Step(Step(Step(top, v[2]), v[3]), v[4])
       IN  IF e = <<>> THEN <<>> ELSE <<"page", e[2]>>

-----------------------------------------------------------------------------
(* Operations                                                              *)

\* create_identity_mapping(), one page of it.
MapKernel(v) ==
  /\ ~hung /\ ~on
  /\ MapIn(kernel_pgd, v, v)
  /\ UNCHANGED <<roots, on, current_user_pgd, tlb, installed>>

\* mmu_enable()
Enable ==
  /\ ~hung /\ ~on
  /\ on' = TRUE /\ current_user_pgd' = 0
  /\ UNCHANGED <<space, roots, tlb, installed, hung>>

\* Variant: unmapping clears the entry one level up.
UnmapClearsTable(v) ==
  /\ ~hung /\ on
  /\ LET pmd == Step(Step(<<"table", kernel_pgd>>, v[1]), v[2])
     IN  /\ pmd # <<>> /\ entries[pmd[2]][v[3]] # <<>>
         /\ entries' = [entries EXCEPT ![pmd[2]][v[3]] = <<>>]
  /\ tlb' = {x \in tlb : x[1] # v}
  /\ UNCHANGED <<next_page_table, roots, on, current_user_pgd, installed, hung>>

\* unmap_page()
Unmap(v) ==
  /\ ~hung /\ on
  /\ LET pte_table == Step(Step(Step(<<"table", kernel_pgd>>, v[1]), v[2]), v[3])
     IN  /\ pte_table # <<>>
         /\ entries' = [entries EXCEPT ![pte_table[2]][v[4]] = <<>>]
  /\ tlb' = {x \in tlb : x[1] # v}
  /\ UNCHANGED <<next_page_table, roots, on, current_user_pgd, installed, hung>>

\* mmu_create_user_table()
CreateUserTable ==
  /\ ~hung /\ on
  /\ IF next_page_table > NumTables
     THEN hung' = TRUE /\ UNCHANGED <<next_page_table, roots>>
     ELSE /\ roots' = roots \union {next_page_table}
          /\ next_page_table' = next_page_table + 1
          /\ UNCHANGED hung
  /\ UNCHANGED <<entries, on, current_user_pgd, tlb, installed>>

\* mmu_map_user_page(), on a table under construction: task_create_user() maps
\* before the task is queued.
MapUser(r, v, f) ==
  /\ ~hung
  /\ r \in roots \ ({kernel_pgd} \union installed)
  /\ MapIn(r, v, f)
  /\ UNCHANGED <<roots, on, current_user_pgd, tlb, installed>>

\* Variant: the kernel's root is accepted as a user's.
SwitchToAnyRoot(r) ==
  /\ on /\ r \in roots \union {0}
  /\ r # current_user_pgd
  /\ current_user_pgd' = r
  /\ installed' = installed \union ({r} \ {0})
  /\ tlb' = {}
  /\ UNCHANGED <<space, roots, on, hung>>

\* Variant: the TLB is not invalidated.
SwitchKeepsTlb(r) ==
  /\ on /\ r \in (roots \ {kernel_pgd}) \union {0}
  /\ current_user_pgd' = r
  /\ installed' = installed \union ({r} \ {0})
  /\ UNCHANGED <<space, roots, on, hung, tlb>>

\* mmu_switch_user_table(), from schedule().
SwitchUserTable(r) ==
  /\ on /\ r \in (roots \ {kernel_pgd}) \union {0}
  /\ r # current_user_pgd
  /\ current_user_pgd' = r
  /\ installed' = installed \union ({r} \ {0})
  /\ tlb' = {}
  /\ UNCHANGED <<space, roots, on, hung>>

\* mmu_destroy_user_table(): TTBR0_EL1 is cleared, the TLB is not.
Destroy(r) ==
  /\ r \in installed /\ current_user_pgd = r
  /\ current_user_pgd' = 0
  /\ UNCHANGED <<space, roots, on, tlb, installed, hung>>

\* The processor caches a translation it has walked.
FillTlb(v) ==
  /\ on /\ HardwareWalk(v) # <<>>
  /\ \A x \in tlb : x[1] # v
  /\ tlb' = tlb \union {<<v, HardwareWalk(v)>>}
  /\ UNCHANGED <<space, roots, on, current_user_pgd, installed, hung>>

Next ==
  \/ \E v \in KernelPages : MapKernel(v) \/ Unmap(v)
  \/ Enable
  \/ CreateUserTable
  \/ \E r \in Tables, v \in UserPages, f \in Frames : MapUser(r, v, f)
  \/ \E r \in Tables \union {0} : SwitchUserTable(r)
  \/ \E r \in Tables : Destroy(r)
  \/ \E v \in UserPages : FillTlb(v)

Spec == Init /\ [][Next]_vars

-----------------------------------------------------------------------------
(* Properties                                                              *)

Descriptors == {<<>>} \union ({"table"} \X Tables) \union ({"page"} \X (Frames \union VPages))

(* Tables, roots and TLB have their types.                                 *)
TypeOK ==
  /\ entries \in [Tables -> [Index -> Descriptors]]
  /\ next_page_table \in 2..(NumTables + 1)
  /\ roots \subseteq Tables /\ kernel_pgd \in roots
  /\ current_user_pgd \in {0} \union (roots \ {kernel_pgd})
  /\ installed \subseteq roots
  /\ on \in BOOLEAN /\ hung \in BOOLEAN
  /\ \A x \in tlb : x[1] \in UserPages

PointersTo(t) == {x \in Tables \X Index : entries[x[1]][x[2]] = <<"table", t>>}

(* The tables form disjoint trees: a table in use is a root nobody points  *)
(* at or has one descriptor pointing at it, and a table not handed out has *)
(* none.  Two address spaces share no table, so a page mapped in one never *)
(* appears in another.                                                     *)
Trees ==
  \A t \in Tables :
    Cardinality(PointersTo(t)) = IF t < next_page_table /\ t \notin roots THEN 1 ELSE 0

Coherent == \A x \in tlb : x[2] = HardwareWalk(x[1])

(* After every step the cached translations are those the table in         *)
(* TTBR0_EL1 gives: all users share ASID 0, so nothing cached for one may  *)
(* outlive the switch to another, or to a kernel task.  The one exception  *)
(* lasts from mmu_destroy_user_table() to the next table installed.        *)
TlbCoherent ==
  [][\/ Coherent'
     \/ current_user_pgd' = 0 /\ (~Coherent \/ \E r \in Tables : Destroy(r))]_vars

(* With the MMU on, what the kernel mapped to itself is still translated   *)
(* to itself ("Create identity mapping for kernel and devices", mmu.c).    *)
KernelStaysMapped ==
  on => \A v \in KernelPages :
          Walk(kernel_pgd, v) # <<>> => HardwareWalk(v) = <<"page", v>>

(* The promise of AddressSpaces, by the software walk. *)
Map == INSTANCE AddressSpaces WITH
         Names <- Tables, Pages <- VPages, NONE <- <<>>,
         space <- [r \in roots |-> [v \in VPages |-> Walk(r, v)]]

MapSafety == Map!Spec
=============================================================================
