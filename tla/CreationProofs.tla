---------------------------- MODULE CreationProofs ----------------------------
(***************************************************************************)
(* The creators against exits, for any number of task entries and pages:   *)
(* whichever statements of alloc_pages() and free_pages() an exit falls    *)
(* between, until a second read of the head spoils the list a page has one *)
(* holder and is given back once; and it stays accounted for even then.    *)
(***************************************************************************)
EXTENDS Creation, PageListProofs

(***************************************************************************)
(* The holders, and the pages each of them claims.  The entries of two     *)
(* tasks, or two stages of a creation, are different holders even if the   *)
(* code never tells them apart.                                            *)
(***************************************************************************)
Tables  == {"tables"} \X SUBSET Pages
Owners  == ({"kernel stack", "user stack"} \X Slots) \union ({"creator"} \X Pages)
Holders == Owners \union Tables

KernelClaim(s)  == IF state[s] = "READY" THEN {kstack[s]} ELSE {}
UserClaim(s)    == IF (state[s] = "READY" \/ s = exiting) /\ ustack[s] # NULL
                   THEN {ustack[s]} ELSE {}
CreatorClaim(p) == IF p \in Entries(got) THEN {p} ELSE {}
TableClaim(B)   == IF B \in programs \union {prog} THEN B ELSE {}

Claims(h) == IF h[1] = "kernel stack" THEN KernelClaim(h[2])
             ELSE IF h[1] = "user stack" THEN UserClaim(h[2])
             ELSE IF h[1] = "creator" THEN CreatorClaim(h[2])
             ELSE TableClaim(h[2])

-----------------------------------------------------------------------------
(* What is inductive.                                                      *)

\* Where kernel_main is tells what it holds, in its locals and in the entry it
\* fills in; that entry is nobody else's.
Creating == at \in {"kernel stack", "user stack", "program", "tables", "publish",
                    "undo", "hung"}

Place ==
  /\ Creating => task \in Slots /\ state[task] = "TERMINATED" /\ task # exiting
  /\ at \in {"idle", "kernel stack"} => got = <<>>
  /\ at = "user stack" => Len(got) = 1
  /\ at \in {"program", "tables", "hung"} => Len(got) = 2
  /\ at \in {"user stack", "program", "tables", "hung"} => order # NULL
  /\ at = "publish" => Len(got) = IF order = NULL THEN 1 ELSE 2
  /\ at = "undo" /\ page = NULL => got # <<>>
  /\ at \notin {"idle", "undo"} /\ Len(got) > 0 => kstack[task] = got[1]
  /\ at \notin {"idle", "undo"} /\ Len(got) > 1 => ustack[task] = got[2]

\* The block of a program that is being taken, and those that were.
Taking ==
  /\ prog # {} => at \in {"program", "tables", "hung"}
  /\ at = "program" /\ prog # {} => order # 0
  /\ at \in {"tables", "hung"} => prog # {}
  /\ rest # {} => at \in {"program", "hung"}
  /\ page # NULL => at \in {"kernel stack", "user stack", "program", "undo"}
  /\ page # NULL /\ at = "program" /\ order # 0 => page \in rest
  /\ {} \notin programs

\* The stacks an exit will give back are there.
Stacked ==
  /\ \A s \in Slots : state[s] = "READY" => kstack[s] \in Pages
  /\ exiting # NULL => state[exiting] = "TERMINATED" /\ ustack[exiting] \in Pages

\* What is marked is claimed.
Claimed == \A p \in Pages : flags[p] = "USED" => \E h \in Holders : p \in Claims(h)

\* This much holds whatever becomes of the list.
Base == TypeOK /\ Place /\ Taking /\ Stacked /\ Claimed

\* The locals of kernel_main tell the pages apart.
Locals ==
  /\ Distinct(got)
  /\ at \in {"program", "tables"} => rest = {p \in prog : flags[p] = "FREE"}
  /\ page # NULL => flags[page] = "FREE"
  /\ page # NULL /\ WantsOne => hit /\ before = NULL

\* From h on lies a list of the free pages S.
FreeChain(h, S, depth) ==
  /\ Chain(h, next, S, depth, NULL)
  /\ S \subseteq Pages /\ \A p \in S : flags[p] = "FREE"

\* What the loop that looked for a page behind the first has found is still
\* so: exits only change what lies before it.
Found(S) ==
  page # NULL /\ at # "undo" /\ ~(hit /\ before = NULL) =>
    IF hit THEN before \in S /\ page \in S /\ next[before] = page
    ELSE page \notin S /\ (before # NULL => before \in S /\ next[before] = NULL)

Listed == \E S, depth : FreeChain(head, S, depth) /\ Found(S)

\* Where the head itself will be overwritten: from the page on lies the list as
\* it was when the head was read, whatever was pushed since.
Ahead ==
  page # NULL /\ (at = "undo" \/ (hit /\ before = NULL)) =>
    \E S, depth : FreeChain(page, S, depth)

\* No two holders share a page, ...
Apart == \A h, g \in Holders : h # g => Claims(h) \intersect Claims(g) = {}

\* ... and what they claim is marked, a program block once it is complete.
Marked ==
  /\ \A h \in Owners : \A p \in Claims(h) : flags[p] = "USED" /\ refcount[p] = 1
  /\ \A B \in programs : \A p \in B : flags[p] = "USED"

\* This much holds until the head is spoiled.
Good == Locals /\ Listed /\ Ahead /\ Apart /\ Marked

Firm == Base /\ Good

IInv ==
  /\ Base
  /\ ~spoiled => Good
  /\ ~Reread => ~spoiled

-----------------------------------------------------------------------------
(* Holders and claims                                                      *)

(* A holder is a task's stack, a page of the creator or a table.           *)
LEMMA Kinds ==
  ASSUME NEW h \in Holders
  PROVE  \/ \E s \in Slots : h = <<"kernel stack", s>>
         \/ \E s \in Slots : h = <<"user stack", s>>
         \/ \E p \in Pages : h = <<"creator", p>>
         \/ \E B \in SUBSET Pages : h = <<"tables", B>>
<1>1. CASE h \in {"kernel stack", "user stack"} \X Slots
  <2> DEFINE stacks == {"kernel stack", "user stack"}
  <2>1. \A k \in stacks : k = "kernel stack" \/ k = "user stack"
    OBVIOUS
  <2>2. h \in stacks \X Slots
    BY <1>1
  <2> HIDE DEF stacks
  <2>3. h = <<h[1], h[2]>> /\ h[1] \in stacks /\ h[2] \in Slots
    BY <2>2
  <2> QED
    BY <2>1, <2>3
<1>2. CASE h \in {"creator"} \X Pages
  <2>1. h = <<"creator", h[2]>> /\ h[2] \in Pages
    BY <1>2
  <2> QED
    BY <2>1
<1>3. CASE h \in {"tables"} \X SUBSET Pages
  <2>1. h = <<"tables", h[2]>> /\ h[2] \in SUBSET Pages
    BY <1>3
  <2> QED
    BY <2>1
<1> QED
  BY <1>1, <1>2, <1>3 DEF Holders, Owners, Tables

(* The holders by kind, and what each claims before and after a step.      *)
LEMMA ClaimsOf ==
  /\ \A s \in Slots : /\ <<"kernel stack", s>> \in Owners /\ <<"kernel stack", s>> \in Holders
                      /\ Claims(<<"kernel stack", s>>) = KernelClaim(s)
                      /\ Claims(<<"kernel stack", s>>)' = KernelClaim(s)'
  /\ \A s \in Slots : /\ <<"user stack", s>> \in Owners /\ <<"user stack", s>> \in Holders
                      /\ Claims(<<"user stack", s>>) = UserClaim(s)
                      /\ Claims(<<"user stack", s>>)' = UserClaim(s)'
  /\ \A p \in Pages : /\ <<"creator", p>> \in Owners /\ <<"creator", p>> \in Holders
                      /\ Claims(<<"creator", p>>) = CreatorClaim(p)
                      /\ Claims(<<"creator", p>>)' = CreatorClaim(p)'
  /\ \A B \in SUBSET Pages : /\ <<"tables", B>> \in Holders /\ <<"tables", B>> \notin Owners
                             /\ Claims(<<"tables", B>>) = TableClaim(B)
                             /\ Claims(<<"tables", B>>)' = TableClaim(B)'
  BY DEF Holders, Owners, Tables, Claims

(* A step that changes the claim of at most one holder x, kind by kind.    *)
LEMMA Frame ==
  ASSUME NEW x,
         \A s \in Slots : <<"kernel stack", s>> # x => KernelClaim(s)' = KernelClaim(s),
         \A s \in Slots : <<"user stack", s>> # x => UserClaim(s)' = UserClaim(s),
         \A p \in Pages : <<"creator", p>> # x => CreatorClaim(p)' = CreatorClaim(p),
         \A B \in SUBSET Pages : <<"tables", B>> # x => TableClaim(B)' = TableClaim(B)
  PROVE  \A h \in Holders : h # x => Claims(h)' = Claims(h)
<1> SUFFICES ASSUME NEW h \in Holders, h # x
             PROVE  Claims(h)' = Claims(h)
  OBVIOUS
<1>1. CASE \E s \in Slots : h = <<"kernel stack", s>>
  BY <1>1, ClaimsOf
<1>2. CASE \E s \in Slots : h = <<"user stack", s>>
  BY <1>2, ClaimsOf
<1>3. CASE \E p \in Pages : h = <<"creator", p>>
  BY <1>3, ClaimsOf
<1>4. CASE \E B \in SUBSET Pages : h = <<"tables", B>>
  BY <1>4, ClaimsOf
<1> QED
  BY <1>1, <1>2, <1>3, <1>4, Kinds

(* Claims are pages; whoever claims a page that is free is the table of    *)
(* the program being taken.                                                *)
LEMMA ClaimsArePages ==
  ASSUME Firm, NEW h \in Holders
  PROVE  /\ Claims(h) \subseteq Pages
         /\ \A p \in Claims(h) : flags[p] # "USED" => h = <<"tables", prog>> /\ p \in prog
<1>0. /\ TypeOK /\ Stacked /\ Marked
  BY DEF Firm, Base, Good
<1>1. CASE \E s \in Slots : h = <<"kernel stack", s>>
  <2>1. PICK s \in Slots : h = <<"kernel stack", s>>
    BY <1>1
  <2>2. Claims(h) = KernelClaim(s) /\ h \in Owners
    BY <2>1, ClaimsOf
  <2> QED
    BY <2>2, <1>0 DEF KernelClaim, Stacked, Marked
<1>2. CASE \E s \in Slots : h = <<"user stack", s>>
  <2>1. PICK s \in Slots : h = <<"user stack", s>>
    BY <1>2
  <2>2. Claims(h) = UserClaim(s) /\ h \in Owners
    BY <2>1, ClaimsOf
  <2>3. UserClaim(s) \subseteq Pages
    <3>1. ustack[s] \in Pages \union {NULL}
      BY <1>0 DEF TypeOK
    <3> QED
      BY <3>1 DEF UserClaim
  <2> QED
    BY <2>2, <2>3, <1>0 DEF Marked
<1>3. CASE \E p \in Pages : h = <<"creator", p>>
  <2>1. PICK p \in Pages : h = <<"creator", p>>
    BY <1>3
  <2>2. Claims(h) = CreatorClaim(p) /\ h \in Owners
    BY <2>1, ClaimsOf
  <2> QED
    BY <2>2, <1>0 DEF CreatorClaim, Marked
<1>4. CASE \E B \in SUBSET Pages : h = <<"tables", B>>
  <2>1. PICK B \in SUBSET Pages : h = <<"tables", B>>
    BY <1>4
  <2>2. Claims(h) = TableClaim(B)
    BY <2>1, ClaimsOf
  <2> QED
    BY <2>1, <2>2, <1>0 DEF TableClaim, Marked
<1> QED
  BY <1>1, <1>2, <1>3, <1>4, Kinds

-----------------------------------------------------------------------------
(* How a step may change the claims                                        *)

\* What PageOwner sees: the pages that may be granted, and the blocks that are.
Blocks == {Claims(h) : h \in Holders} \ {{}}

Stays       == avail' = avail /\ Blocks' = Blocks
Grants(B)   == /\ B \subseteq avail
               /\ avail' = avail \ B /\ Blocks' = Blocks \union {B}
Reclaims(B) == /\ B \in Blocks
               /\ avail' = avail \union B /\ Blocks' = Blocks \ {B}

(* The blocks are the claims of those who have any.                        *)
LEMMA BlocksAre ==
  /\ \A B : B \in Blocks <=> B # {} /\ \E h \in Holders : B = Claims(h)
  /\ \A B : B \in Blocks' <=> B # {} /\ \E h \in Holders : B = Claims(h)'
  BY DEF Blocks

(* Nobody's claim changes, and no mark of a page that is claimed.          *)
LEMMA KeepClaims ==
  ASSUME \A h \in Holders : Claims(h)' = Claims(h),
         UNCHANGED <<flags, refcount>>
  PROVE  /\ Claimed => Claimed'
         /\ Apart => Apart'
         /\ Marked /\ (\A B \in programs' : \A p \in B : flags[p] = "USED") => Marked'
         /\ (\A p \in Pages : flags[p] = "FREE" => (p \in prog' <=> p \in prog)) => Stays
<1>1. Apart => Apart'
  BY DEF Apart
<1>2. Marked /\ (\A B \in programs' : \A p \in B : flags[p] = "USED") => Marked'
  <2>1. Owners \subseteq Holders
    BY DEF Holders
  <2> QED
    BY <2>1 DEF Marked
<1>3. Claimed => Claimed'
  BY DEF Claimed
<1>4. Blocks' = Blocks
  BY BlocksAre
<1>5. (\A p \in Pages : flags[p] = "FREE" => (p \in prog' <=> p \in prog)) => avail' = avail
  BY DEF avail
<1> QED
  BY <1>1, <1>2, <1>3, <1>4, <1>5 DEF Stays

(* A stack is not part of the program that is being taken.                 *)
LEMMA OutsideProgram ==
  ASSUME Firm, NEW x \in Owners, NEW p \in Claims(x)
  PROVE  p \notin prog
<1>1. Apart /\ prog \in SUBSET Pages
  BY DEF Firm, Base, Good, TypeOK
<1>2. PICK B \in SUBSET Pages : B = prog
  BY <1>1
<1>3. /\ <<"tables", B>> \in Holders /\ <<"tables", B>> # x
      /\ Claims(<<"tables", B>>) = TableClaim(B)
  BY ClaimsOf
<1>4. TableClaim(B) = B
  BY <1>2 DEF TableClaim
<1>5. x \in Holders
  BY DEF Holders
<1>6. Claims(<<"tables", B>>) \intersect Claims(x) = {}
  BY <1>1, <1>3, <1>5 DEF Apart
<1> QED
  BY <1>2, <1>3, <1>4, <1>6

\* Holder x gives back the one page it claims.
Releases(x, p) ==
  /\ Claims(x) = {p} /\ Claims(x)' = {}
  /\ \A h \in Holders : h # x => Claims(h)' = Claims(h)
  /\ flags' = [flags EXCEPT ![p] = "FREE"]
  /\ refcount' = [refcount EXCEPT ![p] = 0]
  /\ UNCHANGED <<programs, prog>>

(* What is marked then is still claimed ...                                *)
LEMMA ReleaseClaimed ==
  ASSUME TypeOK, Claimed, NEW x \in Holders, NEW p \in Pages, Releases(x, p)
  PROVE  Claimed'
<1> SUFFICES ASSUME NEW q \in Pages, flags'[q] = "USED"
             PROVE  \E h \in Holders : q \in Claims(h)'
  BY DEF Claimed
<1>1. q # p /\ flags[q] = "USED"
  BY DEF TypeOK, Releases
<1>2. PICK h \in Holders : q \in Claims(h)
  BY <1>1 DEF Claimed
<1>3. h # x
  BY <1>1, <1>2 DEF Releases
<1> QED
  BY <1>2, <1>3 DEF Releases

(* ... and nobody else claims the page.                                    *)
LEMMA ReleaseClaim ==
  ASSUME Firm, NEW x \in Owners, NEW p \in Pages, Releases(x, p)
  PROVE  Apart' /\ Marked' /\ Reclaims({p})
<1>0. /\ Claims(x) = {p} /\ Claims(x)' = {}
      /\ \A h \in Holders : h # x => Claims(h)' = Claims(h)
      /\ flags' = [flags EXCEPT ![p] = "FREE"]
      /\ refcount' = [refcount EXCEPT ![p] = 0]
      /\ UNCHANGED <<programs, prog>>
  BY DEF Releases
<1>1. Apart /\ Marked /\ TypeOK
  BY DEF Firm, Base, Good
<1>2. \A h \in Holders : Claims(h)' \subseteq Claims(h) /\ p \notin Claims(h)'
  BY <1>0, <1>1 DEF Apart, Holders
<1>3. \A q \in Pages : q # p => flags'[q] = flags[q] /\ refcount'[q] = refcount[q]
  BY <1>0, <1>1 DEF TypeOK
<1>4. Apart'
  BY <1>1, <1>2 DEF Apart
<1>5. Marked'
  <2>1. ASSUME NEW h \in Owners, NEW q \in Claims(h)'
        PROVE  flags'[q] = "USED" /\ refcount'[q] = 1
    <3>1. h \in Holders /\ q \in Claims(h) /\ q # p /\ q \in Pages
      BY <1>2, ClaimsArePages DEF Holders
    <3> QED
      BY <3>1, <1>1, <1>3 DEF Marked
  <2>2. ASSUME NEW B \in programs, NEW q \in B
        PROVE  flags'[q] = "USED"
    <3>1. B \in SUBSET Pages /\ q \in Pages
      BY <1>1 DEF TypeOK
    <3>2. q \in TableClaim(B)
      BY DEF TableClaim
    <3>3. q # p
      <4>1. <<"tables", B>> \in Holders /\ <<"tables", B>> # x /\ Claims(<<"tables", B>>) = TableClaim(B)
        BY <3>1, ClaimsOf
      <4>2. Claims(<<"tables", B>>)' = Claims(<<"tables", B>>)
        BY <4>1, <1>0
      <4> QED
        BY <4>1, <4>2, <3>2, <1>2
    <3> QED
      BY <3>1, <3>3, <1>1, <1>3 DEF Marked
  <2> QED
    BY <2>1, <2>2, <1>0 DEF Marked
<1>7. Reclaims({p})
  <2>1. x \in Holders
    BY DEF Holders
  <2>2. \A h \in Holders : h # x => Claims(h) # {p}
    BY <2>1, <1>0, <1>1 DEF Apart
  <2>3. {p} \in Blocks
    BY <2>1, <1>0, BlocksAre
  <2>4. Blocks' = Blocks \ {{p}}
    <3>1. \A B : B \in Blocks' <=> B \in Blocks /\ B # {p}
      BY <2>1, <2>2, <1>0, BlocksAre
    <3> QED
      BY <3>1
  <2>5. p \notin prog
    BY <1>0, OutsideProgram
  <2>6. flags'[p] = "FREE"
    BY <1>0, <1>1 DEF TypeOK
  <2>7. avail' = avail \union {p}
    BY <2>5, <2>6, <1>0, <1>3 DEF avail
  <2> QED
    BY <2>3, <2>4, <2>7 DEF Reclaims
<1> QED
  BY <1>4, <1>5, <1>7

\* Holder x gets a page, and it is marked.
Gains(x, p) ==
  /\ Claims(x)' = Claims(x) \union {p}
  /\ \A h \in Holders : h # x => Claims(h)' = Claims(h)
  /\ flags' = [flags EXCEPT ![p] = "USED"]
  /\ refcount' = [refcount EXCEPT ![p] = 1]
  /\ programs' = programs
  /\ prog' = prog \/ prog' = prog \union {p}

(* What is marked then is claimed ...                                      *)
LEMMA TakeClaimed ==
  ASSUME TypeOK, Claimed, NEW x \in Holders, NEW p \in Pages, Gains(x, p)
  PROVE  Claimed'
<1> SUFFICES ASSUME NEW q \in Pages, flags'[q] = "USED"
             PROVE  \E h \in Holders : q \in Claims(h)'
  BY DEF Claimed
<1>1. CASE q = p
  BY <1>1 DEF Gains
<1>2. CASE q # p
  <2>1. flags[q] = "USED"
    BY <1>2 DEF TypeOK, Gains
  <2>2. PICK h \in Holders : q \in Claims(h)
    BY <2>1 DEF Claimed
  <2> QED
    BY <2>2 DEF Gains
<1> QED
  BY <1>1, <1>2

(* ... and by nobody else if it was free: only the table of the program    *)
(* being taken may have claimed it before.                                 *)
LEMMA TakeClaim ==
  ASSUME Firm, NEW x \in Holders, NEW p \in Pages, Gains(x, p),
         flags[p] = "FREE", p \in prog => x = <<"tables", prog>>
  PROVE  /\ Apart' /\ Marked'
         /\ p \in prog /\ p \in Claims(x) => Stays
         /\ p \notin prog /\ Claims(x) = {} => Grants({p})
<1>0. /\ Claims(x)' = Claims(x) \union {p}
      /\ \A h \in Holders : h # x => Claims(h)' = Claims(h)
      /\ flags' = [flags EXCEPT ![p] = "USED"]
      /\ refcount' = [refcount EXCEPT ![p] = 1]
      /\ programs' = programs
      /\ prog' = prog \/ prog' = prog \union {p}
  BY DEF Gains
<1>1. Apart /\ Marked /\ TypeOK
  BY DEF Firm, Base, Good
<1>2. \A h \in Holders : h # x => p \notin Claims(h)
  BY ClaimsArePages
<1>3. /\ \A q \in Pages : q # p => flags'[q] = flags[q] /\ refcount'[q] = refcount[q]
      /\ flags'[p] = "USED" /\ refcount'[p] = 1
  BY <1>0, <1>1 DEF TypeOK
<1>4. Apart'
  <2> SUFFICES ASSUME NEW h \in Holders, NEW g \in Holders, h # g
               PROVE  Claims(h)' \intersect Claims(g)' = {}
    BY DEF Apart
  <2>1. Claims(h) \intersect Claims(g) = {}
    BY <1>1 DEF Apart
  <2> QED
    BY <2>1, <1>0, <1>2
<1>5. Marked'
  <2>1. ASSUME NEW h \in Owners, NEW q \in Claims(h)'
        PROVE  flags'[q] = "USED" /\ refcount'[q] = 1
    <3>1. h \in Holders /\ (q \in Claims(h) \/ q = p)
      BY <1>0 DEF Holders
    <3>2. CASE q \in Claims(h) /\ q # p
      <4>1. q \in Pages
        BY <3>1, <3>2, ClaimsArePages
      <4> QED
        BY <4>1, <3>2, <1>1, <1>3 DEF Marked
    <3> QED
      BY <3>1, <3>2, <1>3
  <2>2. ASSUME NEW B \in programs, NEW q \in B
        PROVE  flags'[q] = "USED"
    <3>1. q \in Pages /\ flags[q] = "USED"
      BY <1>1 DEF TypeOK, Marked
    <3> QED
      BY <3>1, <1>3
  <2> QED
    BY <2>1, <2>2, <1>0 DEF Marked
<1>7. ASSUME p \in prog, p \in Claims(x)
      PROVE  Stays
  <2>1. Claims(x)' = Claims(x) /\ prog' = prog
    BY <1>0, <1>7
  <2>2. \A h \in Holders : Claims(h)' = Claims(h)
    BY <2>1, <1>0
  <2>3. Blocks' = Blocks
    <3>1. \A B : B \in Blocks' <=> B \in Blocks
      BY <2>2, BlocksAre
    <3> QED
      BY <3>1
  <2>4. avail' = avail
    BY <2>1, <1>3, <1>7 DEF avail
  <2> QED
    BY <2>3, <2>4 DEF Stays
<1>8. ASSUME p \notin prog, Claims(x) = {}
      PROVE  Grants({p})
  <2>1. Claims(x)' = {p}
    BY <1>0, <1>8
  <2>2. Blocks' = Blocks \union {{p}}
    <3>1. ASSUME NEW B \in Blocks'
          PROVE  B \in Blocks \/ B = {p}
      <4>1. PICK h \in Holders : B = Claims(h)' /\ B # {}
        BY BlocksAre
      <4>2. CASE h = x
        BY <4>1, <4>2, <2>1
      <4>3. CASE h # x
        <5>1. B = Claims(h)
          BY <4>1, <4>3, <1>0
        <5> QED
          BY <5>1, <4>1, BlocksAre
      <4> QED
        BY <4>2, <4>3
    <3>2. ASSUME NEW B \in Blocks
          PROVE  B \in Blocks'
      <4>1. PICK h \in Holders : B = Claims(h) /\ B # {}
        BY BlocksAre
      <4>2. B = Claims(h)'
        BY <4>1, <1>0, <1>8
      <4> QED
        BY <4>1, <4>2, BlocksAre
    <3>3. {p} \in Blocks'
      BY <2>1, BlocksAre
    <3> QED
      BY <3>1, <3>2, <3>3
  <2>3. {p} \subseteq avail
    BY <1>8 DEF avail
  <2>4. avail' = avail \ {p}
    BY <1>0, <1>3, <1>8 DEF avail
  <2> QED
    BY <2>2, <2>3, <2>4 DEF Grants
<1> QED
  BY <1>4, <1>5, <1>7, <1>8


-----------------------------------------------------------------------------
(* Exits                                                                   *)

(* No entry and no page is mistaken for the missing one.                   *)
LEMMA SlotsNotNull == NULL \notin Slots /\ NULL \notin Pages
  BY CreationAssumption DEF Slots, Pages

(* Giving back a page pushes it.                                           *)
LEMMA FreeOne ==
  ASSUME TypeOK, NEW p \in Pages, FreePage(p)
  PROVE  /\ flags' = [flags EXCEPT ![p] = "FREE"]
         /\ refcount' = [refcount EXCEPT ![p] = 0]
         /\ next' = [next EXCEPT ![p] = head] /\ head' = p
         /\ flags' \in [Pages -> {"FREE", "USED"}] /\ refcount' \in [Pages -> {0, 1}]
         /\ next' \in [Pages -> Pages \union {NULL}]
<1>1. /\ flags \in [Pages -> {"FREE", "USED"}] /\ refcount \in [Pages -> {0, 1}]
      /\ next \in [Pages -> Pages \union {NULL}] /\ head \in Pages \union {NULL}
  BY DEF TypeOK
<1>2. refcount[p] = 0 \/ refcount[p] = 1
  BY <1>1
<1>3. /\ flags' = [flags EXCEPT ![p] = "FREE"]
      /\ refcount' = [refcount EXCEPT ![p] = 0]
      /\ next' = [next EXCEPT ![p] = head] /\ head' = p
  <2> DEFINE left == IF refcount[p] > 0 THEN refcount[p] - 1 ELSE 0
  <2>1. left = 0
    BY <1>2
  <2> QED
    BY <2>1 DEF FreePage
<1> QED
  BY <1>1, <1>3

(* The page an exit pushes was on no list: what kernel_main found behind   *)
(* the first page is still so, and so is what lies ahead of its page.      *)
LEMMA ReleaseGood ==
  ASSUME Firm, NEW x \in Owners, NEW p \in Pages, Releases(x, p), FreePage(p),
         UNCHANGED locals
  PROVE  Good' /\ Reclaims({p})
<1>1. TypeOK /\ Locals /\ Listed /\ Ahead /\ Marked
  BY DEF Firm, Base, Good
<1>2. /\ flags' = [flags EXCEPT ![p] = "FREE"]
      /\ next' = [next EXCEPT ![p] = head] /\ head' = p
  BY <1>1, FreeOne
<1>3. flags[p] = "USED" /\ p \notin prog
  BY <1>1, OutsideProgram DEF Releases, Marked
<1>4. /\ \A q \in Pages : q # p => flags'[q] = flags[q] /\ next'[q] = next[q]
      /\ next'[p] = head /\ flags'[p] = "FREE"
  BY <1>1, <1>2 DEF TypeOK
<1>5. UNCHANGED <<at, task, order, got, prog, page, before, hit, rest>>
  BY DEF locals, search
<1>6. Locals'
  <2>1. at \in {"program", "tables"} => rest = {q \in prog : flags'[q] = "FREE"}
    <3>1. \A q \in prog : flags'[q] = flags[q]
      BY <1>1, <1>3, <1>4 DEF TypeOK
    <3> QED
      BY <3>1, <1>1 DEF Locals
  <2>2. page # NULL => flags'[page] = "FREE"
    BY <1>1, <1>4 DEF Locals, TypeOK
  <2>3. WantsOne' = WantsOne
    BY <1>5 DEF WantsOne
  <2> QED
    BY <2>1, <2>2, <2>3, <1>1, <1>5 DEF Locals
<1>7. Listed'
  <2>1. PICK S, depth : FreeChain(head, S, depth) /\ Found(S)
    BY <1>1 DEF Listed
  <2>2. S \subseteq Pages /\ p \notin S
    BY <2>1, <1>3 DEF FreeChain
  <2>3. \A q \in S : next'[q] = next[q] /\ flags'[q] = "FREE"
    BY <2>1, <2>2, <1>4 DEF FreeChain
  <2>4. Chain(head, next, S, depth, NULL)
    BY <2>1 DEF FreeChain
  <2>5. p # NULL
    BY SlotsNotNull
  <2>6. \E d : Chain(p, next', S \union {p}, d, NULL)
    BY <2>2, <2>3, <2>4, <2>5, <1>4, ChainPush
  <2>7. PICK d : Chain(p, next', S \union {p}, d, NULL)
    BY <2>6
  <2>8. FreeChain(head, S \union {p}, d)'
    BY <2>2, <2>3, <2>7, <1>2, <1>4 DEF FreeChain
  <2>9. Found(S \union {p})'
    <3>1. page # NULL => page # p
      BY <1>1, <1>3 DEF Locals
    <3> QED
      BY <3>1, <2>1, <2>3, <1>5 DEF Found
  <2> QED
    BY <2>8, <2>9 DEF Listed
<1>8. Ahead'
  <2> SUFFICES ASSUME page # NULL, at = "undo" \/ (hit /\ before = NULL)
               PROVE  \E S, depth : FreeChain(page, S, depth)'
    BY <1>5 DEF Ahead
  <2>1. PICK S, depth : FreeChain(page, S, depth)
    BY <1>1 DEF Ahead
  <2>2. \A q \in S : q \in Pages /\ q # p
    BY <2>1, <1>3 DEF FreeChain
  <2>3. Chain(page, next', S, depth, NULL)
    BY <2>1, <2>2, <1>4, ChainFrame DEF FreeChain
  <2>4. FreeChain(page, S, depth)'
    BY <2>1, <2>2, <2>3, <1>4, <1>5 DEF FreeChain
  <2> QED
    BY <2>4
<1>9. Apart' /\ Marked' /\ Reclaims({p})
  BY ReleaseClaim
<1> QED
  BY <1>6, <1>7, <1>8, <1>9 DEF Good

(* An exit gives back the kernel stack of a ready task ...                 *)
LEMMA ExitBase ==
  ASSUME Base, NEW s \in Slots, Exit(s)
  PROVE  Base' /\ \E p \in Pages : /\ Releases(<<"kernel stack", s>>, p)
                                   /\ FreePage(p)
<1> DEFINE x == <<"kernel stack", s>>
<1>1. TypeOK /\ Place /\ Taking /\ Stacked /\ Claimed
  BY DEF Base
<1>2. /\ exiting = NULL /\ state[s] = "READY"
      /\ state' = [state EXCEPT ![s] = "TERMINATED"]
      /\ FreePage(kstack[s])
      /\ kstack' = [kstack EXCEPT ![s] = NULL]
      /\ exiting' = IF ustack[s] = NULL THEN NULL ELSE s
      /\ UNCHANGED <<ustack, programs, locals, spoiled>>
  BY DEF Exit
<1>3. PICK p \in Pages : p = kstack[s]
  BY <1>1, <1>2 DEF Stacked
<1>4. x \in Owners /\ x \in Holders /\ Claims(x) = {p} /\ Claims(x)' = {}
  <2>1. KernelClaim(s) = {p}
    BY <1>2, <1>3 DEF KernelClaim
  <2>2. KernelClaim(s)' = {}
    BY <1>1, <1>2 DEF KernelClaim, TypeOK
  <2> QED
    BY <2>1, <2>2, ClaimsOf
<1>5. UNCHANGED <<at, task, order, got, prog, page, before, hit, rest, ustack, programs, spoiled>>
  BY <1>2 DEF locals, search
<1>6. FreePage(p)
  BY <1>2, <1>3
<1> HIDE DEF x
<1>7. /\ flags' = [flags EXCEPT ![p] = "FREE"]
      /\ refcount' = [refcount EXCEPT ![p] = 0] /\ head' = p
      /\ flags' \in [Pages -> {"FREE", "USED"}] /\ refcount' \in [Pages -> {0, 1}]
      /\ next' \in [Pages -> Pages \union {NULL}]
  BY <1>1, <1>6, FreeOne
<1>8. /\ state \in [Slots -> {"READY", "TERMINATED"}]
      /\ kstack \in [Slots -> Pages \union {NULL}]
      /\ ustack \in [Slots -> Pages \union {NULL}]
  BY <1>1 DEF TypeOK
<1>9. TypeOK'
  <2>1. state' \in [Slots -> {"READY", "TERMINATED"}]
    BY <1>2, <1>8
  <2>2. kstack' \in [Slots -> Pages \union {NULL}]
    BY <1>2, <1>8
  <2>3. exiting' \in Slots \union {NULL}
    BY <1>2
  <2> QED
    BY <2>1, <2>2, <2>3, <1>1, <1>5, <1>7 DEF TypeOK
<1>10. /\ \A t \in Slots : t # s => state'[t] = state[t] /\ kstack'[t] = kstack[t]
       /\ state'[s] = "TERMINATED"
  BY <1>2, <1>8
<1>11. Place'
  <2>1. Creating => task \in Slots /\ state'[task] = "TERMINATED" /\ task # exiting' /\ task # s
    BY <1>1, <1>2, <1>10, SlotsNotNull DEF Place
  <2>2. Creating' = Creating
    BY <1>5 DEF Creating
  <2>3. at \notin {"idle", "undo"} => Creating
    BY <1>1 DEF TypeOK, Creating
  <2>4. at \notin {"idle", "undo"} => kstack'[task] = kstack[task] /\ ustack'[task] = ustack[task]
    BY <2>1, <2>3, <1>5, <1>10
  <2> QED
    BY <2>1, <2>2, <2>4, <1>1, <1>5 DEF Place
<1>12. Taking'
  BY <1>1, <1>5 DEF Taking
<1>14. Stacked'
  BY <1>1, <1>2, <1>5, <1>8, <1>10 DEF Stacked
<1>15. \A h \in Holders : h # x => Claims(h)' = Claims(h)
  <2>1. \A t \in Slots : <<"kernel stack", t>> # x => KernelClaim(t)' = KernelClaim(t)
    BY <1>10 DEF KernelClaim, x
  <2>2. \A t \in Slots : <<"user stack", t>> # x => UserClaim(t)' = UserClaim(t)
    BY <1>2, <1>5, <1>10, SlotsNotNull DEF UserClaim
  <2>3. \A q \in Pages : <<"creator", q>> # x => CreatorClaim(q)' = CreatorClaim(q)
    BY <1>5 DEF CreatorClaim
  <2>4. \A B \in SUBSET Pages : <<"tables", B>> # x => TableClaim(B)' = TableClaim(B)
    BY <1>5 DEF TableClaim
  <2> QED
    BY <2>1, <2>2, <2>3, <2>4, Frame
<1>16. Releases(x, p)
  BY <1>4, <1>5, <1>7, <1>15 DEF Releases
<1>17. Claimed'
  BY <1>1, <1>4, <1>16, ReleaseClaimed
<1> QED
  BY <1>6, <1>9, <1>11, <1>12, <1>14, <1>16, <1>17 DEF Base, x

\* ... that was its own while the list was sound.
LEMMA ExitKeeps ==
  ASSUME IInv, NEW s \in Slots, Exit(s)
  PROVE  IInv' /\ (~spoiled' => \E B : Reclaims(B))
<1>1. PICK p \in Pages : Base' /\ Releases(<<"kernel stack", s>>, p) /\ FreePage(p)
  BY ExitBase DEF IInv
<1>2. UNCHANGED <<locals, spoiled>>
  BY DEF Exit
<1>3. <<"kernel stack", s>> \in Owners
  BY ClaimsOf
<1>4. ~spoiled => Good' /\ Reclaims({p})
  BY <1>1, <1>2, <1>3, ReleaseGood DEF IInv, Firm
<1> QED
  BY <1>1, <1>2, <1>4 DEF IInv

(* ... and then the user stack.                                            *)
LEMMA ExitUserStackBase ==
  ASSUME Base, ExitUserStack
  PROVE  Base' /\ \E s \in Slots, p \in Pages : /\ Releases(<<"user stack", s>>, p)
                                                /\ FreePage(p)
<1>1. TypeOK /\ Place /\ Taking /\ Stacked /\ Claimed
  BY DEF Base
<1>0. exiting \in Slots
  BY <1>1 DEF ExitUserStack, TypeOK
<1>17. PICK s \in Slots : s = exiting
  BY <1>0
<1>18. PICK p \in Pages : p = ustack[s]
  BY <1>1, <1>17, SlotsNotNull DEF Stacked
<1> DEFINE x == <<"user stack", s>>
<1>2. /\ s # NULL /\ FreePage(p)
      /\ ustack' = [ustack EXCEPT ![s] = NULL]
      /\ exiting' = NULL
      /\ UNCHANGED <<state, kstack, programs, locals, spoiled>>
  BY <1>17, <1>18 DEF ExitUserStack
<1>3. p \in Pages /\ s \in Slots /\ state[s] = "TERMINATED"
  BY <1>1, <1>2, <1>17 DEF Stacked
<1>4. x \in Owners /\ x \in Holders /\ Claims(x) = {p} /\ Claims(x)' = {}
  <2>1. UserClaim(s) = {p}
    BY <1>17, <1>18, <1>2, <1>3, SlotsNotNull DEF UserClaim
  <2>2. ustack'[s] = NULL
    BY <1>1, <1>2, <1>3 DEF TypeOK
  <2>3. UserClaim(s)' = {}
    BY <2>2 DEF UserClaim
  <2> QED
    BY <2>1, <2>3, <1>3, ClaimsOf
<1>6. UNCHANGED <<at, task, order, got, prog, page, before, hit, rest, state, kstack,
                  programs, spoiled>>
  BY <1>2 DEF locals, search
<1> HIDE DEF x
<1>7. /\ flags' = [flags EXCEPT ![p] = "FREE"]
      /\ refcount' = [refcount EXCEPT ![p] = 0] /\ head' = p
      /\ flags' \in [Pages -> {"FREE", "USED"}] /\ refcount' \in [Pages -> {0, 1}]
      /\ next' \in [Pages -> Pages \union {NULL}]
  BY <1>1, <1>2, FreeOne
<1>8. ustack \in [Slots -> Pages \union {NULL}]
  BY <1>1 DEF TypeOK
<1>9. TypeOK'
  <2>1. ustack' \in [Slots -> Pages \union {NULL}]
    BY <1>2, <1>8
  <2>2. exiting' \in Slots \union {NULL} /\ head' \in Pages \union {NULL}
    BY <1>2, <1>7
  <2> QED
    BY <2>1, <2>2, <1>1, <1>6, <1>7 DEF TypeOK
<1>10. \A t \in Slots : t # s => ustack'[t] = ustack[t]
  BY <1>2, <1>8
<1>11. Place'
  <2>1. Creating => task \in Slots /\ task # s /\ task # exiting'
    BY <1>1, <1>2, <1>17, SlotsNotNull DEF Place
  <2>2. Creating' = Creating
    BY <1>6 DEF Creating
  <2>3. at \notin {"idle", "undo"} => Creating
    BY <1>1 DEF TypeOK, Creating
  <2>4. at \notin {"idle", "undo"} => kstack'[task] = kstack[task] /\ ustack'[task] = ustack[task]
    BY <2>1, <2>3, <1>6, <1>10
  <2> QED
    BY <2>1, <2>2, <2>4, <1>1, <1>6 DEF Place
<1>12. Taking'
  BY <1>1, <1>6 DEF Taking
<1>14. Stacked'
  BY <1>1, <1>2, <1>6 DEF Stacked
<1>15. \A h \in Holders : h # x => Claims(h)' = Claims(h)
  <2>1. \A t \in Slots : <<"kernel stack", t>> # x => KernelClaim(t)' = KernelClaim(t)
    BY <1>6 DEF KernelClaim
  <2>2. \A t \in Slots : <<"user stack", t>> # x => UserClaim(t)' = UserClaim(t)
    <3> SUFFICES ASSUME NEW t \in Slots, t # s
                 PROVE  UserClaim(t)' = UserClaim(t)
      BY DEF x
    <3> QED
      BY <1>2, <1>6, <1>10, <1>17, SlotsNotNull DEF UserClaim
  <2>3. \A q \in Pages : <<"creator", q>> # x => CreatorClaim(q)' = CreatorClaim(q)
    BY <1>6 DEF CreatorClaim
  <2>4. \A B \in SUBSET Pages : <<"tables", B>> # x => TableClaim(B)' = TableClaim(B)
    BY <1>6 DEF TableClaim
  <2> QED
    BY <2>1, <2>2, <2>3, <2>4, Frame
<1>16. Releases(x, p)
  BY <1>4, <1>6, <1>7, <1>15 DEF Releases
<1>19. Claimed'
  BY <1>1, <1>4, <1>16, ReleaseClaimed
<1> QED
  BY <1>2, <1>9, <1>11, <1>12, <1>14, <1>16, <1>19 DEF Base, x

\* ... likewise.
LEMMA ExitUserStackKeeps ==
  ASSUME IInv, ExitUserStack
  PROVE  IInv' /\ (~spoiled' => \E B : Reclaims(B))
<1>1. PICK s \in Slots, p \in Pages : Base' /\ Releases(<<"user stack", s>>, p) /\ FreePage(p)
  BY ExitUserStackBase DEF IInv
<1>2. UNCHANGED <<locals, spoiled>>
  BY DEF ExitUserStack
<1>3. <<"user stack", s>> \in Owners
  BY ClaimsOf
<1>4. ~spoiled => Good' /\ Reclaims({p})
  BY <1>1, <1>2, <1>3, ReleaseGood DEF IInv, Firm
<1> QED
  BY <1>1, <1>2, <1>4 DEF IInv

-----------------------------------------------------------------------------
(* kernel_main: steps that leave the holders alone                         *)

(* No holder's page changes hands.                                         *)
LEMMA SameClaims ==
  ASSUME UNCHANGED <<flags, refcount, state, kstack, ustack, exiting, got, programs, prog>>
  PROVE  /\ Claimed => Claimed'
         /\ Apart /\ Marked => Apart' /\ Marked'
         /\ Stays
<1> DEFINE x == <<"none", 0>>
<1>1. \A h \in Holders : h # x
  <2> SUFFICES ASSUME NEW h \in Holders PROVE h # x
    OBVIOUS
  <2> DEFINE Kind(k) == \E i : h = <<k, i>>
  <2>3. Kind("kernel stack") \/ Kind("user stack") \/ Kind("creator") \/ Kind("tables")
    BY Kinds
  <2>4. \A k : Kind(k) => h[1] = k
    OBVIOUS
  <2> HIDE DEF Kind
  <2>1. h[1] \in {"kernel stack", "user stack", "creator", "tables"}
    BY <2>3, <2>4
  <2>2. x[1] = "none"
    OBVIOUS
  <2> QED
    BY <2>1, <2>2
<1>2. \A h \in Holders : h # x => Claims(h)' = Claims(h)
  <2>1. \A t \in Slots : KernelClaim(t)' = KernelClaim(t)
    BY DEF KernelClaim
  <2>2. \A t \in Slots : UserClaim(t)' = UserClaim(t)
    BY DEF UserClaim
  <2>3. \A q \in Pages : CreatorClaim(q)' = CreatorClaim(q)
    BY DEF CreatorClaim
  <2>4. \A B \in SUBSET Pages : TableClaim(B)' = TableClaim(B)
    BY DEF TableClaim
  <2> HIDE DEF x
  <2> QED
    BY <2>1, <2>2, <2>3, <2>4, Frame
<1>3. \A h \in Holders : Claims(h)' = Claims(h)
  BY <1>1, <1>2
<1>4. Marked => \A B \in programs' : \A p \in B : flags[p] = "USED"
  BY DEF Marked
<1> QED
  BY <1>3, <1>4, KeepClaims

(* Between two uses of the allocator the list is all that matters.         *)
LEMMA SameList ==
  ASSUME Listed, UNCHANGED <<flags, next, head>>, page' = NULL
  PROVE  Listed' /\ Ahead'
<1>1. PICK S, depth : FreeChain(head, S, depth)
  BY DEF Listed
<1>2. FreeChain(head, S, depth)'
  BY <1>1 DEF FreeChain
<1>3. Found(S)'
  BY DEF Found
<1> QED
  BY <1>2, <1>3 DEF Listed, Ahead

(* A slot is chosen; it is nobody's, and it is not the one between the two *)
(* frees of its exit.                                                      *)
LEMMA ScanKeeps ==
  ASSUME IInv, NEW k \in Orders \union {NULL}, Scan(k)
  PROVE  IInv'
<1>1. TypeOK /\ Place /\ Taking /\ Stacked /\ Claimed
  BY DEF IInv, Base
<1>2. /\ exiting = NULL /\ at = "idle" /\ at' = "kernel stack" /\ order' = k
      /\ task' \in Slots /\ state[task'] = "TERMINATED"
      /\ UNCHANGED <<flags, refcount, next, head, state, kstack, ustack, programs,
                     exiting, got, prog, page, before, hit, rest, spoiled>>
  BY DEF Scan, Runs, allocator, pool, search
<1>3. TypeOK'
  BY <1>1, <1>2 DEF TypeOK
<1>5. Place'
  <2>1. task' # exiting' /\ state'[task'] = "TERMINATED"
    BY <1>2, SlotsNotNull
  <2>2. got' = <<>> /\ Len(got') = 0
    BY <1>1, <1>2 DEF Place
  <2>3. at' = "kernel stack" /\ task' \in Slots
    BY <1>2
  <2>4. (Creating => task \in Slots /\ state[task] = "TERMINATED" /\ task # exiting)'
    BY <2>1, <2>3
  <2>5. (at \in {"idle", "kernel stack"} => got = <<>>)'
    BY <2>2
  <2>6. /\ (at = "user stack" => Len(got) = 1)'
        /\ (at \in {"program", "tables", "hung"} => Len(got) = 2)'
        /\ (at \in {"user stack", "program", "tables", "hung"} => order # NULL)'
        /\ (at = "publish" => Len(got) = IF order = NULL THEN 1 ELSE 2)'
        /\ (at = "undo" /\ page = NULL => got # <<>>)'
    BY <2>3
  <2>7. /\ (at \notin {"idle", "undo"} /\ Len(got) > 0 => kstack[task] = got[1])'
        /\ (at \notin {"idle", "undo"} /\ Len(got) > 1 => ustack[task] = got[2])'
    BY <2>2
  <2> QED
    BY <2>4, <2>5, <2>6, <2>7 DEF Place
<1>6. page = NULL /\ page' = NULL
  BY <1>1, <1>2 DEF Taking
<1>7. Taking'
  BY <1>1, <1>2 DEF Taking
<1>8. Stacked'
  BY <1>1, <1>2 DEF Stacked
<1>9. Claimed' /\ (Apart /\ Marked => Apart' /\ Marked')
  BY <1>1, <1>2, SameClaims
<1>10. ASSUME Good PROVE Good'
  <2>1. Locals'
    BY <1>2, <1>6, <1>10 DEF Good, Locals
  <2>2. Listed' /\ Ahead'
    BY <1>2, <1>6, <1>10, SameList DEF Good
  <2> QED
    BY <2>1, <2>2, <1>9, <1>10 DEF Good
<1> QED
  BY <1>2, <1>3, <1>5, <1>7, <1>8, <1>9, <1>10 DEF IInv, Base

(* A failed allocation while nothing of the program is held yet.           *)
LEMMA FailKeeps ==
  ASSUME IInv, at \in {"kernel stack", "user stack", "program"}, page = NULL, prog = {}, Fail,
         UNCHANGED <<allocator, pool, programs, exiting, task, order>>, spoiled' = spoiled
  PROVE  IInv'
<1>1. TypeOK /\ Place /\ Taking /\ Stacked /\ Claimed
  BY DEF IInv, Base
<1>2. /\ at' = IF got = <<>> THEN "idle" ELSE "undo"
      /\ UNCHANGED <<flags, refcount, next, head, state, kstack, ustack, programs, exiting,
                     task, order, got, prog, page, before, hit, rest>>
  BY DEF Fail, allocator, pool, search
<1>3. TypeOK'
  BY <1>1, <1>2 DEF TypeOK
<1>5. Place'
  BY <1>1, <1>2 DEF Place, Creating
<1>6. Taking'
  <2>1. rest = {}
    BY <1>1 DEF TypeOK
  <2> QED
    BY <2>1, <1>1, <1>2 DEF Taking
<1>8. Stacked'
  BY <1>1, <1>2 DEF Stacked
<1>9. Claimed' /\ (Apart /\ Marked => Apart' /\ Marked')
  BY <1>1, <1>2, SameClaims
<1>10. ASSUME Good PROVE Good'
  <2>1. Locals'
    BY <1>2, <1>10 DEF Good, Locals
  <2>2. Listed' /\ Ahead'
    BY <1>2, <1>10, SameList DEF Good
  <2> QED
    BY <2>1, <2>2, <1>9, <1>10 DEF Good
<1>11. Base'
  BY <1>3, <1>5, <1>6, <1>8, <1>9 DEF Base
<1> QED
  BY <1>10, <1>11 DEF IInv

(* The head is read, or the list is empty.                                 *)
LEMMA ReadHeadKeeps ==
  ASSUME IInv, ReadHead
  PROVE  IInv'
<1>1. TypeOK /\ Place /\ Taking /\ Stacked /\ Claimed
  BY DEF IInv, Base
<1>2. /\ WantsOne /\ page = NULL
      /\ UNCHANGED <<allocator, pool, programs, exiting, task, order, spoiled>>
  BY DEF ReadHead
<1>3. at \in {"kernel stack", "user stack", "program"} /\ prog = {}
      /\ (at = "program" => order = 0)
  BY <1>1, <1>2 DEF WantsOne, Taking
<1>4. CASE head = NULL
  BY <1>2, <1>3, <1>4, FailKeeps DEF ReadHead
<1>5. CASE head # NULL
  <2>1. /\ page' = head /\ before' = NULL /\ hit' = TRUE
        /\ UNCHANGED <<flags, refcount, next, head, state, kstack, ustack, programs,
                       exiting, task, order, at, got, prog, rest, spoiled>>
    BY <1>2, <1>5 DEF ReadHead, allocator, pool
  <2>2. page' \in Pages
    BY <1>1, <1>5, <2>1 DEF TypeOK
  <2>3. TypeOK'
    BY <1>1, <2>1, <2>2 DEF TypeOK
  <2>5. Place'
    BY <1>1, <1>3, <2>1 DEF Place, Creating
  <2>6. Taking'
    BY <1>1, <1>3, <2>1 DEF Taking
  <2>8. Stacked'
    BY <1>1, <2>1 DEF Stacked
  <2>9. Claimed' /\ (Apart /\ Marked => Apart' /\ Marked')
    BY <1>1, <2>1, SameClaims
  <2>10. ASSUME Good PROVE Good'
    <3>1. PICK S, depth : FreeChain(head, S, depth)
      BY <2>10 DEF Good, Listed
    <3>2. FreeChain(head, S, depth)' /\ FreeChain(page, S, depth)'
      BY <3>1, <2>1 DEF FreeChain
    <3>3. flags[head] = "FREE"
      BY <3>1, <1>5 DEF FreeChain, Chain
    <3>4. Locals'
      BY <3>3, <2>1, <2>10 DEF Good, Locals
    <3>5. Found(S)'
      BY <2>1 DEF Found
    <3>6. Listed' /\ Ahead'
      BY <3>2, <3>5 DEF Listed, Ahead
    <3> QED
      BY <3>4, <3>6, <2>9, <2>10 DEF Good
  <2> QED
    BY <2>1, <2>3, <2>5, <2>6, <2>8, <2>9, <2>10 DEF IInv, Base
<1> QED
  BY <1>4, <1>5

(* A list of free pages is walked to its end: nothing is met twice.        *)
LEMMA WalkOfList ==
  ASSUME NEW S, NEW depth, FreeChain(head, S, depth)
  PROVE  /\ free_list \in Seq(Pages) /\ Distinct(free_list) /\ Len(free_list) <= NumPages
         /\ FreeChain(head, Entries(free_list), depth)
         /\ IF Len(free_list) = 0 THEN head = NULL
            ELSE head = free_list[1] /\ next[free_list[Len(free_list)]] = NULL
         /\ \A a \in 1..Len(free_list) :
              a # Len(free_list) => next[free_list[a]] = free_list[a + 1]
<1>1. /\ Chain(head, next, S, depth, NULL) /\ S \in SUBSET Pages
      /\ \A q \in S : flags[q] = "FREE"
  BY DEF FreeChain
<1>2. IsFiniteSet(S) /\ Cardinality(S) < NumPages + 1 /\ NumPages + 1 \in Nat
  <2>1. NumPages \in Nat /\ IsFiniteSet(Pages) /\ Cardinality(Pages) = NumPages
    <3>1. NumPages \in Nat \ {0}
      BY CreationAssumption
    <3>2. NumPages - 1 \in Int /\ 0 \in Int
      BY <3>1
    <3>3. IsFiniteSet(0..(NumPages - 1))
          /\ Cardinality(0..(NumPages - 1)) = IF 0 > NumPages - 1 THEN 0 ELSE (NumPages - 1) - 0 + 1
      BY <3>2, FS_Interval
    <3> QED
      BY <3>1, <3>3 DEF Pages
  <2>2. IsFiniteSet(S) /\ Cardinality(S) <= Cardinality(Pages)
    BY <1>1, <2>1, FS_Subset
  <2>3. Cardinality(S) \in Nat
    BY <2>2, FS_CardinalityType
  <2> QED
    BY <2>1, <2>2, <2>3
<1> DEFINE w == free_list
           n == NumPages + 1
<1>3. w = Walk(head, next, n, NULL)
  BY DEF free_list
<1> HIDE DEF w, n
<1>4. /\ w \in Seq(S) /\ Distinct(w) /\ Len(w) < n
      /\ IF Len(w) = 0 THEN head = NULL ELSE w[1] = head /\ next[w[Len(w)]] = NULL
      /\ \A a \in 1..Len(w) : a # Len(w) => next[w[a]] = w[a + 1]
  <2>1. n \in Nat /\ Cardinality(S) < n
    BY <1>2 DEF n
  <2> QED
    BY <1>1, <1>2, <1>3, <2>1, WalkIs
<1>5. Chain(head, next, Entries(w), depth, NULL)
  BY <1>1, <1>4, WalkChain
<1>6. Entries(w) \subseteq S
  BY <1>4, EntriesType
<1>7. w \in Seq(Pages)
  BY <1>1, <1>4
<1>8. Len(w) <= NumPages
  <2>1. NumPages \in Nat /\ Len(w) \in Nat /\ Len(w) < NumPages + 1
    BY <1>4, LenProperties, CreationAssumption DEF n
  <2> QED
    BY <2>1
<1>9. FreeChain(head, Entries(w), depth)
  BY <1>1, <1>5, <1>6 DEF FreeChain
<1> QED
  BY <1>4, <1>7, <1>8, <1>9 DEF w

(* The next page of the run is looked for along a list that is sound: it   *)
(* is found behind the page before it, or the end of the list is.          *)
LEMMA FindGood ==
  ASSUME TypeOK, Taking, Good, Find
  PROVE  Locals' /\ Listed' /\ Ahead' /\ UNCHANGED at
<1>1. PICK S, depth : FreeChain(head, S, depth)
  BY DEF Good, Listed
<1>0. PICK w : w = free_list
  OBVIOUS
<1>2. /\ w \in Seq(Pages) /\ Distinct(w) /\ Len(w) <= NumPages
      /\ FreeChain(head, Entries(w), depth)
      /\ IF Len(w) = 0 THEN head = NULL
         ELSE head = w[1] /\ next[w[Len(w)]] = NULL
      /\ \A a \in 1..Len(w) : a # Len(w) => next[w[a]] = w[a + 1]
  BY <1>0, <1>1, WalkOfList
<1>3. Len(w) \in Nat /\ NumPages \in Nat /\ ~(Len(w) > NumPages)
      /\ \A a \in 1..Len(w) : w[a] \in Pages /\ w[a] \in Entries(w)
  <2>1. Len(w) \in Nat /\ \A a \in 1..Len(w) : w[a] \in Pages
    BY <1>2, LenProperties, ElementOfSeq
  <2>2. NumPages \in Nat
    BY CreationAssumption
  <2> QED
    BY <2>1, <2>2, <1>2 DEF Entries
<1>4. /\ at = "program" /\ page = NULL /\ UNCHANGED at
      /\ UNCHANGED <<allocator, pool, programs, exiting, task, order, got, prog, rest, spoiled>>
      /\ page' \in rest
      /\ EndsAt(w, page', before', hit')
  BY <1>0, <1>3 DEF Find
<1>5. UNCHANGED <<flags, next, head>>
  BY <1>4 DEF allocator
<1>6. PICK p \in Pages : p = page'
  BY <1>4 DEF TypeOK
<1>7. order # 0 /\ flags[p] = "FREE"
  BY <1>4, <1>6 DEF TypeOK, Taking, Good, Locals
<1>8. Locals'
  <2>1. ~WantsOne'
    BY <1>4, <1>7 DEF WantsOne
  <2> QED
    BY <2>1, <1>4, <1>5, <1>6, <1>7 DEF Good, Locals
<1>13. PICK E : E = Entries(w)
  OBVIOUS
<1>14. FreeChain(head, E, depth) /\ \A a \in 1..Len(w) : w[a] \in E
  BY <1>2, <1>3, <1>13
<1>9. FreeChain(head, E, depth)'
  BY <1>14, <1>5 DEF FreeChain
<1>10. ASSUME \E i \in 1..Len(w) : /\ w[i] = p /\ hit'
                                   /\ before' = (IF i = 1 THEN NULL ELSE w[i - 1])
       PROVE  Listed' /\ Ahead'
  <2>1. PICK i \in 1..Len(w) : /\ w[i] = p /\ hit'
                               /\ before' = (IF i = 1 THEN NULL ELSE w[i - 1])
    BY <1>10
  <2>2. CASE i = 1
    <3>1. before' = NULL /\ page' = head
      BY <2>1, <2>2, <1>2, <1>3, <1>6
    <3>2. Found(E)'
      BY <2>1, <3>1 DEF Found
    <3>3. FreeChain(page, E, depth)'
      BY <3>1, <1>9, <1>5 DEF FreeChain
    <3> QED
      BY <3>2, <3>3, <1>9 DEF Listed, Ahead
  <2>3. CASE i # 1
    <3>1. i - 1 \in 1..Len(w) /\ i - 1 # Len(w) /\ (i - 1) + 1 = i
      BY <2>3, <1>3
    <3> DEFINE b == w[i - 1]
    <3>2. b \in E /\ b \in Pages /\ next[b] = p
      BY <3>1, <1>2, <1>3, <1>14, <2>1
    <3>3. before' = b /\ b # NULL
      BY <2>1, <2>3, <3>2, SlotsNotNull
    <3> HIDE DEF b
    <3>4. p \in E
      BY <2>1, <1>14
    <3>5. Found(E)'
      BY <3>2, <3>3, <3>4, <2>1, <1>5, <1>6 DEF Found
    <3>6. Ahead'
      BY <3>3, <1>4 DEF Ahead
    <3> QED
      BY <3>5, <3>6, <1>9 DEF Listed
  <2> QED
    BY <2>2, <2>3
<1>11. ASSUME \A i \in 1..Len(w) : w[i] # p,
              before' = (IF w = <<>> THEN NULL ELSE w[Len(w)]),
              ~hit'
       PROVE  Listed' /\ Ahead'
  <2>1. p \notin E
    BY <1>11, <1>13 DEF Entries
  <2>2. before' # NULL => before' \in E /\ next[before'] = NULL
    <3> SUFFICES ASSUME before' # NULL
                 PROVE  before' \in E /\ next[before'] = NULL
      OBVIOUS
    <3>1. w # <<>> /\ before' = w[Len(w)]
      BY <1>11
    <3>2. Len(w) # 0
      BY <3>1, <1>2, EmptySeq
    <3>3. Len(w) \in 1..Len(w)
      BY <3>2, <1>3
    <3> QED
      BY <3>1, <3>2, <3>3, <1>2, <1>14
  <2>3. Found(E)'
    BY <2>1, <2>2, <1>5, <1>6, <1>11 DEF Found
  <2>4. Ahead'
    BY <1>4, <1>11 DEF Ahead
  <2> QED
    BY <2>3, <2>4, <1>9 DEF Listed
<1>12. Listed' /\ Ahead'
  <2>1. \/ \E i \in 1..Len(w) : /\ w[i] = p /\ hit'
                                /\ before' = (IF i = 1 THEN NULL ELSE w[i - 1])
        \/ /\ \A i \in 1..Len(w) : w[i] # p
           /\ before' = (IF w = <<>> THEN NULL ELSE w[Len(w)])
           /\ ~hit'
    BY <1>4, <1>6 DEF EndsAt
  <2> QED
    BY <2>1, <1>10, <1>11
<1> QED
  BY <1>4, <1>8, <1>12

\* On a list that is not it may never end.
LEMMA FindKeeps ==
  ASSUME IInv, Find
  PROVE  IInv'
<1>1. TypeOK /\ Place /\ Taking /\ Stacked /\ Claimed
  BY DEF IInv, Base
<1>2. /\ at = "program" /\ rest # {} /\ page = NULL
      /\ \/ at' = "hung" /\ UNCHANGED <<page, before, hit>>
         \/ at' = at /\ page' \in rest /\ before' \in Pages \union {NULL} /\ hit' \in BOOLEAN
      /\ UNCHANGED <<flags, refcount, next, head, state, kstack, ustack, programs,
                     exiting, task, order, got, prog, rest, spoiled>>
  <2>1. /\ at = "program" /\ rest # {} /\ page = NULL
        /\ UNCHANGED <<flags, refcount, next, head, state, kstack, ustack, programs,
                       exiting, task, order, got, prog, rest, spoiled>>
    BY DEF Find, allocator, pool
  <2>2. \/ at' = "hung" /\ UNCHANGED <<page, before, hit>>
        \/ at' = at /\ page' \in rest /\ before' \in Pages \union {NULL} /\ hit' \in BOOLEAN
    BY Zenon DEF Find
  <2> QED
    BY <2>1, <2>2
<1>3. TypeOK'
  <2>1. page' \in Pages \union {NULL} /\ before' \in Pages \union {NULL} /\ hit' \in BOOLEAN
    BY <1>1, <1>2 DEF TypeOK
  <2> QED
    BY <2>1, <1>1, <1>2 DEF TypeOK
<1>4. prog # {} /\ Len(got) = 2 /\ order # NULL
  BY <1>1, <1>2 DEF TypeOK, Place
<1>5. Place'
  BY <1>1, <1>2, <1>4 DEF Place, Creating
<1>6. Taking'
  BY <1>1, <1>2, <1>4 DEF Taking
<1>7. Stacked'
  BY <1>1, <1>2 DEF Stacked
<1>8. Claimed' /\ (Apart /\ Marked => Apart' /\ Marked')
  BY <1>1, <1>2, SameClaims
<1>9. Base'
  BY <1>3, <1>5, <1>6, <1>7, <1>8 DEF Base
<1>10. Good => Good'
  BY <1>1, <1>8, FindGood DEF Good
<1>11. spoiled' = spoiled
  BY <1>2
<1> QED
  BY <1>9, <1>10, <1>11 DEF IInv

(* A page that an error path gives back becomes the head of the list as it *)
(* was read: pages pushed in between are lost, none comes back.            *)
LEMMA UndoPushKeeps ==
  ASSUME IInv, UndoPush
  PROVE  IInv'
<1>1. TypeOK /\ Place /\ Taking /\ Stacked /\ Claimed
  BY DEF IInv, Base
<1>2. /\ at = "undo" /\ page # NULL
      /\ head' = page /\ page' = NULL
      /\ at' = IF got = <<>> THEN "idle" ELSE "undo"
      /\ UNCHANGED <<flags, refcount, next, state, kstack, ustack, programs,
                     exiting, task, order, got, prog, before, hit, rest, spoiled>>
  BY DEF UndoPush, pool
<1>3. page \in Pages
  BY <1>1, <1>2 DEF TypeOK
<1>4. TypeOK'
  BY <1>1, <1>2, <1>3 DEF TypeOK
<1>5. Place'
  BY <1>1, <1>2 DEF Place, Creating
<1>6. Taking'
  BY <1>1, <1>2 DEF Taking
<1>7. Stacked'
  BY <1>1, <1>2 DEF Stacked
<1>8. Claimed' /\ (Apart /\ Marked => Apart' /\ Marked')
  BY <1>1, <1>2, SameClaims
<1>9. Base'
  BY <1>4, <1>5, <1>6, <1>7, <1>8 DEF Base
<1>10. ASSUME Good PROVE Good'
  <2>1. PICK S, depth : FreeChain(page, S, depth)
    BY <1>2, <1>10 DEF Good, Ahead
  <2>2. FreeChain(head, S, depth)'
    BY <2>1, <1>2 DEF FreeChain
  <2>3. Found(S)'
    BY <1>2 DEF Found
  <2>4. Listed' /\ Ahead'
    BY <2>2, <2>3, <1>2 DEF Listed, Ahead
  <2>5. Locals'
    BY <1>2, <1>10 DEF Good, Locals
  <2> QED
    BY <2>4, <2>5, <1>8, <1>10 DEF Good
<1>11. spoiled' = spoiled
  BY <1>2
<1> QED
  BY <1>9, <1>10, <1>11 DEF IInv

-----------------------------------------------------------------------------
(* kernel_main: steps that change what it holds                            *)

(* The creator claims the pages it holds ...                               *)
LEMMA GotClaims ==
  ASSUME TypeOK, NEW p \in Entries(got)
  PROVE  /\ p \in Pages
         /\ <<"creator", p>> \in Owners /\ <<"creator", p>> \in Holders
         /\ Claims(<<"creator", p>>) = {p}
<1>1. p \in Pages
  BY EntriesType DEF TypeOK
<1>2. CreatorClaim(p) = {p}
  BY DEF CreatorClaim
<1> QED
  BY <1>1, <1>2, ClaimsOf

(* ... and they are marked.                                                *)
LEMMA GotMarked ==
  ASSUME Firm, NEW p \in Entries(got)
  PROVE  flags[p] = "USED" /\ refcount[p] = 1
<1>1. TypeOK /\ Marked
  BY DEF Firm, Base, Good
<1> QED
  BY <1>1, GotClaims DEF Marked

(* The pages a program claims while its block is taken are looked for and  *)
(* nobody else's.                                                          *)
LEMMA RunFound ==
  ASSUME Base, NEW B \in SUBSET Pages, B # {}, prog = {}, prog' = B,
         \A q \in B : flags[q] = "FREE",
         UNCHANGED <<flags, refcount, state, kstack, ustack, programs, exiting, got>>
  PROVE  /\ Claimed'
         /\ Good => Apart' /\ Marked' /\ Grants(B)
<1> DEFINE x == <<"tables", B>>
<1>1. x \in Holders /\ x \notin Owners /\ Claims(x)' = B
  <2>1. TableClaim(B)' = B
    BY DEF TableClaim
  <2> QED
    BY <2>1, ClaimsOf
<1>2. \A h \in Holders : h # x => Claims(h)' = Claims(h)
  <2>1. \A t \in Slots : <<"kernel stack", t>> # x => KernelClaim(t)' = KernelClaim(t)
    BY DEF KernelClaim
  <2>2. \A t \in Slots : <<"user stack", t>> # x => UserClaim(t)' = UserClaim(t)
    BY DEF UserClaim
  <2>3. \A q \in Pages : <<"creator", q>> # x => CreatorClaim(q)' = CreatorClaim(q)
    BY DEF CreatorClaim
  <2>4. \A C \in SUBSET Pages : <<"tables", C>> # x => TableClaim(C)' = TableClaim(C)
    BY DEF TableClaim
  <2> HIDE DEF x
  <2> QED
    BY <2>1, <2>2, <2>3, <2>4, Frame
<1>3. Claims(x) \subseteq B
  <2>1. TableClaim(B) \subseteq B
    BY DEF TableClaim
  <2> QED
    BY <2>1, ClaimsOf
<1>5. Claimed'
  <2> SUFFICES ASSUME NEW q \in Pages, flags[q] = "USED"
               PROVE  \E h \in Holders : q \in Claims(h)'
    BY DEF Claimed
  <2>1. PICK h \in Holders : q \in Claims(h)
    BY DEF Base, Claimed
  <2>2. h # x
    BY <2>1, <1>3
  <2> HIDE DEF x
  <2> QED
    BY <2>1, <2>2, <1>2
<1>6. ASSUME Good PROVE Apart' /\ Marked' /\ Grants(B)
  <2>1. Firm /\ Apart /\ Marked
    BY <1>6 DEF Firm, Good
  <2>2. \A h \in Holders : h # x => Claims(h)' \intersect B = {}
    <3> SUFFICES ASSUME NEW h \in Holders, h # x, NEW p \in Claims(h), p \in B
                 PROVE  FALSE
      BY <1>2
    <3>1. flags[p] # "USED"
      OBVIOUS
    <3>2. p \in prog
      BY <2>1, <3>1, ClaimsArePages
    <3> QED
      BY <3>2
  <2>3. Claims(x) = {}
    <3>1. B \notin programs
      BY <2>1 DEF Marked
    <3>2. TableClaim(B) = {}
      BY <3>1 DEF TableClaim
    <3> QED
      BY <3>2, ClaimsOf
  <2> HIDE DEF x
  <2>4. Apart'
    <3> SUFFICES ASSUME NEW h \in Holders, NEW g \in Holders, h # g
                 PROVE  Claims(h)' \intersect Claims(g)' = {}
      BY DEF Apart
    <3>1. CASE h # x /\ g # x
      BY <3>1, <1>2, <2>1 DEF Apart
    <3>2. CASE h = x \/ g = x
      BY <3>2, <1>1, <2>2
    <3> QED
      BY <3>1, <3>2
  <2>5. Marked'
    <3>1. \A h \in Owners : Claims(h)' = Claims(h)
      BY <1>1, <1>2 DEF Holders
    <3> QED
      BY <3>1, <2>1 DEF Marked
  <2>6. Blocks' = Blocks \union {B}
    <3>1. \A C : C \in Blocks' <=> C \in Blocks \/ C = B
      BY <2>3, <1>1, <1>2, BlocksAre
    <3> QED
      BY <3>1
  <2>7. B \subseteq avail /\ avail' = avail \ B
    BY DEF avail
  <2> QED
    BY <2>4, <2>5, <2>6, <2>7 DEF Grants
<1> QED
  BY <1>5, <1>6

(* A run of free pages is found, or the allocation fails.                  *)
LEMMA SearchKeeps ==
  ASSUME IInv, Search
  PROVE  IInv' /\ (~spoiled' => Stays \/ \E f \in Pages : Grants(Block(f, order)))
<1>1. TypeOK /\ Place /\ Taking /\ Stacked /\ Claimed /\ Base
  BY DEF IInv, Base
<1>2. /\ at = "program" /\ order # 0 /\ prog = {}
      /\ UNCHANGED <<allocator, pool, programs, exiting, task, order>>
      /\ spoiled' = spoiled
  BY DEF Search
<1>3. page = NULL
  BY <1>1, <1>2 DEF Taking, TypeOK
<1>4. ASSUME Fail PROVE IInv' /\ Stays
  <2>1. UNCHANGED <<flags, refcount, state, kstack, ustack, exiting, got, programs, prog>>
    BY <1>2, <1>4 DEF Fail, allocator, pool
  <2> QED
    BY <1>2, <1>3, <1>4, <2>1, FailKeeps, SameClaims
<1>5. ASSUME NEW f \in FreeRuns(order), prog' = Block(f, order), rest' = prog',
             UNCHANGED <<at, got, page, before, hit>>
      PROVE  Base' /\ (Good => Good' /\ f \in Pages /\ Grants(Block(f, order)))
  <2>1. PICK B \in SUBSET Pages : /\ B = Block(f, order) /\ f \in B
                                  /\ \A p \in B : flags[p] = "FREE"
    <3> DEFINE n == 2^order
    <3>1. order \in Orders
      BY <1>1, <1>2 DEF TypeOK, Place
    <3>2. n \in 1..NumPages /\ NumPages \in Nat
      BY <3>1, CreationAssumption
    <3> HIDE DEF n
    <3>3. f \in 0..(NumPages - n) /\ Block(f, order) = f..(f + n - 1)
          /\ \A p \in Block(f, order) : flags[p] = "FREE"
      BY DEF FreeRuns, Block, n
    <3>4. f..(f + n - 1) \subseteq Pages
      BY <3>2, <3>3 DEF Pages
    <3>5. f \in f..(f + n - 1)
      BY <3>2, <3>3
    <3> QED
      BY <3>3, <3>4, <3>5
  <2>2. prog' = B /\ rest' = B /\ B # {} /\ \A p \in B : flags[p] = "FREE"
    BY <1>5, <2>1
  <2>3. UNCHANGED <<flags, refcount, next, head, state, kstack, ustack, programs,
                    exiting, task, order, at, got, page, before, hit>>
    BY <1>2, <1>5 DEF allocator, pool
  <2>4. TypeOK'
    <3>1. prog' \subseteq Pages /\ rest' \subseteq prog' /\ spoiled' \in BOOLEAN
      BY <1>1, <1>2, <2>2 DEF TypeOK
    <3> QED
      BY <3>1, <1>1, <2>3 DEF TypeOK
  <2>6. Place'
    BY <1>1, <2>3 DEF Place, Creating
  <2>7. Taking'
    BY <1>1, <1>2, <1>3, <2>2, <2>3 DEF Taking
  <2>9. Stacked'
    BY <1>1, <2>3 DEF Stacked
  <2>10. Claimed' /\ (Good => Apart' /\ Marked' /\ Grants(B))
    BY <1>1, <1>2, <2>2, <2>3, RunFound
  <2>11. ASSUME Good PROVE Good'
    <3>1. Locals'
      <4>1. WantsOne' = WantsOne
        BY <2>3 DEF WantsOne
      <4>2. rest' = {p \in prog' : flags'[p] = "FREE"}
        BY <2>2, <2>3
      <4> QED
        BY <4>1, <4>2, <1>3, <2>3, <2>11 DEF Good, Locals
    <3>2. Listed' /\ Ahead'
      BY <1>3, <2>3, <2>11, SameList DEF Good
    <3> QED
      BY <3>1, <3>2, <2>10, <2>11 DEF Good
  <2> QED
    BY <2>1, <2>4, <2>6, <2>7, <2>9, <2>10, <2>11 DEF Base
<1>6. ASSUME \E f \in FreeRuns(order) : prog' = Block(f, order) /\ rest' = prog',
             UNCHANGED <<at, got, page, before, hit>>
      PROVE  IInv' /\ (~spoiled' => \E f \in Pages : Grants(Block(f, order)))
  <2>1. PICK f \in FreeRuns(order) : prog' = Block(f, order) /\ rest' = prog'
    BY <1>6
  <2> QED
    BY <2>1, <1>2, <1>5, <1>6 DEF IInv
<1> QED
  BY <1>4, <1>6 DEF Search

(* The page leaves the list whether the head is overwritten or the link of *)
(* the page before it: what is on the list then is free.                   *)
LEMMA TakeList ==
  ASSUME Firm, Take, ~spoiled'
  PROVE  Listed' /\ Ahead'
<1>1. TypeOK /\ Locals /\ Listed /\ Ahead
  BY DEF Firm, Base, Good
<1>2. /\ page # NULL /\ at # "undo"
      /\ head' = IF Unlinks /\ before = NULL THEN next[page] ELSE head
      /\ next' = IF Unlinks /\ before # NULL
                 THEN [next EXCEPT ![before] = next[page], ![page] = NULL]
                 ELSE [next EXCEPT ![page] = NULL]
      /\ flags' = [flags EXCEPT ![page] = "USED"]
      /\ page' = NULL
      /\ ~(Unlinks /\ ~hit)
  BY DEF Take
<1>3. PICK p \in Pages : p = page
  BY <1>1, <1>2 DEF TypeOK
<1>4. /\ flags \in [Pages -> {"FREE", "USED"}] /\ next \in [Pages -> Pages \union {NULL}]
  BY <1>1 DEF TypeOK
<1>5. \A q \in Pages : q # p => flags'[q] = flags[q]
  BY <1>2, <1>3, <1>4
<1>6. (\E S, d : FreeChain(head, S, d)') => Listed' /\ Ahead'
  <2>1. \A S : Found(S)'
    BY <1>2 DEF Found
  <2>2. Ahead'
    BY <1>2 DEF Ahead
  <2> QED
    BY <2>1, <2>2 DEF Listed
<1>7. CASE hit /\ before = NULL
  <2>1. PICK S, d : FreeChain(page, S, d)
    BY <1>1, <1>2, <1>7 DEF Ahead
  <2>2. CASE Unlinks
    <3>1. head' = next[p] /\ next' = [next EXCEPT ![p] = NULL]
      BY <1>2, <1>3, <1>7, <2>2
    <3>2. /\ Chain(p, next, S, d, NULL) /\ p # NULL /\ S \subseteq Pages
          /\ \A q \in S : flags[q] = "FREE"
      BY <2>1, <1>2, <1>3 DEF FreeChain
    <3>3. \A q \in S \ {p} : next'[q] = next[q] /\ flags'[q] = "FREE"
      BY <3>1, <3>2, <1>4, <1>5
    <3>4. Chain(next[p], next', S \ {p}, d, NULL)
      BY <3>2, <3>3, ChainDrop
    <3>5. FreeChain(head, S \ {p}, d)'
      BY <3>1, <3>2, <3>3, <3>4 DEF FreeChain
    <3> QED
      BY <3>5, <1>6
  <2>3. CASE ~Unlinks
    <3>1. head = NULL
      BY <1>7, <2>3 DEF Unlinks, Target
    <3>2. head' = NULL
      BY <3>1, <2>3, <1>2
    <3>3. Chain(NULL, next', {}, d, NULL)
      BY ChainEmpty
    <3>4. FreeChain(head, {}, d)'
      BY <3>2, <3>3 DEF FreeChain
    <3> QED
      BY <3>4, <1>6
  <2> QED
    BY <2>2, <2>3
<1>8. CASE ~(hit /\ before = NULL)
  <2>1. PICK S, d : FreeChain(head, S, d) /\ Found(S)
    BY <1>1 DEF Listed
  <2>2. /\ Chain(head, next, S, d, NULL) /\ S \subseteq Pages
        /\ \A q \in S : flags[q] = "FREE"
    BY <2>1 DEF FreeChain
  <2>3. CASE hit
    <3>1. before \in S /\ p \in S /\ next[before] = p /\ before # NULL
      BY <2>1, <2>3, <1>2, <1>3, <1>8 DEF Found
    <3>2. PICK b \in S : b = before
      BY <3>1
    <3>3. Unlinks
      <4>1. ~WantsOne
        BY <1>1, <1>2, <1>8 DEF Locals
      <4>2. Target # NULL
        BY <3>1, <1>2, <1>3 DEF Target
      <4> QED
        BY <4>1, <4>2, <2>3 DEF Unlinks
    <3>4. head' = head /\ next' = [next EXCEPT ![b] = next[p], ![p] = NULL]
      BY <3>1, <3>2, <3>3, <1>2, <1>3
    <3>5. b # p /\ b \in Pages
      <4>1. d[p] < d[b] /\ d[b] \in Nat /\ d[p] \in Nat
        BY <3>1, <3>2, <2>2, <1>2, <1>3 DEF Chain
      <4>2. d[p] # d[b]
        BY <4>1
      <4> QED
        BY <4>2, <2>2, <3>2
    <3>6. next'[b] = next[p] /\ \A q \in S \ {p, b} : next'[q] = next[q]
      BY <3>4, <3>5, <2>2, <1>4
    <3>7. Chain(head, next', S \ {p}, d, NULL)
      BY <3>1, <3>2, <3>6, <2>2, ChainUnlink
    <3>8. FreeChain(head, S \ {p}, d)'
      BY <3>4, <3>7, <2>2, <1>5 DEF FreeChain
    <3> QED
      BY <3>8, <1>6
  <2>4. CASE ~hit
    <3>1. p \notin S
      BY <2>1, <2>4, <1>2, <1>3, <1>8 DEF Found
    <3>2. head' = head /\ next' = [next EXCEPT ![p] = NULL]
      BY <2>4, <1>2, <1>3
    <3>3. \A q \in S : next'[q] = next[q] /\ flags'[q] = "FREE"
      BY <3>1, <3>2, <2>2, <1>4, <1>5
    <3>4. Chain(head, next', S, d, NULL)
      BY <3>3, <2>2, ChainFrame
    <3>5. FreeChain(head, S, d)'
      BY <3>2, <3>3, <3>4, <2>2 DEF FreeChain
    <3> QED
      BY <3>5, <1>6
  <2> QED
    BY <2>3, <2>4
<1> QED
  BY <1>7, <1>8

(* What every Take does besides noting the page.                           *)
LEMMA TakeEffect ==
  ASSUME Base, Take
  PROVE  /\ page \in Pages /\ exiting = NULL
         /\ flags' = [flags EXCEPT ![page] = "USED"]
         /\ refcount' = [refcount EXCEPT ![page] = 1]
         /\ flags' \in [Pages -> {"FREE", "USED"}] /\ refcount' \in [Pages -> {0, 1}]
         /\ next' \in [Pages -> Pages \union {NULL}] /\ head' \in Pages \union {NULL}
         /\ page' = NULL /\ before' = NULL /\ hit' = FALSE /\ rest' = rest \ {page}
         /\ UNCHANGED <<state, programs, exiting, task, order>>
         /\ spoiled' \in BOOLEAN /\ (spoiled => spoiled')
<1>1. TypeOK
  BY DEF Base
<1>2. /\ exiting = NULL /\ page # NULL
      /\ flags' = [flags EXCEPT ![page] = "USED"]
      /\ refcount' = [refcount EXCEPT ![page] = 1]
      /\ head' = IF Unlinks /\ before = NULL THEN next[page] ELSE head
      /\ next' = IF Unlinks /\ before # NULL
                 THEN [next EXCEPT ![before] = next[page], ![page] = NULL]
                 ELSE [next EXCEPT ![page] = NULL]
      /\ page' = NULL /\ before' = NULL /\ rest' = rest \ {page}
      /\ UNCHANGED <<state, programs, exiting, task, order>>
  BY DEF Take, Runs
<1>3. page \in Pages
  BY <1>1, <1>2 DEF TypeOK
<1>4. flags' \in [Pages -> {"FREE", "USED"}] /\ refcount' \in [Pages -> {0, 1}]
  BY <1>1, <1>2 DEF TypeOK
<1>5. next' \in [Pages -> Pages \union {NULL}] /\ head' \in Pages \union {NULL}
  <2>1. next \in [Pages -> Pages \union {NULL}] /\ head \in Pages \union {NULL}
        /\ next[page] \in Pages \union {NULL}
    BY <1>1, <1>3 DEF TypeOK
  <2> QED
    BY <2>1, <1>2
<1>6. spoiled' \in BOOLEAN /\ (spoiled => spoiled') /\ hit' = FALSE
  BY Zenon DEF Take
<1> QED
  BY <1>2, <1>3, <1>4, <1>5, <1>6

(* Without a second read of the head it is not spoiled.                    *)
LEMMA NotSpoiled ==
  ASSUME IInv, Take, ~Reread
  PROVE  ~spoiled'
<1>1. ~spoiled /\ Locals
  BY DEF IInv, Good
<1>2. page # NULL /\ (spoiled' <=> spoiled \/ (Unlinks /\ ~hit))
  BY DEF Take
<1>3. ~(Unlinks /\ ~hit)
  BY <1>1, <1>2 DEF Unlinks, Locals
<1> QED
  BY <1>1, <1>2, <1>3

(* The stack a creator takes is noted in the entry, which claims nothing   *)
(* yet, and in its locals: the creator becomes the holder.                 *)
LEMMA TakeStackClaims ==
  ASSUME Base, Take, Creating, prog = {}, prog' = {},
         Entries(got') = Entries(got) \union {page},
         \A s \in Slots : s # task => kstack'[s] = kstack[s] /\ ustack'[s] = ustack[s]
  PROVE  /\ Claimed'
         /\ Good => Apart' /\ Marked' /\ \E p \in Pages : Grants({p})
<1>1. PICK p \in Pages : p = page
  BY TakeEffect
<1> DEFINE x == <<"creator", p>>
<1>2. /\ flags' = [flags EXCEPT ![p] = "USED"]
      /\ refcount' = [refcount EXCEPT ![p] = 1]
      /\ UNCHANGED <<state, programs, exiting, task, order>>
  BY <1>1, TakeEffect
<1>3. x \in Holders /\ Claims(x) \subseteq {p} /\ Claims(x)' = {p}
      /\ (p \notin Entries(got) => Claims(x) = {})
  <2>1. CreatorClaim(p) \subseteq {p} /\ CreatorClaim(p)' = {p}
        /\ (p \notin Entries(got) => CreatorClaim(p) = {})
    BY <1>1 DEF CreatorClaim
  <2> QED
    BY <2>1, ClaimsOf
<1>4. \A h \in Holders : h # x => Claims(h)' = Claims(h)
  <2>0. task \in Slots /\ state[task] = "TERMINATED" /\ task # exiting
    BY DEF Base, Place
  <2>1. \A t \in Slots : <<"kernel stack", t>> # x => KernelClaim(t)' = KernelClaim(t)
    BY <1>2, <2>0 DEF KernelClaim
  <2>2. \A t \in Slots : <<"user stack", t>> # x => UserClaim(t)' = UserClaim(t)
    <3> SUFFICES ASSUME NEW t \in Slots PROVE UserClaim(t)' = UserClaim(t)
      OBVIOUS
    <3>1. CASE t = task
      BY <3>1, <1>2, <2>0 DEF UserClaim
    <3>2. CASE t # task
      BY <3>2, <1>2 DEF UserClaim
    <3> QED
      BY <3>1, <3>2
  <2>3. \A q \in Pages : <<"creator", q>> # x => CreatorClaim(q)' = CreatorClaim(q)
    BY <1>1 DEF CreatorClaim
  <2>4. \A B \in SUBSET Pages : <<"tables", B>> # x => TableClaim(B)' = TableClaim(B)
    BY <1>2 DEF TableClaim
  <2> HIDE DEF x
  <2> QED
    BY <2>1, <2>2, <2>3, <2>4, Frame
<1> HIDE DEF x
<1>5. Gains(x, p)
  BY <1>2, <1>3, <1>4 DEF Gains
<1>6. Claimed'
  BY <1>3, <1>5, TakeClaimed DEF Base
<1>7. ASSUME Good PROVE Apart' /\ Marked' /\ Grants({p})
  <2>1. Firm
    BY <1>7 DEF Firm
  <2>2. flags[p] = "FREE"
    BY <1>1, <1>7 DEF Good, Locals, Take
  <2>3. p \notin prog /\ Claims(x) = {}
    BY <2>1, <2>2, <1>3, GotMarked
  <2> QED
    BY <2>1, <2>2, <2>3, <1>3, <1>5, TakeClaim
<1> QED
  BY <1>6, <1>7

(* The creator never holds more than two pages for stacks.                 *)
LEMMA OneOrTwo ==
  /\ \A n : n = 1 => n > 0 /\ ~(n > 1) /\ n <= 2 /\ n + 1 = 2 /\ 1 \in 1..n
  /\ \A n : n = 2 => n > 0 /\ n > 1 /\ n <= 2
  OBVIOUS

(* The first page of a creation becomes the kernel stack.                  *)
LEMMA TakeKernelStackKeeps ==
  ASSUME Base, Take, at = "kernel stack",
         kstack' = [kstack EXCEPT ![task] = page], got' = <<page>>,
         at' = IF order = NULL THEN "publish" ELSE "user stack",
         UNCHANGED <<ustack, prog>>
  PROVE  /\ Base'
         /\ Good /\ ~spoiled' => Good' /\ \E p \in Pages : Grants({p})
<1>1. TypeOK /\ Place /\ Taking /\ Stacked
  BY DEF Base
<1>2. /\ page \in Pages /\ exiting = NULL
      /\ flags' \in [Pages -> {"FREE", "USED"}] /\ refcount' \in [Pages -> {0, 1}]
      /\ next' \in [Pages -> Pages \union {NULL}] /\ head' \in Pages \union {NULL}
      /\ page' = NULL /\ before' = NULL /\ hit' = FALSE /\ rest' = rest \ {page}
      /\ UNCHANGED <<state, programs, exiting, task, order>> /\ spoiled' \in BOOLEAN
  BY TakeEffect
<1>3. got = <<>> /\ prog = {} /\ rest' = {} /\ Creating /\ task \in Slots
      /\ state[task] = "TERMINATED" /\ task # exiting
  BY <1>1, <1>2 DEF Place, Taking, Creating, TypeOK
<1>4. /\ got' \in Seq(Pages) /\ Len(got') = 1 /\ got'[1] = page
      /\ Entries(got') = {page} /\ Distinct(got')
  BY <1>2, SmallLists
<1>5. /\ kstack' \in [Slots -> Pages \union {NULL}]
      /\ kstack'[task] = page /\ \A s \in Slots : s # task => kstack'[s] = kstack[s]
  BY <1>1, <1>2, <1>3 DEF TypeOK
<1>6. TypeOK'
  <2>1. got' \in Seq(Pages) /\ Len(got') <= 2
    BY <1>4, OneOrTwo, Zenon
  <2>2. at' \in {"publish", "user stack"}
    OBVIOUS
  <2>3. page' \in Pages \union {NULL} /\ before' \in Pages \union {NULL} /\ hit' \in BOOLEAN
    BY <1>2
  <2> QED
    BY <2>1, <2>2, <2>3, <1>1, <1>2, <1>3, <1>5 DEF TypeOK
<1>7. Place'
  <2>1. (Creating => task \in Slots /\ state[task] = "TERMINATED" /\ task # exiting)'
    BY <1>2, <1>3
  <2>2. /\ (at \in {"idle", "kernel stack"} => got = <<>>)'
        /\ (at = "user stack" => Len(got) = 1)'
        /\ (at \in {"program", "tables", "hung"} => Len(got) = 2)'
        /\ (at \in {"user stack", "program", "tables", "hung"} => order # NULL)'
        /\ (at = "publish" => Len(got) = IF order = NULL THEN 1 ELSE 2)'
        /\ (at = "undo" /\ page = NULL => got # <<>>)'
    BY <1>2, <1>4
  <2>3. (at \notin {"idle", "undo"} /\ Len(got) > 0 => kstack[task] = got[1])'
    BY <1>2, <1>4, <1>5
  <2>5. ~(Len(got') > 1)
    BY <1>4, OneOrTwo, Zenon
  <2>4. (at \notin {"idle", "undo"} /\ Len(got) > 1 => ustack[task] = got[2])'
    BY <2>5
  <2> QED
    BY <2>1, <2>2, <2>3, <2>4 DEF Place
<1>8. Taking'
  BY <1>1, <1>2, <1>3 DEF Taking
<1>9. Stacked'
  <2>1. \A s \in Slots : state'[s] = "READY" => kstack'[s] \in Pages
    BY <1>1, <1>2, <1>3, <1>5 DEF Stacked
  <2> QED
    BY <2>1, <1>2 DEF Stacked
<1>10. Claimed' /\ (Good => Apart' /\ Marked' /\ \E p \in Pages : Grants({p}))
  <2>1. Entries(got) = {}
    BY <1>3, SmallLists
  <2>2. Entries(got') = Entries(got) \union {page}
    BY <2>1, <1>4
  <2>3. \A s \in Slots : s # task => kstack'[s] = kstack[s] /\ ustack'[s] = ustack[s]
    BY <1>5
  <2> QED
    BY <2>2, <2>3, <1>3, TakeStackClaims
<1>11. ASSUME Good, ~spoiled' PROVE Good'
  <2>1. Locals'
    BY <1>2, <1>4 DEF Locals
  <2>2. Listed' /\ Ahead'
    BY <1>11, TakeList DEF Firm
  <2> QED
    BY <2>1, <2>2, <1>10, <1>11 DEF Good
<1> QED
  BY <1>6, <1>7, <1>8, <1>9, <1>10, <1>11 DEF Base

(* A page is noted behind those the creator holds.                         *)
AppendsTo(list, p) ==
  /\ Append(list, p) \in Seq(Pages) /\ Len(Append(list, p)) = Len(list) + 1
  /\ \A i \in 1..Len(list) : Append(list, p)[i] = list[i]
  /\ Append(list, p)[Len(list) + 1] = p
  /\ Entries(Append(list, p)) = Entries(list) \union {p}
  /\ Distinct(list) /\ p \notin Entries(list) => Distinct(Append(list, p))

\* ... and stays one of them.
LEMMA Appended ==
  ASSUME NEW list \in Seq(Pages), NEW p \in Pages
  PROVE  AppendsTo(list, p)
  BY AppendEntries DEF AppendsTo

(* The second one of a user task becomes the user stack.                   *)
LEMMA TakeUserStackKeeps ==
  ASSUME Base, Take, at = "user stack",
         ustack' = [ustack EXCEPT ![task] = page], got' = Append(got, page),
         at' = "program",
         UNCHANGED <<kstack, prog>>
  PROVE  /\ Base'
         /\ Good /\ ~spoiled' => Good' /\ \E p \in Pages : Grants({p})
<1>1. TypeOK /\ Place /\ Taking /\ Stacked
  BY DEF Base
<1>2. /\ page \in Pages /\ exiting = NULL
      /\ flags' \in [Pages -> {"FREE", "USED"}] /\ refcount' \in [Pages -> {0, 1}]
      /\ next' \in [Pages -> Pages \union {NULL}] /\ head' \in Pages \union {NULL}
      /\ page' = NULL /\ before' = NULL /\ hit' = FALSE /\ rest' = rest \ {page}
      /\ UNCHANGED <<state, programs, exiting, task, order>> /\ spoiled' \in BOOLEAN
  BY TakeEffect
<1>3. /\ Len(got) = 1 /\ prog = {} /\ rest' = {} /\ Creating /\ order # NULL
      /\ task \in Slots /\ state[task] = "TERMINATED"
      /\ task # exiting /\ kstack[task] = got[1] /\ got \in Seq(Pages)
  <2>1. Creating
    BY DEF Creating
  <2>4. Len(got) = 1 /\ order # NULL
    BY <1>1 DEF Place
  <2>2. Len(got) = 1 /\ Len(got) > 0 /\ order # NULL
    BY <2>4, OneOrTwo, Zenon
  <2>3. prog = {} /\ rest' = {} /\ got \in Seq(Pages)
    BY <1>1, <1>2 DEF Taking, TypeOK
  <2> QED
    BY <2>1, <2>2, <2>3, <1>1 DEF Place
<1>5. /\ got' \in Seq(Pages) /\ Len(got') = 2 /\ got'[1] = got[1] /\ got'[2] = page
      /\ Entries(got') = Entries(got) \union {page}
      /\ Distinct(got) /\ page \notin Entries(got) => Distinct(got')
  <2>3. got \in Seq(Pages)
    BY <1>3
  <2> DEFINE list == Append(got, page)
  <2>1. /\ list \in Seq(Pages) /\ Len(list) = Len(got) + 1
        /\ Entries(list) = Entries(got) \union {page}
        /\ \A i \in 1..Len(got) : list[i] = got[i]
        /\ list[Len(got) + 1] = page
        /\ Distinct(got) /\ page \notin Entries(got) => Distinct(list)
    <3>1. page \in Pages
      BY <1>2
    <3>2. \A q \in Pages : AppendsTo(got, q)
      BY <2>3, Appended
    <3> QED
      BY <3>1, <3>2 DEF AppendsTo
  <2>4. Len(got) + 1 = 2 /\ 1 \in 1..Len(got)
    BY <1>3, OneOrTwo, Zenon
  <2>5. got' = list
    OBVIOUS
  <2> HIDE DEF list
  <2>6. Len(list) = 2 /\ list[2] = page
    BY <2>1, <2>4
  <2>7. list[1] = got[1]
    BY <2>1, <2>4
  <2> QED
    BY <2>1, <2>5, <2>6, <2>7
<1>6. /\ ustack' \in [Slots -> Pages \union {NULL}]
      /\ ustack'[task] = page /\ \A s \in Slots : s # task => ustack'[s] = ustack[s]
  BY <1>1, <1>2, <1>3 DEF TypeOK
<1>7. TypeOK'
  <2>1. got' \in Seq(Pages) /\ Len(got') <= 2
    BY <1>5, OneOrTwo, Zenon
  <2>2. page' \in Pages \union {NULL} /\ before' \in Pages \union {NULL} /\ hit' \in BOOLEAN
    BY <1>2
  <2> QED
    BY <2>1, <2>2, <1>1, <1>2, <1>3, <1>6 DEF TypeOK
<1>8. Place'
  <2>1. (Creating => task \in Slots /\ state[task] = "TERMINATED" /\ task # exiting)'
    BY <1>2, <1>3
  <2>2. /\ (at \in {"idle", "kernel stack"} => got = <<>>)'
        /\ (at = "user stack" => Len(got) = 1)'
        /\ (at \in {"program", "tables", "hung"} => Len(got) = 2)'
        /\ (at \in {"user stack", "program", "tables", "hung"} => order # NULL)'
        /\ (at = "publish" => Len(got) = IF order = NULL THEN 1 ELSE 2)'
        /\ (at = "undo" /\ page = NULL => got # <<>>)'
    BY <1>2, <1>3, <1>5
  <2>3. (at \notin {"idle", "undo"} /\ Len(got) > 0 => kstack[task] = got[1])'
    BY <1>2, <1>3, <1>5
  <2>4. (at \notin {"idle", "undo"} /\ Len(got) > 1 => ustack[task] = got[2])'
    BY <1>2, <1>5, <1>6
  <2> QED
    BY <2>1, <2>2, <2>3, <2>4 DEF Place
<1>9. Taking'
  BY <1>1, <1>2, <1>3 DEF Taking
<1>10. Stacked'
  BY <1>1, <1>2 DEF Stacked
<1>11. Claimed' /\ (Good => Apart' /\ Marked' /\ \E p \in Pages : Grants({p}))
  BY <1>3, <1>5, <1>6, TakeStackClaims
<1>12. ASSUME Good, ~spoiled' PROVE Good'
  <2>1. page \notin Entries(got)
    <3>1. flags[page] = "FREE"
      BY <1>2, <1>12 DEF Good, Locals, Take
    <3> QED
      BY <3>1, <1>12, GotMarked DEF Firm
  <2>2. Locals'
    BY <2>1, <1>2, <1>3, <1>5, <1>12 DEF Good, Locals
  <2>3. Listed' /\ Ahead'
    BY <1>12, TakeList DEF Firm
  <2> QED
    BY <2>2, <2>3, <1>11, <1>12 DEF Good
<1> QED
  BY <1>7, <1>8, <1>9, <1>10, <1>11, <1>12 DEF Base

(* A page of the program: the one of an order-0 program, or the next of    *)
(* the run the search has found.                                           *)
LEMMA TakeProgramKeeps ==
  ASSUME Base, Take, at = "program", prog' = prog \union {page},
         at' = IF rest' = {} THEN "tables" ELSE "program",
         UNCHANGED <<kstack, ustack, got>>
  PROVE  /\ Base'
         /\ Good /\ ~spoiled' => Good' /\ (Stays \/ \E p \in Pages : Grants({p}))
<1>1. TypeOK /\ Place /\ Taking /\ Stacked
  BY DEF Base
<1>2. PICK p \in Pages : p = page
  BY TakeEffect
<1>3. /\ exiting = NULL /\ p # NULL
      /\ flags' = [flags EXCEPT ![p] = "USED"]
      /\ refcount' = [refcount EXCEPT ![p] = 1]
      /\ flags' \in [Pages -> {"FREE", "USED"}] /\ refcount' \in [Pages -> {0, 1}]
      /\ next' \in [Pages -> Pages \union {NULL}] /\ head' \in Pages \union {NULL}
      /\ page' = NULL /\ before' = NULL /\ hit' = FALSE /\ rest' = rest \ {p}
      /\ UNCHANGED <<state, programs, exiting, task, order>> /\ spoiled' \in BOOLEAN
  BY <1>2, TakeEffect, SlotsNotNull
<1>4. /\ order # 0 => p \in prog
      /\ order = 0 => prog = {} /\ rest = {}
      /\ rest \subseteq prog /\ flags'[p] = "USED"
  BY <1>1, <1>2, <1>3 DEF TypeOK, Taking
<1>5. prog' = prog \union {p}
  BY <1>2
<1>6. TypeOK'
  <2>1. page' \in Pages \union {NULL} /\ before' \in Pages \union {NULL} /\ hit' \in BOOLEAN
    BY <1>3
  <2>2. prog' \subseteq Pages /\ rest' \subseteq prog'
    BY <1>1, <1>3, <1>4, <1>5 DEF TypeOK
  <2> QED
    BY <2>1, <2>2, <1>1, <1>3 DEF TypeOK
<1>7. Place'
  <2>1. at' \in {"program", "tables"} /\ Creating /\ Len(got) = 2 /\ order # NULL
    BY <1>1 DEF Place, Creating
  <2>2. (Creating => task \in Slots /\ state[task] = "TERMINATED" /\ task # exiting)'
    BY <1>1, <1>3, <2>1 DEF Place
  <2>3. /\ (at \in {"idle", "kernel stack"} => got = <<>>)'
        /\ (at = "user stack" => Len(got) = 1)'
        /\ (at \in {"program", "tables", "hung"} => Len(got) = 2)'
        /\ (at \in {"user stack", "program", "tables", "hung"} => order # NULL)'
        /\ (at = "publish" => Len(got) = IF order = NULL THEN 1 ELSE 2)'
        /\ (at = "undo" /\ page = NULL => got # <<>>)'
    BY <1>1, <1>3, <2>1 DEF Place
  <2>6. Len(got) > 0 /\ Len(got) > 1
    BY <2>1, OneOrTwo, Zenon
  <2>4. kstack[task] = got[1] /\ ustack[task] = got[2]
    BY <1>1, <2>1, <2>6 DEF Place
  <2>5. /\ (at \notin {"idle", "undo"} /\ Len(got) > 0 => kstack[task] = got[1])'
        /\ (at \notin {"idle", "undo"} /\ Len(got) > 1 => ustack[task] = got[2])'
    BY <1>3, <2>4
  <2> QED
    BY <2>2, <2>3, <2>5 DEF Place
<1>8. Taking'
  <2>1. order = 0 => at' = "tables"
    BY <1>3, <1>4
  <2>2. at' \in {"tables", "program"} /\ (at' = "tables" => rest' = {})
    OBVIOUS
  <2>3. prog' # {} /\ {} \notin programs'
    BY <1>1, <1>3, <1>5 DEF Taking
  <2> QED
    BY <2>1, <2>2, <2>3, <1>3 DEF Taking
<1>9. Stacked'
  BY <1>1, <1>3 DEF Stacked
<1>10. PICK B \in SUBSET Pages : B = prog \union {p}
  BY <1>1 DEF TypeOK
<1> DEFINE x == <<"tables", B>>
<1>11. /\ x \in Holders /\ Claims(x)' = Claims(x) \union {p}
       /\ order # 0 => p \in Claims(x)
       /\ (\A C \in programs : p \notin C) /\ order = 0 => Claims(x) = {}
  <2>1. TableClaim(B)' = B
    BY <1>5, <1>10 DEF TableClaim
  <2>2. order # 0 => TableClaim(B) = B /\ p \in B
    BY <1>4, <1>10 DEF TableClaim
  <2>3. order = 0 => B = {p}
    BY <1>4, <1>10
  <2>4. TableClaim(B)' = TableClaim(B) \union {p}
    BY <2>1, <2>2, <2>3 DEF TableClaim
  <2>5. (\A C \in programs : p \notin C) /\ order = 0 => TableClaim(B) = {}
    BY <2>3, <1>4 DEF TableClaim
  <2> QED
    BY <2>2, <2>4, <2>5, ClaimsOf
<1>12. \A h \in Holders : h # x => Claims(h)' = Claims(h)
  <2>1. \A t \in Slots : <<"kernel stack", t>> # x => KernelClaim(t)' = KernelClaim(t)
    BY <1>3 DEF KernelClaim
  <2>2. \A t \in Slots : <<"user stack", t>> # x => UserClaim(t)' = UserClaim(t)
    BY <1>3 DEF UserClaim
  <2>3. \A q \in Pages : <<"creator", q>> # x => CreatorClaim(q)' = CreatorClaim(q)
    BY DEF CreatorClaim
  <2>4. \A C \in SUBSET Pages : <<"tables", C>> # x => TableClaim(C)' = TableClaim(C)
    <3> SUFFICES ASSUME NEW C \in SUBSET Pages, C # B
                 PROVE  TableClaim(C)' = TableClaim(C)
      OBVIOUS
    <3>1. CASE C \in programs
      BY <3>1, <1>3 DEF TableClaim
    <3>2. CASE C \notin programs
      <4>1. C # prog'
        BY <1>5, <1>10
      <4>2. TableClaim(C)' = {}
        BY <4>1, <3>2, <1>3 DEF TableClaim
      <4>3. C = prog => C = {}
        BY <1>4, <1>10
      <4>4. TableClaim(C) = {}
        BY <4>3, <3>2 DEF TableClaim
      <4> QED
        BY <4>2, <4>4
    <3> QED
      BY <3>1, <3>2
  <2> HIDE DEF x
  <2> QED
    BY <2>1, <2>2, <2>3, <2>4, Frame
<1>13. p \in prog => x = <<"tables", prog>>
  <2>1. p \in prog => B = prog
    BY <1>10
  <2> QED
    BY <2>1
<1> HIDE DEF x
<1>14. Gains(x, p)
  BY <1>3, <1>5, <1>11, <1>12 DEF Gains
<1>15. Claimed'
  BY <1>11, <1>14, TakeClaimed DEF Base
<1>16. ASSUME Good, ~spoiled' PROVE Good' /\ (Stays \/ Grants({p}))
  <2>1. Firm /\ Locals /\ Marked
    BY <1>16 DEF Firm, Good
  <2>2. flags[p] = "FREE"
    BY <2>1, <1>2, <1>3 DEF Locals
  <2>3. \A C \in programs : p \notin C
    BY <2>1, <2>2 DEF Marked
  <2>4. /\ Apart' /\ Marked'
        /\ p \in prog /\ p \in Claims(x) => Stays
        /\ p \notin prog /\ Claims(x) = {} => Grants({p})
    BY <2>1, <2>2, <1>11, <1>13, <1>14, TakeClaim
  <2>5. Stays \/ Grants({p})
    BY <2>3, <2>4, <1>4, <1>11
  <2>6. rest' = {q \in prog' : flags'[q] = "FREE"}
    <3>1. \A q \in prog : q # p => flags'[q] = flags[q]
      BY <1>1, <1>3 DEF TypeOK
    <3>2. rest = {q \in prog : flags[q] = "FREE"}
      BY <2>1 DEF Locals
    <3> QED
      BY <3>1, <3>2, <1>3, <1>4, <1>5
  <2>7. Locals'
    BY <2>1, <2>6, <1>3 DEF Locals
  <2>8. Listed' /\ Ahead'
    BY <2>1, <1>16, TakeList
  <2> QED
    BY <2>4, <2>5, <2>7, <2>8 DEF Good
<1> QED
  BY <1>6, <1>7, <1>8, <1>9, <1>15, <1>16 DEF Base

(* A page is taken, for a stack or for the program.                        *)
LEMMA TakeKeeps ==
  ASSUME IInv, Take
  PROVE  IInv' /\ (~spoiled' => Stays \/ \E p \in Pages : Grants({p}))
<1>1. Base /\ (~spoiled => Good)
  BY DEF IInv
<1>2. /\ Base'
      /\ Good /\ ~spoiled' => Good' /\ (Stays \/ \E p \in Pages : Grants({p}))
  <2>1. \/ /\ at = "kernel stack"
           /\ kstack' = [kstack EXCEPT ![task] = page] /\ got' = <<page>>
           /\ at' = IF order = NULL THEN "publish" ELSE "user stack"
           /\ UNCHANGED <<ustack, prog>>
        \/ /\ at = "user stack"
           /\ ustack' = [ustack EXCEPT ![task] = page] /\ got' = Append(got, page)
           /\ at' = "program"
           /\ UNCHANGED <<kstack, prog>>
        \/ /\ at = "program"
           /\ prog' = prog \union {page}
           /\ at' = IF rest' = {} THEN "tables" ELSE "program"
           /\ UNCHANGED <<kstack, ustack, got>>
    BY DEF Take
  <2> QED
    BY <2>1, <1>1, TakeKernelStackKeeps, TakeUserStackKeeps, TakeProgramKeeps
<1>3. spoiled => spoiled'
  BY <1>1, TakeEffect
<1>4. ~Reread => ~spoiled'
  BY NotSpoiled
<1> QED
  BY <1>1, <1>2, <1>3, <1>4 DEF IInv

(* The tables are built: the program passes from the creator's locals to   *)
(* them, and the block is complete by then; or kernel_main is stopped.     *)
LEMMA BuildTablesKeeps ==
  ASSUME IInv, BuildTables
  PROVE  IInv' /\ (~spoiled' => Stays)
<1>1. TypeOK /\ Place /\ Taking /\ Stacked /\ Claimed
  BY DEF IInv, Base
<1>2. /\ at = "tables"
      /\ \/ at' = "publish" /\ programs' = programs \union {prog} /\ prog' = {}
         \/ at' = "hung" /\ programs' = programs /\ prog' = prog
      /\ UNCHANGED <<flags, refcount, next, head, state, kstack, ustack,
                     exiting, task, order, got, page, before, hit, rest>>
      /\ spoiled' = spoiled
  BY DEF BuildTables, allocator, pool, search
<1>3. page = NULL /\ rest = {} /\ Len(got) = 2 /\ order # NULL /\ Creating
  BY <1>1, <1>2 DEF Taking, Place, Creating
<1>4. TypeOK'
  <2>1. /\ flags' \in [Pages -> {"FREE", "USED"}] /\ refcount' \in [Pages -> {0, 1}]
        /\ next' \in [Pages -> Pages \union {NULL}] /\ head' \in Pages \union {NULL}
        /\ state' \in [Slots -> {"READY", "TERMINATED"}]
        /\ kstack' \in [Slots -> Pages \union {NULL}]
        /\ ustack' \in [Slots -> Pages \union {NULL}]
    BY <1>1, <1>2 DEF TypeOK
  <2>2. /\ programs' \subseteq SUBSET Pages /\ prog' \subseteq Pages
        /\ at' \in {"idle", "kernel stack", "user stack", "program", "tables", "publish",
                    "undo", "hung"}
        /\ rest' \subseteq prog'
    <3>1. programs \subseteq SUBSET Pages /\ prog \subseteq Pages
      BY <1>1 DEF TypeOK
    <3>2. programs' \subseteq SUBSET Pages
      BY <1>2, <3>1
    <3>3. prog' \subseteq Pages /\ rest' \subseteq prog'
      BY <1>2, <1>3, <3>1
    <3> QED
      BY <1>2, <3>2, <3>3
  <2>3. /\ exiting' \in Slots \union {NULL} /\ task' \in Slots \union {NULL}
        /\ order' \in Orders \union {NULL}
        /\ got' \in Seq(Pages) /\ Len(got') <= 2
        /\ page' \in Pages \union {NULL} /\ before' \in Pages \union {NULL}
    BY <1>1, <1>2 DEF TypeOK
  <2>4. hit' \in BOOLEAN /\ spoiled' \in BOOLEAN
    BY <1>1, <1>2 DEF TypeOK
  <2> QED
    BY <2>1, <2>2, <2>3, <2>4, Zenon DEF TypeOK
<1>6. Place'
  BY <1>1, <1>2, <1>3 DEF Place
<1>7. Taking'
  BY <1>1, <1>2, <1>3 DEF Taking
<1>9. Stacked'
  BY <1>1, <1>2 DEF Stacked
<1>11. \A h \in Holders : Claims(h)' = Claims(h)
  <2>1. \A t \in Slots : KernelClaim(t)' = KernelClaim(t)
    BY <1>2 DEF KernelClaim
  <2>2. \A t \in Slots : UserClaim(t)' = UserClaim(t)
    BY <1>2 DEF UserClaim
  <2>3. \A q \in Pages : CreatorClaim(q)' = CreatorClaim(q)
    BY <1>2 DEF CreatorClaim
  <2>4. \A C \in SUBSET Pages : TableClaim(C)' = TableClaim(C)
    BY <1>2 DEF TableClaim
  <2>5. PICK x : x \notin Holders
    <3>1. <<"none", NULL>> \notin Holders
      <4> SUFFICES ASSUME <<"none", NULL>> \in Holders
                   PROVE  FALSE
        OBVIOUS
      <4> QED
        BY Kinds
    <3> QED
      BY <3>1
  <2>6. \A h \in Holders : h # x => Claims(h)' = Claims(h)
    BY <2>1, <2>2, <2>3, <2>4, Frame
  <2> QED
    BY <2>5, <2>6
<1>12. Claimed'
  BY <1>1, <1>2, <1>11, KeepClaims
<1>13. Base'
  BY <1>4, <1>6, <1>7, <1>9, <1>12 DEF Base
<1>14. ASSUME Good PROVE Good' /\ Stays
  <2>1. \A p \in prog : flags[p] = "USED"
    <3>1. {p \in prog : flags[p] = "FREE"} = {}
      BY <1>2, <1>3, <1>14 DEF Good, Locals
    <3> QED
      BY <3>1, <1>1 DEF TypeOK
  <2>2. \A B \in programs' : \A p \in B : flags[p] = "USED"
    BY <2>1, <1>2, <1>14 DEF Good, Marked
  <2>3. \A p \in Pages : flags[p] = "FREE" => (p \in prog' <=> p \in prog)
    BY <2>1, <1>2
  <2>4. Apart' /\ Marked' /\ Stays
    BY <2>2, <2>3, <1>2, <1>11, <1>14, KeepClaims DEF Good
  <2>5. Locals'
    BY <1>2, <1>3, <1>14 DEF Good, Locals
  <2>6. Listed' /\ Ahead'
    BY <1>2, <1>3, <1>14, SameList DEF Good
  <2> QED
    BY <2>4, <2>5, <2>6 DEF Good
<1> QED
  BY <1>2, <1>13, <1>14 DEF IInv

(* Pages change hands without being marked or given back: what was claimed *)
(* is claimed by somebody.                                                 *)
LEMMA MoveClaimed ==
  ASSUME Claimed,
         \A h \in Holders : Claims(h) = {} \/ \E g \in Holders : Claims(g)' = Claims(h),
         UNCHANGED flags
  PROVE  Claimed'
<1> SUFFICES ASSUME NEW q \in Pages, flags[q] = "USED"
             PROVE  \E h \in Holders : q \in Claims(h)'
  BY DEF Claimed
<1>1. PICK h \in Holders : q \in Claims(h)
  BY DEF Claimed
<1> QED
  BY <1>1

\* m tells whose claim the claim of a holder was.
LEMMA MoveClaims ==
  ASSUME Apart, Marked, NEW m \in [Holders -> Holders],
         \A h \in Holders : Claims(h)' = {} \/ Claims(h)' = Claims(m[h]),
         \A h, g \in Holders : h # g => \/ m[h] # m[g]
                                        \/ Claims(h)' = {} \/ Claims(g)' = {},
         \A h \in Owners : m[h] \in Owners,
         \A h \in Holders : Claims(h) = {} \/ \E g \in Holders : Claims(g)' = Claims(h),
         UNCHANGED <<flags, refcount, programs, prog>>
  PROVE  Apart' /\ Marked' /\ Stays
<1>2. Apart'
  <2> SUFFICES ASSUME NEW h \in Holders, NEW g \in Holders, h # g
               PROVE  Claims(h)' \intersect Claims(g)' = {}
    BY DEF Apart
  <2>1. CASE m[h] # m[g]
    <3>1. Claims(m[h]) \intersect Claims(m[g]) = {}
      BY <2>1 DEF Apart
    <3> QED
      BY <3>1
  <2> QED
    BY <2>1
<1>3. Marked'
  <2>1. ASSUME NEW h \in Owners, NEW p \in Claims(h)'
        PROVE  flags[p] = "USED" /\ refcount[p] = 1
    <3>1. m[h] \in Owners /\ p \in Claims(m[h])
      BY DEF Holders
    <3> QED
      BY <3>1 DEF Marked
  <2> QED
    BY <2>1 DEF Marked
<1>5. Blocks' = Blocks
  <2>1. \A B : B \in Blocks' => B \in Blocks
    BY BlocksAre
  <2>2. \A B : B \in Blocks => B \in Blocks'
    BY BlocksAre
  <2> QED
    BY <2>1, <2>2
<1>6. avail' = avail
  BY DEF avail
<1> QED
  BY <1>2, <1>3, <1>5, <1>6 DEF Stays

(* The pages of a creation by their place in the list: at least one, at    *)
(* most two, and different.                                                *)
LEMMA FirstAndSecond ==
  ASSUME NEW list \in Seq(Pages)
  PROVE  /\ Len(list) = 1 => list[1] \in Pages /\ Entries(list) = {list[1]}
         /\ Len(list) = 2 => /\ list[1] \in Pages /\ list[2] \in Pages
                             /\ Distinct(list) => list[1] # list[2]
                             /\ Entries(list) = {list[1], list[2]}
<1>1. ASSUME Len(list) = 1
      PROVE  list[1] \in Pages /\ Entries(list) = {list[1]}
  <2>1. 1..Len(list) = {1}
    BY <1>1
  <2> QED
    BY <2>1 DEF Entries
<1>2. ASSUME Len(list) = 2
      PROVE  /\ list[1] \in Pages /\ list[2] \in Pages
             /\ Distinct(list) => list[1] # list[2]
             /\ Entries(list) = {list[1], list[2]}
  <2>1. 1..Len(list) = {1, 2} /\ 1 # 2
    BY <1>2
  <2>2. list[1] \in Pages /\ list[2] \in Pages
    BY <2>1
  <2>3. Entries(list) = {list[1], list[2]}
    BY <2>1 DEF Entries
  <2>4. Distinct(list) => list[1] # list[2]
    BY <2>1 DEF Distinct
  <2> QED
    BY <2>2, <2>3, <2>4
<1> QED
  BY <1>1, <1>2

(* The entry is made ready: what the creator held for stacks is the task's *)
(* from here on, and an exit may give it back at once.                     *)
LEMMA PublishClaims ==
  ASSUME Base, Publish
  PROVE  Claimed' /\ (Good => Apart' /\ Marked' /\ Stays)
<1>1. TypeOK /\ Place
  BY DEF Base
<1>2. /\ at = "publish" /\ exiting = NULL
      /\ state' = [state EXCEPT ![task] = "READY"]
      /\ ustack' = IF order = NULL THEN [ustack EXCEPT ![task] = NULL] ELSE ustack
      /\ got' = <<>>
      /\ UNCHANGED <<flags, refcount, kstack, programs, exiting, prog>>
  BY DEF Publish, Runs, allocator
<1>3. task \in Slots /\ state[task] = "TERMINATED"
  BY <1>1, <1>2 DEF Place, Creating
<1>4. PICK s \in Slots : s = task
  BY <1>3
<1>5. /\ got \in Seq(Pages)
      /\ Len(got) = IF order = NULL THEN 1 ELSE 2
  BY <1>1, <1>2 DEF TypeOK, Place
<1>6. Len(got) > 0 /\ (order # NULL => Len(got) > 1)
  BY <1>5
<1>7. kstack[s] = got[1] /\ (order # NULL => ustack[s] = got[2])
  BY <1>1, <1>2, <1>4, <1>6 DEF Place
<1>8. PICK p \in Pages : p = got[1]
  BY <1>5, FirstAndSecond
<1>9. PICK q \in Pages : order # NULL => q = got[2] /\ (Distinct(got) => q # p)
  BY <1>5, <1>8, FirstAndSecond
<1>10. Entries(got) = IF order = NULL THEN {p} ELSE {p, q}
  BY <1>5, <1>8, <1>9, FirstAndSecond
<1> DEFINE kt == <<"kernel stack", s>>
           ut == <<"user stack", s>>
           c1 == <<"creator", p>>
           c2 == <<"creator", q>>
           m  == [h \in Holders |-> IF h = kt THEN c1
                                    ELSE IF h = ut THEN c2 ELSE h]
<1>11. /\ kt \in Owners /\ ut \in Owners /\ c1 \in Owners /\ c2 \in Owners
       /\ kt \in Holders /\ ut \in Holders /\ c1 \in Holders /\ c2 \in Holders
       /\ kt # ut /\ kt # c1 /\ kt # c2 /\ ut # c1 /\ ut # c2
       /\ order # NULL /\ Distinct(got) => c1 # c2
  BY <1>9, ClaimsOf
\* What the entry's stacks and the creator claim, before and after.
<1>12. Claims(kt) = {} /\ Claims(kt)' = {p}
  <2>1. KernelClaim(s) = {}
    BY <1>3, <1>4 DEF KernelClaim
  <2>2. state'[s] = "READY" /\ kstack'[s] = p
    BY <1>1, <1>2, <1>4, <1>7, <1>8 DEF TypeOK
  <2>3. KernelClaim(s)' = {p}
    BY <2>2 DEF KernelClaim
  <2> QED
    BY <2>1, <2>3, ClaimsOf
<1>13. Claims(ut) = {} /\ Claims(ut)' = IF order = NULL THEN {} ELSE {q}
  <2>1. UserClaim(s) = {}
    BY <1>2, <1>3, <1>4, SlotsNotNull DEF UserClaim
  <2>2. state'[s] = "READY"
    BY <1>1, <1>2, <1>4 DEF TypeOK
  <2>3. CASE order = NULL
    <3>1. ustack'[s] = NULL
      BY <1>1, <1>2, <1>4, <2>3 DEF TypeOK
    <3>2. UserClaim(s)' = {}
      BY <3>1 DEF UserClaim
    <3> QED
      BY <2>1, <2>3, <3>2, ClaimsOf
  <2>4. CASE order # NULL
    <3>1. ustack'[s] = q /\ q # NULL
      BY <1>2, <1>7, <1>9, <2>4, SlotsNotNull
    <3>2. UserClaim(s)' = {q}
      BY <2>2, <3>1 DEF UserClaim
    <3> QED
      BY <2>1, <2>4, <3>2, ClaimsOf
  <2> QED
    BY <2>3, <2>4
<1>14. Claims(c1) = {p} /\ (order # NULL => Claims(c2) = {q})
  <2>1. CreatorClaim(p) = {p} /\ (order # NULL => CreatorClaim(q) = {q})
    BY <1>10 DEF CreatorClaim
  <2> QED
    BY <2>1, ClaimsOf
<1> DEFINE creators == {"creator"} \X Pages
<1>15. \A h \in creators : h \in Holders /\ Claims(h)' = {}
  <2> SUFFICES ASSUME NEW h \in creators
               PROVE  h \in Holders /\ Claims(h)' = {}
    OBVIOUS
  <2>1. PICK r \in Pages : h = <<"creator", r>>
    OBVIOUS
  <2>2. CreatorClaim(r)' = {}
    <3>1. Entries(got') = {}
      BY <1>2, SmallLists
    <3> QED
      BY <3>1 DEF CreatorClaim
  <2> QED
    BY <2>1, <2>2, ClaimsOf
<1>16. \A h \in creators : h # c1 => \/ Claims(h) = {}
                                     \/ h = c2 /\ order # NULL
  <2> SUFFICES ASSUME NEW h \in creators, h # c1, ~(h = c2 /\ order # NULL)
               PROVE  Claims(h) = {}
    OBVIOUS
  <2>1. PICK r \in Pages : h = <<"creator", r>>
    OBVIOUS
  <2>2. r \notin Entries(got)
    BY <1>10, <2>1
  <2>3. CreatorClaim(r) = {}
    BY <2>2 DEF CreatorClaim
  <2> QED
    BY <2>1, <2>3, ClaimsOf
<1>17. \A h \in Holders : h \in creators \/ h = kt \/ h = ut \/ Claims(h)' = Claims(h)
  <2> SUFFICES ASSUME NEW h \in Holders, h \notin creators, h # kt, h # ut
               PROVE  Claims(h)' = Claims(h)
    OBVIOUS
  <2>1. \A t \in Slots : t # s => state'[t] = state[t] /\ ustack'[t] = ustack[t]
    BY <1>1, <1>2, <1>4 DEF TypeOK
  <2>2. CASE \E t \in Slots : h = <<"kernel stack", t>>
    <3>1. PICK t \in Slots : h = <<"kernel stack", t>>
      BY <2>2
    <3>2. KernelClaim(t)' = KernelClaim(t)
      BY <1>2, <2>1, <3>1 DEF KernelClaim
    <3> QED
      BY <3>1, <3>2, ClaimsOf
  <2>3. CASE \E t \in Slots : h = <<"user stack", t>>
    <3>1. PICK t \in Slots : h = <<"user stack", t>>
      BY <2>3
    <3>2. UserClaim(t)' = UserClaim(t)
      BY <1>2, <2>1, <3>1 DEF UserClaim
    <3> QED
      BY <3>1, <3>2, ClaimsOf
  <2>4. CASE \E r \in Pages : h = <<"creator", r>>
    BY <2>4
  <2>5. CASE \E B \in SUBSET Pages : h = <<"tables", B>>
    <3>1. PICK B \in SUBSET Pages : h = <<"tables", B>>
      BY <2>5
    <3>2. TableClaim(B)' = TableClaim(B)
      BY <1>2 DEF TableClaim
    <3> QED
      BY <3>1, <3>2, ClaimsOf
  <2> QED
    BY <2>2, <2>3, <2>4, <2>5, Kinds
<1>18. c1 \in creators /\ c2 \in creators /\ kt \notin creators /\ ut \notin creators
  OBVIOUS
<1> HIDE DEF kt, ut, c1, c2, creators
<1>19. m \in [Holders -> Holders]
  BY <1>11
<1>20. /\ m[kt] = c1 /\ m[ut] = c2
       /\ \A h \in Holders : h # kt /\ h # ut => m[h] = h
  BY <1>11
<1> HIDE DEF m
<1>21. \A h \in Holders : Claims(h)' = {} \/ Claims(h)' = Claims(m[h])
  BY <1>11, <1>12, <1>13, <1>14, <1>15, <1>17, <1>20
<1>22. Distinct(got) => \A h, g \in Holders :
         h # g => m[h] # m[g] \/ Claims(h)' = {} \/ Claims(g)' = {}
  <2> SUFFICES ASSUME Distinct(got), NEW h \in Holders, NEW g \in Holders, h # g,
                      h \notin creators, g \notin creators,
                      Claims(h)' # {}, Claims(g)' # {}
               PROVE  m[h] # m[g]
    BY <1>15
  <2>1. \A f \in Holders : Claims(f)' # {} /\ f = ut => order # NULL
    BY <1>13
  <2>2. CASE h \in {kt, ut} /\ g \in {kt, ut}
    BY <2>1, <2>2, <1>11, <1>20
  <2>3. CASE h \notin {kt, ut} \/ g \notin {kt, ut}
    BY <2>3, <1>18, <1>20
  <2> QED
    BY <2>2, <2>3
<1>23. \A h \in Owners : m[h] \in Owners
  BY <1>11, <1>20 DEF Holders
<1>24. \A h \in Holders : Claims(h) = {} \/ \E g \in Holders : Claims(g)' = Claims(h)
  <2> SUFFICES ASSUME NEW h \in Holders, Claims(h) # {}
               PROVE  \E g \in Holders : Claims(g)' = Claims(h)
    OBVIOUS
  <2>1. CASE h \in creators
    <3>1. h = c1 \/ (h = c2 /\ order # NULL)
      BY <2>1, <1>16
    <3>2. Claims(kt)' = Claims(h) \/ Claims(ut)' = Claims(h)
      BY <3>1, <1>12, <1>13, <1>14
    <3> QED
      BY <3>2, <1>11
  <2>2. CASE h \notin creators
    <3>1. h # kt /\ h # ut
      BY <1>12, <1>13
    <3> QED
      BY <2>2, <3>1, <1>17
  <2> QED
    BY <2>1, <2>2
<1>25. Claimed'
  BY <1>2, <1>24, MoveClaimed DEF Base
<1>26. ASSUME Good PROVE Apart' /\ Marked' /\ Stays
  <2>1. Distinct(got) /\ Apart /\ Marked
    BY <1>26 DEF Good, Locals
  <2> QED
    BY <2>1, <1>2, <1>19, <1>21, <1>22, <1>23, <1>24, MoveClaims
<1> QED
  BY <1>25, <1>26

(* ... and nothing else is lost on the way to the scheduler.               *)
LEMMA PublishKeeps ==
  ASSUME IInv, Publish
  PROVE  IInv' /\ (~spoiled' => Stays)
<1>1. TypeOK /\ Place /\ Taking /\ Stacked /\ Base
  BY DEF IInv, Base
<1>2. /\ at = "publish" /\ exiting = NULL
      /\ state' = [state EXCEPT ![task] = "READY"]
      /\ ustack' = IF order = NULL THEN [ustack EXCEPT ![task] = NULL] ELSE ustack
      /\ at' = "idle" /\ got' = <<>> /\ task' = NULL /\ order' = NULL
      /\ UNCHANGED <<flags, refcount, next, head, kstack, programs, exiting, prog,
                     page, before, hit, rest>>
      /\ spoiled' = spoiled
  BY DEF Publish, Runs, allocator, search
<1>3. task \in Slots /\ got \in Seq(Pages) /\ kstack[task] = got[1]
      /\ got[1] \in Pages /\ page = NULL /\ prog = {} /\ rest = {}
  <2>1. /\ got \in Seq(Pages)
        /\ Len(got) = IF order = NULL THEN 1 ELSE 2
    BY <1>1, <1>2 DEF TypeOK, Place
  <2>2. Len(got) > 0 /\ got[1] \in Pages
    BY <2>1
  <2>3. task \in Slots /\ kstack[task] = got[1]
    BY <2>2, <1>1, <1>2 DEF Place, Creating
  <2> QED
    BY <2>1, <2>2, <2>3, <1>1, <1>2 DEF Taking
<1>4. /\ state' \in [Slots -> {"READY", "TERMINATED"}]
      /\ ustack' \in [Slots -> Pages \union {NULL}]
  BY <1>1, <1>2 DEF TypeOK
<1>5. TypeOK'
  <2>1. got' \in Seq(Pages) /\ Len(got') <= 2
    BY <1>2, SmallLists
  <2> QED
    BY <2>1, <1>1, <1>2, <1>4 DEF TypeOK
<1>7. Place'
  BY <1>2 DEF Place, Creating
<1>8. Taking'
  BY <1>1, <1>2, <1>3 DEF Taking
<1>10. Stacked'
  BY <1>1, <1>2, <1>3 DEF Stacked, TypeOK
<1>11. Claimed' /\ (Good => Apart' /\ Marked' /\ Stays)
  BY <1>1, PublishClaims
<1>12. Base'
  BY <1>5, <1>7, <1>8, <1>10, <1>11 DEF Base
<1>13. ASSUME Good PROVE Good'
  <2>1. Locals'
    <3>1. Distinct(got')
      BY <1>2, SmallLists
    <3> QED
      BY <3>1, <1>2, <1>3 DEF Locals
  <2>2. Listed' /\ Ahead'
    BY <1>2, <1>3, <1>13, SameList DEF Good
  <2> QED
    BY <2>1, <2>2, <1>11, <1>13 DEF Good
<1> QED
  BY <1>2, <1>11, <1>12, <1>13 DEF IInv

(* An error path gives back the first of the pages it still holds: it is   *)
(* marked FREE and keeps off the list until it becomes the head.           *)
LEMMA UndoLinkKeeps ==
  ASSUME IInv, UndoLink
  PROVE  IInv' /\ (~spoiled' => \E B : Reclaims(B))
<1>1. TypeOK /\ Place /\ Taking /\ Stacked /\ Claimed
  BY DEF IInv, Base
<1>2. got # <<>> /\ got \in Seq(Pages) /\ Len(got) <= 2
  BY <1>1 DEF UndoLink, Place, TypeOK
<1>3. PICK p \in Pages : p = Head(got)
  BY <1>2, TailProperties
<1>4. /\ Tail(got) \in Seq(Pages) /\ Len(Tail(got)) = Len(got) - 1
      /\ Entries(got) \subseteq Entries(Tail(got)) \union {p}
      /\ Entries(Tail(got)) \subseteq Entries(got)
      /\ Distinct(got) => Distinct(Tail(got)) /\ Entries(Tail(got)) = Entries(got) \ {p}
  BY <1>2, <1>3, TailProperties
<1>5. p \in Entries(got)
  <2>1. Len(got) > 0 /\ got[1] = p
    BY <1>2, <1>3
  <2>2. 1 \in 1..Len(got)
    BY <2>1, <1>2
  <2> QED
    BY <2>1, <2>2 DEF Entries
<1>6. /\ at = "undo" /\ page = NULL /\ exiting = NULL /\ page' = p
      /\ refcount' = [refcount EXCEPT ![p] = 0]
      /\ flags' = [flags EXCEPT ![p] = "FREE"]
      /\ next' = [next EXCEPT ![p] = head] /\ got' = Tail(got)
      /\ UNCHANGED <<head, state, kstack, ustack, programs, exiting, at,
                     task, order, prog, before, hit, rest>>
      /\ spoiled' = spoiled
  BY <1>3 DEF UndoLink, Runs, pool
<1>7. /\ <<"creator", p>> \in Owners /\ <<"creator", p>> \in Holders
      /\ Claims(<<"creator", p>>) = {p}
  BY <1>1, <1>5, GotClaims
<1>8. /\ flags' \in [Pages -> {"FREE", "USED"}] /\ flags'[p] = "FREE"
      /\ \A q \in Pages : q # p => flags'[q] = flags[q] /\ next'[q] = next[q]
      /\ refcount' \in [Pages -> {0, 1}]
      /\ next' \in [Pages -> Pages \union {NULL}] /\ next'[p] = head
  BY <1>1, <1>6 DEF TypeOK
<1>9. p # NULL /\ prog = {} /\ rest = {}
  BY <1>1, <1>6, SlotsNotNull DEF Taking
<1>11. TypeOK'
  <2>1. Len(got') <= 2
    <3>1. Len(got) \in Nat /\ Len(Tail(got)) = Len(got) - 1
      BY <1>2, <1>4
    <3> QED
      BY <3>1, <1>2, <1>6
  <2> QED
    BY <2>1, <1>1, <1>4, <1>6, <1>8 DEF TypeOK
<1>13. Place'
  <2>1. (Creating => task \in Slots /\ state[task] = "TERMINATED" /\ task # exiting)'
    BY <1>1, <1>6 DEF Place, Creating
  <2>2. at' = "undo" /\ page' # NULL
    BY <1>6, <1>9
  <2> QED
    BY <2>1, <2>2 DEF Place
<1>14. Taking'
  BY <1>1, <1>6, <1>9 DEF Taking
<1>16. Stacked'
  BY <1>1, <1>6 DEF Stacked
<1> DEFINE x == <<"creator", p>>
<1>18. \A h \in Holders : h # x => Claims(h)' = Claims(h)
  <2>1. \A t \in Slots : <<"kernel stack", t>> # x => KernelClaim(t)' = KernelClaim(t)
    BY <1>6 DEF KernelClaim
  <2>2. \A t \in Slots : <<"user stack", t>> # x => UserClaim(t)' = UserClaim(t)
    BY <1>6 DEF UserClaim
  <2>3. \A q \in Pages : <<"creator", q>> # x => CreatorClaim(q)' = CreatorClaim(q)
    BY <1>4, <1>6 DEF CreatorClaim
  <2>4. \A C \in SUBSET Pages : <<"tables", C>> # x => TableClaim(C)' = TableClaim(C)
    BY <1>6 DEF TableClaim
  <2> HIDE DEF x
  <2> QED
    BY <2>1, <2>2, <2>3, <2>4, Frame
<1>19. Claimed'
  <2> SUFFICES ASSUME NEW q \in Pages, flags'[q] = "USED"
               PROVE  \E h \in Holders : q \in Claims(h)'
    BY DEF Claimed
  <2>1. q # p /\ flags[q] = "USED"
    BY <1>8
  <2>2. PICK h \in Holders : q \in Claims(h)
    BY <2>1, <1>1 DEF Claimed
  <2>3. h # x
    BY <2>1, <2>2, <1>7
  <2> HIDE DEF x
  <2> QED
    BY <2>2, <2>3, <1>18
<1>20. Base'
  BY <1>11, <1>13, <1>14, <1>16, <1>19 DEF Base
<1>21. ASSUME Good PROVE Good' /\ Reclaims({p})
  <2>1. Firm /\ Distinct(got) /\ Listed
    BY <1>21 DEF Firm, Good, Locals, IInv
  <2>2. flags[p] = "USED"
    BY <2>1, <1>5, GotMarked
  <2>3. Claims(x)' = {}
    <3>1. CreatorClaim(p)' = {}
      BY <2>1, <1>4, <1>6 DEF CreatorClaim
    <3> QED
      BY <3>1, ClaimsOf
  <2> HIDE DEF x
  <2>4. Releases(x, p)
    BY <2>3, <1>6, <1>7, <1>18 DEF Releases, x
  <2>5. Apart' /\ Marked' /\ Reclaims({p})
    BY <2>1, <2>4, <1>7, ReleaseClaim DEF x
  <2>6. PICK S, depth : FreeChain(head, S, depth)
    BY <2>1 DEF Listed
  <2>7. /\ Chain(head, next, S, depth, NULL) /\ S \subseteq Pages /\ p \notin S
        /\ \A q \in S : next'[q] = next[q] /\ flags'[q] = "FREE"
    BY <2>2, <2>6, <1>8 DEF FreeChain
  <2>8. Chain(head, next', S, depth, NULL)
    BY <2>7, ChainFrame
  <2>9. \E d : Chain(p, next', S \union {p}, d, NULL)
    BY <2>7, <1>8, <1>9, ChainPush
  <2>10. PICK d : Chain(p, next', S \union {p}, d, NULL)
    BY <2>9
  <2>11. FreeChain(head, S, depth)' /\ FreeChain(page, S \union {p}, d)'
    BY <2>7, <2>8, <2>10, <1>6, <1>8 DEF FreeChain
  <2>12. Found(S)'
    BY <1>6 DEF Found
  <2>13. Listed' /\ Ahead'
    BY <2>11, <2>12 DEF Listed, Ahead
  <2>14. Locals'
    BY <2>1, <1>4, <1>6, <1>8 DEF Locals, WantsOne
  <2> QED
    BY <2>5, <2>13, <2>14 DEF Good
<1> QED
  BY <1>6, <1>20, <1>21 DEF IInv

-----------------------------------------------------------------------------
(* IInv is inductive                                                       *)

(* The links at first lead from each page to the one before it.            *)
LEMMA InitialList ==
  ASSUME Init
  PROVE  \E S, depth : FreeChain(head, S, depth)
<1>1. NumPages \in Nat \ {0}
  BY CreationAssumption
<1> DEFINE depth == [p \in Pages |-> p]
<1>2. \A p \in Pages : depth[p] = p /\ p \in Nat /\ p <= NumPages - 1
  BY <1>1 DEF Pages
<1>3. \A p \in Pages : next[p] = IF p = 0 THEN NULL ELSE p - 1
  BY DEF Init
<1>4. \A p \in Pages : p # 0 => p - 1 \in Pages /\ p - 1 < p /\ p - 1 # NumPages - 1
  BY <1>1 DEF Pages
<1> HIDE DEF depth
<1>5. head = NumPages - 1 /\ head \in Pages
  BY <1>1 DEF Init, Pages
<1>6. \A p \in Pages : next[p] # NULL =>
        next[p] \in Pages /\ depth[next[p]] < depth[p] /\ next[p] # head
  BY <1>2, <1>3, <1>4, <1>5
<1>7. \A p, q \in Pages : next[p] = next[q] /\ next[p] # NULL => p = q
  <2> SUFFICES ASSUME NEW p \in Pages, NEW q \in Pages, next[p] = next[q], next[p] # NULL
               PROVE  p = q
    OBVIOUS
  <2>1. p # 0 /\ q # 0 /\ p - 1 = q - 1
    BY <1>3
  <2> QED
    BY <2>1, <1>2
<1>8. Chain(head, next, Pages, depth, NULL)
  BY <1>2, <1>5, <1>6, <1>7, SlotsNotNull DEF Chain
<1>9. FreeChain(head, Pages, depth)
  BY <1>8 DEF FreeChain, Init
<1> QED
  BY <1>9

(* Nobody claims a page before the first creation.                         *)
LEMMA InitClaims ==
  ASSUME Init
  PROVE  \A h \in Holders : Claims(h) = {}
<1> SUFFICES ASSUME NEW h \in Holders PROVE Claims(h) = {}
  OBVIOUS
<1>0. /\ state = [s \in Slots |-> "TERMINATED"] /\ ustack = [s \in Slots |-> NULL]
      /\ programs = {} /\ prog = {} /\ Entries(got) = {}
  BY SmallLists DEF Init
<1>1. \A s \in Slots : KernelClaim(s) = {} /\ UserClaim(s) = {}
  BY <1>0 DEF KernelClaim, UserClaim
<1>2. \A p \in Pages : CreatorClaim(p) = {}
  BY <1>0 DEF CreatorClaim
<1>3. \A B \in SUBSET Pages : TableClaim(B) = {}
  BY <1>0 DEF TableClaim
<1>4. CASE \E s \in Slots : h = <<"kernel stack", s>>
  BY <1>1, <1>4, ClaimsOf
<1>5. CASE \E s \in Slots : h = <<"user stack", s>>
  BY <1>1, <1>5, ClaimsOf
<1>6. CASE \E p \in Pages : h = <<"creator", p>>
  BY <1>2, <1>6, ClaimsOf
<1>7. CASE \E B \in SUBSET Pages : h = <<"tables", B>>
  BY <1>3, <1>7, ClaimsOf
<1> QED
  BY <1>4, <1>5, <1>6, <1>7, Kinds

(* At first all pages are free and nobody claims any.                      *)
LEMMA InitIInv == Init => IInv
<1> SUFFICES ASSUME Init PROVE IInv
  OBVIOUS
<1>1. /\ flags = [p \in Pages |-> "FREE"] /\ refcount = [p \in Pages |-> 0]
      /\ state = [s \in Slots |-> "TERMINATED"]
      /\ kstack = [s \in Slots |-> NULL] /\ ustack = [s \in Slots |-> NULL]
      /\ programs = {} /\ exiting = NULL
      /\ at = "idle" /\ task = NULL /\ order = NULL
      /\ got = <<>> /\ prog = {} /\ page = NULL /\ before = NULL /\ rest = {}
  BY DEF Init
<1>2. hit = FALSE /\ spoiled = FALSE
  BY DEF Init
<1>3. Entries(got) = {} /\ got \in Seq(Pages) /\ Len(got) <= 2 /\ Distinct(got)
  BY <1>1, SmallLists
<1>4. TypeOK
  <2>1. flags \in [Pages -> {"FREE", "USED"}] /\ refcount \in [Pages -> {0, 1}]
    BY <1>1
  <2>2. /\ state \in [Slots -> {"READY", "TERMINATED"}]
        /\ kstack \in [Slots -> Pages \union {NULL}]
        /\ ustack \in [Slots -> Pages \union {NULL}]
    BY <1>1
  <2>3. next \in [Pages -> Pages \union {NULL}] /\ head \in Pages \union {NULL}
    <3>1. NumPages \in Nat \ {0}
      BY CreationAssumption
    <3>2. \A p \in Pages : p # 0 => p - 1 \in Pages
      BY <3>1 DEF Pages
    <3>3. NumPages - 1 \in Pages
      BY <3>1 DEF Pages
    <3> QED
      BY <3>2, <3>3 DEF Init
  <2> QED
    BY <1>1, <1>2, <1>3, <2>1, <2>2, <2>3 DEF TypeOK
<1>6. Place
  BY <1>1, <1>3 DEF Place, Creating
<1>7. Taking
  BY <1>1 DEF Taking
<1>9. Stacked
  BY <1>1 DEF Stacked
<1>10. \A h \in Holders : Claims(h) = {}
  BY InitClaims
<1>11. Apart
  BY <1>10 DEF Apart
<1>12. Marked
  BY <1>1, <1>10 DEF Marked, Holders
<1>13. Claimed
  BY <1>1 DEF Claimed
<1>14. Locals
  BY <1>1, <1>3 DEF Locals
<1>15. Listed /\ Ahead
  <2>1. \A S : Found(S)
    BY <1>1 DEF Found
  <2> QED
    BY <2>1, <1>1, InitialList DEF Listed, Ahead
<1>16. Base
  BY <1>4, <1>6, <1>7, <1>9, <1>13 DEF Base
<1>17. Good
  BY <1>11, <1>12, <1>14, <1>15 DEF Good
<1> QED
  BY <1>2, <1>16, <1>17 DEF IInv

(* A step of nobody.                                                       *)
LEMMA StutterKeeps ==
  ASSUME IInv, UNCHANGED vars
  PROVE  IInv'
<1>1. TypeOK /\ Place /\ Taking /\ Stacked /\ Claimed
  BY DEF IInv, Base
<1>2. UNCHANGED <<flags, refcount, next, head, state, kstack, ustack, programs,
                  exiting, at, task, order, got, prog, page, before, rest>>
  BY DEF vars, allocator, pool, locals, search
<1>3. hit' = hit /\ spoiled' = spoiled
  BY DEF vars, locals, search
<1>4. TypeOK'
  <2>1. /\ flags' \in [Pages -> {"FREE", "USED"}] /\ refcount' \in [Pages -> {0, 1}]
        /\ next' \in [Pages -> Pages \union {NULL}] /\ head' \in Pages \union {NULL}
        /\ state' \in [Slots -> {"READY", "TERMINATED"}]
        /\ kstack' \in [Slots -> Pages \union {NULL}]
        /\ ustack' \in [Slots -> Pages \union {NULL}]
    BY <1>1, <1>2 DEF TypeOK
  <2>2. /\ programs' \subseteq SUBSET Pages /\ prog' \subseteq Pages
        /\ at' \in {"idle", "kernel stack", "user stack", "program", "tables", "publish",
                    "undo", "hung"}
        /\ rest' \subseteq prog'
    BY <1>1, <1>2 DEF TypeOK
  <2>3. /\ exiting' \in Slots \union {NULL} /\ task' \in Slots \union {NULL}
        /\ order' \in Orders \union {NULL}
        /\ got' \in Seq(Pages) /\ Len(got') <= 2
        /\ page' \in Pages \union {NULL} /\ before' \in Pages \union {NULL}
    BY <1>1, <1>2 DEF TypeOK
  <2>4. hit' \in BOOLEAN /\ spoiled' \in BOOLEAN
    BY <1>1, <1>3 DEF TypeOK
  <2> QED
    BY <2>1, <2>2, <2>3, <2>4, Zenon DEF TypeOK
<1>5. Place' /\ Taking' /\ Stacked'
  <2>1. Place'
    BY <1>1, <1>2 DEF Place, Creating
  <2>2. Taking'
    BY <1>1, <1>2 DEF Taking
  <2>3. Stacked'
    BY <1>1, <1>2 DEF Stacked
  <2> QED
    BY <2>1, <2>2, <2>3
<1>6. Claimed' /\ (Apart /\ Marked => Apart' /\ Marked')
  BY <1>1, <1>2, SameClaims
<1>7. Base'
  BY <1>4, <1>5, <1>6 DEF Base
<1>8. ASSUME Good PROVE Good'
  <2>1. Locals'
    BY <1>2, <1>3, <1>8 DEF Good, Locals, WantsOne
  <2>2. PICK S, depth : FreeChain(head, S, depth) /\ Found(S)
    BY <1>8 DEF Good, Listed
  <2>3. FreeChain(head, S, depth)' /\ Found(S)'
    BY <2>2, <1>2, <1>3 DEF FreeChain, Found
  <2>4. Ahead'
    <3> SUFFICES ASSUME page # NULL, at = "undo" \/ (hit /\ before = NULL)
                 PROVE  \E T, d : FreeChain(page, T, d)'
      BY <1>2, <1>3 DEF Ahead
    <3>1. PICK T, d : FreeChain(page, T, d)
      BY <1>8 DEF Good, Ahead
    <3>2. FreeChain(page, T, d)'
      BY <3>1, <1>2 DEF FreeChain
    <3> QED
      BY <3>2
  <2> QED
    BY <2>1, <2>3, <2>4, <1>6, <1>8 DEF Good, Listed
<1> QED
  BY <1>3, <1>7, <1>8 DEF IInv

(* Every step keeps the invariant: an exit, or a statement of kernel_main. *)
LEMMA NextIInv == IInv /\ [Next]_vars => IInv'
<1> SUFFICES ASSUME IInv, [Next]_vars PROVE IInv'
  OBVIOUS
<1>1. ASSUME NEW s \in Slots, Exit(s) PROVE IInv'
  BY <1>1, ExitKeeps
<1>2. CASE ExitUserStack
  BY <1>2, ExitUserStackKeeps
<1>3. ASSUME NEW k \in Orders \union {NULL}, Scan(k) PROVE IInv'
  BY <1>3, ScanKeeps
<1>4. CASE ReadHead
  BY <1>4, ReadHeadKeeps
<1>5. CASE Search
  BY <1>5, SearchKeeps
<1>6. CASE Find
  BY <1>6, FindKeeps
<1>7. CASE Take
  BY <1>7, TakeKeeps
<1>8. CASE BuildTables
  BY <1>8, BuildTablesKeeps
<1>9. CASE Publish
  BY <1>9, PublishKeeps
<1>10. CASE UndoLink
  BY <1>10, UndoLinkKeeps
<1>11. CASE UndoPush
  BY <1>11, UndoPushKeeps
<1>12. CASE UNCHANGED vars
  BY <1>12, StutterKeeps
<1> QED
  BY <1>1, <1>2, <1>3, <1>4, <1>5, <1>6, <1>7, <1>8, <1>9, <1>10, <1>11, <1>12 DEF Next

(* It holds whatever exits fall between the statements of a creation.      *)
LEMMA IInvCorrect == Spec => []IInv
  BY InitIInv, NextIInv, PTL DEF Spec

-----------------------------------------------------------------------------
(* What the holdings say follows from what the holders claim.              *)

HolderOf(H) == <<H.by, IF H.by = "creator" THEN got[H.of]
                       ELSE IF H.by = "tables" THEN H.pages ELSE H.of>>

(* The holdings by kind.                                                   *)
LEMMA HoldingKinds ==
  ASSUME NEW H \in Holdings
  PROVE  \/ \E s \in Slots : state[s] = "READY" /\ H = Holding("kernel stack", s, {kstack[s]})
         \/ \E s \in Slots : /\ state[s] = "READY" \/ s = exiting
                             /\ ustack[s] # NULL
                             /\ H = Holding("user stack", s, {ustack[s]})
         \/ \E i \in 1..Len(got) : H = Holding("creator", i, {got[i]})
         \/ /\ \E B \in programs \union ({prog} \ {{}}) : H = Holding("tables", NULL, B)
            /\ H \notin Stacks
<1>1. CASE H \in Stacks
  BY <1>1 DEF Stacks
<1>2. CASE H \in Programs /\ H \notin Stacks
  BY <1>2 DEF Programs
<1> QED
  BY <1>1, <1>2 DEF Holdings

(* Each holding is the claim of its holder.                                *)
LEMMA HoldingClaims ==
  ASSUME TypeOK, NEW H \in Holdings
  PROVE  /\ HolderOf(H) \in Holders /\ Claims(HolderOf(H)) = H.pages
         /\ H \in Stacks => HolderOf(H) \in Owners
<1>2. CASE \E s \in Slots : state[s] = "READY" /\ H = Holding("kernel stack", s, {kstack[s]})
  <2>1. PICK s \in Slots : state[s] = "READY" /\ H = Holding("kernel stack", s, {kstack[s]})
    BY <1>2
  <2>2. HolderOf(H) = <<"kernel stack", s>> /\ H.pages = {kstack[s]}
    BY <2>1 DEF HolderOf, Holding
  <2>3. KernelClaim(s) = {kstack[s]}
    BY <2>1 DEF KernelClaim
  <2> QED
    BY <2>2, <2>3, ClaimsOf
<1>3. CASE \E s \in Slots : /\ state[s] = "READY" \/ s = exiting
                            /\ ustack[s] # NULL
                            /\ H = Holding("user stack", s, {ustack[s]})
  <2>1. PICK s \in Slots : /\ state[s] = "READY" \/ s = exiting
                           /\ ustack[s] # NULL
                           /\ H = Holding("user stack", s, {ustack[s]})
    BY <1>3
  <2>2. HolderOf(H) = <<"user stack", s>> /\ H.pages = {ustack[s]}
    BY <2>1 DEF HolderOf, Holding
  <2>3. UserClaim(s) = {ustack[s]}
    BY <2>1 DEF UserClaim
  <2> QED
    BY <2>2, <2>3, ClaimsOf
<1>4. CASE \E i \in 1..Len(got) : H = Holding("creator", i, {got[i]})
  <2>1. PICK i \in 1..Len(got) : H = Holding("creator", i, {got[i]})
    BY <1>4
  <2>2. HolderOf(H) = <<"creator", got[i]>> /\ H.pages = {got[i]}
    BY <2>1 DEF HolderOf, Holding
  <2>3. got[i] \in Entries(got)
    BY DEF Entries
  <2> QED
    BY <2>2, <2>3, GotClaims
<1>5. CASE /\ \E B \in programs \union ({prog} \ {{}}) : H = Holding("tables", NULL, B)
           /\ H \notin Stacks
  <2>1. PICK B \in programs \union ({prog} \ {{}}) : H = Holding("tables", NULL, B)
    BY <1>5
  <2>2. HolderOf(H) = <<"tables", B>> /\ H.pages = B
    BY <2>1 DEF HolderOf, Holding
  <2>3. B \in SUBSET Pages /\ TableClaim(B) = B
    BY DEF TypeOK, TableClaim
  <2> QED
    BY <2>2, <2>3, <1>5, ClaimsOf
<1> QED
  BY <1>2, <1>3, <1>4, <1>5, HoldingKinds

(* What a holding of each kind looks like.                                *)
LEMMA HoldingShape ==
  ASSUME NEW H \in Holdings
  PROVE  /\ H = Holding(H.by, H.of, H.pages)
         /\ H.by \in {"kernel stack", "user stack", "creator", "tables"}
         /\ H.by = "kernel stack" => H.pages = {kstack[H.of]}
         /\ H.by = "user stack" => H.pages = {ustack[H.of]}
         /\ H.by = "creator" => H.of \in 1..Len(got) /\ H.pages = {got[H.of]}
         /\ H.by = "tables" => H.of = NULL /\ H.pages \in programs \union ({prog} \ {{}})
<1>1. CASE \E s \in Slots : state[s] = "READY" /\ H = Holding("kernel stack", s, {kstack[s]})
  <2>1. PICK s \in Slots : H = Holding("kernel stack", s, {kstack[s]})
    BY <1>1
  <2>2. H.by = "kernel stack" /\ H.of = s /\ H.pages = {kstack[s]}
    BY <2>1 DEF Holding
  <2> QED
    BY <2>1, <2>2
<1>2. CASE \E s \in Slots : /\ state[s] = "READY" \/ s = exiting
                            /\ ustack[s] # NULL
                            /\ H = Holding("user stack", s, {ustack[s]})
  <2>1. PICK s \in Slots : H = Holding("user stack", s, {ustack[s]})
    BY <1>2
  <2>2. H.by = "user stack" /\ H.of = s /\ H.pages = {ustack[s]}
    BY <2>1 DEF Holding
  <2> QED
    BY <2>1, <2>2
<1>3. CASE \E i \in 1..Len(got) : H = Holding("creator", i, {got[i]})
  <2>1. PICK i \in 1..Len(got) : H = Holding("creator", i, {got[i]})
    BY <1>3
  <2>2. H.by = "creator" /\ H.of = i /\ H.pages = {got[i]}
    BY <2>1 DEF Holding
  <2> QED
    BY <2>1, <2>2
<1>4. CASE \E B \in programs \union ({prog} \ {{}}) : H = Holding("tables", NULL, B)
  <2>1. PICK B \in programs \union ({prog} \ {{}}) : H = Holding("tables", NULL, B)
    BY <1>4
  <2>2. H.by = "tables" /\ H.of = NULL /\ H.pages = B
    BY <2>1 DEF Holding
  <2> QED
    BY <2>1, <2>2
<1> QED
  BY <1>1, <1>2, <1>3, <1>4, HoldingKinds

(* Different holdings have different holders while the creator's pages are *)
(* different.                                                              *)
LEMMA HoldersDiffer ==
  ASSUME Distinct(got), NEW H \in Holdings, NEW G \in Holdings, HolderOf(H) = HolderOf(G)
  PROVE  H = G
<1>0. H = Holding(H.by, H.of, H.pages) /\ G = Holding(G.by, G.of, G.pages)
  BY HoldingShape
<1>1. H.by = G.by
  BY DEF HolderOf
<1>2. CASE H.by \in {"kernel stack", "user stack"}
  <2>1. H.of = G.of
    BY <1>1, <1>2 DEF HolderOf
  <2>2. H.pages = G.pages
    BY <1>1, <1>2, <2>1, HoldingShape
  <2> QED
    BY <1>0, <1>1, <2>1, <2>2
<1>3. CASE H.by = "creator"
  <2>1. /\ H.of \in 1..Len(got) /\ G.of \in 1..Len(got)
        /\ H.pages = {got[H.of]} /\ G.pages = {got[G.of]}
    BY <1>1, <1>3, HoldingShape
  <2>2. got[H.of] = got[G.of]
    BY <1>1, <1>3 DEF HolderOf
  <2>3. H.of = G.of
    BY <2>1, <2>2 DEF Distinct
  <2>4. H.pages = G.pages
    BY <2>1, <2>3
  <2> QED
    BY <1>0, <1>1, <2>3, <2>4
<1>4. CASE H.by = "tables"
  <2>1. H.pages = G.pages
    BY <1>1, <1>4 DEF HolderOf
  <2>2. H.of = G.of
    BY <1>1, <1>4, HoldingShape
  <2> QED
    BY <1>1, <2>1, <2>2, HoldingShape
<1> QED
  BY <1>2, <1>3, <1>4, HoldingShape

(* Whoever claims pages has a holding that says so.                        *)
LEMMA ClaimIsHeld ==
  ASSUME NEW h \in Holders, NEW p \in Claims(h)
  PROVE  \E H \in Holdings : H.pages = Claims(h)
<1>1. CASE \E s \in Slots : h = <<"kernel stack", s>>
  <2>1. PICK s \in Slots : h = <<"kernel stack", s>>
    BY <1>1
  <2>2. Claims(h) = KernelClaim(s)
    BY <2>1, ClaimsOf
  <2>3. state[s] = "READY" /\ KernelClaim(s) = {kstack[s]}
    BY <2>2 DEF KernelClaim
  <2>4. Holding("kernel stack", s, {kstack[s]}) \in Holdings
    BY <2>3 DEF Stacks, Holdings
  <2>5. Holding("kernel stack", s, {kstack[s]}).pages = {kstack[s]}
    BY DEF Holding
  <2> QED
    BY <2>2, <2>3, <2>4, <2>5
<1>2. CASE \E s \in Slots : h = <<"user stack", s>>
  <2>1. PICK s \in Slots : h = <<"user stack", s>>
    BY <1>2
  <2>2. Claims(h) = UserClaim(s)
    BY <2>1, ClaimsOf
  <2>3. /\ (state[s] = "READY" \/ s = exiting) /\ ustack[s] # NULL
        /\ UserClaim(s) = {ustack[s]}
    BY <2>2 DEF UserClaim
  <2>4. Holding("user stack", s, {ustack[s]}) \in Holdings
    BY <2>3 DEF Stacks, Holdings
  <2>5. Holding("user stack", s, {ustack[s]}).pages = {ustack[s]}
    BY DEF Holding
  <2> QED
    BY <2>2, <2>3, <2>4, <2>5
<1>3. CASE \E q \in Pages : h = <<"creator", q>>
  <2>1. PICK q \in Pages : h = <<"creator", q>>
    BY <1>3
  <2>2. Claims(h) = CreatorClaim(q)
    BY <2>1, ClaimsOf
  <2>3. q \in Entries(got) /\ CreatorClaim(q) = {q}
    BY <2>2 DEF CreatorClaim
  <2>4. PICK i \in 1..Len(got) : q = got[i]
    BY <2>3 DEF Entries
  <2>5. Holding("creator", i, {q}) \in Holdings
    BY <2>4 DEF Stacks, Holdings
  <2>6. Holding("creator", i, {q}).pages = {q}
    BY DEF Holding
  <2> QED
    BY <2>2, <2>3, <2>5, <2>6
<1>4. CASE \E B \in SUBSET Pages : h = <<"tables", B>>
  <2>1. PICK B \in SUBSET Pages : h = <<"tables", B>>
    BY <1>4
  <2>2. Claims(h) = TableClaim(B)
    BY <2>1, ClaimsOf
  <2>3. B \in programs \union ({prog} \ {{}}) /\ TableClaim(B) = B
    BY <2>2 DEF TableClaim
  <2>4. Holding("tables", NULL, B) \in Holdings
    BY <2>3 DEF Programs, Holdings
  <2>5. Holding("tables", NULL, B).pages = B
    BY DEF Holding
  <2> QED
    BY <2>2, <2>3, <2>4, <2>5
<1> QED
  BY <1>1, <1>2, <1>3, <1>4, Kinds

(* The types hold, whatever becomes of the list; no block reaches beyond   *)
(* the last page.                                                          *)
THEOREM TypeCorrect == Spec => []TypeOK
<1>1. IInv => TypeOK
  BY DEF IInv, Base
<1> QED
  BY <1>1, IInvCorrect, PTL

(* A list of free pages is sound.                                          *)
LEMMA ListIsSound == Good => ListAlwaysSound
<1> SUFFICES ASSUME Good PROVE ListAlwaysSound
  OBVIOUS
<1>1. PICK S, depth : FreeChain(head, S, depth)
  BY DEF Good, Listed
<1>2. Distinct(free_list) /\ FreeChain(head, Entries(free_list), depth)
  BY <1>1, WalkOfList
<1>3. \A p \in Entries(free_list) : flags[p] = "FREE"
  BY <1>2 DEF FreeChain
<1> QED
  BY <1>2, <1>3 DEF ListAlwaysSound

(* The free list names no page twice and none that is in use, although the *)
(* creators overwrite its head with what they have read before an exit --  *)
(* until a second read of the head spoils it.                              *)
THEOREM ListCorrect == Spec => []ListSound
<1>1. IInv => ListSound
  BY ListIsSound DEF IInv, ListSound
<1> QED
  BY <1>1, IInvCorrect, PTL

(* A build that keeps what the loop of alloc_pages() has read of the head  *)
(* never spoils it: there the free list is sound in every state.           *)
THEOREM ListCorrectWithOneRead == Spec => [](~Reread => ListAlwaysSound)
<1>1. IInv => (~Reread => ListAlwaysSound)
  BY ListIsSound DEF IInv
<1> QED
  BY <1>1, IInvCorrect, PTL

(* Until the head is spoiled no page is handed out twice, whichever        *)
(* statements of alloc_pages() and free_pages() an exit falls between.     *)
THEOREM OneHolderCorrect == Spec => []OneHolder
<1>1. IInv => OneHolder
  <2> SUFFICES ASSUME IInv, ~spoiled, NEW H \in Holdings, NEW G \in Holdings, H # G
               PROVE  H.pages \intersect G.pages = {}
    BY DEF OneHolder
  <2>1. TypeOK /\ Apart /\ Distinct(got)
    BY DEF IInv, Base, Good, Locals
  <2>2. HolderOf(H) # HolderOf(G)
    BY <2>1, HoldersDiffer
  <2>3. /\ HolderOf(H) \in Holders /\ Claims(HolderOf(H)) = H.pages
        /\ HolderOf(G) \in Holders /\ Claims(HolderOf(G)) = G.pages
    BY <2>1, HoldingClaims
  <2> QED
    BY <2>1, <2>2, <2>3 DEF Apart
<1> QED
  BY <1>1, IInvCorrect, PTL

(* Until then what an exit or an error path will give back is marked and   *)
(* has one reference: free_pages() pushes it, and only once.               *)
THEOREM ReturnsCorrect == Spec => []ReturnsOnce
<1>1. IInv => ReturnsOnce
  <2> SUFFICES ASSUME IInv, ~spoiled, NEW H \in Stacks, NEW p \in Pages, p \in H.pages
               PROVE  flags[p] = "USED" /\ refcount[p] = 1
    BY DEF ReturnsOnce
  <2>1. H \in Holdings /\ TypeOK /\ Marked
    BY DEF Holdings, IInv, Base, Good
  <2>2. HolderOf(H) \in Owners /\ p \in Claims(HolderOf(H))
    BY <2>1, HoldingClaims
  <2> QED
    BY <2>1, <2>2 DEF Marked
<1> QED
  BY <1>1, IInvCorrect, PTL

(* No error path of the creators loses a page: what is marked USED is held *)
(* by a task, a creator or the tables of a program -- even on a list that  *)
(* is spoiled.                                                             *)
THEOREM AccountedCorrect == Spec => []Accounted
<1>1. IInv => Accounted
  <2> SUFFICES ASSUME IInv, NEW p \in Pages, flags[p] = "USED"
               PROVE  \E H \in Holdings : p \in H.pages
    BY DEF Accounted
  <2>1. PICK h \in Holders : p \in Claims(h)
    BY DEF IInv, Base, Claimed
  <2> QED
    BY <2>1, ClaimIsHeld
<1> QED
  BY <1>1, IInvCorrect, PTL

-----------------------------------------------------------------------------
(* Creation implements PageOwner                                           *)

\* The holdings are the blocks.
SameBlocks == owned = Blocks

(* What is held is what is claimed.                                        *)
LEMMA HoldingsAreBlocks == IInv => SameBlocks
<1> SUFFICES ASSUME IInv PROVE SameBlocks
  OBVIOUS
<1>1. TypeOK /\ Taking
  BY DEF IInv, Base
<1>2. ASSUME NEW H \in Holdings
      PROVE  H.pages \in Blocks
  <2>1. HolderOf(H) \in Holders /\ Claims(HolderOf(H)) = H.pages
    BY <1>1, HoldingClaims
  <2>2. H.pages # {}
    BY <1>1, HoldingShape DEF Taking
  <2> QED
    BY <2>1, <2>2, BlocksAre
<1>3. ASSUME NEW B \in Blocks
      PROVE  \E H \in Holdings : H.pages = B
  <2>1. PICK h \in Holders : B = Claims(h) /\ B # {}
    BY BlocksAre
  <2>2. PICK p : p \in Claims(h)
    BY <2>1
  <2> QED
    BY <2>1, <2>2, ClaimIsHeld
<1> QED
  BY <1>2, <1>3 DEF SameBlocks, owned

(* A page, and the run of a program, are what PageOwner grants.            *)
LEMMA GrantsOwner ==
  ASSUME SameBlocks, SameBlocks', NEW f \in Pages, NEW k \in 0..MaxOrder,
         Grants(Block(f, k))
  PROVE  Owner!Next
<1>1. Owner!Grant(f, k)
  BY DEF Owner!Grant, Owner!Block, Block, Grants, SameBlocks, avail, owned
<1> QED
  BY <1>1 DEF Owner!Next, Owner!Pages, Pages

(* An exit and an error path give back what PageOwner has granted.         *)
LEMMA ReclaimsOwner ==
  ASSUME SameBlocks, SameBlocks', NEW B, Reclaims(B)
  PROVE  Owner!Next
<1>1. B \in owned /\ Owner!Reclaim(B)
  BY DEF Owner!Reclaim, Reclaims, SameBlocks, avail, owned
<1> QED
  BY <1>1 DEF Owner!Next, owned

(* One page is a block of order 0.                                         *)
LEMMA OnePage == \A p \in Pages : Block(p, 0) = {p}
<1>1. 2^0 = 1
  OBVIOUS
<1> QED
  BY <1>1, CreationAssumption DEF Block, Pages

(* Whatever exits do between the statements of a creation, every step that *)
(* leaves the head unspoiled is a grant, a return of a block that was      *)
(* granted, or none of PageOwner's business: until then the allocator and  *)
(* its users keep the promise together.                                    *)
THEOREM ImplementsOwner == Spec => OwnerSafety
<1>1. Init => Owner!Init
  <2> SUFFICES ASSUME Init PROVE Owner!Init
    OBVIOUS
  <2>1. Blocks = {}
    BY InitClaims, BlocksAre
  <2>2. owned = {}
    BY <2>1, InitIInv, HoldingsAreBlocks DEF SameBlocks
  <2>3. avail = Pages \ {}
    BY DEF Init, avail
  <2> QED
    BY <2>2, <2>3 DEF Owner!Init, Owner!Pages, Pages, avail, owned
<1>2. IInv /\ IInv' /\ SameBlocks /\ SameBlocks' /\ [Next]_vars
      => [spoiled' \/ Owner!Next]_<<avail, owned, spoiled>>
  <2> SUFFICES ASSUME IInv, IInv', SameBlocks, SameBlocks', [Next]_vars, ~spoiled'
               PROVE  Owner!Next \/ (UNCHANGED <<avail, owned>> /\ spoiled' = spoiled)
    OBVIOUS
  <2>1. Stays => UNCHANGED <<avail, owned>>
    BY DEF Stays, SameBlocks
  <2>2. (\E p \in Pages : Grants({p})) => Owner!Next
    <3>1. 0 \in 0..MaxOrder
      BY DEF MaxOrder
    <3> QED
      BY <3>1, OnePage, GrantsOwner
  <2>3. (\E B : Reclaims(B)) => Owner!Next
    BY ReclaimsOwner
  <2>4. UNCHANGED <<flags, refcount, state, kstack, ustack, exiting, got, programs, prog>>
        => Stays
    BY SameClaims
  <2>5. ASSUME NEW s \in Slots, Exit(s) PROVE Owner!Next
    BY <2>3, <2>5, ExitKeeps
  <2>6. ASSUME ExitUserStack PROVE Owner!Next
    BY <2>3, <2>6, ExitUserStackKeeps
  <2>7. ASSUME NEW k \in Orders \union {NULL}, Scan(k) PROVE Stays
    BY <2>4, <2>7 DEF Scan, allocator, pool
  <2>8. ASSUME ReadHead PROVE Stays
    BY <2>4, <2>8 DEF ReadHead, Fail, allocator, pool
  <2>9. ASSUME Search PROVE Stays \/ Owner!Next
    <3>1. order \in 0..MaxOrder
      <4>1. TypeOK /\ Place /\ at = "program"
        BY <2>9 DEF IInv, Base, Search
      <4> QED
        BY <4>1, CreationAssumption DEF TypeOK, Place
    <3>2. Stays \/ \E f \in Pages : Grants(Block(f, order))
      BY <2>9, SearchKeeps
    <3>3. ASSUME NEW f \in Pages, Grants(Block(f, order)) PROVE Owner!Next
      BY <3>1, <3>3, GrantsOwner
    <3> QED
      BY <3>2, <3>3
  <2>10. ASSUME Find PROVE Stays
    BY <2>4, <2>10 DEF Find, allocator, pool
  <2>11. ASSUME Take PROVE Stays \/ Owner!Next
    <3>1. Stays \/ \E p \in Pages : Grants({p})
      BY <2>11, TakeKeeps
    <3> QED
      BY <2>2, <3>1
  <2>12. ASSUME BuildTables PROVE Stays
    BY <2>12, BuildTablesKeeps
  <2>13. ASSUME Publish PROVE Stays
    BY <2>13, PublishKeeps
  <2>14. ASSUME UndoLink PROVE Owner!Next
    BY <2>3, <2>14, UndoLinkKeeps
  <2>15. ASSUME UndoPush PROVE Stays
    BY <2>4, <2>15 DEF UndoPush, pool
  <2>16. ASSUME UNCHANGED vars PROVE Stays
    BY <2>4, <2>16 DEF vars, allocator, pool, locals
  <2>17. spoiled' = spoiled
    <3>1. spoiled \in BOOLEAN /\ spoiled' \in BOOLEAN
      BY DEF IInv, Base, TypeOK
    <3>2. spoiled => spoiled'
      <4>1. CASE Take
        BY <4>1, TakeEffect DEF IInv
      <4>2. CASE ~Take
        BY <4>2 DEF Next, Exit, ExitUserStack, Scan, ReadHead, Search, Find, BuildTables,
                    Publish, UndoLink, UndoPush, vars
      <4> QED
        BY <4>1, <4>2
    <3> QED
      BY <3>1, <3>2
  <2>18. Stays \/ Owner!Next
    BY <2>5, <2>6, <2>7, <2>8, <2>9, <2>10, <2>11, <2>12, <2>13, <2>14, <2>15, <2>16
    DEF Next
  <2> QED
    BY <2>1, <2>17, <2>18
<1> QED
  BY <1>1, <1>2, IInvCorrect, HoldingsAreBlocks, PTL
  DEF Spec, OwnerSafety
=============================================================================
