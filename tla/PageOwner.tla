----------------------------- MODULE PageOwner -----------------------------
(***************************************************************************)
(* What a page allocator promises its callers: a grant is a run of         *)
(* 2^k adjacent page frames that nobody else holds, a frame comes back     *)
(* with the block it was granted in, and the kernel's own frames are never *)
(* granted.                                                                *)
(***************************************************************************)
EXTENDS Naturals, FiniteSets

CONSTANTS NumPages,    \* frames are numbered from 0
          Reserved,    \* frames of the kernel image
          MaxOrder

Pages == 0..(NumPages - 1)

Block(f, k) == f..(f + 2^k - 1)

VARIABLES avail,       \* frames that may be granted
          owned        \* granted blocks, as sets of frames

Init == avail = Pages \ Reserved /\ owned = {}

Grant(f, k) == /\ Block(f, k) \subseteq avail
               /\ avail' = avail \ Block(f, k)
               /\ owned' = owned \union {Block(f, k)}

Reclaim(B) == /\ B \in owned
              /\ avail' = avail \union B
              /\ owned' = owned \ {B}

Next == \/ \E f \in Pages, k \in 0..MaxOrder : Grant(f, k)
        \/ \E B \in owned : Reclaim(B)

Spec == Init /\ [][Next]_<<avail, owned>>

(* No frame is held twice, held while it may be granted, or reserved. *)
Exclusive ==
  /\ \A B, C \in owned : B # C => B \intersect C = {}
  /\ \A B \in owned : B \intersect (avail \union Reserved) = {}
=============================================================================
