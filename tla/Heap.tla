-------------------------------- MODULE Heap --------------------------------
(***************************************************************************)
(* What the kernel heap promises its callers: a piece of memory at least   *)
(* as large as was asked for, apart from every piece in use, until it is   *)
(* given back.                                                             *)
(***************************************************************************)
EXTENDS Naturals

CONSTANTS Addresses, Requests

VARIABLE live    \* <<first word, number of words, number asked for>> of the
                 \* pieces in use

Words(x) == x[1]..(x[1] + x[2] - 1)

Init == live = {}

Alloc(x) == /\ x[3] \in Requests /\ x[2] >= x[3]
            /\ Words(x) \subseteq Addresses
            /\ \A y \in live : Words(x) \intersect Words(y) = {}
            /\ live' = live \union {x}

Free(x) == x \in live /\ live' = live \ {x}

Next == \/ \E x \in live' \ live : Alloc(x)
        \/ \E x \in live : Free(x)

Spec == Init /\ [][Next]_live
=============================================================================
