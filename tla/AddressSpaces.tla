--------------------------- MODULE AddressSpaces ---------------------------
(***************************************************************************)
(* What the translation tables promise: each address space is a partial    *)
(* function from pages to frames of its own, and mapping or unmapping a    *)
(* page changes that page of that space and nothing else.                  *)
(***************************************************************************)
CONSTANTS Names,    \* what may name an address space
          Pages,    \* the virtual pages
          NONE      \* where an unmapped page goes

VARIABLE space

Spaces == UNION {[S -> [Pages -> {NONE}]] : S \in SUBSET Names}

Init == space \in Spaces

New(s) == /\ s \in Names \ DOMAIN space
          /\ space' = [t \in DOMAIN space \union {s} |->
                         IF t = s THEN [p \in Pages |-> NONE] ELSE space[t]]

Set(s, p) == /\ s \in DOMAIN space
             /\ \A t \in DOMAIN space' : \A q \in Pages :
                  <<t, q>> # <<s, p>> => space'[t][q] = space[t][q]
             /\ DOMAIN space' = DOMAIN space

Next == \/ \E s \in Names : New(s)
        \/ \E s \in Names, p \in Pages : Set(s, p)

Spec == Init /\ [][Next]_space
=============================================================================
