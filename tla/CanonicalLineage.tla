------------------------- MODULE CanonicalLineage -------------------------
(***************************************************************************)
(* What a workspace is promised of its canonical ontology, without the     *)
(* requests, heads, tags and drafts by which the code keeps the promise.   *)
(* A lineage is founded once; from then on it only grows at its end, one   *)
(* whole entry at a time.  Reading the last entry, deriving an ontology    *)
(* from it and adding the result is ONE step here.  The code takes minutes *)
(* and several statements over it, without a lock.                         *)
(***************************************************************************)
EXTENDS Naturals, Sequences

CONSTANTS Content,   \* what an entry can hold
          Author     \* who can be recorded as its origin

VARIABLES founded,   \* the workspace has a canonical ontology
          lineage    \* its entries, oldest first

Grow(c, a, b) ==
  /\ founded
  /\ lineage' = Append(lineage, [content |-> c, author |-> a, base |-> b])
  /\ UNCHANGED founded

Init == founded = FALSE /\ lineage = << >>

Found == ~founded /\ founded' = TRUE /\ UNCHANGED lineage

(* An entry derived from the last one, which no other entry can come       *)
(* between.                                                                *)
Derive(c, a) == Grow(c, a, Len(lineage))

(* An entry derived from none: imported, designed from a source.           *)
Supply(c, a) == Grow(c, a, 0)

(* The first conjunct follows from the second and spares TLC the choice of *)
(* an entry in the many steps that add none.                               *)
Growth == /\ lineage' # lineage
          /\ \E c \in Content, a \in Author : Derive(c, a) \/ Supply(c, a)

Next == Found \/ Growth

Spec == Init /\ [][Next]_<<founded, lineage>>

===========================================================================
