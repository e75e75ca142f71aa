------------------------- MODULE MCAdapterResolver -------------------------
(* Two requests register and one of them also deletes; the third refreshes, *)
(* queries and looks at the health of the resolver.                         *)
EXTENDS AdapterResolver

CONSTANTS p, q, r, a, b

MCServes == [x \in Request |-> CASE x = p -> {"register"}
                                 [] x = q -> {"register", "delete"}
                                 [] x = r -> {"refresh", "query", "health"}]
MCBrings == [x \in Request |-> IF x = p THEN a ELSE b]
=============================================================================
