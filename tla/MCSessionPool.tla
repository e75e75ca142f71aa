---------------------------- MODULE MCSessionPool ----------------------------
(***************************************************************************)
(* Two replicas: the first has a pool of one connection and a request, the *)
(* second a pool of two.                                                   *)
(***************************************************************************)
EXTENDS SessionPool

CONSTANTS a, b, c1, c2, c3, q1

MCHome == [x \in {c1, c2, c3, q1} |-> IF x \in {c1, q1} THEN a ELSE b]
=============================================================================
