--------------------------- MODULE MCCachedFetch ---------------------------
(***************************************************************************)
(* CachedFetch for TLC: two checkpoints an equivocating log signed, one    *)
(* body that verifies under each and one that verifies under neither.      *)
(***************************************************************************)
EXTENDS CachedFetch

CONSTANTS p1, p2, left, right, a, b, junk

VerifiesDef ==
  [k \in Roots \X Requests |-> IF k = <<left, "range">> THEN {a} ELSE {b}]

\* A temporary's name begins with a dot and sorts before every digest.
RankDef ==
  [n \in Names |-> CASE n = p1 -> 0 [] n = p2 -> 1 [] n = a -> 2 [] n = b -> 3 [] n = junk -> 4]

SizeDef == [x \in Bytes |-> IF x = b THEN 2 ELSE 1]
=============================================================================
