----------------------------- MODULE MCUpstream -----------------------------
(* Instances of Upstream for TLC.                                          *)
EXTENDS Upstream, TLC

\* Every connection asks for a host of its own; the keys of the connections
\* start in different buckets.
MCFnv == [c \in Conns |-> IF c = CHOOSE d \in Conns : TRUE THEN 0 ELSE 1]

\* Any function into the buckets will do: consecutive keys visit them in turn.
MCJumpHash(key, n) == key % n

Symmetry == Permutations(Conns)
=============================================================================
