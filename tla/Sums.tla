-------------------------------- MODULE Sums --------------------------------
(***************************************************************************)
(* The sum of a function with values in Nat, as the number of its units:   *)
(* each x contributes the pairs <<x, 1>>, ..., <<x, f[x]>>.  Unlike a fold *)
(* it can be reasoned about without induction (see Sums_proofs).           *)
(***************************************************************************)
EXTENDS Naturals, FiniteSets

UnitsAt(f, x) == {x} \X (1 .. f[x])

Units(f) == UNION {UnitsAt(f, x) : x \in DOMAIN f}

Total(f) == Cardinality(Units(f))
=============================================================================
