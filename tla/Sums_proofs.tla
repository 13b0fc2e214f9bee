---------------------------- MODULE Sums_proofs ----------------------------
(***************************************************************************)
(* How a sum changes when the function changes at one or two points, and   *)
(* how two sums compare; and induction over the naturals, with a set in    *)
(* place of the predicate.                                                 *)
(***************************************************************************)
EXTENDS Sums, FiniteSetTheorems, FunctionTheorems, TLAPS

LEMMA UnitsAtFinite ==
  ASSUME NEW f, NEW x, f[x] \in Nat
  PROVE  IsFiniteSet(UnitsAt(f, x)) /\ Cardinality(UnitsAt(f, x)) = f[x]
<1> DEFINE I == 1 .. f[x]
<1>1. IsFiniteSet(I) /\ Cardinality(I) = f[x]
  BY FS_Interval
<1>. HIDE DEF I
<1>2. IsFiniteSet({x}) /\ Cardinality({x}) = 1
  BY FS_Singleton
<1>3. /\ IsFiniteSet({x} \X I)
      /\ Cardinality({x} \X I) = Cardinality({x}) * Cardinality(I)
  BY <1>1, <1>2, FS_Product, Zenon
<1>4. 1 * f[x] = f[x]
  OBVIOUS
<1>. QED BY <1>1, <1>2, <1>3, <1>4, Zenon DEF UnitsAt, I

LEMMA UnitsFinite ==
  ASSUME NEW S, IsFiniteSet(S), NEW f \in [S -> Nat]
  PROVE  IsFiniteSet(Units(f))
<1> DEFINE parts == {UnitsAt(f, x) : x \in S}
           g == [x \in S |-> UnitsAt(f, x)]
<1>1. g \in Surjection(S, parts)
  BY DEF Surjection
<1>2. IsFiniteSet(parts)
  BY <1>1, FS_Surjection DEF ExistsSurjection
<1>3. \A T \in parts : IsFiniteSet(T)
  BY UnitsAtFinite
<1>. QED BY <1>2, <1>3, FS_UNION DEF Units

LEMMA TotalIsNat ==
  ASSUME NEW S, IsFiniteSet(S), NEW f \in [S -> Nat]
  PROVE  Total(f) \in Nat
BY UnitsFinite, FS_CardinalityType DEF Total

(* The sum without x: the same for any two functions that agree elsewhere. *)
LEMMA TotalSplit ==
  ASSUME NEW S, IsFiniteSet(S), NEW f \in [S -> Nat], NEW x \in S
  PROVE  LET rest == UNION {UnitsAt(f, y) : y \in S \ {x}}
         IN  Cardinality(rest) \in Nat /\ Total(f) = Cardinality(rest) + f[x]
<1> DEFINE rest == UNION {UnitsAt(f, y) : y \in S \ {x}}
<1>1. Units(f) = rest \cup UnitsAt(f, x)
  BY DEF Units
<1>2. rest \cap UnitsAt(f, x) = {}
  BY DEF UnitsAt
<1>3. IsFiniteSet(rest)
  BY <1>1, UnitsFinite, FS_Subset
<1>4. IsFiniteSet(UnitsAt(f, x)) /\ Cardinality(UnitsAt(f, x)) = f[x]
  BY UnitsAtFinite
<1>5. Cardinality(rest \cap UnitsAt(f, x)) = 0
  BY <1>2, FS_EmptySet
<1>6. Cardinality(rest) \in Nat
  BY <1>3, FS_CardinalityType
<1>7. Cardinality(rest \cup UnitsAt(f, x)) = Cardinality(rest) + f[x] - 0
  BY <1>3, <1>4, <1>5, FS_Union
<1>. HIDE DEF rest
<1>8. Total(f) = Cardinality(rest) + f[x]
  BY <1>1, <1>6, <1>7 DEF Total
<1>. QED BY <1>6, <1>8 DEF rest

LEMMA TotalUpdate ==
  ASSUME NEW S, IsFiniteSet(S), NEW f \in [S -> Nat], NEW g \in [S -> Nat],
         NEW x \in S, \A y \in S \ {x} : g[y] = f[y]
  PROVE  Total(g) = Total(f) - f[x] + g[x]
<1>1. UNION {UnitsAt(f, y) : y \in S \ {x}} = UNION {UnitsAt(g, y) : y \in S \ {x}}
  BY DEF UnitsAt
<1> DEFINE rest(h) == UNION {UnitsAt(h, y) : y \in S \ {x}}
<1>2. Cardinality(rest(f)) \in Nat /\ Total(f) = Cardinality(rest(f)) + f[x]
  BY TotalSplit
<1>3. Total(g) = Cardinality(rest(g)) + g[x]
  BY TotalSplit
<1>4. rest(f) = rest(g)
  BY <1>1
<1>. HIDE DEF rest
<1>5. f[x] \in Nat /\ g[x] \in Nat
  OBVIOUS
<1>. QED BY <1>2, <1>3, <1>4, <1>5

(* Two points change. *)
LEMMA TotalUpdate2 ==
  ASSUME NEW S, IsFiniteSet(S), NEW f \in [S -> Nat], NEW g \in [S -> Nat],
         NEW x \in S, NEW z \in S, x # z,
         \A y \in S \ {x, z} : g[y] = f[y]
  PROVE  Total(g) = Total(f) - f[x] - f[z] + g[x] + g[z]
<1> DEFINE h == [f EXCEPT ![x] = g[x]]
<1>1. h \in [S -> Nat] /\ h[x] = g[x] /\ h[z] = f[z]
  OBVIOUS
<1>2. (\A y \in S \ {x} : h[y] = f[y]) /\ (\A y \in S \ {z} : g[y] = h[y])
  OBVIOUS
<1>. HIDE DEF h
<1>3. Total(h) = Total(f) - f[x] + h[x]
  <2>1. \A y \in S \ {x} : h[y] = f[y]
    BY <1>2
  <2>2. h \in [S -> Nat]
    BY <1>1
  <2>. QED BY <2>1, <2>2, TotalUpdate
<1>5. Total(g) = Total(h) - h[z] + g[z]
  <2>1. \A y \in S \ {z} : g[y] = h[y]
    BY <1>2
  <2>2. h \in [S -> Nat]
    BY <1>1
  <2>. QED BY <2>1, <2>2, TotalUpdate
<1>4. Total(f) \in Nat /\ Total(g) \in Nat /\ Total(h) \in Nat
  BY <1>1, TotalIsNat
<1>. QED BY <1>1, <1>3, <1>4, <1>5

LEMMA TotalOfZeros ==
  ASSUME NEW S, NEW f, f = [x \in S |-> 0] PROVE Total(f) = 0
<1>1. Units(f) = {}
  BY DEF Units, UnitsAt
<1>. QED BY <1>1, FS_EmptySet DEF Total

(* A sum of which only two points count. *)
LEMMA TotalOfTwo ==
  ASSUME NEW S, IsFiniteSet(S), NEW f \in [S -> Nat], NEW x \in S, NEW z \in S, x # z,
         \A y \in S \ {x, z} : f[y] = 0
  PROVE  Total(f) = f[x] + f[z]
<1> DEFINE zero == [y \in S |-> 0]
<1>1. Total(zero) = 0
  BY TotalOfZeros
<1>2. /\ zero \in [S -> Nat] /\ zero[x] = 0 /\ zero[z] = 0
      /\ \A y \in S \ {x, z} : f[y] = zero[y]
  OBVIOUS
<1>. HIDE DEF zero
<1>3. Total(f) = Total(zero) - zero[x] - zero[z] + f[x] + f[z]
  BY <1>2, TotalUpdate2
<1>. QED BY <1>1, <1>2, <1>3

LEMMA TermWithinTotal ==
  ASSUME NEW S, IsFiniteSet(S), NEW f \in [S -> Nat], NEW x \in S
  PROVE  f[x] <= Total(f)
<1>1. PICK n \in Nat : Total(f) = n + f[x]
  BY TotalSplit
<1>2. f[x] \in Nat
  OBVIOUS
<1>. QED BY <1>1, <1>2

LEMMA InjectionBetween ==
  ASSUME NEW S, IsFiniteSet(S), NEW T, IsFiniteSet(T), Cardinality(S) <= Cardinality(T)
  PROVE  ExistsInjection(S, T)
<1> DEFINE m == Cardinality(S)  n == Cardinality(T)
<1>1. m \in Nat /\ n \in Nat /\ ExistsBijection(1 .. m, S) /\ ExistsBijection(1 .. n, T)
  BY FS_CardinalityType
<1>. HIDE DEF m, n
<1>2. ExistsInjection(S, 1 .. m)
  BY <1>1, Fun_ExistsBijSymmetric DEF ExistsBijection, ExistsInjection, Bijection
<1>3. ExistsInjection(1 .. n, T)
  BY <1>1 DEF ExistsBijection, ExistsInjection, Bijection
<1>4. ExistsInjection(1 .. m, 1 .. n)
  BY <1>1, Fun_NatInjLeq DEF m, n
<1>5. ExistsInjection(S, 1 .. n)
  BY <1>2, <1>4, Fun_ExistsInjTransitive
<1>. QED BY <1>3, <1>5, Fun_ExistsInjTransitive

(* S is the union of disjoint parts, one for each t in T; fs[t] and gs[t] are f *)
(* and g on a part, and there the one sums to at most what the other does.      *)
AtMostInEveryPart(S, T, part, f, fs, g, gs) ==
  /\ part \in [T -> SUBSET S]
  /\ \A x \in S : \E t \in T : x \in part[t]
  /\ \A t, u \in T : t # u => part[t] \cap part[u] = {}
  /\ \A t \in T : /\ fs[t] \in [part[t] -> Nat] /\ gs[t] \in [part[t] -> Nat]
                  /\ \A x \in part[t] : fs[t][x] = f[x] /\ gs[t][x] = g[x]
                  /\ Total(fs[t]) <= Total(gs[t])

LEMMA TotalByParts ==
  ASSUME NEW S, IsFiniteSet(S), NEW f \in [S -> Nat], NEW g \in [S -> Nat],
         NEW T, NEW part, NEW fs, NEW gs, AtMostInEveryPart(S, T, part, f, fs, g, gs)
  PROVE  Total(f) <= Total(g)
<1> USE DEF AtMostInEveryPart
<1> DEFINE group == [x \in S |-> CHOOSE t \in T : x \in part[t]]
<1>1. \A x \in S : group[x] \in T /\ x \in part[group[x]]
  OBVIOUS
<1>2. \A t \in T : \A x \in part[t] : group[x] = t
  BY <1>1
<1>. HIDE DEF group
<1> DEFINE F(t) == Units(fs[t])
           H(t) == Units(gs[t])
           inj  == [t \in T |-> CHOOSE h : h \in Injection(F(t), H(t))]
           whole == [u \in Units(f) |-> inj[group[u[1]]][u]]
<1>3. ASSUME NEW t \in T
      PROVE  inj[t] \in [F(t) -> H(t)] /\ IsInjective(inj[t])
  <2>1. IsFiniteSet(part[t])
    BY FS_Subset
  <2>2. IsFiniteSet(F(t)) /\ IsFiniteSet(H(t))
    BY <2>1, UnitsFinite
  <2>3. Cardinality(F(t)) <= Cardinality(H(t))
    BY DEF Total
  <2>. HIDE DEF F, H
  <2>4. ExistsInjection(F(t), H(t))
    BY <2>2, <2>3, InjectionBetween
  <2>5. inj[t] \in Injection(F(t), H(t))
    BY <2>4 DEF ExistsInjection
  <2>. QED BY <2>5 DEF Injection
<1>4. ASSUME NEW u \in Units(f)
      PROVE  u[1] \in S /\ group[u[1]] \in T /\ u \in F(group[u[1]])
  <2>1. PICK x \in S : u \in UnitsAt(f, x)
    BY DEF Units
  <2>2. u[1] = x /\ group[x] \in T /\ x \in part[group[x]]
    BY <1>1, <2>1 DEF UnitsAt
  <2>3. u \in UnitsAt(fs[group[x]], x) /\ DOMAIN fs[group[x]] = part[group[x]]
    BY <2>1, <2>2 DEF UnitsAt
  <2>. QED BY <2>2, <2>3 DEF Units
<1>5. ASSUME NEW t \in T, NEW v \in H(t)
      PROVE  group[v[1]] = t /\ v \in Units(g)
  <2>1. PICK x \in part[t] : v \in UnitsAt(gs[t], x)
    BY DEF Units
  <2>2. v[1] = x /\ v \in UnitsAt(g, x) /\ x \in S /\ group[x] = t
    BY <1>2, <2>1 DEF UnitsAt
  <2>. QED BY <2>2 DEF Units
<1>. HIDE DEF inj, F, H
<1>6. ASSUME NEW u \in Units(f)
      PROVE  whole[u] \in Units(g) /\ group[whole[u][1]] = group[u[1]]
  BY <1>3, <1>4, <1>5
<1>7. ASSUME NEW u \in Units(f), NEW v \in Units(f), whole[u] = whole[v]
      PROVE  u = v
  <2>1. group[u[1]] = group[v[1]]
    BY <1>6, <1>7
  <2>2. inj[group[u[1]]][u] = inj[group[u[1]]][v]
    BY <1>7, <2>1
  <2>3. u \in F(group[u[1]]) /\ v \in F(group[u[1]]) /\ group[u[1]] \in T
    BY <1>4, <2>1
  <2>. QED BY <1>3, <2>2, <2>3 DEF IsInjective
<1>8. whole \in Injection(Units(f), Units(g))
  BY <1>6, <1>7 DEF Injection, IsInjective
<1>. HIDE DEF whole
<1>. QED BY <1>8, UnitsFinite, FS_Injection DEF Total

LEMMA TotalMonotone ==
  ASSUME NEW S, IsFiniteSet(S), NEW f \in [S -> Nat], NEW g \in [S -> Nat],
         \A x \in S : f[x] <= g[x]
  PROVE  Total(f) <= Total(g)
<1>1. Units(f) \subseteq Units(g)
  BY DEF Units, UnitsAt
<1>. QED BY <1>1, UnitsFinite, FS_Subset DEF Total

(* Induction over a set of natural numbers, by counting: if m were missing *)
(* from S, adding one would inject the members of S up to m into those of  *)
(* them above 0, of which there are fewer.                                 *)
LEMMA NatSetInduction ==
  ASSUME NEW S, 0 \in S, \A n \in S \cap Nat : n + 1 \in S
  PROVE  Nat \subseteq S
<1>1. SUFFICES ASSUME NEW m \in Nat, m \notin S PROVE FALSE
  OBVIOUS
<1> DEFINE below == S \cap (0 .. m)
<1>2. IsFiniteSet(below) /\ IsFiniteSet(below \ {0})
      /\ Cardinality(below) \in Nat
      /\ Cardinality(below \ {0}) = Cardinality(below) - 1
  <2>1. IsFiniteSet(0 .. m)
    BY FS_Interval
  <2>2. IsFiniteSet(below)
    BY <2>1, FS_Subset
  <2>3. 0 \in below
    BY <1>1
  <2>. HIDE DEF below
  <2>. QED BY <2>2, <2>3, FS_RemoveElement, FS_CardinalityType
<1> DEFINE next == [n \in below |-> n + 1]
<1>3. next \in Injection(below, below \ {0})
  <2>1. \A n \in below : n + 1 \in below \ {0}
    BY <1>1
  <2>2. \A n, k \in below : n + 1 = k + 1 => n = k
    OBVIOUS
  <2>. HIDE DEF below
  <2>3. next \in [below -> below \ {0}]
    BY <2>1
  <2>. QED BY <2>2, <2>3 DEF Injection, IsInjective
<1>. HIDE DEF below, next
<1>4. Cardinality(below) <= Cardinality(below \ {0})
  BY <1>2, <1>3, FS_Injection
<1>. QED BY <1>2, <1>4
=============================================================================
