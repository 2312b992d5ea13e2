------------------------------ MODULE SumProofs ------------------------------
(***************************************************************************)
(* Sums of functions with integer values over finite sets: the sum of no   *)
(* values is 0, and one more argument adds its value, whatever order the   *)
(* definition of SumFunction takes the arguments in.                       *)
(*                                                                         *)
(* SumFunction is a fold, and a fold a recursive function on the subsets   *)
(* of its domain.  Induction is by minimal counterexample (WFMin): a set   *)
(* of finite sets that is not empty has a member none of whose proper      *)
(* subsets is in it.                                                       *)
(***************************************************************************)
EXTENDS FiniteSetTheorems, TLAPS

-----------------------------------------------------------------------------
(* The recursive function behind the fold.                                 *)

First(s) == CHOOSE x \in s : TRUE

\* g sums f over every subset of S.
Sums(g, f, S) ==
  g = [s \in SUBSET S |-> IF s = {} THEN 0 ELSE f[First(s)] + g[s \ {First(s)}]]

LEMMA FirstIn == ASSUME NEW s, s # {} PROVE First(s) \in s
BY DEF First

\* Of the subsets of a finite set that are in U, one has no proper subset in U.
LEMMA SmallestSet ==
  ASSUME NEW S, IsFiniteSet(S), NEW U, U \subseteq SUBSET S, U # {}
  PROVE  \E s \in U : \A v \in U : v \subseteq s => v = s
<1>1. FiniteSubsetsOf(S) = SUBSET S
  BY FS_FiniteSubsetsOfFinite
<1>2. IsWellFoundedOn(StrictSubsetOrdering(S), SUBSET S)
  BY <1>1, FS_StrictSubsetOrderingWellFounded
<1>3. PICK s \in U : \A v \in U : ~(<<v, s>> \in StrictSubsetOrdering(S))
  BY <1>2, WFMin
<1> QED BY <1>3 DEF StrictSubsetOrdering

\* A set of natural numbers has a least one.
LEMMA SmallestNumber ==
  ASSUME NEW P, P \subseteq Nat, P # {}
  PROVE  \E x \in P : \A y \in P : x <= y
<1>1. PICK n \in P : TRUE
  OBVIOUS
<1> DEFINE S == 0..n
           U == {0..p : p \in {q \in P : q <= n}}
<1>2. n \in Nat
  BY <1>1
<1>3. U \subseteq SUBSET S
  BY <1>2
<1>4. S \in U
  BY <1>1, <1>2
<1>5. IsFiniteSet(S)
  BY <1>2, FS_Interval
<1>6. PICK s \in U : \A t \in U : t \subseteq s => t = s
  <2> HIDE DEF S, U
  <2> QED BY <1>3, <1>4, <1>5, SmallestSet
<1>7. PICK x \in P : x <= n /\ s = 0..x
  BY <1>6
<1>8. ASSUME NEW y \in P, y < x PROVE FALSE
  <2>1. x \in Nat /\ y \in Nat
    OBVIOUS
  <2>2. 0..y \in U
    BY <1>2, <1>7, <1>8, <2>1
  <2>3. 0..y \subseteq s /\ x \in s /\ x \notin 0..y
    BY <1>7, <1>8, <2>1
  <2> QED BY <1>6, <2>2, <2>3
<1> QED BY <1>7, <1>8

\* Induction up to n.
LEMMA UpTo ==
  ASSUME NEW n \in Nat, NEW S, 0 \in S, \A k \in 0..(n - 1) : k \in S => k + 1 \in S
  PROVE  \A k \in 0..n : k \in S
<1> DEFINE P == {k \in 0..n : k \notin S}
<1>1. SUFFICES ASSUME P # {} PROVE FALSE
  OBVIOUS
<1>2. P \subseteq Nat
  OBVIOUS
<1>3. PICK x \in P : \A y \in P : x <= y
  <2> HIDE DEF P
  <2> QED BY <1>1, <1>2, SmallestNumber
<1>4. x \in Nat /\ x # 0 /\ x <= n /\ x \notin S
  BY <1>3
<1>5. x - 1 \in 0..(n - 1) /\ (x - 1) + 1 = x
  BY <1>4
<1>6. x - 1 \in S
  BY <1>3, <1>4, <1>5
<1> QED BY <1>4, <1>5, <1>6

\* Two such functions agree on the subsets they have in common.
LEMMA SumsAgree ==
  ASSUME NEW f, NEW S, IsFiniteSet(S), NEW T \in SUBSET S, NEW g, NEW h,
         Sums(g, f, S), Sums(h, f, T)
  PROVE  \A s \in SUBSET T : g[s] = h[s]
<1> DEFINE U == {s \in SUBSET T : g[s] # h[s]}
<1>1. SUFFICES ASSUME U # {} PROVE FALSE
  OBVIOUS
<1>2. PICK s \in U : \A v \in U : v \subseteq s => v = s
  <2>1. IsFiniteSet(T) /\ U \subseteq SUBSET T
    BY FS_Subset
  <2> HIDE DEF U
  <2> QED BY <1>1, <2>1, SmallestSet
<1>3. s \in SUBSET T /\ s \in SUBSET S /\ g[s] # h[s]
  BY <1>2
<1> DEFINE c == First(s)
<1>4. g[s] = IF s = {} THEN 0 ELSE f[c] + g[s \ {c}]
  BY <1>3 DEF Sums
<1>5. h[s] = IF s = {} THEN 0 ELSE f[c] + h[s \ {c}]
  BY <1>3 DEF Sums
<1>6. s # {} => g[s \ {c}] = h[s \ {c}]
  BY <1>2, <1>3, FirstIn
<1> QED BY <1>3, <1>4, <1>5, <1>6

\* There is one.
LEMMA SumsExist ==
  ASSUME NEW f, NEW S, IsFiniteSet(S)
  PROVE  \E g : Sums(g, f, S)
<1> DEFINE U == {s \in SUBSET S : ~ \E g : Sums(g, f, s)}
<1>1. SUFFICES ASSUME U # {} PROVE FALSE
  OBVIOUS
<1>2. PICK T \in U : \A v \in U : v \subseteq T => v = T
  <2>1. U \subseteq SUBSET S
    OBVIOUS
  <2> HIDE DEF U
  <2> QED BY <1>1, <2>1, SmallestSet
<1>3. T \in SUBSET S /\ ~ \E g : Sums(g, f, T)
  BY <1>2
<1> DEFINE G(v) == CHOOSE g : Sums(g, f, v)
           Rest(s) == s \ {First(s)}
           h == [s \in SUBSET T |-> IF s = {} THEN 0 ELSE f[First(s)] + G(Rest(s))[Rest(s)]]
<1>4. \A v \in SUBSET T : v # T => Sums(G(v), f, v)
  BY <1>2, <1>3
<1>5. ASSUME NEW s \in SUBSET T, s # {}
      PROVE  G(Rest(s))[Rest(s)] = h[Rest(s)]
  <2> DEFINE v == Rest(s)
  <2>1. v \in SUBSET T /\ v # T /\ IsFiniteSet(v)
    BY <1>3, <1>5, FirstIn, FS_Subset
  <2>2. Sums(G(v), f, v)
    BY <1>4, <2>1
  <2>3. G(v)[v] = IF v = {} THEN 0 ELSE f[First(v)] + G(v)[Rest(v)]
    BY <2>2 DEF Sums
  <2>4. v # {} => G(v)[Rest(v)] = G(Rest(v))[Rest(v)]
    <3> SUFFICES ASSUME v # {} PROVE G(v)[Rest(v)] = G(Rest(v))[Rest(v)]
      OBVIOUS
    <3>1. Rest(v) \in SUBSET v /\ Rest(v) \in SUBSET T /\ Rest(v) # T
      BY <2>1, FirstIn
    <3>2. Sums(G(Rest(v)), f, Rest(v))
      BY <1>4, <3>1
    <3> QED BY <2>1, <2>2, <3>1, <3>2, SumsAgree
  <2>5. h[v] = IF v = {} THEN 0 ELSE f[First(v)] + G(Rest(v))[Rest(v)]
    BY <2>1
  <2> QED BY <2>3, <2>4, <2>5
<1>6. h = [s \in SUBSET T |-> IF s = {} THEN 0 ELSE f[First(s)] + h[s \ {First(s)}]]
  <2> HIDE DEF G
  <2>1. \A s \in SUBSET T : h[s] = IF s = {} THEN 0 ELSE f[First(s)] + h[s \ {First(s)}]
    BY <1>5
  <2>2. h = [s \in SUBSET T |-> h[s]]
    OBVIOUS
  <2> HIDE DEF h
  <2> QED BY <2>1, <2>2
<1> QED BY <1>3, <1>6 DEF Sums

\* What SumFunctionOnSet is defined as.
LEMMA SumIsSums ==
  ASSUME NEW f, NEW S
  PROVE  SumFunctionOnSet(f, S) = (CHOOSE g : Sums(g, f, S))[S]
BY DEF SumFunctionOnSet, FoldFunctionOnSet, MapThenFoldSet, Sums, First

-----------------------------------------------------------------------------
(* Sums of one function over sets.                                         *)

LEMMA SumNone == ASSUME NEW f PROVE SumFunctionOnSet(f, {}) = 0
<1> DEFINE g == CHOOSE h : Sums(h, f, {})
<1>1. Sums(g, f, {})
  BY FS_EmptySet, SumsExist
<1>2. g[{}] = 0
  BY <1>1 DEF Sums
<1> QED BY <1>2, SumIsSums

\* The definition's own order.
LEMMA SumFirst ==
  ASSUME NEW f, NEW S, IsFiniteSet(S), S # {}
  PROVE  SumFunctionOnSet(f, S) = f[First(S)] + SumFunctionOnSet(f, S \ {First(S)})
<1> DEFINE T == S \ {First(S)}
           g == CHOOSE k : Sums(k, f, S)
           h == CHOOSE k : Sums(k, f, T)
<1>1. IsFiniteSet(T) /\ T \in SUBSET S
  BY FS_Subset
<1>2. Sums(g, f, S) /\ Sums(h, f, T)
  BY <1>1, SumsExist
<1>3. g[S] = f[First(S)] + g[T]
  BY <1>2 DEF Sums
<1>4. g[T] = h[T]
  <2> HIDE DEF g, h, T
  <2> QED BY <1>1, <1>2, SumsAgree
<1>5. SumFunctionOnSet(f, S) = g[S] /\ SumFunctionOnSet(f, T) = h[T]
  BY SumIsSums
<1> QED BY <1>3, <1>4, <1>5

LEMMA SumInt ==
  ASSUME NEW f, NEW S, IsFiniteSet(S), \A x \in S : f[x] \in Int
  PROVE  SumFunctionOnSet(f, S) \in Int
<1> DEFINE U == {s \in SUBSET S : SumFunctionOnSet(f, s) \notin Int}
<1>1. SUFFICES ASSUME U # {} PROVE FALSE
  BY DEF U
<1>2. PICK s \in U : \A v \in U : v \subseteq s => v = s
  <2>1. U \subseteq SUBSET S
    OBVIOUS
  <2> HIDE DEF U
  <2> QED BY <1>1, <2>1, SmallestSet
<1>3. s \in SUBSET S /\ IsFiniteSet(s) /\ SumFunctionOnSet(f, s) \notin Int
  BY <1>2, FS_Subset
<1>4. s # {}
  BY <1>3, SumNone
<1>5. SumFunctionOnSet(f, s) = f[First(s)] + SumFunctionOnSet(f, s \ {First(s)})
  BY <1>3, <1>4, SumFirst
<1>6. First(s) \in s
  BY <1>4, FirstIn
<1>7. SumFunctionOnSet(f, s \ {First(s)}) \in Int
  BY <1>2, <1>3, <1>6
<1> QED BY <1>3, <1>5, <1>6, <1>7

\* Any argument may be taken first.
LEMMA SumAny ==
  ASSUME NEW f, NEW S, IsFiniteSet(S), \A x \in S : f[x] \in Int, NEW x \in S
  PROVE  SumFunctionOnSet(f, S) = f[x] + SumFunctionOnSet(f, S \ {x})
<1> DEFINE Sum(s) == SumFunctionOnSet(f, s)
           U == {s \in SUBSET S : \E y \in s : Sum(s) # f[y] + Sum(s \ {y})}
<1>1. SUFFICES ASSUME U # {} PROVE FALSE
  BY DEF U
<1>2. PICK s \in U : \A v \in U : v \subseteq s => v = s
  <2>1. U \subseteq SUBSET S
    OBVIOUS
  <2> HIDE DEF U
  <2> QED BY <1>1, <2>1, SmallestSet
<1>3. PICK y \in s : Sum(s) # f[y] + Sum(s \ {y})
  BY <1>2
<1> DEFINE c == First(s)
           r == (s \ {c}) \ {y}
<1>4. s \in SUBSET S /\ IsFiniteSet(s) /\ c \in s
  BY <1>2, <1>3, FS_Subset, FirstIn
<1>5. \A v \in SUBSET s : Sum(v) \in Int
  BY <1>4, FS_Subset, SumInt
<1>6. Sum(s) = f[c] + Sum(s \ {c})
  BY <1>3, <1>4, SumFirst
<1>7. c # y
  BY <1>3, <1>6
<1>8. \A v \in SUBSET s : v # s => \A z \in v : Sum(v) = f[z] + Sum(v \ {z})
  BY <1>2, <1>4
<1>9. Sum(s \ {c}) = f[y] + Sum(r)
  BY <1>4, <1>7, <1>8
<1>10. Sum(s \ {y}) = f[c] + Sum(r)
  <2>1. (s \ {y}) \ {c} = r
    OBVIOUS
  <2> QED BY <1>4, <1>7, <1>8, <2>1
<1>11. Sum(r) \in Int /\ f[c] \in Int /\ f[y] \in Int
  BY <1>4, <1>5
<1> HIDE DEF Sum, r
<1> QED BY <1>3, <1>6, <1>9, <1>10, <1>11

\* Only the values on the set count.
LEMMA SumSame ==
  ASSUME NEW f, NEW g, NEW S, IsFiniteSet(S), \A x \in S : f[x] = g[x]
  PROVE  SumFunctionOnSet(f, S) = SumFunctionOnSet(g, S)
<1> DEFINE U == {s \in SUBSET S : SumFunctionOnSet(f, s) # SumFunctionOnSet(g, s)}
<1>1. SUFFICES ASSUME U # {} PROVE FALSE
  BY DEF U
<1>2. PICK s \in U : \A v \in U : v \subseteq s => v = s
  <2>1. U \subseteq SUBSET S
    OBVIOUS
  <2> HIDE DEF U
  <2> QED BY <1>1, <2>1, SmallestSet
<1>3. s \in SUBSET S /\ IsFiniteSet(s) /\ SumFunctionOnSet(f, s) # SumFunctionOnSet(g, s)
  BY <1>2, FS_Subset
<1>4. s # {}
  BY <1>3, SumNone
<1>5. First(s) \in s
  BY <1>4, FirstIn
<1>6. SumFunctionOnSet(f, s \ {First(s)}) = SumFunctionOnSet(g, s \ {First(s)})
  BY <1>2, <1>3, <1>5
<1> QED BY <1>3, <1>4, <1>5, <1>6, SumFirst

-----------------------------------------------------------------------------
(* Sums of whole functions.                                                *)

\* f has integer values at finitely many arguments.
Summable(f) == IsFiniteSet(DOMAIN f) /\ \A x \in DOMAIN f : f[x] \in Int

LEMMA TotalInt == ASSUME NEW f, Summable(f) PROVE SumFunction(f) \in Int
BY SumInt DEF SumFunction, Summable

LEMMA TotalNone == ASSUME NEW f, DOMAIN f = {} PROVE SumFunction(f) = 0
BY SumNone DEF SumFunction

\* One more argument adds its value.
LEMMA TotalMore ==
  ASSUME NEW f, Summable(f), NEW g, NEW c, c \notin DOMAIN f, DOMAIN g = DOMAIN f \cup {c},
         g[c] \in Int, \A x \in DOMAIN f : g[x] = f[x]
  PROVE  Summable(g) /\ SumFunction(g) = SumFunction(f) + g[c]
<1>1. Summable(g)
  BY FS_AddElement DEF Summable
<1>2. SumFunctionOnSet(g, DOMAIN g) = g[c] + SumFunctionOnSet(g, DOMAIN g \ {c})
  BY <1>1, SumAny DEF Summable
<1>3. DOMAIN g \ {c} = DOMAIN f
  OBVIOUS
<1>4. SumFunctionOnSet(g, DOMAIN f) = SumFunctionOnSet(f, DOMAIN f)
  BY SumSame DEF Summable
<1>5. SumFunction(f) \in Int
  BY TotalInt
<1> QED BY <1>1, <1>2, <1>3, <1>4, <1>5 DEF SumFunction

\* A changed value changes the sum by as much.
LEMMA TotalChange ==
  ASSUME NEW f, Summable(f), NEW g, DOMAIN g = DOMAIN f, NEW c \in DOMAIN f,
         g[c] \in Int, \A x \in DOMAIN f : x # c => g[x] = f[x]
  PROVE  Summable(g) /\ SumFunction(g) = SumFunction(f) - f[c] + g[c]
<1>1. Summable(g)
  BY DEF Summable
<1> DEFINE S == DOMAIN f
<1>2. SumFunctionOnSet(g, S) = g[c] + SumFunctionOnSet(g, S \ {c})
  BY <1>1, SumAny DEF Summable
<1>3. SumFunctionOnSet(f, S) = f[c] + SumFunctionOnSet(f, S \ {c})
  BY SumAny DEF Summable
<1>4. IsFiniteSet(S \ {c})
  BY FS_Subset DEF Summable
<1>5. SumFunctionOnSet(g, S \ {c}) = SumFunctionOnSet(f, S \ {c})
  BY <1>4, SumSame
<1>6. SumFunctionOnSet(f, S \ {c}) \in Int
  BY <1>4, SumInt DEF Summable
<1> QED BY <1>1, <1>2, <1>3, <1>5, <1>6 DEF SumFunction, Summable

\* Values that are all 0 sum to 0.
LEMMA TotalZero ==
  ASSUME NEW f, IsFiniteSet(DOMAIN f), \A x \in DOMAIN f : f[x] = 0
  PROVE  SumFunction(f) = 0
<1> DEFINE U == {s \in SUBSET DOMAIN f : SumFunctionOnSet(f, s) # 0}
<1>1. SUFFICES ASSUME U # {} PROVE FALSE
  BY DEF U, SumFunction
<1>2. PICK s \in U : \A v \in U : v \subseteq s => v = s
  <2>1. U \subseteq SUBSET DOMAIN f
    OBVIOUS
  <2> HIDE DEF U
  <2> QED BY <1>1, <2>1, SmallestSet
<1>3. s \in SUBSET DOMAIN f /\ IsFiniteSet(s) /\ SumFunctionOnSet(f, s) # 0
  BY <1>2, FS_Subset
<1>4. s # {}
  BY <1>3, SumNone
<1>5. First(s) \in s
  BY <1>4, FirstIn
<1>6. SumFunctionOnSet(f, s \ {First(s)}) = 0
  BY <1>2, <1>3, <1>5
<1>7. f[First(s)] = 0
  BY <1>3, <1>5
<1> QED BY <1>3, <1>4, <1>6, <1>7, SumFirst

\* Values of 0 do not count.
LEMMA TotalPart ==
  ASSUME NEW f, Summable(f), NEW g, DOMAIN g \subseteq DOMAIN f,
         \A x \in DOMAIN g : g[x] = f[x], \A x \in DOMAIN f \ DOMAIN g : f[x] = 0
  PROVE  SumFunction(g) = SumFunction(f)
<1> DEFINE D == DOMAIN g
           U == {s \in SUBSET (DOMAIN f \ D) : SumFunctionOnSet(f, D \cup s) # SumFunctionOnSet(f, D)}
<1>0. IsFiniteSet(DOMAIN f) /\ IsFiniteSet(D) /\ IsFiniteSet(DOMAIN f \ D)
  BY FS_Subset DEF Summable
<1>1. U = {}
  <2> SUFFICES ASSUME U # {} PROVE FALSE
    OBVIOUS
  <2>1. PICK s \in U : \A v \in U : v \subseteq s => v = s
    <3>1. U \subseteq SUBSET (DOMAIN f \ D)
      OBVIOUS
    <3> HIDE DEF U
    <3> QED BY <1>0, <3>1, SmallestSet
  <2>2. s \subseteq DOMAIN f \ D /\ SumFunctionOnSet(f, D \cup s) # SumFunctionOnSet(f, D)
    BY <2>1
  <2>3. PICK x \in s : TRUE
    <3>1. s = {} => D \cup s = D
      OBVIOUS
    <3> QED BY <2>2, <3>1
  <2>4. x \notin D /\ x \in DOMAIN f /\ f[x] = 0 /\ (D \cup s) \ {x} = D \cup (s \ {x})
    BY <2>2
  <2>5. IsFiniteSet(D \cup s) /\ \A y \in D \cup s : f[y] \in Int
    <3>1. D \cup s \subseteq DOMAIN f
      BY <2>2
    <3> QED BY <1>0, <3>1, FS_Subset DEF Summable
  <2>6. SumFunctionOnSet(f, D \cup s) = f[x] + SumFunctionOnSet(f, (D \cup s) \ {x})
    BY <2>5, SumAny
  <2>7. SumFunctionOnSet(f, D \cup (s \ {x})) = SumFunctionOnSet(f, D)
    <3> DEFINE v == s \ {x}
    <3>1. v \subseteq s /\ v # s /\ v \in SUBSET (DOMAIN f \ D)
      BY <2>2
    <3> HIDE DEF v
    <3>2. v \notin U
      BY ONLY <2>1, <3>1
    <3>3. SumFunctionOnSet(f, D \cup v) = SumFunctionOnSet(f, D)
      BY <3>1, <3>2
    <3> QED BY <3>3 DEF v
  <2>8. SumFunctionOnSet(f, D) \in Int
    BY <1>0, SumInt DEF Summable
  <2> HIDE DEF D, U
  <2> QED BY ONLY <2>2, <2>4, <2>6, <2>7, <2>8
<1>2. D \cup (DOMAIN f \ D) = DOMAIN f
  OBVIOUS
<1>3. SumFunctionOnSet(f, DOMAIN f) = SumFunctionOnSet(f, D)
  <2> DEFINE Z == DOMAIN f \ D
  <2>1. Z \in SUBSET Z /\ Z \notin U
    BY <1>1
  <2>2. SumFunctionOnSet(f, D \cup Z) = SumFunctionOnSet(f, D)
    BY <2>1
  <2> QED BY <1>2, <2>2
<1>4. SumFunctionOnSet(g, D) = SumFunctionOnSet(f, D)
  BY <1>0, SumSame
<1> QED BY <1>3, <1>4 DEF SumFunction

\* Values that add up sum to what adds up.
LEMMA TotalAdds ==
  ASSUME NEW f, Summable(f), NEW g, Summable(g), DOMAIN g = DOMAIN f,
         NEW h, DOMAIN h = DOMAIN f, \A x \in DOMAIN f : h[x] = f[x] + g[x]
  PROVE  Summable(h) /\ SumFunction(h) = SumFunction(f) + SumFunction(g)
<1> DEFINE Adds(s) == SumFunctionOnSet(h, s) = SumFunctionOnSet(f, s) + SumFunctionOnSet(g, s)
           U == {s \in SUBSET DOMAIN f : ~Adds(s)}
<1>0. Summable(h)
  BY DEF Summable
<1>1. SUFFICES ASSUME U # {} PROVE FALSE
  BY <1>0 DEF U, SumFunction
<1>2. PICK s \in U : \A v \in U : v \subseteq s => v = s
  <2>1. U \subseteq SUBSET DOMAIN f
    OBVIOUS
  <2>2. IsFiniteSet(DOMAIN f)
    BY DEF Summable
  <2> HIDE DEF U
  <2> QED BY <1>1, <2>1, <2>2, SmallestSet
<1>3. s \in SUBSET DOMAIN f /\ IsFiniteSet(s) /\ ~Adds(s)
  BY <1>2, FS_Subset DEF Summable
<1>4. s # {}
  BY <1>3, SumNone
<1> DEFINE c == First(s)
           r == s \ {c}
<1>5. c \in s /\ h[c] = f[c] + g[c] /\ f[c] \in Int /\ g[c] \in Int
  BY <1>3, <1>4, FirstIn DEF Summable
<1>6. Adds(r)
  BY <1>2, <1>3, <1>5
<1>7. SumFunctionOnSet(f, r) \in Int /\ SumFunctionOnSet(g, r) \in Int
  <2>1. IsFiniteSet(r)
    BY <1>3, FS_Subset
  <2> QED BY <1>3, <2>1, SumInt DEF Summable
<1>8. /\ SumFunctionOnSet(h, s) = h[c] + SumFunctionOnSet(h, r)
      /\ SumFunctionOnSet(f, s) = f[c] + SumFunctionOnSet(f, r)
      /\ SumFunctionOnSet(g, s) = g[c] + SumFunctionOnSet(g, r)
  BY <1>3, <1>4, SumFirst
<1>9. SumFunctionOnSet(h, r) = SumFunctionOnSet(f, r) + SumFunctionOnSet(g, r)
  BY <1>6
<1> HIDE DEF c, r
<1>10. Adds(s)
  BY ONLY <1>5, <1>7, <1>8, <1>9
<1> QED BY <1>3, <1>10

\* Values from three parts.
LEMMA TotalParts ==
  ASSUME NEW f, Summable(f), NEW g, Summable(g), DOMAIN g = DOMAIN f,
         NEW h, Summable(h), DOMAIN h = DOMAIN f,
         NEW s, DOMAIN s = DOMAIN f, \A x \in DOMAIN f : s[x] = f[x] + g[x] + h[x]
  PROVE  Summable(s) /\ SumFunction(s) = SumFunction(f) + SumFunction(g) + SumFunction(h)
<1> DEFINE r == [x \in DOMAIN f |-> f[x] + g[x]]
<1>1. DOMAIN r = DOMAIN f /\ \A x \in DOMAIN f : r[x] = f[x] + g[x]
  OBVIOUS
<1> HIDE DEF r
<1>2. Summable(r) /\ SumFunction(r) = SumFunction(f) + SumFunction(g)
  BY <1>1, TotalAdds
<1>3. \A x \in DOMAIN r : s[x] = r[x] + h[x]
  BY <1>1 DEF Summable
<1>4. Summable(s) /\ SumFunction(s) = SumFunction(r) + SumFunction(h)
  BY <1>1, <1>2, <1>3, TotalAdds
<1> QED BY <1>2, <1>4

\* Values of the opposite sign.
LEMMA TotalNegated ==
  ASSUME NEW f, Summable(f), NEW g, DOMAIN g = DOMAIN f, \A x \in DOMAIN f : g[x] = -f[x]
  PROVE  Summable(g) /\ SumFunction(g) = -SumFunction(f)
<1> DEFINE z == [x \in DOMAIN f |-> 0]
<1>1. Summable(g)
  BY DEF Summable
<1>2. SumFunction(z) = 0
  BY TotalZero DEF Summable
<1>3. DOMAIN z = DOMAIN f /\ \A x \in DOMAIN f : z[x] = f[x] + g[x]
  BY DEF Summable
<1> HIDE DEF z
<1>4. SumFunction(z) = SumFunction(f) + SumFunction(g)
  BY <1>1, <1>3, TotalAdds
<1>5. SumFunction(f) \in Int /\ SumFunction(g) \in Int
  BY <1>1, TotalInt
<1> QED BY <1>1, <1>2, <1>4, <1>5

\* One value alone.
LEMMA TotalOne ==
  ASSUME NEW f, Summable(f), NEW c \in DOMAIN f, \A x \in DOMAIN f : x # c => f[x] = 0
  PROVE  SumFunction(f) = f[c]
<1> DEFINE h == [x \in {} |-> 0]
           g == [x \in {c} |-> f[c]]
<1>1. Summable(h) /\ DOMAIN h = {}
  BY FS_EmptySet DEF Summable
<1>2. DOMAIN g = {c} /\ g[c] = f[c] /\ f[c] \in Int
  BY DEF Summable
<1> HIDE DEF g, h
<1>3. SumFunction(h) = 0
  BY <1>1, TotalNone
<1>4. SumFunction(g) = SumFunction(h) + g[c]
  BY <1>1, <1>2, TotalMore
<1>5. SumFunction(g) = SumFunction(f)
  BY <1>2, TotalPart
<1> QED BY <1>2, <1>3, <1>4, <1>5

\* A common factor.
LEMMA TotalScaled ==
  ASSUME NEW f, Summable(f), NEW n \in Int, NEW g, DOMAIN g = DOMAIN f,
         \A x \in DOMAIN f : g[x] = n * f[x]
  PROVE  Summable(g) /\ SumFunction(g) = n * SumFunction(f)
<1> DEFINE U == {s \in SUBSET DOMAIN f : SumFunctionOnSet(g, s) # n * SumFunctionOnSet(f, s)}
<1>1. \A x \in DOMAIN f : f[x] \in Int /\ g[x] \in Int
  BY DEF Summable
<1>2. Summable(g)
  BY <1>1 DEF Summable
<1>3. SUFFICES ASSUME U # {} PROVE FALSE
  BY <1>2 DEF U, SumFunction
<1>4. PICK s \in U : \A v \in U : v \subseteq s => v = s
  <2>1. U \subseteq SUBSET DOMAIN f /\ IsFiniteSet(DOMAIN f)
    BY DEF Summable
  <2> HIDE DEF U
  <2> QED BY <1>3, <2>1, SmallestSet
<1>5. s \in SUBSET DOMAIN f /\ IsFiniteSet(s) /\ SumFunctionOnSet(g, s) # n * SumFunctionOnSet(f, s)
  BY <1>4, FS_Subset DEF Summable
<1>6. s # {}
  BY <1>5, SumNone
<1>7. PICK x \in s : TRUE
  BY <1>6
<1> DEFINE v == s \ {x}
<1>8. v \subseteq s /\ v # s /\ v \in SUBSET DOMAIN f
  BY <1>5
<1>9. SumFunctionOnSet(g, v) = n * SumFunctionOnSet(f, v)
  <2> HIDE DEF v
  <2>1. v \notin U
    BY ONLY <1>4, <1>8
  <2> QED BY <1>8, <2>1
<1>10. /\ SumFunctionOnSet(f, s) = f[x] + SumFunctionOnSet(f, v)
       /\ SumFunctionOnSet(g, s) = g[x] + SumFunctionOnSet(g, v)
  BY <1>1, <1>5, SumAny
<1>11. SumFunctionOnSet(f, v) \in Int
  <2>1. IsFiniteSet(v)
    BY <1>5, <1>8, FS_Subset
  <2> QED BY <1>1, <1>8, <2>1, SumInt
<1>12. f[x] \in Int /\ g[x] = n * f[x]
  BY <1>1, <1>5
<1> HIDE DEF v, U
<1>13. ASSUME NEW a \in Int, NEW b \in Int PROVE n * (a + b) = n * a + n * b
  BY <1>13
<1> QED BY <1>5, <1>9, <1>10, <1>11, <1>12, <1>13

\* Sums of sums, by rows and by columns.
LEMMA TotalSwap ==
  ASSUME NEW A, IsFiniteSet(A), NEW B, IsFiniteSet(B), NEW f, \A a \in A, b \in B : f[a][b] \in Int,
         NEW g, DOMAIN g = A, \A a \in A : g[a] = SumFunction([b \in B |-> f[a][b]]),
         NEW h, DOMAIN h = B, \A b \in B : h[b] = SumFunction([a \in A |-> f[a][b]])
  PROVE  Summable(g) /\ Summable(h) /\ SumFunction(g) = SumFunction(h)
<1> DEFINE Column(b) == [a \in A |-> f[a][b]]
           Row(a) == [b \in B |-> f[a][b]]
           R(s) == [b \in B |-> SumFunctionOnSet(Column(b), s)]
           U == {s \in SUBSET A : SumFunctionOnSet(g, s) # SumFunction(R(s))}
<1>1. \A a \in A : Summable(Row(a)) /\ g[a] = SumFunction(Row(a)) /\ g[a] \in Int
  BY TotalInt DEF Summable
<1>2. \A b \in B : Summable(Column(b)) /\ h[b] = SumFunction(Column(b)) /\ h[b] \in Int
  BY TotalInt DEF Summable
<1>3. Summable(g) /\ Summable(h)
  BY <1>1, <1>2 DEF Summable
<1>4. \A b \in B : h[b] = R(A)[b]
  <2>1. \A b \in B : SumFunction(Column(b)) = SumFunctionOnSet(Column(b), A)
    BY DEF SumFunction
  <2> HIDE DEF Column
  <2> QED BY <1>2, <2>1
<1>5. SumFunction(h) = SumFunction(R(A))
  <2> DEFINE r == R(A)
  <2>1. DOMAIN r = B /\ \A b \in B : h[b] = r[b]
    BY <1>4
  <2> HIDE DEF r
  <2>2. SumFunctionOnSet(h, B) = SumFunctionOnSet(r, B)
    BY <2>1, SumSame
  <2>3. SumFunction(h) = SumFunction(r)
    BY <2>1, <2>2 DEF SumFunction
  <2> QED BY <2>3 DEF r
<1>6. SumFunction(g) = SumFunctionOnSet(g, A)
  BY DEF SumFunction
<1>7. U = {}
  <2> SUFFICES ASSUME U # {} PROVE FALSE
    OBVIOUS
  <2>1. PICK s \in U : \A v \in U : v \subseteq s => v = s
    <3>1. U \subseteq SUBSET A
      OBVIOUS
    <3> HIDE DEF U
    <3> QED BY <3>1, SmallestSet
  <2>2. s \in SUBSET A /\ IsFiniteSet(s) /\ SumFunctionOnSet(g, s) # SumFunction(R(s))
    BY <2>1, FS_Subset
  <2>3. s # {}
    <3> SUFFICES ASSUME s = {} PROVE SumFunctionOnSet(g, s) = SumFunction(R(s))
      BY <2>2
    <3> DEFINE r == R(s)
    <3>1. DOMAIN r = B /\ \A b \in B : r[b] = 0
      BY SumNone
    <3> HIDE DEF r
    <3>2. SumFunction(r) = 0
      BY <3>1, TotalZero
    <3> QED BY <3>2, SumNone DEF r
  <2>4. PICK x \in s : TRUE
    BY <2>3
  <2> DEFINE v == s \ {x}
             r == R(s)
             q == R(v)
             row == Row(x)
  <2>5. v \subseteq s /\ v # s /\ v \in SUBSET A /\ IsFiniteSet(v) /\ x \in A
    BY <2>2, FS_Subset
  <2>6. \A b \in B : /\ SumFunctionOnSet(Column(b), s) = f[x][b] + SumFunctionOnSet(Column(b), v)
                     /\ SumFunctionOnSet(Column(b), v) \in Int
    <3> SUFFICES ASSUME NEW b \in B
                 PROVE  /\ SumFunctionOnSet(Column(b), s) = f[x][b] + SumFunctionOnSet(Column(b), v)
                        /\ SumFunctionOnSet(Column(b), v) \in Int
      OBVIOUS
    <3>1. (\A a \in s : Column(b)[a] \in Int) /\ Column(b)[x] = f[x][b]
      BY <2>2, <2>5
    <3> HIDE DEF Column
    <3>2. SumFunctionOnSet(Column(b), s) = Column(b)[x] + SumFunctionOnSet(Column(b), s \ {x})
      BY <2>2, <3>1, SumAny
    <3>3. SumFunctionOnSet(Column(b), v) \in Int
      <4> HIDE DEF v
      <4> QED BY <2>5, <3>1, SumInt
    <3> QED BY <3>1, <3>2, <3>3
  <2>7. /\ DOMAIN r = B /\ DOMAIN q = B /\ DOMAIN row = B
        /\ \A b \in B : r[b] = row[b] + q[b] /\ q[b] \in Int /\ row[b] \in Int
    BY <2>5, <2>6
  <2> HIDE DEF Column, R
  <2>8. SumFunctionOnSet(g, v) = SumFunction(q)
    <3> HIDE DEF v
    <3>1. v \notin U
      <4> HIDE DEF U
      <4> QED BY ONLY <2>1, <2>5
    <3> QED BY <2>5, <3>1
  <2>9. SumFunctionOnSet(g, s) = g[x] + SumFunctionOnSet(g, v)
    <3>1. \A a \in s : g[a] \in Int
      BY <1>1, <2>2
    <3> HIDE DEF U
    <3> QED BY <2>2, <3>1, SumAny
  <2>10. g[x] = SumFunction(row)
    BY <1>1, <2>5
  <2> HIDE DEF r, q, row, v, U, Row
  <2>11. SumFunction(r) = SumFunction(row) + SumFunction(q)
    <3>1. Summable(row) /\ Summable(q)
      BY <2>7 DEF Summable
    <3> QED BY <2>7, <3>1, TotalAdds
  <2>12. SumFunction(r) = SumFunctionOnSet(g, s)
    BY <2>8, <2>9, <2>10, <2>11
  <2> QED BY <2>2, <2>12 DEF r
<1>8. SumFunctionOnSet(g, A) = SumFunction(R(A))
  <2>1. A \in SUBSET A /\ A \notin U
    BY <1>7
  <2> HIDE DEF R
  <2> QED BY <2>1
<1> QED BY <1>3, <1>5, <1>6, <1>8

\* Values put each in one place, and added up place by place.
LEMMA TotalPlaced ==
  ASSUME NEW A, IsFiniteSet(A), NEW v, Summable(v), NEW at, \A b \in DOMAIN v : at[b] \in A,
         NEW g, DOMAIN g = A,
         \A a \in A : g[a] = SumFunction([b \in DOMAIN v |-> IF at[b] = a THEN v[b] ELSE 0])
  PROVE  Summable(g) /\ SumFunction(g) = SumFunction(v)
<1> DEFINE B == DOMAIN v
           f == [a \in A |-> [b \in B |-> IF at[b] = a THEN v[b] ELSE 0]]
<1>1. \A a \in A, b \in B : f[a][b] = (IF at[b] = a THEN v[b] ELSE 0) /\ f[a][b] \in Int
  BY DEF Summable
<1>2. \A a \in A : g[a] = SumFunction([b \in B |-> f[a][b]])
  <2> SUFFICES ASSUME NEW a \in A PROVE g[a] = SumFunction([b \in B |-> f[a][b]])
    OBVIOUS
  <2>1. [b \in B |-> f[a][b]] = [b \in DOMAIN v |-> IF at[b] = a THEN v[b] ELSE 0]
    BY <1>1
  <2> QED BY <2>1
<1>3. IsFiniteSet(B)
  BY DEF Summable
<1> HIDE DEF f
<1>4. \A b \in B : v[b] = SumFunction([a \in A |-> f[a][b]])
  <2> SUFFICES ASSUME NEW b \in B PROVE v[b] = SumFunction([a \in A |-> f[a][b]])
    OBVIOUS
  <2> DEFINE c == [a \in A |-> f[a][b]]
  <2>1. DOMAIN c = A /\ \A a \in A : c[a] = (IF at[b] = a THEN v[b] ELSE 0) /\ c[a] \in Int
    BY <1>1
  <2>2. at[b] \in A
    OBVIOUS
  <2> HIDE DEF c
  <2>3. SumFunction(c) = c[at[b]]
    BY <2>1, <2>2, TotalOne DEF Summable
  <2> QED BY <2>1, <2>2, <2>3 DEF c
<1>5. DOMAIN v = B /\ \A a \in A, b \in B : f[a][b] \in Int
  BY <1>1
<1> HIDE DEF B
<1>6. Summable(g) /\ Summable(v) /\ SumFunction(g) = SumFunction(v)
  BY <1>2, <1>3, <1>4, <1>5, TotalSwap
<1> QED BY <1>6

\* The arguments may be renamed.
LEMMA SumMoved ==
  ASSUME NEW f, NEW h, NEW b, NEW S, IsFiniteSet(S),
         \A x \in S : f[b[x]] = h[x] /\ h[x] \in Int,
         \A x, y \in S : b[x] = b[y] => x = y
  PROVE  SumFunctionOnSet(f, {b[x] : x \in S}) = SumFunctionOnSet(h, S)
<1> DEFINE To(s) == {b[x] : x \in s}
           U == {s \in SUBSET S : SumFunctionOnSet(f, To(s)) # SumFunctionOnSet(h, s)}
<1>1. SUFFICES ASSUME U # {} PROVE FALSE
  BY DEF U
<1>2. PICK s \in U : \A v \in U : v \subseteq s => v = s
  <2>1. U \subseteq SUBSET S
    OBVIOUS
  <2> HIDE DEF U
  <2> QED BY <1>1, <2>1, SmallestSet
<1> DEFINE c == First(s)
           r == s \ {c}
<1>3. s \in SUBSET S /\ IsFiniteSet(s) /\ SumFunctionOnSet(f, To(s)) # SumFunctionOnSet(h, s)
  BY <1>2, FS_Subset
<1>4. s # {}
  <2>1. To({}) = {}
    OBVIOUS
  <2> HIDE DEF To
  <2> QED BY <1>3, <2>1, SumNone
<1>5. c \in s
  BY <1>4, FirstIn
<1>6. SumFunctionOnSet(f, To(r)) = SumFunctionOnSet(h, r)
  BY <1>2, <1>3, <1>5
<1>7. To(s) \ {b[c]} = To(r) /\ b[c] \in To(s)
  BY <1>3, <1>5
<1>8. IsFiniteSet(To(s)) /\ \A y \in To(s) : f[y] \in Int
  <2>1. IsFiniteSet(To(s))
    <3>1. [x \in s |-> b[x]] \in Surjection(s, To(s))
      BY DEF Surjection
    <3> QED BY <1>3, <3>1, FS_Surjection
  <2> QED BY <1>3, <2>1
<1>9. SumFunctionOnSet(f, To(s)) = f[b[c]] + SumFunctionOnSet(f, To(s) \ {b[c]})
  <2> HIDE DEF To, c
  <2> QED BY <1>7, <1>8, SumAny
<1>10. SumFunctionOnSet(h, s) = h[c] + SumFunctionOnSet(h, r)
  BY <1>3, <1>4, SumFirst
<1>11. f[b[c]] = h[c]
  BY <1>3, <1>5
<1> HIDE DEF To, c, r
<1> QED BY <1>3, <1>6, <1>7, <1>9, <1>10, <1>11

-----------------------------------------------------------------------------
(* Sums of what is numbered from 1.                                        *)

LEMMA SumLast ==
  ASSUME NEW f, NEW n \in Nat, NEW m, m = n + 1, \A k \in 1..m : f[k] \in Int
  PROVE  /\ SumFunctionOnSet(f, 1..m) = SumFunctionOnSet(f, 1..n) + f[m]
         /\ SumFunctionOnSet(f, 1..n) \in Int
<1>1. IsFiniteSet(1..m) /\ IsFiniteSet(1..n)
  BY FS_Interval
<1>2. m \in 1..m /\ f[m] \in Int
  OBVIOUS
<1>3. (1..m) \ {m} = 1..n
  OBVIOUS
<1>4. SumFunctionOnSet(f, 1..m) = f[m] + SumFunctionOnSet(f, (1..m) \ {m})
  BY <1>1, <1>2, SumAny
<1>5. SumFunctionOnSet(f, 1..n) \in Int
  <2>1. \A k \in 1..n : f[k] \in Int
    OBVIOUS
  <2> QED BY <1>1, <2>1, SumInt
<1>6. SumFunctionOnSet(f, 1..m) = f[m] + SumFunctionOnSet(f, 1..n)
  BY <1>3, <1>4, Zenon
<1> QED BY <1>2, <1>5, <1>6

\* One value, and the others under other names.
LEMMA TotalMoved ==
  ASSUME NEW f, Summable(f), NEW c \in DOMAIN f, NEW h, IsFiniteSet(DOMAIN h), NEW b,
         \A x \in DOMAIN h : b[x] \in DOMAIN f /\ b[x] # c,
         \A y \in DOMAIN f : y # c => \E x \in DOMAIN h : b[x] = y,
         \A x \in DOMAIN h : f[b[x]] = h[x],
         \A x, y \in DOMAIN h : b[x] = b[y] => x = y
  PROVE  Summable(h) /\ SumFunction(f) = f[c] + SumFunction(h)
<1>1. \A x \in DOMAIN h : f[b[x]] = h[x] /\ h[x] \in Int
  BY DEF Summable
<1>2. SumFunctionOnSet(f, DOMAIN f) = f[c] + SumFunctionOnSet(f, DOMAIN f \ {c})
  BY SumAny DEF Summable
<1>3. SumFunctionOnSet(f, {b[x] : x \in DOMAIN h}) = SumFunctionOnSet(h, DOMAIN h)
  BY <1>1, SumMoved
<1>4. DOMAIN f \ {c} = {b[x] : x \in DOMAIN h}
  OBVIOUS
<1>5. Summable(h)
  BY <1>1 DEF Summable
<1> QED BY <1>2, <1>3, <1>4, <1>5, Zenon DEF SumFunction

\* The first value and the others, which move up one place.
LEMMA TotalTail ==
  ASSUME NEW n \in Nat, NEW f, DOMAIN f = 1..(n + 1), \A k \in 1..(n + 1) : f[k] \in Int,
         NEW h, DOMAIN h = 1..n, \A k \in 1..n : h[k] = f[k + 1]
  PROVE  Summable(f) /\ Summable(h) /\ SumFunction(f) = f[1] + SumFunction(h)
<1>0. PICK b : b = [k \in 1..n |-> k + 1]
  OBVIOUS
<1>1. IsFiniteSet(1..(n + 1)) /\ IsFiniteSet(1..n)
  BY FS_Interval
<1>2. IsFiniteSet(DOMAIN f) /\ IsFiniteSet(DOMAIN h)
  BY <1>1, Zenon
<1>3. Summable(f) /\ 1 \in DOMAIN f
  BY <1>2 DEF Summable
<1>4. \A k \in DOMAIN h : b[k] \in DOMAIN f /\ b[k] # 1 /\ f[b[k]] = h[k]
  BY <1>0
<1>5. \A y \in DOMAIN f : y # 1 => \E k \in DOMAIN h : b[k] = y
  <2> SUFFICES ASSUME NEW y \in DOMAIN f, y # 1 PROVE \E k \in DOMAIN h : b[k] = y
    OBVIOUS
  <2>1. y - 1 \in DOMAIN h /\ b[y - 1] = y
    BY <1>0
  <2> QED BY <2>1
<1>6. \A j, k \in DOMAIN h : b[j] = b[k] => j = k
  BY <1>0
<1> QED BY ONLY <1>2, <1>3, <1>4, <1>5, <1>6, TotalMoved

LEMMA TotalTwo ==
  ASSUME NEW f, DOMAIN f = 1..2, f[1] \in Int, f[2] \in Int
  PROVE  Summable(f) /\ SumFunction(f) = f[1] + f[2]
<1> DEFINE S(n) == SumFunctionOnSet(f, 1..n)
<1>1. \A k \in 1..2 : f[k] \in Int
  OBVIOUS
<1>2. \A k \in 1..1 : f[k] \in Int
  OBVIOUS
<1>3. S(1) = S(0) + f[1] /\ S(2) = S(1) + f[2] /\ S(0) \in Int
  <2>1. 0 \in Nat /\ 1 \in Nat /\ 1 = 0 + 1 /\ 2 = 1 + 1
    OBVIOUS
  <2> QED BY <1>1, <1>2, <2>1, SumLast, Zenon
<1>4. S(0) = 0
  BY SumNone
<1>5. Summable(f)
  <2>1. DOMAIN f = 1..2 /\ 1 \in Int /\ 2 \in Int
    OBVIOUS
  <2>2. IsFiniteSet(DOMAIN f)
    BY <2>1, FS_Interval, Zenon
  <2> QED BY <1>1, <2>2 DEF Summable
<1>6. SumFunction(f) = S(2)
  BY DEF SumFunction
<1> HIDE DEF S
<1> QED BY <1>3, <1>4, <1>5, <1>6

LEMMA TotalThree ==
  ASSUME NEW f, DOMAIN f = 1..3, f[1] \in Int, f[2] \in Int, f[3] \in Int
  PROVE  Summable(f) /\ SumFunction(f) = f[1] + f[2] + f[3]
<1> DEFINE S(n) == SumFunctionOnSet(f, 1..n)
<1>1. \A k \in 1..3 : f[k] \in Int
  OBVIOUS
<1>2. \A m \in 1..3 : \A k \in 1..m : f[k] \in Int
  BY <1>1
<1>3. S(1) = S(0) + f[1] /\ S(2) = S(1) + f[2] /\ S(3) = S(2) + f[3]
  <2>1. 0 \in Nat /\ 1 \in Nat /\ 2 \in Nat /\ 1 = 0 + 1 /\ 2 = 1 + 1 /\ 3 = 2 + 1
    OBVIOUS
  <2>2. 1 \in 1..3 /\ 2 \in 1..3 /\ 3 \in 1..3
    OBVIOUS
  <2> QED BY <1>2, <2>1, <2>2, SumLast, Zenon
<1>4. S(0) = 0
  BY SumNone
<1>5. Summable(f)
  <2>1. DOMAIN f = 1..3 /\ 1 \in Int /\ 3 \in Int
    OBVIOUS
  <2>2. IsFiniteSet(DOMAIN f)
    BY <2>1, FS_Interval, Zenon
  <2> QED BY <1>1, <2>2 DEF Summable
<1>6. SumFunction(f) = S(3)
  BY DEF SumFunction
<1> HIDE DEF S
<1> QED BY <1>3, <1>4, <1>5, <1>6

\* Four values and three more, as a match's statements come.
LEMMA TotalSeven ==
  ASSUME NEW f, DOMAIN f = 1..7, \A k \in 1..7 : f[k] \in Int
  PROVE  /\ Summable(f)
         /\ SumFunction(f) = f[1] + f[2] + f[3] + f[4] + f[5] + f[6] + f[7]
<1> DEFINE S(n) == SumFunctionOnSet(f, 1..n)
<1>1. \A m \in 1..7 : \A k \in 1..m : f[k] \in Int
  OBVIOUS
<1>2. /\ S(1) = S(0) + f[1] /\ S(2) = S(1) + f[2] /\ S(3) = S(2) + f[3]
      /\ S(4) = S(3) + f[4] /\ S(5) = S(4) + f[5] /\ S(6) = S(5) + f[6]
      /\ S(7) = S(6) + f[7]
  <2>1. \A n \in 0..6 : n \in Nat /\ n + 1 \in 1..7
    OBVIOUS
  <2>2. \A n \in 0..6 : S(n + 1) = S(n) + f[n + 1]
    BY <1>1, <2>1, SumLast, Zenon
  <2> HIDE DEF S
  <2> QED BY <2>2
<1>3. S(0) = 0
  BY SumNone
<1>4. Summable(f)
  <2>1. DOMAIN f = 1..7 /\ 1 \in Int /\ 7 \in Int
    OBVIOUS
  <2>2. IsFiniteSet(DOMAIN f)
    BY <2>1, FS_Interval, Zenon
  <2> QED BY <2>2 DEF Summable
<1>5. SumFunction(f) = S(7)
  BY DEF SumFunction
<1> HIDE DEF S
<1> QED BY <1>2, <1>3, <1>4, <1>5
=============================================================================
