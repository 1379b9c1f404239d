------------------------------- MODULE Lemmas -------------------------------
(***************************************************************************)
(* What the proofs of several modules rest on: rings told apart by their   *)
(* cursors, least numbers, and sums.                                       *)
(*                                                                         *)
(* A sum is a function defined by recursion over the subsets of a set, and *)
(* that there is one has to be shown.  No prover at hand takes an          *)
(* induction theorem, whose parameter is an operator; but a set of subsets *)
(* of a finite set has a least member, and what is wrong of none of its    *)
(* own subsets is wrong of none.                                           *)
(***************************************************************************)
EXTENDS Integers, Functions, FiniteSetTheorems, WellFoundedInduction, TLAPS

-----------------------------------------------------------------------------
\* Rings.

\* What a remainder may be.
LEMMA ModRange ==
  ASSUME NEW n \in Nat \ {0}, NEW a \in Int
  PROVE  a % n \in 0 .. n - 1
OBVIOUS

\* What a remainder is.
LEMMA ModDef ==
  ASSUME NEW n \in Nat \ {0}, NEW a \in Int
  PROVE  a = n * (a \div n) + (a % n) /\ a \div n \in Int
OBVIOUS

\* The only multiple of a number that is smaller than it is zero.
LEMMA NoSmallMultiple ==
  ASSUME NEW n \in Nat \ {0}, NEW q \in Int, -n < n * q, n * q < n
  PROVE  q = 0
<1>1. CASE q >= 1
  <2>1. n * q >= n * 1
    BY <1>1
  <2> QED BY <2>1
<1>2. CASE q <= -1
  <2>1. n * q <= n * (-1)
    BY <1>2
  <2> QED BY <2>1
<1> QED BY <1>1, <1>2

\* Two cursors less than a ring apart that fall in one slot are one.
LEMMA ModApart ==
  ASSUME NEW n \in Nat \ {0}, NEW a \in Int, NEW b \in Int, a - b < n, b - a < n, a % n = b % n
  PROVE  a = b
<1> DEFINE q == (a \div n) - (b \div n)
<1>1. /\ a = n * (a \div n) + (a % n) /\ a \div n \in Int
      /\ b = n * (b \div n) + (b % n) /\ b \div n \in Int
  BY ModDef
<1>2. q \in Int /\ n * q = n * (a \div n) - n * (b \div n)
  BY <1>1
<1>3. n * q = a - b
  BY <1>1, <1>2
<1>4. q = 0
  <2> HIDE DEF q
  <2> QED BY <1>2, <1>3, NoSmallMultiple
<1> QED BY <1>3, <1>4

\* A cursor and the one a round later fall in one slot.
LEMMA ModRound ==
  ASSUME NEW n \in Nat \ {0}, NEW a \in Int
  PROVE  (a + n) % n = a % n
<1> DEFINE b == a + n
           q == (b \div n) - (a \div n) - 1
<1>1. /\ a = n * (a \div n) + (a % n) /\ a \div n \in Int /\ a % n \in 0 .. n - 1
      /\ b = n * (b \div n) + (b % n) /\ b \div n \in Int /\ b % n \in 0 .. n - 1
  <2>1. b \in Int
    OBVIOUS
  <2> HIDE DEF b
  <2> QED BY <2>1, ModDef, ModRange
<1>2. q \in Int /\ n * q = n * (b \div n) - n * (a \div n) - n
  BY <1>1
<1>3. n * q = (a % n) - (b % n)
  <2>1. b = a + n
    OBVIOUS
  <2> HIDE DEF b, q
  <2>2. n * (a \div n) \in Int /\ n * (b \div n) \in Int
    BY <1>1
  <2> QED BY <1>1, <1>2, <2>1, <2>2
<1>4. q = 0
  <2> HIDE DEF q, b
  <2>1. -n < n * q /\ n * q < n
    <3> PICK m : m = n * q
      OBVIOUS
    <3>1. -n < m /\ m < n
      BY <1>1, <1>3
    <3> QED BY <3>1
  <2> QED BY <1>2, <2>1, NoSmallMultiple
<1>5. n * q = 0
  BY <1>4
<1> HIDE DEF q
<1>6. a % n = b % n
  <2> HIDE DEF b
  <2> QED BY <1>1, <1>3, <1>5
<1> QED BY <1>6

\* What is written at cursor a leaves alone what was written less than a ring away.
LEMMA RingApart ==
  ASSUME NEW n \in Nat \ {0}, NEW a \in Nat, NEW c \in Nat, c # a, a - c < n, c - a < n
  PROVE  a % n \in 0 .. n - 1 /\ c % n \in 0 .. n - 1 /\ a % n # c % n
<1>1. a \in Int /\ c \in Int
  OBVIOUS
<1>2. a % n \in 0 .. n - 1 /\ c % n \in 0 .. n - 1
  BY <1>1, ModRange
<1>3. a % n # c % n
  BY <1>1, ModApart
<1> QED BY <1>2, <1>3

-----------------------------------------------------------------------------
\* Least numbers.

\* A set of numbers has a least one.
LEMMA LeastOf ==
  ASSUME NEW S \in SUBSET Nat, S # {}
  PROVE  \E n \in S : \A m \in S : n <= m
<1> DEFINE R == OpToRel(<, Nat)
<1>1. IsWellFoundedOn(R, Nat)
  BY NatLessThanWellFounded, Zenon
<1>2. \A x, y \in S : y < x => <<y, x>> \in R
  BY Zenon DEF OpToRel
<1> HIDE DEF R
<1>3. \E x \in S : \A y \in S : ~ (<<y, x>> \in R)
  BY <1>1, WFMin
<1>4. \E x \in S : \A y \in S : ~ (y < x)
  BY <1>2, <1>3, Zenon
<1> QED BY <1>4

\* A set of numbers with a bound has a greatest one.
LEMMA GreatestOf ==
  ASSUME NEW S \in SUBSET Nat, NEW b \in Nat, S # {}, \A n \in S : n <= b
  PROVE  \E n \in S : \A m \in S : m <= n
<1> DEFINE T == {m \in Nat : \E n \in S : m = b - n}
<1>1. T \in SUBSET Nat /\ T # {}
  <2>1. PICK n \in S : TRUE
    OBVIOUS
  <2>2. b - n \in T
    BY <2>1
  <2> QED BY <2>2
<1>2. PICK t \in T : \A u \in T : t <= u
  BY <1>1, LeastOf
<1>3. PICK n \in S : t = b - n
  BY <1>2
<1>4. \A m \in S : t <= b - m
  BY <1>2
<1> QED BY <1>3, <1>4

-----------------------------------------------------------------------------
\* Finite sets.

\* What a finite set is mapped to is finite.
LEMMA FiniteImage ==
  ASSUME NEW f, IsFiniteSet(DOMAIN f)
  PROVE  IsFiniteSet({f[x] : x \in DOMAIN f})
<1>1. PICK T : T = {f[x] : x \in DOMAIN f}
  OBVIOUS
<1>2. PICK g : g = [x \in DOMAIN f |-> f[x]]
  OBVIOUS
<1>3. g \in Surjection(DOMAIN f, T)
  BY <1>1, <1>2 DEF Surjection
<1> QED BY <1>1, <1>3, FS_Surjection

-----------------------------------------------------------------------------
\* Sums.

Pick(s) == CHOOSE x \in s : TRUE

Sums(f, S, g) ==
  g = [s \in SUBSET S |-> IF s = {} THEN 0 ELSE f[Pick(s)] + g[s \ {Pick(s)}]]

\* A sum of the community module, unfolded once.
LEMMA SumIs ==
  ASSUME NEW f, NEW S
  PROVE  SumFunctionOnSet(f, S) = (CHOOSE g : Sums(f, S, g))[S]
BY Zenon DEF SumFunctionOnSet, FoldFunctionOnSet, MapThenFoldSet, Sums, Pick

\* A set of subsets of a finite set has a least one.
LEMMA Least ==
  ASSUME NEW S, IsFiniteSet(S), NEW T \in SUBSET SUBSET S, T # {}
  PROVE  \E U \in T : \A V \in T : V \subseteq U => V = U
<1>1. IsWellFoundedOn(StrictSubsetOrdering(S), SUBSET S)
  BY FS_StrictSubsetOrderingWellFounded, FS_FiniteSubsetsOfFinite
<1>2. PICK U \in T : \A V \in T : ~(<<V, U>> \in StrictSubsetOrdering(S))
  BY <1>1, WFMin
<1>3. ASSUME NEW V \in T, V \subseteq U PROVE V = U
  BY <1>2, <1>3 DEF StrictSubsetOrdering
<1> QED
  BY <1>3

\* What is picked is there.
LEMMA PickIn == ASSUME NEW s, s # {} PROVE Pick(s) \in s
BY DEF Pick

\* Two that add up agree on the sets they share.
LEMMA SumsAgree ==
  ASSUME NEW f, NEW S, NEW T, IsFiniteSet(S), NEW g, NEW h, Sums(f, S, g), Sums(f, T, h),
         NEW W \in SUBSET S, W \subseteq T
  PROVE  g[W] = h[W]
<1> DEFINE Bad == {U \in SUBSET W : g[U] # h[U]}
<1> SUFFICES ASSUME Bad # {} PROVE FALSE
  OBVIOUS
<1>1. IsFiniteSet(W)
  BY FS_Subset
<1>0. Bad \in SUBSET SUBSET W /\ Bad # {}
  OBVIOUS
<1>2. PICK U \in Bad : \A V \in Bad : V \subseteq U => V = U
  <2> HIDE DEF Bad
  <2> QED
    BY <1>0, <1>1, Least
<1>3. U \in SUBSET S /\ U \in SUBSET T
  OBVIOUS
<1>4. g[U] = IF U = {} THEN 0 ELSE f[Pick(U)] + g[U \ {Pick(U)}]
  BY <1>3 DEF Sums
<1>5. h[U] = IF U = {} THEN 0 ELSE f[Pick(U)] + h[U \ {Pick(U)}]
  BY <1>3 DEF Sums
<1>6. U # {}
  BY <1>4, <1>5
<1>7. Pick(U) \in U
  BY <1>6, PickIn
<1>8. U \ {Pick(U)} \notin Bad
  BY <1>2, <1>7
<1>9. g[U \ {Pick(U)}] = h[U \ {Pick(U)}]
  BY <1>2, <1>8
<1> QED
  BY <1>2, <1>4, <1>5, <1>6, <1>9

\* Something adds up.
LEMMA SumsExist ==
  ASSUME NEW f, NEW S, IsFiniteSet(S)
  PROVE  \E g : Sums(f, S, g)
<1> DEFINE Bad == {U \in SUBSET S : ~ \E g : Sums(f, U, g)}
<1> SUFFICES ASSUME Bad # {} PROVE FALSE
  OBVIOUS
<1>0. Bad \in SUBSET SUBSET S /\ Bad # {}
  OBVIOUS
<1>1. PICK U \in Bad : \A V \in Bad : V \subseteq U => V = U
  <2> HIDE DEF Bad
  <2> QED
    BY <1>0, Least
<1>2. IsFiniteSet(U)
  BY FS_Subset
<1> DEFINE Sub(V) == CHOOSE g : Sums(f, V, g)
<1>3. ASSUME NEW V \in SUBSET U, V # U PROVE Sums(f, V, Sub(V))
  BY <1>1, <1>3
<1> DEFINE all == [s \in SUBSET U |-> IF s = {} THEN 0
                                      ELSE f[Pick(s)] + Sub(s \ {Pick(s)})[s \ {Pick(s)}]]
<1> HIDE DEF Sub
<1>4. ASSUME NEW s \in SUBSET U, s # {}
      PROVE  Sub(s \ {Pick(s)})[s \ {Pick(s)}] = all[s \ {Pick(s)}]
  <2> DEFINE V == s \ {Pick(s)}
  <2>1. Pick(s) \in s
    BY <1>4, PickIn
  <2>2. V \in SUBSET U /\ V # U
    BY <2>1
  <2>3. Sums(f, V, Sub(V))
    BY <1>3, <2>2
  <2>4. Sub(V)[V] = IF V = {} THEN 0 ELSE f[Pick(V)] + Sub(V)[V \ {Pick(V)}]
    <3> HIDE DEF V
    <3> V \in SUBSET V
      OBVIOUS
    <3> QED
      BY <2>3 DEF Sums
  <2>5. all[V] = IF V = {} THEN 0 ELSE f[Pick(V)] + Sub(V \ {Pick(V)})[V \ {Pick(V)}]
    <3> HIDE DEF V
    <3> QED
      BY <2>2
  <2>6. CASE V # {}
    <3> DEFINE X == V \ {Pick(V)}
    <3>1. X \in SUBSET V /\ X \subseteq X /\ X \in SUBSET U /\ X # U
      BY <2>2, <2>6, PickIn
    <3>2. Sums(f, X, Sub(X))
      BY <1>3, <3>1
    <3>3. IsFiniteSet(V)
      BY <1>2, <2>2, FS_Subset
    <3> HIDE DEF V, X
    <3>4. Sub(V)[X] = Sub(X)[X]
      BY <2>3, <3>1, <3>2, <3>3, SumsAgree
    <3>5. Sub(V)[V] = f[Pick(V)] + Sub(V)[X] /\ all[V] = f[Pick(V)] + Sub(X)[X]
      BY <2>4, <2>5, <2>6 DEF X
    <3>6. Sub(V)[V] = all[V]
      BY <3>4, <3>5
    <3> QED
      BY <3>6 DEF V
  <2>7. CASE V = {}
    BY <2>4, <2>5, <2>7
  <2> QED
    BY <2>6, <2>7
<1>5. Sums(f, U, all)
  <2>1. all = [s \in SUBSET U |-> IF s = {} THEN 0 ELSE f[Pick(s)] + all[s \ {Pick(s)}]]
    <3> HIDE DEF all
    <3> SUFFICES ASSUME NEW s \in SUBSET U
                 PROVE  all[s] = IF s = {} THEN 0 ELSE f[Pick(s)] + all[s \ {Pick(s)}]
      BY DEF all
    <3> all[s] = IF s = {} THEN 0 ELSE f[Pick(s)] + Sub(s \ {Pick(s)})[s \ {Pick(s)}]
      BY DEF all
    <3> QED
      BY <1>4
  <2> QED
    BY <2>1 DEF Sums
<1> QED
  BY <1>1, <1>5

\* A sum is what is picked and the sum of the rest.
LEMMA SumPick ==
  ASSUME NEW f, NEW S, IsFiniteSet(S)
  PROVE  SumFunctionOnSet(f, S)
           = IF S = {} THEN 0 ELSE f[Pick(S)] + SumFunctionOnSet(f, S \ {Pick(S)})
<1> DEFINE G(T) == CHOOSE g : Sums(f, T, g)
<1>1. \A T : IsFiniteSet(T) => Sums(f, T, G(T))
  BY SumsExist
<1>2. \A T : SumFunctionOnSet(f, T) = G(T)[T]
  BY SumIs
<1> HIDE DEF G
<1>3. G(S)[S] = IF S = {} THEN 0 ELSE f[Pick(S)] + G(S)[S \ {Pick(S)}]
  <2>1. Sums(f, S, G(S)) /\ S \in SUBSET S
    BY <1>1
  <2> QED
    BY <2>1 DEF Sums
<1>4. CASE S # {}
  <2> DEFINE T == S \ {Pick(S)}
  <2>1. IsFiniteSet(T) /\ T \in SUBSET S /\ T \subseteq T
    BY FS_Subset
  <2>2. Sums(f, S, G(S)) /\ Sums(f, T, G(T))
    BY <1>1, <2>1
  <2> HIDE DEF T
  <2>3. G(S)[T] = G(T)[T]
    BY <2>1, <2>2, SumsAgree
  <2>4. SumFunctionOnSet(f, S) = f[Pick(S)] + G(S)[T]
    BY <1>2, <1>3, <1>4 DEF T
  <2>5. SumFunctionOnSet(f, S) = f[Pick(S)] + SumFunctionOnSet(f, T)
    BY <1>2, <2>3, <2>4
  <2> QED
    BY <1>4, <2>5 DEF T
<1>5. CASE S = {}
  BY <1>2, <1>3, <1>5
<1> QED
  BY <1>4, <1>5

\* Nothing sums to zero.
LEMMA SumEmpty == \A f : SumFunctionOnSet(f, {}) = 0
BY SumPick, FS_EmptySet

\* A sum of numbers is a number.
LEMMA SumType ==
  ASSUME NEW f, NEW S, IsFiniteSet(S), \A x \in S : f[x] \in Nat
  PROVE  SumFunctionOnSet(f, S) \in Nat
<1> DEFINE Bad == {U \in SUBSET S : SumFunctionOnSet(f, U) \notin Nat}
<1> SUFFICES ASSUME Bad # {} PROVE FALSE
  OBVIOUS
<1>0. Bad \in SUBSET SUBSET S /\ Bad # {}
  OBVIOUS
<1>1. PICK U \in Bad : \A V \in Bad : V \subseteq U => V = U
  <2> HIDE DEF Bad
  <2> QED
    BY <1>0, Least
<1>2. IsFiniteSet(U)
  BY FS_Subset
<1>3. CASE U = {}
  BY <1>3, SumEmpty
<1>4. CASE U # {}
  <2> DEFINE V == U \ {Pick(U)}
  <2>1. Pick(U) \in U /\ V \in SUBSET S /\ V # U /\ V \subseteq U
    BY <1>4, PickIn
  <2>2. SumFunctionOnSet(f, V) \in Nat
    BY <1>1, <2>1
  <2>3. SumFunctionOnSet(f, U) = f[Pick(U)] + SumFunctionOnSet(f, V)
    BY <1>2, <1>4, SumPick
  <2>4. f[Pick(U)] \in Nat
    BY <2>1
  <2> QED
    BY <2>2, <2>3, <2>4
<1> QED
  BY <1>3, <1>4

\* Whichever is taken out.
LEMMA SumTake ==
  ASSUME NEW f, NEW S, IsFiniteSet(S), \A x \in S : f[x] \in Nat, NEW x \in S
  PROVE  SumFunctionOnSet(f, S) = f[x] + SumFunctionOnSet(f, S \ {x})
<1> DEFINE Bad == {U \in SUBSET S : \E y \in U :
                     SumFunctionOnSet(f, U) # f[y] + SumFunctionOnSet(f, U \ {y})}
<1> SUFFICES ASSUME Bad # {} PROVE FALSE
  OBVIOUS
<1>0. Bad \in SUBSET SUBSET S /\ Bad # {}
  OBVIOUS
<1>1. PICK U \in Bad : \A V \in Bad : V \subseteq U => V = U
  <2> HIDE DEF Bad
  <2> QED
    BY <1>0, Least
<1>2. PICK y \in U : SumFunctionOnSet(f, U) # f[y] + SumFunctionOnSet(f, U \ {y})
  OBVIOUS
<1>3. IsFiniteSet(U) /\ U \in SUBSET S /\ U # {}
  BY FS_Subset
<1>4. PICK p : p = Pick(U)
  OBVIOUS
<1>5. p \in U /\ SumFunctionOnSet(f, U) = f[p] + SumFunctionOnSet(f, U \ {p})
  BY <1>3, <1>4, PickIn, SumPick
<1>6. p # y
  BY <1>2, <1>5
<1>7. U \ {p} \notin Bad /\ U \ {y} \notin Bad
  BY <1>1, <1>5
<1>8. /\ SumFunctionOnSet(f, U \ {p}) = f[y] + SumFunctionOnSet(f, (U \ {p}) \ {y})
      /\ SumFunctionOnSet(f, U \ {y}) = f[p] + SumFunctionOnSet(f, (U \ {y}) \ {p})
  BY <1>3, <1>5, <1>6, <1>7
<1>9. PICK rest : rest = (U \ {p}) \ {y}
  OBVIOUS
<1>10. rest = (U \ {y}) \ {p} /\ IsFiniteSet(rest) /\ \A z \in rest : f[z] \in Nat
  BY <1>3, <1>9, FS_Subset
<1>11. SumFunctionOnSet(f, rest) \in Nat
  BY <1>10, SumType
<1>12. f[p] \in Nat /\ f[y] \in Nat
  BY <1>3, <1>5
<1> QED
  BY <1>2, <1>5, <1>8, <1>9, <1>10, <1>11, <1>12

\* One term more.
LEMMA SumAdd ==
  ASSUME NEW f, NEW S, IsFiniteSet(S), NEW x, x \notin S, \A y \in S \cup {x} : f[y] \in Nat
  PROVE  SumFunctionOnSet(f, S \cup {x}) = SumFunctionOnSet(f, S) + f[x]
<1>1. IsFiniteSet(S \cup {x}) /\ (S \cup {x}) \ {x} = S
  BY FS_AddElement
<1>2. SumFunctionOnSet(f, S \cup {x}) = f[x] + SumFunctionOnSet(f, S)
  <2>1. PICK T : T = S \cup {x}
    OBVIOUS
  <2>2. IsFiniteSet(T) /\ x \in T /\ T \ {x} = S /\ \A y \in T : f[y] \in Nat
    BY <1>1, <2>1
  <2>3. SumFunctionOnSet(f, T) = f[x] + SumFunctionOnSet(f, S)
    BY <2>2, SumTake
  <2> QED
    BY <2>1, <2>3
<1>3. SumFunctionOnSet(f, S) \in Nat /\ f[x] \in Nat
  BY SumType
<1> QED
  BY <1>2, <1>3

\* A sum over one thing.
LEMMA SumOne ==
  ASSUME NEW f, NEW x, f[x] \in Nat
  PROVE  SumFunctionOnSet(f, {x}) = f[x]
<1>1. PICK S : S = {x}
  OBVIOUS
<1>2. IsFiniteSet(S) /\ x \in S /\ S \ {x} = {} /\ \A y \in S : f[y] \in Nat
  BY <1>1, FS_Singleton
<1>3. SumFunctionOnSet(f, S) = f[x] + SumFunctionOnSet(f, S \ {x})
  BY <1>2, SumTake
<1> QED BY <1>1, <1>2, <1>3, SumEmpty

\* Sums of what is the same are the same.
LEMMA SumSame ==
  ASSUME NEW f, NEW g, NEW S, IsFiniteSet(S), \A x \in S : f[x] = g[x]
  PROVE  SumFunctionOnSet(f, S) = SumFunctionOnSet(g, S)
<1> DEFINE Bad == {U \in SUBSET S : SumFunctionOnSet(f, U) # SumFunctionOnSet(g, U)}
<1> SUFFICES ASSUME Bad # {} PROVE FALSE
  OBVIOUS
<1>0. Bad \in SUBSET SUBSET S /\ Bad # {}
  OBVIOUS
<1>1. PICK U \in Bad : \A V \in Bad : V \subseteq U => V = U
  <2> HIDE DEF Bad
  <2> QED
    BY <1>0, Least
<1>2. IsFiniteSet(U)
  BY FS_Subset
<1>3. CASE U = {}
  BY <1>3, SumEmpty
<1>4. CASE U # {}
  <2>1. PICK p : p = Pick(U)
    OBVIOUS
  <2>2. p \in U /\ U \ {p} \notin Bad
    BY <1>1, <1>4, <2>1, PickIn
  <2>3. SumFunctionOnSet(f, U \ {p}) = SumFunctionOnSet(g, U \ {p}) /\ f[p] = g[p]
    BY <2>2
  <2>4. /\ SumFunctionOnSet(f, U) = f[p] + SumFunctionOnSet(f, U \ {p})
        /\ SumFunctionOnSet(g, U) = g[p] + SumFunctionOnSet(g, U \ {p})
    BY <1>2, <1>4, <2>1, SumPick
  <2> QED
    BY <2>3, <2>4
<1> QED
  BY <1>3, <1>4

\* Two sets that share nothing.
LEMMA SumUnion ==
  ASSUME NEW f, NEW S, NEW T, IsFiniteSet(S), IsFiniteSet(T), S \cap T = {},
         \A x \in S \cup T : f[x] \in Nat
  PROVE  SumFunctionOnSet(f, S \cup T) = SumFunctionOnSet(f, S) + SumFunctionOnSet(f, T)
<1> DEFINE Bad == {U \in SUBSET T :
              SumFunctionOnSet(f, S \cup U) # SumFunctionOnSet(f, S) + SumFunctionOnSet(f, U)}
<1> SUFFICES ASSUME Bad # {} PROVE FALSE
  OBVIOUS
<1>0. Bad \in SUBSET SUBSET T /\ Bad # {}
  OBVIOUS
<1>1. PICK U \in Bad : \A V \in Bad : V \subseteq U => V = U
  <2> HIDE DEF Bad
  <2> QED
    BY <1>0, Least
<1>2. /\ U \in SUBSET T /\ IsFiniteSet(U) /\ SumFunctionOnSet(f, S) \in Nat
      /\ \A x \in U : f[x] \in Nat
  BY FS_Subset, SumType
<1>3. CASE U = {}
  <2>1. SumFunctionOnSet(f, S \cup U) = SumFunctionOnSet(f, S)
    <3>1. S \cup U = S
      BY <1>3
    <3> QED
      BY <3>1
  <2>2. SumFunctionOnSet(f, U) = 0
    BY <1>3, SumEmpty
  <2>3. SumFunctionOnSet(f, S \cup U) = SumFunctionOnSet(f, S) + SumFunctionOnSet(f, U)
    BY <1>2, <2>1, <2>2
  <2> QED
    BY <1>1, <2>3
<1>4. CASE U # {}
  <2>1. PICK p \in U : TRUE
    BY <1>4
  <2>2. PICK V : V = U \ {p}
    OBVIOUS
  <2>3. /\ V \in SUBSET T /\ IsFiniteSet(V) /\ V \notin Bad /\ f[p] \in Nat
        /\ \A x \in V : f[x] \in Nat
    BY <1>1, <1>2, <2>2, FS_Subset
  <2>4. SumFunctionOnSet(f, S \cup V) = SumFunctionOnSet(f, S) + SumFunctionOnSet(f, V)
    BY <2>3
  <2>5. SumFunctionOnSet(f, U) = f[p] + SumFunctionOnSet(f, V)
    BY <1>2, <2>1, <2>2, SumTake
  <2>6. PICK W : W = S \cup V
    OBVIOUS
  <2>7. /\ S \cup U = W \cup {p} /\ p \notin W /\ IsFiniteSet(W)
        /\ \A x \in W \cup {p} : f[x] \in Nat
    BY <1>2, <2>1, <2>2, <2>3, <2>6, FS_Union
  <2>8. SumFunctionOnSet(f, W \cup {p}) = SumFunctionOnSet(f, W) + f[p]
    BY <2>7, SumAdd
  <2>9. SumFunctionOnSet(f, V) \in Nat
    BY <2>3, SumType
  <2>10. SumFunctionOnSet(f, S \cup U) = SumFunctionOnSet(f, S) + SumFunctionOnSet(f, V) + f[p]
    BY <2>4, <2>6, <2>7, <2>8
  <2> QED
    BY <1>1, <1>2, <2>3, <2>5, <2>9, <2>10
<1> QED
  BY <1>3, <1>4

\* A sum of sums.
LEMMA SumPlus ==
  ASSUME NEW f, NEW g, NEW h, NEW S, IsFiniteSet(S),
         \A x \in S : f[x] \in Nat /\ g[x] \in Nat /\ h[x] = f[x] + g[x]
  PROVE  SumFunctionOnSet(h, S) = SumFunctionOnSet(f, S) + SumFunctionOnSet(g, S)
<1> DEFINE Bad == {U \in SUBSET S :
             SumFunctionOnSet(h, U) # SumFunctionOnSet(f, U) + SumFunctionOnSet(g, U)}
<1> SUFFICES ASSUME Bad # {} PROVE FALSE
  OBVIOUS
<1>0. Bad \in SUBSET SUBSET S /\ Bad # {}
  OBVIOUS
<1>1. PICK U \in Bad : \A V \in Bad : V \subseteq U => V = U
  <2> HIDE DEF Bad
  <2> QED
    BY <1>0, Least
<1>2. IsFiniteSet(U)
  BY FS_Subset
<1>3. CASE U = {}
  BY <1>1, <1>3, SumEmpty
<1>4. CASE U # {}
  <2>1. PICK p : p = Pick(U)
    OBVIOUS
  <2>2. PICK V : V = U \ {p}
    OBVIOUS
  <2>3. p \in U /\ V \notin Bad /\ V \in SUBSET S /\ IsFiniteSet(V)
    BY <1>1, <1>2, <1>4, <2>1, <2>2, PickIn, FS_Subset
  <2>4. SumFunctionOnSet(h, V) = SumFunctionOnSet(f, V) + SumFunctionOnSet(g, V)
    BY <2>3
  <2>5. /\ SumFunctionOnSet(f, U) = f[p] + SumFunctionOnSet(f, V)
        /\ SumFunctionOnSet(g, U) = g[p] + SumFunctionOnSet(g, V)
        /\ SumFunctionOnSet(h, U) = h[p] + SumFunctionOnSet(h, V)
    BY <1>2, <1>4, <2>1, <2>2, SumPick
  <2>6. SumFunctionOnSet(f, V) \in Nat /\ SumFunctionOnSet(g, V) \in Nat
    BY <2>3, SumType
  <2>7. f[p] \in Nat /\ g[p] \in Nat /\ h[p] = f[p] + g[p]
    BY <2>3
  <2> QED
    BY <1>1, <2>4, <2>5, <2>6, <2>7
<1> QED
  BY <1>3, <1>4

\* A sum of which one term changes.
LEMMA SumChange ==
  ASSUME NEW f, NEW g, NEW S, IsFiniteSet(S), NEW x \in S,
         \A y \in S : f[y] \in Nat /\ g[y] \in Nat, \A y \in S \ {x} : g[y] = f[y]
  PROVE  SumFunctionOnSet(g, S) = SumFunctionOnSet(f, S) - f[x] + g[x]
<1>1. PICK T : T = S \ {x}
  OBVIOUS
<1>2. IsFiniteSet(T) /\ \A y \in T : f[y] \in Nat /\ g[y] = f[y]
  BY <1>1, FS_Subset
<1>3. SumFunctionOnSet(g, T) = SumFunctionOnSet(f, T)
  BY <1>2, SumSame
<1>4. SumFunctionOnSet(f, T) \in Nat
  BY <1>2, SumType
<1>5. /\ SumFunctionOnSet(f, S) = f[x] + SumFunctionOnSet(f, T)
      /\ SumFunctionOnSet(g, S) = g[x] + SumFunctionOnSet(g, T)
  BY <1>1, SumTake
<1> QED
  BY <1>3, <1>4, <1>5

\* A sum of zeros.
LEMMA SumZero ==
  ASSUME NEW f, NEW S, IsFiniteSet(S), \A x \in S : f[x] = 0
  PROVE  SumFunctionOnSet(f, S) = 0
<1> DEFINE Bad == {U \in SUBSET S : SumFunctionOnSet(f, U) # 0}
<1> SUFFICES ASSUME Bad # {} PROVE FALSE
  OBVIOUS
<1>0. Bad \in SUBSET SUBSET S /\ Bad # {}
  OBVIOUS
<1>1. PICK U \in Bad : \A V \in Bad : V \subseteq U => V = U
  <2> HIDE DEF Bad
  <2> QED
    BY <1>0, Least
<1>2. IsFiniteSet(U)
  BY FS_Subset
<1>3. CASE U = {}
  BY <1>3, SumEmpty
<1>4. CASE U # {}
  <2>1. PICK p : p = Pick(U)
    OBVIOUS
  <2>2. p \in U /\ U \ {p} \notin Bad
    BY <1>1, <1>4, <2>1, PickIn
  <2>3. SumFunctionOnSet(f, U \ {p}) = 0 /\ f[p] = 0
    BY <2>2
  <2>4. SumFunctionOnSet(f, U) = f[p] + SumFunctionOnSet(f, U \ {p})
    BY <1>2, <1>4, <2>1, SumPick
  <2> QED
    BY <2>3, <2>4
<1> QED
  BY <1>3, <1>4

\* Only what is not zero counts.
LEMMA SumWithin ==
  ASSUME NEW f, NEW S, IsFiniteSet(S), \A x \in S : f[x] \in Nat,
         NEW T, \A x \in S \ T : f[x] = 0
  PROVE  SumFunctionOnSet(f, S) = SumFunctionOnSet(f, S \cap T)
<1>1. PICK A : A = S \cap T
  OBVIOUS
<1>2. PICK B : B = S \ T
  OBVIOUS
<1>3. /\ IsFiniteSet(A) /\ IsFiniteSet(B) /\ A \cap B = {} /\ S = A \cup B
      /\ \A x \in A \cup B : f[x] \in Nat
  BY <1>1, <1>2, FS_Subset
<1>4. SumFunctionOnSet(f, A \cup B) = SumFunctionOnSet(f, A) + SumFunctionOnSet(f, B)
  BY <1>3, SumUnion
<1>5. SumFunctionOnSet(f, B) = 0
  BY <1>2, <1>3, SumZero
<1>6. SumFunctionOnSet(f, A) \in Nat
  BY <1>3, SumType
<1>7. SumFunctionOnSet(f, S) = SumFunctionOnSet(f, A \cup B)
  BY <1>3
<1>8. SumFunctionOnSet(f, S) = SumFunctionOnSet(f, A)
  BY <1>4, <1>5, <1>6, <1>7
<1> QED
  BY <1>1, <1>8

Fibre(X, c, k) == {x \in X : c[x] = k}

\* A sum part by part.
LEMMA SumParts ==
  ASSUME NEW f, NEW X, IsFiniteSet(X), \A x \in X : f[x] \in Nat,
         NEW c, NEW K, IsFiniteSet(K), \A x \in X : c[x] \in K,
         NEW g, \A k \in K : g[k] = SumFunctionOnSet(f, Fibre(X, c, k))
  PROVE  SumFunctionOnSet(g, K) = SumFunctionOnSet(f, X)
<1> DEFINE In(U) == {x \in X : c[x] \in U}
           Bad   == {U \in SUBSET K : SumFunctionOnSet(g, U) # SumFunctionOnSet(f, In(U))}
<1> SUFFICES ASSUME Bad # {} PROVE FALSE
  <2>1. In(K) = X
    OBVIOUS
  <2> QED
    BY <2>1
<1>0. Bad \in SUBSET SUBSET K /\ Bad # {}
  OBVIOUS
<1>1. PICK U \in Bad : \A V \in Bad : V \subseteq U => V = U
  <2> HIDE DEF Bad
  <2> QED
    BY <1>0, Least
<1>2. IsFiniteSet(U)
  BY FS_Subset
<1>3. CASE U = {}
  <2>1. In(U) = {}
    BY <1>3
  <2> QED
    BY <1>1, <1>3, <2>1, SumEmpty
<1>4. CASE U # {}
  <2>1. PICK p : p = Pick(U)
    OBVIOUS
  <2>2. PICK V : V = U \ {p}
    OBVIOUS
  <2>3. p \in U /\ p \in K /\ V \notin Bad /\ V \in SUBSET K
    BY <1>1, <1>4, <2>1, <2>2, PickIn
  <2>4. SumFunctionOnSet(g, V) = SumFunctionOnSet(f, In(V))
    BY <2>3
  <2>5. SumFunctionOnSet(g, U) = g[p] + SumFunctionOnSet(g, V)
    BY <1>2, <1>4, <2>1, <2>2, SumPick
  <2>6. PICK one : one = {x \in X : c[x] = p}
    OBVIOUS
  <2>7. PICK rest : rest = In(V)
    OBVIOUS
  <2>8. /\ IsFiniteSet(one) /\ IsFiniteSet(rest) /\ one \cap rest = {}
        /\ In(U) = one \cup rest /\ \A x \in one \cup rest : f[x] \in Nat
    BY <2>2, <2>3, <2>6, <2>7, FS_Subset
  <2>9. SumFunctionOnSet(f, one \cup rest)
          = SumFunctionOnSet(f, one) + SumFunctionOnSet(f, rest)
    BY <2>8, SumUnion
  <2>10. g[p] = SumFunctionOnSet(f, one)
    BY <2>3, <2>6 DEF Fibre
  <2>11. SumFunctionOnSet(g, U) = SumFunctionOnSet(f, In(U))
    BY <2>4, <2>5, <2>7, <2>8, <2>9, <2>10
  <2> QED
    BY <1>1, <2>11
<1> QED
  BY <1>3, <1>4

\* How many there are is a sum of ones.
LEMMA SumOnes ==
  ASSUME NEW f, NEW S, IsFiniteSet(S), \A x \in S : f[x] = 1
  PROVE  SumFunctionOnSet(f, S) = Cardinality(S)
<1> DEFINE Bad == {U \in SUBSET S : SumFunctionOnSet(f, U) # Cardinality(U)}
<1> SUFFICES ASSUME Bad # {} PROVE FALSE
  OBVIOUS
<1>0. Bad \in SUBSET SUBSET S /\ Bad # {}
  OBVIOUS
<1>1. PICK U \in Bad : \A V \in Bad : V \subseteq U => V = U
  <2> HIDE DEF Bad
  <2> QED
    BY <1>0, Least
<1>2. IsFiniteSet(U)
  BY FS_Subset
<1>3. CASE U = {}
  BY <1>1, <1>3, SumEmpty, FS_EmptySet
<1>4. CASE U # {}
  <2>1. PICK p : p = Pick(U)
    OBVIOUS
  <2>2. PICK V : V = U \ {p}
    OBVIOUS
  <2>3. p \in U /\ V \notin Bad /\ V \in SUBSET S /\ IsFiniteSet(V)
    BY <1>1, <1>2, <1>4, <2>1, <2>2, PickIn, FS_Subset
  <2>4. SumFunctionOnSet(f, V) = Cardinality(V) /\ f[p] = 1
    BY <2>3
  <2>5. SumFunctionOnSet(f, U) = f[p] + SumFunctionOnSet(f, V)
    BY <1>2, <1>4, <2>1, <2>2, SumPick
  <2>6. Cardinality(V) = Cardinality(U) - 1
    BY <1>2, <2>2, <2>3, FS_RemoveElement
  <2>7. Cardinality(U) \in Nat
    BY <1>2, FS_CardinalityType
  <2> QED
    BY <1>1, <2>4, <2>5, <2>6, <2>7
<1> QED
  BY <1>3, <1>4
=============================================================================
