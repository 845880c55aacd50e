-------------------------- MODULE Operators_proofs --------------------------
(***************************************************************************)
(* Lemmas about the operators the modules are built from, and theorems about  *)
(* what they compute.  First sums over finite sets, which the progress of the *)
(* events, the expectation of the service and the cumulative probabilities    *)
(* are: their folds are recursive functions; that one exists, and what it     *)
(* computes, is proved by induction on the size of a set, in the form of the  *)
(* least-number principle (no smallest set refutes the lemma), which needs no *)
(* operator as a parameter.  Then the look-ups in a continuous distribution,  *)
(* for any list of points, and in a categorical one, for any list of masses.  *)
(***************************************************************************)
EXTENDS BookingRequest, WellFoundedInduction, FiniteSetTheorems, TLAPS

(* A set of natural numbers has a least one. *)
LEMMA LeastElement ==
  ASSUME NEW T, T \subseteq Nat, T # {}
  PROVE  \E x \in T : \A y \in T : x <= y
<1>1. PICK x \in T : \A y \in T : <<y, x>> \notin OpToRel(<, Nat)
  BY NatLessThanWellFounded, WFMin
<1>2. \A y \in T : ~(y < x)
  BY <1>1 DEF OpToRel
<1>3. QED BY <1>2

(* The community modules define Min with CHOOSE: on a nonempty set of naturals it
   is the least element. *)
LEMMA MinProperties ==
  ASSUME NEW T \in SUBSET Nat, T # {}
  PROVE  Min(T) \in T /\ \A y \in T : Min(T) <= y
BY LeastElement DEF Min

-----------------------------------------------------------------------------
(* Ranks: lists of n numbers, the most significant first. *)
Below(n, a, b) == \E i \in 1 .. n : a[i] < b[i] /\ \A j \in 1 .. i - 1 : a[j] = b[j]

(* Nothing descends for ever below a list of natural numbers: every set of ranks has
   one below which the set has none.  A program each step of which lowers its rank
   takes finitely many steps. *)
THEOREM RanksWellFounded ==
  ASSUME NEW n \in Nat, NEW T, T # {}, \A x \in T : \A i \in 1 .. n : x[i] \in Nat
  PROVE  \E x \in T : \A y \in T : ~Below(n, y, x)
<1> DEFINE Lowest(k, x) == \A y \in T : ~Below(k, y, x)
           Bad == {k \in Nat : k <= n /\ \A x \in T : ~Lowest(k, x)}
<1>1. ASSUME Bad # {} PROVE FALSE
  <2>1. PICK k \in Bad : \A l \in Bad : k <= l
    BY <1>1, LeastElement
  <2>2. k \in Nat /\ k <= n /\ \A x \in T : ~Lowest(k, x)
    BY <2>1
  <2>3. \A x \in T : Lowest(0, x)
    BY DEF Below
  <2>4. k \in 1 .. n /\ k - 1 \in Nat /\ k - 1 <= n /\ k - 1 \notin Bad
    BY <2>1, <2>2, <2>3
  <2>5. PICK x \in T : Lowest(k - 1, x)
    BY <2>4
  <2> DEFINE Like(y) == \A j \in 1 .. k - 1 : y[j] = x[j]
             V == {y[k] : y \in {z \in T : Like(z)}}
  <2>6. V \subseteq Nat /\ x[k] \in V
    BY <2>4
  <2>7. PICK v \in V : \A w \in V : v <= w
    <3> HIDE DEF V
    <3>1. QED BY <2>6, LeastElement
  <2>8. PICK z \in T : Like(z) /\ z[k] = v
    BY <2>7
  <2>9. \A y \in T : Like(y) => z[k] <= y[k]
    BY <2>7, <2>8
  <2>10. ASSUME NEW y \in T, Below(k, y, z) PROVE FALSE
    <3>1. PICK i \in 1 .. k : y[i] < z[i] /\ \A j \in 1 .. i - 1 : y[j] = z[j]
      BY <2>10 DEF Below
    <3>2. CASE i = k
      <4>1. Like(y)
        BY <2>8, <3>1, <3>2
      <4>2. y[k] \in Nat /\ z[k] \in Nat
        BY <2>4
      <4>3. QED BY <2>9, <3>1, <3>2, <4>1, <4>2
    <3>3. CASE i # k
      <4>1. i \in 1 .. k - 1
        BY <2>2, <3>3
      <4>2. y[i] < x[i] /\ \A j \in 1 .. i - 1 : y[j] = x[j]
        BY <2>2, <2>8, <3>1, <4>1
      <4>3. Below(k - 1, y, x)
        BY <4>1, <4>2 DEF Below
      <4>4. QED BY <2>5, <4>3
    <3>4. QED BY <3>2, <3>3
  <2>11. QED BY <2>2, <2>8, <2>10
<1>2. n \notin Bad
  <2> HIDE DEF Bad
  <2>1. QED BY <1>1
<1>3. QED BY <1>2

-----------------------------------------------------------------------------
(* The recursive function of a sum. *)

(* One unfolding of the recursion. *)
Unfold(f, g, s) == IF s = {} THEN 0 ELSE LET x == CHOOSE x \in s : TRUE IN f[x] + g[s \ {x}]

(* A function of the subsets of S that obeys the recursion. *)
Solves(f, S, g) == \A s \in SUBSET S : g[s] = Unfold(f, g, s)

(* The subsets with at most n elements. *)
UpTo(S, n) == {s \in SUBSET S : Cardinality(s) <= n}

(* The element chosen leaves a smaller set. *)
LEMMA Chosen ==
  ASSUME NEW s, IsFiniteSet(s), s # {}
  PROVE  LET x == CHOOSE x \in s : TRUE
         IN  /\ x \in s /\ IsFiniteSet(s \ {x})
             /\ Cardinality(s) \in Nat /\ Cardinality(s \ {x}) = Cardinality(s) - 1
<1> DEFINE x == CHOOSE x \in s : TRUE
<1>1. x \in s
  OBVIOUS
<1> HIDE DEF x
<1>2. QED BY <1>1, FS_RemoveElement, FS_CardinalityType DEF x

(* The recursion can be solved on the subsets with at most n elements. *)
LEMMA SolvedUpTo ==
  ASSUME NEW f, NEW S, IsFiniteSet(S), NEW n \in Nat
  PROVE  \E g : g = [s \in UpTo(S, n) |-> Unfold(f, g, s)]
<1> DEFINE Solved(k) == \E g : g = [s \in UpTo(S, k) |-> Unfold(f, g, s)]
           T == {k \in Nat : ~Solved(k)}
<1>1. SUFFICES ASSUME T # {} PROVE FALSE
  OBVIOUS
<1>2. PICK m \in T : \A k \in T : m <= k
  BY <1>1, LeastElement
<1>3. m \in Nat /\ ~Solved(m)
  BY <1>2
<1>4. \A s \in SUBSET S : IsFiniteSet(s) /\ Cardinality(s) \in Nat
  BY FS_Subset, FS_CardinalityType
<1>5. CASE m = 0
  <2>1. UpTo(S, 0) = {{}}
    <3>1. \A s \in SUBSET S : Cardinality(s) <= 0 <=> s = {}
      BY <1>4, FS_EmptySet
    <3>2. QED BY <3>1 DEF UpTo
  <2> DEFINE g == [s \in UpTo(S, 0) |-> 0]
  <2>2. g = [s \in UpTo(S, 0) |-> Unfold(f, g, s)]
    BY <2>1 DEF Unfold
  <2>3. QED BY <1>3, <1>5, <2>2
<1>6. CASE m # 0
  <2>1. m - 1 \in Nat /\ m - 1 \notin T
    BY <1>2, <1>3, <1>6
  <2>2. PICK g : g = [s \in UpTo(S, m - 1) |-> Unfold(f, g, s)]
    BY <2>1
  <2> DEFINE h == [s \in UpTo(S, m) |-> Unfold(f, g, s)]
  <2>3. \A s \in UpTo(S, m - 1) : s \in UpTo(S, m) /\ h[s] = g[s]
    <3>1. \A s \in UpTo(S, m - 1) : s \in UpTo(S, m)
      BY <1>3, <1>4, <2>1 DEF UpTo
    <3>2. \A s \in UpTo(S, m - 1) : g[s] = Unfold(f, g, s)
      BY <2>2
    <3>3. QED BY <3>1, <3>2
  <2>4. ASSUME NEW s \in UpTo(S, m)
        PROVE  Unfold(f, g, s) = Unfold(f, h, s)
    <3>1. CASE s = {}
      BY <3>1 DEF Unfold
    <3>2. CASE s # {}
      <4> DEFINE x == CHOOSE x \in s : TRUE
      <4>1. s \in SUBSET S /\ IsFiniteSet(s) /\ Cardinality(s) <= m
        BY <1>4 DEF UpTo
      <4>2. Cardinality(s) \in Nat /\ Cardinality(s \ {x}) = Cardinality(s) - 1
        BY <3>2, <4>1, Chosen
      <4>3. s \ {x} \in UpTo(S, m - 1)
        BY <1>3, <4>1, <4>2 DEF UpTo
      <4>4. g[s \ {x}] = h[s \ {x}]
        BY <2>3, <4>3
      <4>5. QED BY <3>2, <4>4 DEF Unfold
    <3>3. QED BY <3>1, <3>2
  <2>5. h = [s \in UpTo(S, m) |-> Unfold(f, h, s)]
    BY <2>4
  <2>6. QED BY <1>3, <2>5
<1>7. QED BY <1>5, <1>6

(* The recursion has one solution on the subsets of a finite set. *)
LEMMA OneSolution ==
  ASSUME NEW f, NEW S, IsFiniteSet(S), NEW g, NEW h,
         Solves(f, S, g), Solves(f, S, h)
  PROVE  \A s \in SUBSET S : g[s] = h[s]
<1> DEFINE T == {k \in Nat : \E s \in SUBSET S : Cardinality(s) = k /\ g[s] # h[s]}
<1>1. \A s \in SUBSET S : IsFiniteSet(s) /\ Cardinality(s) \in Nat
  BY FS_Subset, FS_CardinalityType
<1>2. SUFFICES ASSUME T # {} PROVE FALSE
  BY <1>1
<1>3. PICK m \in Nat : m \in T /\ \A k \in T : m <= k
  BY <1>2, LeastElement
<1>4. PICK s \in SUBSET S : Cardinality(s) = m /\ g[s] # h[s]
  BY <1>3
<1>5. s # {}
  BY <1>4 DEF Unfold, Solves
<1> DEFINE x == CHOOSE x \in s : TRUE
<1>6. Cardinality(s) \in Nat /\ Cardinality(s \ {x}) = Cardinality(s) - 1
  BY <1>1, <1>5, Chosen
<1>7. s \ {x} \in SUBSET S /\ Cardinality(s \ {x}) \in Nat
  BY <1>1
<1>8. g[s \ {x}] = h[s \ {x}]
  <2> DEFINE c == Cardinality(s \ {x})
  <2>1. c \in Nat /\ c < m
    BY <1>4, <1>6, <1>7
  <2>2. c \notin T
    <3> HIDE DEF c, T
    <3>1. QED BY <1>3, <2>1
  <2>3. QED BY <1>7, <2>1, <2>2
<1>9. g[s] = Unfold(f, g, s) /\ h[s] = Unfold(f, h, s)
  BY DEF Solves
<1>10. QED BY <1>4, <1>5, <1>8, <1>9 DEF Unfold

(* The sum over a set is what the recursion gives. *)
LEMMA SumSolves ==
  ASSUME NEW f, NEW S, IsFiniteSet(S)
  PROVE  \E g : Solves(f, S, g) /\ SumFunctionOnSet(f, S) = g[S]
<1>1. Cardinality(S) \in Nat
  BY FS_CardinalityType
<1>2. UpTo(S, Cardinality(S)) = SUBSET S
  BY FS_Subset DEF UpTo
<1>3. \E g : g = [s \in SUBSET S |-> Unfold(f, g, s)]
  <2>1. \E g : g = [s \in UpTo(S, Cardinality(S)) |-> Unfold(f, g, s)]
    BY <1>1, SolvedUpTo
  <2>2. QED BY <1>2, <2>1
<1>4. \E g : /\ g = [s \in SUBSET S |-> Unfold(f, g, s)]
             /\ SumFunctionOnSet(f, S) = g[S]
  BY <1>3 DEF SumFunctionOnSet, FoldFunctionOnSet, MapThenFoldSet, Unfold
<1>5. PICK g : /\ g = [s \in SUBSET S |-> Unfold(f, g, s)]
               /\ SumFunctionOnSet(f, S) = g[S]
  BY <1>4
<1>6. Solves(f, S, g)
  BY <1>5 DEF Solves
<1>7. QED BY <1>5, <1>6

(* The sum over a set starts with the element chosen. *)
LEMMA SumStep ==
  ASSUME NEW f, NEW S, IsFiniteSet(S), S # {}
  PROVE  LET x == CHOOSE x \in S : TRUE
         IN  SumFunctionOnSet(f, S) = f[x] + SumFunctionOnSet(f, S \ {x})
<1> DEFINE x == CHOOSE x \in S : TRUE
<1>1. PICK g : Solves(f, S, g) /\ SumFunctionOnSet(f, S) = g[S]
  BY SumSolves
<1>2. IsFiniteSet(S \ {x})
  BY Chosen
<1>3. PICK h : Solves(f, S \ {x}, h) /\ SumFunctionOnSet(f, S \ {x}) = h[S \ {x}]
  BY <1>2, SumSolves
<1>4. Solves(f, S \ {x}, g)
  BY <1>1 DEF Solves
<1>5. g[S \ {x}] = h[S \ {x}]
  BY <1>2, <1>3, <1>4, OneSolution
<1>6. g[S] = f[x] + g[S \ {x}]
  BY <1>1 DEF Solves, Unfold
<1>7. QED BY <1>1, <1>3, <1>5, <1>6

(* The sum over no element is zero. *)
LEMMA SumEmpty ==
  ASSUME NEW f
  PROVE  SumFunctionOnSet(f, {}) = 0
<1>1. PICK g : Solves(f, {}, g) /\ SumFunctionOnSet(f, {}) = g[{}]
  BY FS_EmptySet, SumSolves
<1>2. QED BY <1>1 DEF Solves, Unfold

-----------------------------------------------------------------------------
(* What a sum is. *)

(* A sum of integers is an integer. *)
LEMMA SumType ==
  ASSUME NEW f, NEW S, IsFiniteSet(S), \A x \in S : f[x] \in Int
  PROVE  SumFunctionOnSet(f, S) \in Int
<1> DEFINE Bad(s) == SumFunctionOnSet(f, s) \notin Int
           T == {k \in Nat : \E s \in SUBSET S : Cardinality(s) = k /\ Bad(s)}
<1>1. \A s \in SUBSET S : IsFiniteSet(s) /\ Cardinality(s) \in Nat
  BY FS_Subset, FS_CardinalityType
<1>2. SUFFICES ASSUME T # {} PROVE FALSE
  BY <1>1
<1>3. PICK m \in Nat : m \in T /\ \A k \in T : m <= k
  BY <1>2, LeastElement
<1>4. PICK s \in SUBSET S : Cardinality(s) = m /\ Bad(s)
  BY <1>3
<1>5. s # {}
  BY <1>4, SumEmpty
<1> DEFINE x == CHOOSE x \in s : TRUE
           c == Cardinality(s \ {x})
<1>6. x \in s /\ Cardinality(s) \in Nat /\ c = Cardinality(s) - 1
  BY <1>1, <1>5, Chosen
<1>7. s \ {x} \in SUBSET S /\ c \in Nat /\ c < m
  BY <1>1, <1>4, <1>6
<1>8. c \notin T
  <2> HIDE DEF c, T
  <2>1. QED BY <1>3, <1>7
<1>9. SumFunctionOnSet(f, s \ {x}) \in Int
  BY <1>7, <1>8
<1>10. SumFunctionOnSet(f, s) = f[x] + SumFunctionOnSet(f, s \ {x})
  BY <1>1, <1>5, SumStep
<1>11. f[x] \in Int
  BY <1>6
<1>12. QED BY <1>4, <1>9, <1>10, <1>11

(* Any element may be taken out of a sum, not only the one the fold chooses. *)
LEMMA SumSplit ==
  ASSUME NEW f, NEW S, IsFiniteSet(S), \A x \in S : f[x] \in Int
  PROVE  \A y \in S : SumFunctionOnSet(f, S) = f[y] + SumFunctionOnSet(f, S \ {y})
<1> DEFINE F(s) == SumFunctionOnSet(f, s)
           Bad(s) == \E y \in s : F(s) # f[y] + F(s \ {y})
           T == {k \in Nat : \E s \in SUBSET S : Cardinality(s) = k /\ Bad(s)}
<1>1. \A s \in SUBSET S : IsFiniteSet(s) /\ Cardinality(s) \in Nat
  BY FS_Subset, FS_CardinalityType
<1>2. SUFFICES ASSUME T # {} PROVE FALSE
  BY <1>1
<1>3. PICK m \in Nat : m \in T /\ \A k \in T : m <= k
  BY <1>2, LeastElement
<1>4. PICK s \in SUBSET S : Cardinality(s) = m /\ Bad(s)
  BY <1>3
<1>5. PICK y \in s : F(s) # f[y] + F(s \ {y})
  BY <1>4
<1> DEFINE x == CHOOSE x \in s : TRUE
<1>6. x \in s /\ F(s) = f[x] + F(s \ {x})
  BY <1>1, <1>5, Chosen, SumStep
<1>7. x # y
  BY <1>5, <1>6
<1> HIDE DEF x, F
<1>8. ASSUME NEW z \in s, NEW u \in s \ {z}
      PROVE  F(s \ {z}) = f[u] + F((s \ {z}) \ {u})
  <2> DEFINE c == Cardinality(s \ {z})
  <2>1. c = Cardinality(s) - 1 /\ Cardinality(s) \in Nat /\ c \in Nat /\ s \ {z} \in SUBSET S
    BY <1>1, FS_RemoveElement
  <2>2. c < m
    BY <1>4, <2>1
  <2>3. c \notin T
    <3> HIDE DEF c, T
    <3>1. QED BY <1>3, <2>1, <2>2
  <2>4. QED BY <2>1, <2>3
<1>9. F(s \ {x}) = f[y] + F((s \ {x}) \ {y})
  BY <1>6, <1>7, <1>8
<1>10. F(s \ {y}) = f[x] + F((s \ {y}) \ {x})
  BY <1>6, <1>7, <1>8
<1>11. (s \ {x}) \ {y} = (s \ {y}) \ {x}
  OBVIOUS
<1>12. f[x] \in Int /\ f[y] \in Int /\ F((s \ {x}) \ {y}) \in Int
  <2>1. IsFiniteSet((s \ {x}) \ {y}) /\ \A z \in (s \ {x}) \ {y} : f[z] \in Int
    BY <1>1
  <2>2. F((s \ {x}) \ {y}) \in Int
    BY <2>1, SumType DEF F
  <2>3. QED BY <1>6, <2>2
<1> DEFINE r == F((s \ {x}) \ {y})
<1>13. F(s) = f[x] + (f[y] + r) /\ F(s \ {y}) = f[x] + r /\ r \in Int
  BY <1>6, <1>9, <1>10, <1>11, <1>12
<1>14. F(s) # f[y] + (f[x] + r)
  BY <1>5, <1>13
<1> HIDE DEF r
<1>15. QED BY <1>12, <1>13, <1>14

(* Sums of functions that agree on the set are equal. *)
LEMMA SumEqual ==
  ASSUME NEW f, NEW g, NEW S, IsFiniteSet(S), \A x \in S : f[x] = g[x]
  PROVE  SumFunctionOnSet(f, S) = SumFunctionOnSet(g, S)
<1>1. PICK u : Solves(f, S, u) /\ SumFunctionOnSet(f, S) = u[S]
  BY SumSolves
<1>2. PICK v : Solves(g, S, v) /\ SumFunctionOnSet(g, S) = v[S]
  BY SumSolves
<1>3. Solves(f, S, v)
  <2>1. ASSUME NEW s \in SUBSET S PROVE Unfold(f, v, s) = Unfold(g, v, s)
    <3> DEFINE x == CHOOSE x \in s : TRUE
    <3>1. s # {} => f[x] = g[x]
      OBVIOUS
    <3>2. QED BY <3>1 DEF Unfold
  <2>2. QED BY <1>2, <2>1 DEF Solves
<1>4. \A s \in SUBSET S : u[s] = v[s]
  BY <1>1, <1>3, OneSolution
<1>5. QED BY <1>1, <1>2, <1>4

(* One more element adds its value. *)
LEMMA SumAdd ==
  ASSUME NEW f, NEW S, IsFiniteSet(S), \A x \in S : f[x] \in Int,
         NEW y, y \notin S, f[y] \in Int
  PROVE  SumFunctionOnSet(f, S \cup {y}) = SumFunctionOnSet(f, S) + f[y]
<1>1. IsFiniteSet(S \cup {y}) /\ \A x \in S \cup {y} : f[x] \in Int
  BY FS_AddElement
<1>2. SumFunctionOnSet(f, S \cup {y}) = f[y] + SumFunctionOnSet(f, (S \cup {y}) \ {y})
  BY <1>1, SumSplit
<1>3. (S \cup {y}) \ {y} = S
  OBVIOUS
<1> DEFINE total == SumFunctionOnSet(f, S)
<1>4. total \in Int
  BY SumType
<1>5. SumFunctionOnSet(f, S \cup {y}) = f[y] + total
  BY <1>2, <1>3
<1> HIDE DEF total
<1>6. SumFunctionOnSet(f, S \cup {y}) = total + f[y]
  BY <1>4, <1>5
<1>7. QED BY <1>6 DEF total

-----------------------------------------------------------------------------
(* The sum of a function over its domain. *)

(* It is an integer. *)
LEMMA SumFunctionType ==
  ASSUME NEW D, IsFiniteSet(D), NEW f \in [D -> Int]
  PROVE  SumFunction(f) \in Int
BY SumType DEF SumFunction

(* A sum of natural numbers is natural. *)
LEMMA SumNatural ==
  ASSUME NEW D, IsFiniteSet(D), NEW f \in [D -> Nat]
  PROVE  SumFunction(f) \in Nat
<1> DEFINE Bad(s) == SumFunctionOnSet(f, s) \notin Nat
           T == {k \in Nat : \E s \in SUBSET D : Cardinality(s) = k /\ Bad(s)}
<1>1. \A s \in SUBSET D : IsFiniteSet(s) /\ Cardinality(s) \in Nat
  BY FS_Subset, FS_CardinalityType
<1>2. SUFFICES T = {}
  <2>1. T = {} => ~Bad(D)
    BY <1>1
  <2>2. QED BY <2>1 DEF SumFunction
<1>3. SUFFICES ASSUME T # {} PROVE FALSE
  OBVIOUS
<1>4. PICK m \in Nat : m \in T /\ \A k \in T : m <= k
  BY <1>3, LeastElement
<1>5. PICK s \in SUBSET D : Cardinality(s) = m /\ Bad(s)
  BY <1>4
<1>6. PICK x \in s : TRUE
  BY <1>5, SumEmpty
<1>7. SumFunctionOnSet(f, s) = f[x] + SumFunctionOnSet(f, s \ {x})
  BY <1>1, <1>6, SumSplit
<1>8. SumFunctionOnSet(f, s \ {x}) \in Nat
  <2>1. s \ {x} \in SUBSET D /\ Cardinality(s \ {x}) = m - 1 /\ Cardinality(s \ {x}) \in Nat
    BY <1>1, <1>5, <1>6, FS_RemoveElement
  <2>2. m - 1 \notin T
    BY <1>4, <2>1
  <2>3. QED BY <2>1, <2>2
<1>9. QED BY <1>5, <1>6, <1>7, <1>8

(* A change of one value changes the sum by as much. *)
LEMMA SumFunctionUpdate ==
  ASSUME NEW D, IsFiniteSet(D), NEW f \in [D -> Int], NEW g \in [D -> Int], NEW d \in D,
         \A x \in D \ {d} : g[x] = f[x]
  PROVE  SumFunction(g) = SumFunction(f) - f[d] + g[d]
<1>1. /\ SumFunctionOnSet(f, D) = f[d] + SumFunctionOnSet(f, D \ {d})
      /\ SumFunctionOnSet(g, D) = g[d] + SumFunctionOnSet(g, D \ {d})
  BY SumSplit
<1>2. IsFiniteSet(D \ {d})
  BY FS_RemoveElement
<1>3. SumFunctionOnSet(g, D \ {d}) = SumFunctionOnSet(f, D \ {d})
  BY <1>2, SumEqual
<1>4. SumFunctionOnSet(f, D \ {d}) \in Int
  BY <1>2, SumType
<1>5. f[d] \in Int /\ g[d] \in Int
  OBVIOUS
<1>6. SumFunction(f) = SumFunctionOnSet(f, D) /\ SumFunction(g) = SumFunctionOnSet(g, D)
  BY DEF SumFunction
<1>7. QED BY <1>1, <1>3, <1>4, <1>5, <1>6

(* A sum of zeros is zero. *)
LEMMA SumFunctionZero ==
  ASSUME NEW D, IsFiniteSet(D), NEW f, DOMAIN f = D, \A x \in D : f[x] = 0
  PROVE  SumFunction(f) = 0
<1> DEFINE Bad(s) == SumFunctionOnSet(f, s) # 0
           T == {k \in Nat : \E s \in SUBSET D : Cardinality(s) = k /\ Bad(s)}
<1>1. \A s \in SUBSET D : IsFiniteSet(s) /\ Cardinality(s) \in Nat
  BY FS_Subset, FS_CardinalityType
<1>2. SUFFICES ASSUME T # {} PROVE FALSE
  BY <1>1 DEF SumFunction
<1>3. PICK m \in Nat : m \in T /\ \A k \in T : m <= k
  BY <1>2, LeastElement
<1>4. PICK s \in SUBSET D : Cardinality(s) = m /\ Bad(s)
  BY <1>3
<1>5. PICK y \in s : TRUE
  BY <1>4, SumEmpty
<1>6. SumFunctionOnSet(f, s) = f[y] + SumFunctionOnSet(f, s \ {y})
  BY <1>1, SumSplit
<1> DEFINE c == Cardinality(s \ {y})
<1>7. s \ {y} \in SUBSET D /\ c \in Nat /\ c < m
  BY <1>1, <1>4, FS_RemoveElement
<1>8. c \notin T
  <2> HIDE DEF c, T
  <2>1. QED BY <1>3, <1>7
<1>9. SumFunctionOnSet(f, s \ {y}) = 0
  BY <1>7, <1>8
<1>10. QED BY <1>4, <1>6, <1>9

(* An element appended to a sequence adds its value. *)
LEMMA SumAppend ==
  ASSUME NEW f \in Seq(Int), NEW v \in Int
  PROVE  SumFunction(Append(f, v)) = SumFunction(f) + v
<1> DEFINE n == Len(f)
           g == Append(f, v)
<1>1. n \in Nat /\ DOMAIN f = 1 .. n /\ DOMAIN g = (1 .. n) \cup {n + 1} /\ n + 1 \notin 1 .. n
  OBVIOUS
<1>2. g[n + 1] = v /\ \A i \in 1 .. n : g[i] = f[i] /\ f[i] \in Int
  OBVIOUS
<1>3. IsFiniteSet(1 .. n)
  BY FS_Interval
<1> HIDE DEF n, g
<1>4. SumFunctionOnSet(g, (1 .. n) \cup {n + 1}) = SumFunctionOnSet(g, 1 .. n) + v
  BY <1>1, <1>2, <1>3, SumAdd
<1>5. SumFunctionOnSet(g, 1 .. n) = SumFunctionOnSet(f, 1 .. n)
  BY <1>2, <1>3, SumEqual
<1>6. QED BY <1>1, <1>4, <1>5 DEF SumFunction, g

-----------------------------------------------------------------------------
(* Rounding down: what lies between q * b and (q + 1) * b is rounded to q. *)
LEMMA DivLower ==
  ASSUME NEW a \in Int, NEW b \in Nat \ {0}, NEW q \in Int, q * b <= a
  PROVE  q <= a \div b
  BY SMTT(30)

(* The other half of it. *)
LEMMA DivUpper ==
  ASSUME NEW a \in Int, NEW b \in Nat \ {0}, NEW q \in Int, a < (q + 1) * b
  PROVE  a \div b <= q
  BY SMTT(30)

(* Rounding down keeps the order. *)
LEMMA DivMonotone ==
  ASSUME NEW a \in Int, NEW c \in Int, NEW b \in Nat \ {0}, a <= c
  PROVE  a \div b <= c \div b
  BY SMTT(30)

(* A product by a natural number keeps the order. *)
LEMMA ProductMonotone ==
  ASSUME NEW m \in Nat, NEW i \in Int, NEW j \in Int, i <= j
  PROVE  m * i <= m * j
  BY SMTT(30)

-----------------------------------------------------------------------------
(* A list of points with increasing values, as a std::map gives it. *)
Point == [value : Int, cum : Int]

IsPointList(dist) ==
  /\ dist \in Seq(Point) /\ Len(dist) > 0
  /\ \A i, j \in 1 .. Len(dist) : i < j => dist[i].value < dist[j].value

(* What the proofs below need of a list of points. *)
LEMMA PointListFacts ==
  ASSUME NEW dist, IsPointList(dist)
  PROVE  /\ Len(dist) \in Nat \ {0}
         /\ \A j \in 1 .. Len(dist) :
              dist[j] \in Point /\ dist[j].value \in Int /\ dist[j].cum \in Int
         /\ \A i, j \in 1 .. Len(dist) : i <= j => dist[i].value <= dist[j].value
<1>1. Len(dist) \in Nat \ {0} /\ \A j \in 1 .. Len(dist) : dist[j] \in Point
  BY DEF IsPointList
<1>2. \A j \in 1 .. Len(dist) : dist[j].value \in Int /\ dist[j].cum \in Int
  BY <1>1 DEF Point
<1>3. \A i, j \in 1 .. Len(dist) : i <= j => dist[i].value <= dist[j].value
  <2>1. \A i, j \in 1 .. Len(dist) : i < j => dist[i].value < dist[j].value
    BY DEF IsPointList
  <2>2. QED BY <1>1, <1>2, <2>1
<1>4. QED BY <1>1, <1>2, <1>3

(* The interpolation of a key between two points lies between their values. *)
LEMMA InterpolateBetween ==
  ASSUME NEW lo \in Point, NEW hi \in Point,
         NEW key \in Int, lo.value <= hi.value, lo.cum <= key, key < hi.cum
  PROVE  Interpolate(lo, hi, key) \in lo.value .. hi.value
<1> DEFINE m == hi.value - lo.value
           k == key - lo.cum
           c == hi.cum - lo.cum
<1>1. m \in Nat /\ k \in Nat /\ c \in Nat \ {0} /\ k < c
  BY DEF Point
<1> HIDE DEF m, k, c
<1>2. 0 * c <= m * k /\ m * k <= m * c
  BY <1>1, ProductMonotone, SMTT(30)
<1>3. m * k \in Int /\ 0 <= (m * k) \div c
  BY <1>1, <1>2, DivLower
<1>4. (m * k) \div c <= m
  <2>1. m * k < (m + 1) * c
    BY <1>1, <1>2, SMTT(30)
  <2>2. QED BY <1>1, <1>3, <2>1, DivUpper
<1>5. (m * k) \div c \in Int
  BY <1>1, <1>3
<1>6. QED
  BY <1>3, <1>4, <1>5 DEF Interpolate, Point, m, k, c

(* Between two points, a larger key never gives a smaller value. *)
LEMMA InterpolateMonotone ==
  ASSUME NEW lo \in Point, NEW hi \in Point,
         NEW key \in Int, NEW key2 \in Int,
         lo.value <= hi.value, lo.cum < hi.cum, key <= key2
  PROVE  Interpolate(lo, hi, key) <= Interpolate(lo, hi, key2)
<1> DEFINE m == hi.value - lo.value
           c == hi.cum - lo.cum
           k == key - lo.cum
           k2 == key2 - lo.cum
<1>1. m \in Nat /\ c \in Nat \ {0} /\ k \in Int /\ k2 \in Int /\ k <= k2
  BY DEF Point
<1> HIDE DEF m, c, k, k2
<1>2. m * k <= m * k2 /\ m * k \in Int /\ m * k2 \in Int
  BY <1>1, ProductMonotone
<1>3. (m * k) \div c <= (m * k2) \div c
  BY <1>1, <1>2, DivMonotone
<1>4. (m * k) \div c \in Int /\ (m * k2) \div c \in Int
  BY <1>1, <1>2
<1>5. QED
  BY <1>3, <1>4 DEF Interpolate, Point, m, c, k, k2

(* The segment the lookup finds: the key is below its upper end, and not below
   the end before it. *)
LEMMA SegmentFound ==
  ASSUME NEW dist, IsPointList(dist), NEW key \in Int, CumAbove(dist, key) # {},
         NEW i, i = Min(CumAbove(dist, key))
  PROVE  /\ i \in 1 .. Len(dist) /\ key < dist[i].cum
         /\ \A j \in CumAbove(dist, key) : i <= j
         /\ i # 1 => i - 1 \in 1 .. Len(dist) /\ dist[i - 1].cum <= key
<1>1. CumAbove(dist, key) \in SUBSET Nat
  BY PointListFacts DEF CumAbove
<1>2. i \in CumAbove(dist, key) /\ \A j \in CumAbove(dist, key) : i <= j
  BY <1>1, MinProperties
<1>3. i \in 1 .. Len(dist) /\ key < dist[i].cum
  BY <1>2, PointListFacts DEF CumAbove
<1>4. ASSUME i # 1
      PROVE  i - 1 \in 1 .. Len(dist) /\ dist[i - 1].cum <= key
  <2>1. i - 1 \in 1 .. Len(dist) /\ i - 1 \notin CumAbove(dist, key)
    BY <1>2, <1>3, <1>4, PointListFacts
  <2>2. QED BY <2>1, PointListFacts DEF CumAbove
<1>5. QED BY <1>2, <1>3, <1>4

(* What getValue returns in the segment that ends at point i: no less than the
   point before, no more than point i. *)
LEMMA ValueInSegment ==
  ASSUME NEW dist, IsPointList(dist), NEW key \in Int, CumAbove(dist, key) # {},
         NEW i, i = Min(CumAbove(dist, key))
  PROVE  /\ GetValue(dist, key) \in Int /\ GetValue(dist, key) <= dist[i].value
         /\ IF i = 1 THEN GetValue(dist, key) = dist[1].value
            ELSE dist[i - 1].value <= GetValue(dist, key)
<1>1. i \in 1 .. Len(dist) /\ key < dist[i].cum
      /\ (i # 1 => i - 1 \in 1 .. Len(dist) /\ dist[i - 1].cum <= key)
  BY SegmentFound
<1>2. \A j \in 1 .. Len(dist) : dist[j] \in Point /\ dist[j].value \in Int
  BY PointListFacts
<1>3. CASE i = 1
  BY <1>1, <1>2, <1>3 DEF GetValue
<1>4. CASE i # 1
  <2>1. dist[i - 1].value <= dist[i].value
    BY <1>1, <1>4, PointListFacts
  <2>2. Interpolate(dist[i - 1], dist[i], key) \in dist[i - 1].value .. dist[i].value
    BY <1>1, <1>2, <1>4, <2>1, InterpolateBetween
  <2>3. GetValue(dist, key) = Interpolate(dist[i - 1], dist[i], key)
    BY <1>4 DEF GetValue
  <2>4. QED BY <1>1, <1>2, <1>4, <2>2, <2>3
<1>5. QED BY <1>3, <1>4

(* getValue never extrapolates, for any list of points. *)
THEOREM GetValueInRange ==
  ASSUME NEW dist, IsPointList(dist), NEW key \in Int
  PROVE  GetValue(dist, key) \in dist[1].value .. dist[Len(dist)].value
<1>1. \A j \in 1 .. Len(dist) :
        dist[j].value \in Int /\ dist[1].value <= dist[j].value /\ dist[j].value <= dist[Len(dist)].value
  BY PointListFacts
<1>2. Len(dist) \in Nat \ {0}
  BY PointListFacts
<1>3. CASE CumAbove(dist, key) = {}
  BY <1>1, <1>2, <1>3 DEF GetValue
<1>4. CASE CumAbove(dist, key) # {}
  <2> DEFINE i == Min(CumAbove(dist, key))
  <2>1. i \in 1 .. Len(dist) /\ (i # 1 => i - 1 \in 1 .. Len(dist))
    BY <1>4, SegmentFound
  <2>2. /\ GetValue(dist, key) \in Int /\ GetValue(dist, key) <= dist[i].value
        /\ IF i = 1 THEN GetValue(dist, key) = dist[1].value
           ELSE dist[i - 1].value <= GetValue(dist, key)
    BY <1>4, ValueInSegment
  <2> HIDE DEF i
  <2>3. QED BY <1>1, <1>2, <2>1, <2>2
<1>5. QED BY <1>3, <1>4

(* A larger probability never gives an earlier value. *)
THEOREM GetValueMonotone ==
  ASSUME NEW dist, IsPointList(dist), NEW key \in Int, NEW key2 \in Int, key <= key2
  PROVE  GetValue(dist, key) <= GetValue(dist, key2)
<1> DEFINE A == CumAbove(dist, key)
           B == CumAbove(dist, key2)
<1>1. \A j \in 1 .. Len(dist) :
        dist[j] \in Point /\ dist[j].value \in Int /\ dist[j].cum \in Int
  BY PointListFacts
<1>2. B \subseteq A
  BY <1>1 DEF CumAbove
<1>3. CASE B = {}
  <2>1. GetValue(dist, key2) = dist[Len(dist)].value
    BY <1>3 DEF GetValue
  <2>2. QED BY <2>1, GetValueInRange, <1>1, PointListFacts
<1>4. CASE B # {}
  <2> DEFINE i == Min(A)
             j == Min(B)
  <2>1. /\ i \in 1 .. Len(dist) /\ key < dist[i].cum /\ \A n \in A : i <= n
        /\ (i # 1 => i - 1 \in 1 .. Len(dist) /\ dist[i - 1].cum <= key)
    BY <1>2, <1>4, SegmentFound
  <2>2. j \in B /\ j \in 1 .. Len(dist) /\ key2 < dist[j].cum
    <3>1. j \in 1 .. Len(dist) /\ key2 < dist[j].cum
      BY <1>4, SegmentFound
    <3>2. QED BY <3>1, <1>1 DEF CumAbove
  <2>3. /\ GetValue(dist, key) \in Int /\ GetValue(dist, key) <= dist[i].value
        /\ (i = 1 => GetValue(dist, key) = dist[1].value)
    BY <1>2, <1>4, ValueInSegment
  <2>4. /\ GetValue(dist, key2) \in Int
        /\ IF j = 1 THEN GetValue(dist, key2) = dist[1].value
           ELSE dist[j - 1].value <= GetValue(dist, key2)
    BY <1>4, ValueInSegment
  <2>5. i <= j
    BY <1>2, <2>1, <2>2
  <2>6. CASE i = j /\ i # 1
    <3>1. GetValue(dist, key) = Interpolate(dist[i - 1], dist[i], key)
          /\ GetValue(dist, key2) = Interpolate(dist[i - 1], dist[i], key2)
      BY <2>6, <1>2, <1>4 DEF GetValue
    <3> HIDE DEF i, j, A, B
    <3>2. dist[i - 1].value <= dist[i].value /\ dist[i - 1].cum < dist[i].cum
      BY <2>1, <2>6, <1>1, PointListFacts
    <3>3. QED BY <1>1, <2>1, <2>6, <3>1, <3>2, InterpolateMonotone
  <2>7. CASE i = j /\ i = 1
    BY <2>3, <2>4, <2>7
  <2>8. CASE i < j
    <3> HIDE DEF i, j, A, B
    <3>1. j # 1 /\ j - 1 \in 1 .. Len(dist) /\ i <= j - 1
      BY <2>1, <2>2, <2>8
    <3>2. dist[i].value <= dist[j - 1].value
      BY <2>1, <3>1, PointListFacts
    <3>3. QED BY <1>1, <2>1, <2>3, <2>4, <3>1, <3>2
  <2>9. QED
    <3> HIDE DEF i, j, A, B
    <3>1. i < j \/ i = j
      BY <2>1, <2>2, <2>5
    <3>2. QED BY <2>6, <2>7, <2>8, <3>1
<1>5. QED BY <1>3, <1>4

(* The upper bound of an interval lies after the key, and no point of the
   distribution lies between the two. *)
THEOREM UpperBoundIsNext ==
  ASSUME NEW dist, IsPointList(dist), NEW v \in Int, InSupport(dist, v)
  PROVE  /\ GetUpperBound(dist, v) > v
         /\ \A i \in 1 .. Len(dist) :
              ~(v < dist[i].value /\ dist[i].value < GetUpperBound(dist, v))
<1> DEFINE above == ValueAbove(dist, v)
<1>1. above \in SUBSET Nat /\ above # {}
  BY PointListFacts DEF ValueAbove, InSupport
<1>2. Min(above) \in above /\ \A j \in above : Min(above) <= j
  BY <1>1, MinProperties
<1>3. GetUpperBound(dist, v) = dist[Min(above)].value
  BY DEF GetUpperBound
<1>4. Min(above) \in 1 .. Len(dist) /\ dist[Min(above)].value > v
  BY <1>2 DEF ValueAbove
<1> HIDE DEF above
<1>5. ASSUME NEW i \in 1 .. Len(dist), v < dist[i].value
      PROVE  dist[Min(above)].value <= dist[i].value
  <2>1. i \in above
    BY <1>5, PointListFacts DEF above, ValueAbove
  <2>2. QED BY <1>2, <1>4, <2>1, PointListFacts
<1>6. QED
  BY <1>3, <1>4, <1>5, PointListFacts

-----------------------------------------------------------------------------
(* Consecutive points in order are all in order. *)
LEMMA CumulativeOrder ==
  ASSUME NEW dist, IsPointList(dist), IsCumulative(dist)
  PROVE  \A i, j \in 1 .. Len(dist) : i <= j => dist[i].cum <= dist[j].cum
<1> SUFFICES ASSUME NEW i \in 1 .. Len(dist)
             PROVE  \A j \in 1 .. Len(dist) : i <= j => dist[i].cum <= dist[j].cum
  OBVIOUS
<1> DEFINE T == {j \in Nat : j \in 1 .. Len(dist) /\ i <= j /\ ~(dist[i].cum <= dist[j].cum)}
<1>1. Len(dist) \in Nat /\ \A j \in 1 .. Len(dist) : dist[j].cum \in Int
  BY PointListFacts
<1>2. SUFFICES ASSUME T # {} PROVE FALSE
  BY <1>1
<1>3. PICK m \in T : \A j \in T : m <= j
  BY <1>2, LeastElement
<1>4. /\ m \in 1 .. Len(dist) /\ i < m /\ m - 1 \in 1 .. Len(dist) - 1 /\ i <= m - 1
      /\ m - 1 \in Nat /\ ~(dist[i].cum <= dist[m].cum)
  BY <1>1, <1>3
<1>5. dist[i].cum <= dist[m - 1].cum
  BY <1>1, <1>3, <1>4
<1>6. dist[m - 1].cum <= dist[m].cum
  BY <1>1, <1>4 DEF IsCumulative
<1>7. QED BY <1>1, <1>4, <1>5, <1>6

(* The interpolated value, rounded down, is the last one the segment of the curve
   reaches no later than the key. *)
LEMMA InterpolateInverts ==
  ASSUME NEW lo \in Point, NEW hi \in Point, NEW key \in Int,
         lo.value < hi.value, lo.cum <= key, key < hi.cum,
         NEW v, v = Interpolate(lo, hi, key)
  PROVE  /\ v \in Int /\ lo.value <= v /\ v < hi.value
         /\ (hi.cum - lo.cum) * (v - lo.value) <= (key - lo.cum) * (hi.value - lo.value)
         /\ (hi.cum - lo.cum) * ((v + 1) - lo.value) > (key - lo.cum) * (hi.value - lo.value)
<1> DEFINE m == hi.value - lo.value
           k == key - lo.cum
           c == hi.cum - lo.cum
           q == (m * k) \div c
<1>1. m \in Nat \ {0} /\ k \in Nat /\ c \in Nat \ {0} /\ k < c /\ lo.value \in Int
      /\ hi.value = lo.value + m
  BY DEF Point
<1>2. v = lo.value + q
  BY DEF Interpolate
<1> HIDE DEF m, k, c
<1>3. m * k \in Nat /\ m * k = k * m /\ m * k < m * c /\ m * c = c * m
  BY <1>1, SMTT(30)
<1>4. q \in Int /\ c * q <= m * k /\ m * k < c * (q + 1)
  <2> DEFINE a == m * k
  <2>1. a \in Nat
    BY <1>3
  <2> HIDE DEF a
  <2>2. a \div c \in Int /\ c * (a \div c) <= a /\ a < c * ((a \div c) + 1)
    BY <1>1, <2>1, SMTT(30)
  <2>3. QED BY <2>2 DEF a
<1> HIDE DEF q
<1>5. 0 <= q
  BY <1>1, <1>3, <1>4, SMTT(30)
<1>6. q < m
  BY <1>1, <1>3, <1>4, SMTT(30)
<1>7. v \in Int /\ v - lo.value = q /\ (v + 1) - lo.value = q + 1
  BY <1>1, <1>2, <1>4
<1>8. QED BY <1>1, <1>2, <1>3, <1>4, <1>5, <1>6, <1>7 DEF m, k, c

(* getValue inverts the cumulative curve, for any list of points whose cumulative
   column is in order: ContinuousAttributeLite::getValue. *)
THEOREM GetValueInverts ==
  ASSUME NEW dist, IsPointList(dist), IsCumulative(dist), Len(dist) > 1, NEW key \in Int
  PROVE  InvertsAt(dist, key, GetValue(dist, key))
<1> DEFINE v == GetValue(dist, key)
           n == Len(dist)
           Value(j) == dist[j].value
           Cum(j) == dist[j].cum
           Left(j, w) == (Cum(j + 1) - Cum(j)) * (w - Value(j))
           Right(j) == (key - Cum(j)) * (Value(j + 1) - Value(j))
<1>1. /\ n \in Nat /\ n > 1
      /\ \A j \in 1 .. n : dist[j] \in Point /\ Value(j) \in Int /\ Cum(j) \in Int
      /\ \A i, j \in 1 .. n : i <= j => Value(i) <= Value(j) /\ Cum(i) <= Cum(j)
      /\ \A i, j \in 1 .. n : i < j => Value(i) < Value(j)
  BY PointListFacts, CumulativeOrder DEF IsPointList
<1>2. \A w : CurveAtMost(dist, w, key) <=>
        \E j \in 1 .. n - 1 : Value(j) <= w /\ w <= Value(j + 1) /\ Left(j, w) <= Right(j)
  BY DEF CurveAtMost
<1>3. SUFFICES /\ CurveAtMost(dist, v, key) \/ v = Value(1)
               /\ v < Value(n) => ~CurveAtMost(dist, v + 1, key)
  BY DEF InvertsAt
<1> HIDE DEF v, n, Value, Cum, Left, Right
<1>4. CASE CumAbove(dist, key) = {}
  <2>1. v = Value(n)
    BY <1>4 DEF GetValue, v, n, Value
  <2>2. n - 1 \in 1 .. n /\ n - 1 \in 1 .. n - 1 /\ (n - 1) + 1 = n /\ n \in 1 .. n
    BY <1>1
  <2>3. Cum(n) <= key
    BY <1>1, <1>4, <2>2 DEF CumAbove, n, Cum
  <2>4. Left(n - 1, v) <= Right(n - 1)
    <3> DEFINE w == Value(n) - Value(n - 1)
    <3>1. w \in Nat /\ Cum(n) - Cum(n - 1) \in Int /\ key - Cum(n - 1) \in Int
          /\ Cum(n) - Cum(n - 1) <= key - Cum(n - 1)
      BY <1>1, <2>2, <2>3
    <3> HIDE DEF w
    <3>2. w * (Cum(n) - Cum(n - 1)) <= w * (key - Cum(n - 1))
      BY <3>1, ProductMonotone
    <3>3. (Cum(n) - Cum(n - 1)) * w <= (key - Cum(n - 1)) * w
      BY <3>1, <3>2, SMTT(30)
    <3>4. QED BY <2>1, <2>2, <3>3 DEF w, Left, Right
  <2>5. Value(n - 1) <= v /\ v <= Value(n)
    BY <1>1, <2>1, <2>2
  <2>6. CurveAtMost(dist, v, key)
    BY <1>2, <2>2, <2>4, <2>5
  <2>7. ~(v < Value(n))
    BY <1>1, <2>1, <2>2
  <2>8. QED BY <2>6, <2>7
<1>5. CASE CumAbove(dist, key) # {}
  <2>1. PICK i \in 1 .. n : i = Min(CumAbove(dist, key)) /\ key < Cum(i)
                          /\ (i # 1 => i - 1 \in 1 .. n /\ Cum(i - 1) <= key)
    BY <1>5, SegmentFound DEF n, Cum
  (* After the segment the curve is above the key. *)
  <2>2. ASSUME NEW j \in 1 .. n - 1, i <= j, NEW w \in Int, Value(j) <= w,
               Left(j, w) <= Right(j)
        PROVE  FALSE
    <3>1. j \in 1 .. n /\ j + 1 \in 1 .. n /\ j < j + 1
      BY <1>1
    <3>2. /\ Cum(j + 1) - Cum(j) \in Nat /\ w - Value(j) \in Nat
          /\ Cum(j) - key \in Nat \ {0} /\ Value(j + 1) - Value(j) \in Nat \ {0}
      <4>1. /\ Cum(j) \in Int /\ Cum(j + 1) \in Int /\ Cum(i) \in Int
            /\ Value(j) \in Int /\ Value(j + 1) \in Int
        BY <1>1, <3>1
      <4>2. Cum(j) <= Cum(j + 1) /\ Cum(i) <= Cum(j) /\ Value(j) < Value(j + 1)
        BY <1>1, <2>2, <3>1
      <4>3. QED BY <2>1, <2>2, <4>1, <4>2
    <3>3. key - Cum(j) = -(Cum(j) - key)
      BY <1>1, <3>1
    <3> DEFINE a == Cum(j + 1) - Cum(j)
               b == w - Value(j)
               c == Cum(j) - key
               d == Value(j + 1) - Value(j)
    <3>4. a * b <= (-c) * d
      BY <2>2, <3>3 DEF Left, Right
    <3> HIDE DEF a, b, c, d
    <3>5. a \in Nat /\ b \in Nat /\ c \in Nat \ {0} /\ d \in Nat \ {0}
      BY <3>2 DEF a, b, c, d
    <3>6. a * b >= 0 /\ c * d > 0 /\ (-c) * d = -(c * d)
      BY <3>5, SMTT(30)
    <3>7. QED BY <3>4, <3>5, <3>6, SMTT(30)
  <2>3. CASE i = 1
    <3>1. v = Value(1) /\ v \in Int
      BY <1>1, <1>5, <2>1, <2>3 DEF GetValue, v, Value
    <3>2. ~CurveAtMost(dist, v + 1, key)
      <4> SUFFICES ASSUME NEW j \in 1 .. n - 1, Value(j) <= v + 1, Left(j, v + 1) <= Right(j)
                   PROVE  FALSE
        BY <1>2
      <4>1. v + 1 \in Int /\ i <= j
        BY <1>1, <2>3, <3>1
      <4>2. QED BY <2>2, <4>1
    <3>3. QED BY <3>1, <3>2
  <2>4. CASE i # 1
    <3>1. v = Interpolate(dist[i - 1], dist[i], key)
      BY <1>5, <2>1, <2>4 DEF GetValue, v
    <3>2. /\ i - 1 \in 1 .. n - 1 /\ i - 1 \in 1 .. n /\ (i - 1) + 1 = i
          /\ Value(i - 1) < Value(i) /\ Cum(i - 1) <= key
      BY <1>1, <2>1, <2>4
    <3>3. /\ v \in Int /\ Value(i - 1) <= v /\ v < Value(i)
          /\ Left(i - 1, v) <= Right(i - 1) /\ Left(i - 1, v + 1) > Right(i - 1)
      <4>1. /\ dist[i - 1] \in Point /\ dist[i] \in Point
            /\ dist[i - 1].value = Value(i - 1) /\ dist[i].value = Value(i)
            /\ dist[i - 1].cum = Cum(i - 1) /\ dist[i].cum = Cum(i)
        BY <1>1, <2>1, <3>2 DEF Value, Cum
      <4>2. /\ v \in Int /\ Value(i - 1) <= v /\ v < Value(i)
            /\ (Cum(i) - Cum(i - 1)) * (v - Value(i - 1))
                 <= (key - Cum(i - 1)) * (Value(i) - Value(i - 1))
            /\ (Cum(i) - Cum(i - 1)) * ((v + 1) - Value(i - 1))
                 > (key - Cum(i - 1)) * (Value(i) - Value(i - 1))
        BY <2>1, <3>1, <3>2, <4>1, InterpolateInverts
      <4>3. /\ \A w : Left(i - 1, w) = (Cum(i) - Cum(i - 1)) * (w - Value(i - 1))
            /\ Right(i - 1) = (key - Cum(i - 1)) * (Value(i) - Value(i - 1))
        BY <3>2, Zenon DEF Left, Right
      <4>4. Left(i - 1, v) <= Right(i - 1) /\ Left(i - 1, v + 1) > Right(i - 1)
        BY <4>2, <4>3, Zenon
      <4>5. QED BY <4>2, <4>4
    <3>4. CurveAtMost(dist, v, key)
      <4>1. v <= Value(i)
        BY <1>1, <3>3
      <4>2. QED BY <1>2, <3>2, <3>3, <4>1
    <3>5. ~CurveAtMost(dist, v + 1, key)
      <4> SUFFICES ASSUME NEW j \in 1 .. n - 1, Value(j) <= v + 1, v + 1 <= Value(j + 1),
                          Left(j, v + 1) <= Right(j)
                   PROVE  FALSE
        BY <1>2
      <4>1. j \in 1 .. n /\ j + 1 \in 1 .. n /\ v + 1 \in Int
        BY <1>1, <3>3
      <4>2. CASE j < i - 1
        <5>1. Value(j + 1) <= Value(i - 1)
          BY <1>1, <3>2, <4>1, <4>2
        <5>2. QED BY <1>1, <3>2, <3>3, <4>1, <5>1
      <4>3. CASE j = i - 1
        <5>1. Left(j, v + 1) \in Int /\ Right(j) \in Int
          BY <1>1, <4>1 DEF Left, Right
        <5>2. QED BY <3>3, <4>3, <5>1
      <4>4. CASE i <= j
        <5>1. QED BY <2>2, <4>1, <4>4
      <4>5. QED BY <2>1, <4>1, <4>2, <4>3, <4>4
    <3>6. QED BY <3>4, <3>5
  <2>5. QED BY <2>3, <2>4
<1>6. QED BY <1>4, <1>5

-----------------------------------------------------------------------------
(* Categorical distributions.  The masses up to a position, and their sum. *)
PartialSum(masses, i) == SumFunctionOnSet(masses, 1 .. i)

LEMMA PartialSums ==
  ASSUME NEW masses \in Seq(Nat)
  PROVE  /\ PartialSum(masses, 0) = 0 /\ PartialSum(masses, Len(masses)) = Total(masses)
         /\ \A i \in 0 .. Len(masses) : PartialSum(masses, i) \in Int
         /\ \A i \in 1 .. Len(masses) :
              PartialSum(masses, i) = PartialSum(masses, i - 1) + masses[i]
<1> DEFINE n == Len(masses)
<1>1. n \in Nat /\ DOMAIN masses = 1 .. n /\ \A i \in 1 .. n : masses[i] \in Nat
  OBVIOUS
<1>2. PartialSum(masses, 0) = 0
  <2>1. 1 .. 0 = {}
    OBVIOUS
  <2>2. QED BY <2>1, SumEmpty DEF PartialSum
<1>3. PartialSum(masses, n) = Total(masses)
  BY <1>1 DEF PartialSum, Total, MapThenSumSet, SumFunctionOnSet, FoldFunctionOnSet
<1> HIDE DEF n
<1>4. \A i \in 0 .. n : PartialSum(masses, i) \in Int
  <2> SUFFICES ASSUME NEW i \in 0 .. n PROVE PartialSum(masses, i) \in Int
    OBVIOUS
  <2>1. IsFiniteSet(1 .. i) /\ \A j \in 1 .. i : masses[j] \in Int
    BY <1>1, FS_Interval
  <2>2. QED BY <2>1, SumType DEF PartialSum
<1>5. \A i \in 1 .. n : PartialSum(masses, i) = PartialSum(masses, i - 1) + masses[i]
  <2> SUFFICES ASSUME NEW i \in 1 .. n
               PROVE  PartialSum(masses, i) = PartialSum(masses, i - 1) + masses[i]
    OBVIOUS
  <2>1. /\ IsFiniteSet(1 .. (i - 1)) /\ \A j \in 1 .. (i - 1) : masses[j] \in Int
        /\ i \notin 1 .. (i - 1) /\ masses[i] \in Int
    BY <1>1, FS_Interval
  <2>2. 1 .. i = (1 .. (i - 1)) \cup {i}
    BY <1>1
  <2>3. QED BY <2>1, <2>2, SumAdd DEF PartialSum
<1>6. QED BY <1>2, <1>3, <1>4, <1>5 DEF n

(* The sums of the masses are in order. *)
LEMMA PartialSumMonotone ==
  ASSUME NEW masses \in Seq(Nat)
  PROVE  \A i, j \in 0 .. Len(masses) :
           i <= j => PartialSum(masses, i) <= PartialSum(masses, j)
<1> DEFINE n == Len(masses)
           P(j) == PartialSum(masses, j)
<1>1. /\ n \in Nat /\ \A j \in 0 .. n : P(j) \in Int
      /\ \A j \in 1 .. n : masses[j] \in Nat /\ P(j) = P(j - 1) + masses[j]
  BY PartialSums
<1> SUFFICES ASSUME NEW i \in 0 .. n
             PROVE  \A j \in 0 .. n : i <= j => P(i) <= P(j)
  OBVIOUS
<1> HIDE DEF P, n
<1> DEFINE T == {j \in Nat : j \in 0 .. n /\ i <= j /\ ~(P(i) <= P(j))}
<1>2. SUFFICES ASSUME T # {} PROVE FALSE
  <2>1. ASSUME NEW j \in 0 .. n, i <= j, ~(P(i) <= P(j)) PROVE j \in T
    BY <1>1, <2>1
  <2> HIDE DEF T
  <2>2. QED BY <2>1
<1>3. PICK m \in T : \A j \in T : m <= j
  BY <1>2, LeastElement
<1>4. m \in 1 .. n /\ i <= m - 1 /\ m - 1 \in 0 .. n /\ m - 1 \in Nat /\ ~(P(i) <= P(m))
  BY <1>1, <1>3
<1>5. P(i) <= P(m - 1)
  BY <1>1, <1>3, <1>4
<1>6. P(m) = P(m - 1) + masses[m] /\ masses[m] \in Nat /\ P(m - 1) \in Int /\ P(i) \in Int
  BY <1>1, <1>4
<1>7. QED BY <1>4, <1>5, <1>6

(* The cumulative probability the constructor stores is the sum of all the masses
   up to the value: those it leaves out are zero. *)
LEMMA CumulativeIsPartialSum ==
  ASSUME NEW masses \in Seq(Nat), NEW i \in 0 .. Len(masses)
  PROVE  Cumulative(masses, i) = PartialSum(masses, i)
<1> DEFINE n == Len(masses)
           P(j) == PartialSum(masses, j)
           Kept(j) == {l \in Row(masses) : l <= j}
           C(j) == SumFunctionOnSet(masses, Kept(j))
<1>1. /\ n \in Nat /\ P(0) = 0 /\ \A j \in 0 .. n : P(j) \in Int
      /\ \A j \in 1 .. n : masses[j] \in Nat /\ P(j) = P(j - 1) + masses[j]
  BY PartialSums
<1>2. Cumulative(masses, i) = C(i)
  BY DEF Cumulative, MapThenSumSet, SumFunctionOnSet, FoldFunctionOnSet
<1>3. C(0) = 0
  <2>1. Kept(0) = {}
    BY DEF Row
  <2>2. QED BY <2>1, SumEmpty
<1>4. ASSUME NEW j \in 1 .. n PROVE C(j) = C(j - 1) + masses[j] /\ C(j - 1) \in Int
  <2>1. IsFiniteSet(1 .. n) /\ Kept(j - 1) \subseteq 1 .. n
    BY <1>1, FS_Interval DEF Row
  <2>2. /\ IsFiniteSet(Kept(j - 1)) /\ \A l \in Kept(j - 1) : masses[l] \in Int
        /\ j \notin Kept(j - 1) /\ masses[j] \in Int
    BY <1>1, <2>1, FS_Subset
  <2>3. C(j - 1) \in Int
    BY <2>2, SumType
  <2>4. CASE masses[j] > 0
    <3>1. Kept(j) = Kept(j - 1) \cup {j}
      BY <1>1, <2>4 DEF Row
    <3>2. QED BY <2>2, <2>3, <3>1, SumAdd
  <2>5. CASE ~(masses[j] > 0)
    <3>1. Kept(j) = Kept(j - 1)
      BY <1>1, <2>5 DEF Row
    <3>2. masses[j] = 0
      BY <1>1, <2>5
    <3>3. C(j) = C(j - 1)
      BY <3>1, Zenon
    <3> HIDE DEF C
    <3>4. QED BY <2>3, <3>2, <3>3
  <2>6. QED BY <2>4, <2>5
<1> HIDE DEF C, P, n
<1> DEFINE T == {j \in Nat : j \in 0 .. n /\ C(j) # P(j)}
<1>5. T = {}
  <2>1. SUFFICES ASSUME T # {} PROVE FALSE
    OBVIOUS
  <2>2. PICK m \in T : \A j \in T : m <= j
    BY <2>1, LeastElement
  <2>3. m \in 1 .. n /\ m - 1 \in 0 .. n /\ m - 1 \in Nat
    BY <1>1, <1>3, <2>2
  <2>4. C(m - 1) = P(m - 1)
    BY <1>1, <2>2, <2>3
  <2>5. QED BY <1>1, <1>4, <2>2, <2>3, <2>4
<1>6. C(i) = P(i)
  BY <1>1, <1>5 DEF n
<1>7. QED BY <1>2, <1>6 DEF P

(* The values of a draw: position i is drawn by the numbers above the sum of the
   masses before it and not above the sum with its own. *)
LEMMA DrawInterval ==
  ASSUME NEW masses \in Seq(Nat), NEW i \in 1 .. Len(masses), NEW key \in Nat \ {0}
  PROVE  Draw(masses, key) = i <=>
           PartialSum(masses, i - 1) < key /\ key <= PartialSum(masses, i)
<1> DEFINE n == Len(masses)
           P(j) == PartialSum(masses, j)
           reached == {j \in Row(masses) : Cumulative(masses, j) >= key}
<1>1. /\ n \in Nat /\ P(0) = 0 /\ \A j \in 0 .. n : P(j) \in Int
      /\ \A j \in 1 .. n : masses[j] \in Nat /\ P(j) = P(j - 1) + masses[j]
  BY PartialSums
<1>2. \A j, l \in 0 .. n : j <= l => P(j) <= P(l)
  BY PartialSumMonotone
<1>3. \A j \in 1 .. n : j \in reached <=> masses[j] > 0 /\ P(j) >= key
  BY <1>1, CumulativeIsPartialSum DEF Row
<1>4. reached \subseteq 1 .. n /\ reached \in SUBSET Nat
  BY <1>1 DEF Row
<1>5. Draw(masses, key) = IF reached = {} THEN IndexOutOfRange ELSE Min(reached)
  BY DEF Draw
<1>6. reached # {} => Min(reached) \in reached /\ \A y \in reached : Min(reached) <= y
  BY <1>4, MinProperties
<1> HIDE DEF P, reached
<1>7. /\ i \in 1 .. n /\ i \in Nat /\ i - 1 \in 0 .. n /\ i \in 0 .. n
      /\ P(i) = P(i - 1) + masses[i] /\ masses[i] \in Nat /\ P(i - 1) \in Int
  BY <1>1
<1> HIDE DEF n
<1>8. ASSUME P(i - 1) < key, key <= P(i) PROVE Draw(masses, key) = i
  <2>1. masses[i] > 0 /\ i \in reached
    BY <1>3, <1>7, <1>8
  <2>2. ASSUME NEW j \in reached PROVE i <= j
    <3>1. j \in 1 .. n /\ P(j) >= key /\ P(j) \in Int
      BY <1>1, <1>3, <1>4
    <3>2. j <= i - 1 => P(j) <= P(i - 1)
      BY <1>1, <1>2, <1>7, <3>1
    <3>3. QED BY <1>1, <1>7, <1>8, <3>1, <3>2
  <2>3. Min(reached) = i
    <3>1. Min(reached) \in reached /\ Min(reached) <= i /\ Min(reached) \in Nat
      BY <1>4, <1>6, <2>1
    <3>2. i <= Min(reached)
      BY <2>2, <3>1
    <3>3. QED BY <1>7, <3>1, <3>2
  <2>4. QED BY <1>5, <2>1, <2>3
<1>9. ASSUME Draw(masses, key) = i PROVE P(i - 1) < key /\ key <= P(i)
  <2>1. reached # {} /\ i = Min(reached)
    BY <1>5, <1>7, <1>9 DEF IndexOutOfRange
  <2>2. i \in reached /\ \A y \in reached : i <= y
    BY <1>6, <2>1
  <2>3. key <= P(i)
    BY <1>3, <1>7, <2>2
  <2>4. ASSUME key <= P(i - 1) PROVE FALSE
    <3> DEFINE T == {j \in Nat : j \in 1 .. n /\ key <= P(j)}
    <3>1. i - 1 \in T
      BY <1>1, <1>7, <2>4
    <3>2. PICK m \in T : \A j \in T : m <= j
      BY <3>1, LeastElement
    <3>3. m \in 1 .. n /\ m <= i - 1 /\ m - 1 \in 0 .. n /\ key <= P(m)
      BY <1>1, <3>1, <3>2
    <3>4. P(m - 1) < key
      <4>1. CASE m = 1
        BY <1>1, <4>1
      <4>2. CASE m # 1
        <5>1. m - 1 \in 1 .. n /\ m - 1 \in Nat /\ P(m - 1) \in Int
          BY <1>1, <3>3, <4>2
        <5>2. QED BY <3>2, <3>3, <5>1
      <4>3. QED BY <4>1, <4>2
    <3>5. P(m) = P(m - 1) + masses[m] /\ masses[m] \in Nat /\ P(m - 1) \in Int
      BY <1>1, <3>3
    <3>6. m \in reached
      BY <1>3, <3>3, <3>4, <3>5
    <3>7. QED BY <1>7, <2>2, <3>3, <3>6
  <2>5. QED BY <1>7, <2>3, <2>4
<1>10. QED BY <1>8, <1>9 DEF P

(* Over all the numbers of the unit every value is drawn as often as its mass
   says, as long as the masses do not exceed one; in particular a value of mass
   zero is never drawn: CategoricalAttributeLite::getValue, for any list of masses. *)
THEOREM DrawsFollowMasses ==
  ASSUME NEW masses \in Seq(Nat), NEW unit \in Nat, Total(masses) <= unit
  PROVE  \A i \in 1 .. Len(masses) :
           Cardinality({key \in 1 .. unit : Draw(masses, key) = i}) = masses[i]
<1> SUFFICES ASSUME NEW i \in 1 .. Len(masses)
             PROVE  Cardinality({key \in 1 .. unit : Draw(masses, key) = i}) = masses[i]
  OBVIOUS
<1> DEFINE a == PartialSum(masses, i - 1)
           b == PartialSum(masses, i)
<1>1. /\ i - 1 \in 0 .. Len(masses) /\ i \in 0 .. Len(masses)
      /\ 0 \in 0 .. Len(masses) /\ Len(masses) \in 0 .. Len(masses) /\ Len(masses) \in Nat
      /\ 0 <= i - 1 /\ i <= Len(masses)
  OBVIOUS
<1>2. a \in Nat /\ b \in Nat /\ b = a + masses[i] /\ masses[i] \in Nat /\ b <= unit
  <2>1. a \in Int /\ b \in Int /\ b = a + masses[i] /\ PartialSum(masses, 0) = 0
        /\ PartialSum(masses, Len(masses)) = Total(masses)
    BY <1>1, PartialSums
  <2>2. PartialSum(masses, 0) <= a /\ b <= PartialSum(masses, Len(masses))
    BY <1>1, PartialSumMonotone
  <2>3. masses[i] \in Nat
    OBVIOUS
  <2>4. Total(masses) \in Int
    BY <1>1, <2>1, PartialSums
  <2> HIDE DEF a, b
  <2>5. QED BY <2>1, <2>2, <2>3, <2>4
<1>3. \A key \in 1 .. unit : Draw(masses, key) = i <=> a < key /\ key <= b
  BY DrawInterval
<1> HIDE DEF a, b
<1>4. {key \in 1 .. unit : Draw(masses, key) = i} = (a + 1) .. b
  BY <1>2, <1>3
<1>5. Cardinality((a + 1) .. b) = masses[i]
  <2> DEFINE c == a + 1
  <2>1. c \in Int /\ b \in Int
    BY <1>2
  <2>2. Cardinality(c .. b) = IF c > b THEN 0 ELSE b - c + 1
    <3> HIDE DEF c
    <3>1. QED BY <2>1, FS_Interval
  <2>3. (IF c > b THEN 0 ELSE b - c + 1) = masses[i]
    BY <1>2
  <2>4. QED BY <2>2, <2>3
<1>6. QED BY <1>4, <1>5

(* A look-up fails exactly when the random number exceeds the sum of the masses:
   when the masses add up to one, IndexOutOfRangeException is never thrown. *)
THEOREM DrawFailsAboveTotal ==
  ASSUME NEW masses \in Seq(Nat), NEW key \in Nat \ {0}
  PROVE  Draw(masses, key) = IndexOutOfRange <=> key > Total(masses)
<1> DEFINE n == Len(masses)
           P(j) == PartialSum(masses, j)
<1>1. /\ n \in Nat /\ P(0) = 0 /\ P(n) = Total(masses)
      /\ \A j \in 0 .. n : P(j) \in Int
  BY PartialSums
<1>2. \A j, l \in 0 .. n : j <= l => P(j) <= P(l)
  BY PartialSumMonotone
<1>3. \A j \in 1 .. n : Draw(masses, key) = j <=> P(j - 1) < key /\ key <= P(j)
  BY DrawInterval
<1>4. Draw(masses, key) = IndexOutOfRange \/ Draw(masses, key) \in 1 .. n
  <2> DEFINE reached == {j \in Row(masses) : Cumulative(masses, j) >= key}
  <2>1. reached \in SUBSET Nat /\ reached \subseteq 1 .. n
    BY DEF Row
  <2>2. QED BY <2>1, MinProperties DEF Draw
<1> HIDE DEF n, P
<1>5. ASSUME key > P(n), Draw(masses, key) \in 1 .. n PROVE FALSE
  <2> DEFINE j == Draw(masses, key)
  <2>1. j \in 1 .. n /\ key <= P(j)
    BY <1>3, <1>5
  <2> HIDE DEF j
  <2>2. P(j) <= P(n) /\ P(j) \in Int /\ P(n) \in Int
    BY <1>1, <1>2, <2>1
  <2>3. QED BY <1>5, <2>1, <2>2
<1>6. ASSUME key <= P(n) PROVE Draw(masses, key) \in 1 .. n
  <2> DEFINE T == {j \in Nat : j \in 0 .. n /\ key <= P(j)}
  <2>1. n \in T
    BY <1>1, <1>6
  <2>2. PICK m \in T : \A j \in T : m <= j
    BY <2>1, LeastElement
  <2>3. m \in 1 .. n /\ m - 1 \in 0 .. n /\ m - 1 \in Nat /\ key <= P(m)
    BY <1>1, <2>2
  <2>4. P(m - 1) < key
    BY <1>1, <2>2, <2>3
  <2>5. QED BY <1>3, <2>3, <2>4
<1>7. QED
  <2>1. P(n) \in Int /\ 0 \notin 1 .. n
    BY <1>1
  <2>2. QED BY <1>1, <1>4, <1>5, <1>6, <2>1 DEF IndexOutOfRange

-----------------------------------------------------------------------------
(* Willingness to pay. *)
LEMMA FRAT5IsPointList == IsPointList(FRAT5Pattern) /\ FRAT5Pattern[1].value = 1100
<1> DEFINE coef == <<1100, 1200, 1300, 1400, 1700, 2000, 2300, 2440, 2500, 2501>>
           day == <<-365, -63, -49, -35, -23, -16, -10, -5, -1, 0>>
<1>1. FRAT5Pattern = [i \in 1 .. 10 |-> [value |-> coef[i], cum |-> day[i]]]
  BY DEF FRAT5Pattern
<1>2. /\ coef[1] = 1100 /\ coef[2] = 1200 /\ coef[3] = 1300 /\ coef[4] = 1400 /\ coef[5] = 1700
      /\ coef[6] = 2000 /\ coef[7] = 2300 /\ coef[8] = 2440 /\ coef[9] = 2500
      /\ coef[10] = 2501
  OBVIOUS
<1>3. /\ day[1] = -365 /\ day[2] = -63 /\ day[3] = -49 /\ day[4] = -35 /\ day[5] = -23
      /\ day[6] = -16 /\ day[7] = -10 /\ day[8] = -5 /\ day[9] = -1 /\ day[10] = 0
  OBVIOUS
<1> HIDE DEF coef, day
<1>4. \A i \in 1 .. 10 : coef[i] \in Int /\ day[i] \in Int
  BY <1>2, <1>3
<1>5. \A i, j \in 1 .. 10 : i < j => coef[i] < coef[j]
  <2>1. \A i \in 1 .. 9 : coef[i] < coef[i + 1]
    BY <1>2
  <2> SUFFICES ASSUME NEW i \in 1 .. 10, NEW j \in 1 .. 10, i < j PROVE coef[i] < coef[j]
    OBVIOUS
  <2>2. QED BY <1>2, SMTT(60)
<1>6. FRAT5Pattern \in Seq(Point) /\ Len(FRAT5Pattern) = 10
  BY <1>1, <1>4 DEF Point
<1>7. QED BY <1>1, <1>2, <1>5, <1>6 DEF IsPointList

(* For the same draws a request made a day later is never willing to pay less, and
   none less than the minimum of its stream: DemandStream::generateWTP, for any
   number of days before or after the departure. *)
THEOREM LaterRequestsPayMore ==
  ASSUME NEW c, c.minWTP \in Nat, NEW advance \in Int, NEW x \in Nat
  PROVE  /\ GenerateWTP(c, advance, x) >= GenerateWTP(c, advance + 1, x)
         /\ GenerateWTP(c, advance, x) >= c.minWTP
<1> DEFINE f == Frat5(advance)
           g == Frat5(advance + 1)
           w == c.minWTP
<1>1. f \in Int /\ g \in Int /\ 1100 <= f /\ 1100 <= g
  <2>1. -advance \in Int /\ -(advance + 1) \in Int
    OBVIOUS
  <2>2. FRAT5Pattern[Len(FRAT5Pattern)].value \in Int /\ FRAT5Pattern[1].value = 1100
    BY FRAT5IsPointList, PointListFacts
  <2>3. /\ f \in FRAT5Pattern[1].value .. FRAT5Pattern[Len(FRAT5Pattern)].value
        /\ g \in FRAT5Pattern[1].value .. FRAT5Pattern[Len(FRAT5Pattern)].value
    <3> DEFINE key == -advance
               key2 == -(advance + 1)
    <3>1. f = GetValue(FRAT5Pattern, key) /\ g = GetValue(FRAT5Pattern, key2)
      BY DEF Frat5
    <3>2. key \in Int /\ key2 \in Int
      BY <2>1
    <3> HIDE DEF key, key2, f, g
    <3>3. IsPointList(FRAT5Pattern)
      BY FRAT5IsPointList
    <3>4. GetValue(FRAT5Pattern, key) \in
            FRAT5Pattern[1].value .. FRAT5Pattern[Len(FRAT5Pattern)].value
      BY <3>2, <3>3, GetValueInRange, Zenon
    <3>5. GetValue(FRAT5Pattern, key2) \in
            FRAT5Pattern[1].value .. FRAT5Pattern[Len(FRAT5Pattern)].value
      BY <3>2, <3>3, GetValueInRange, Zenon
    <3>6. QED BY <3>1, <3>4, <3>5, Zenon
  <2> HIDE DEF f, g
  <2>4. QED BY <2>2, <2>3
<1>2. g <= f
  <2>1. -(advance + 1) <= -advance /\ -advance \in Int /\ -(advance + 1) \in Int
    OBVIOUS
  <2>2. QED BY <2>1, FRAT5IsPointList, GetValueMonotone DEF Frat5
<1>3. /\ GenerateWTP(c, advance, x) = (w * (10000 + (f - 1000) * x)) \div 10000
      /\ GenerateWTP(c, advance + 1, x) = (w * (10000 + (g - 1000) * x)) \div 10000
  BY DEF GenerateWTP
<1> HIDE DEF f, g, w
<1> DEFINE a == 10000 + (f - 1000) * x
           b == 10000 + (g - 1000) * x
<1>4. w \in Nat
  BY DEF w
<1>5. a \in Int /\ b \in Int /\ b <= a /\ 10000 <= a
  <2>1. x * (g - 1000) <= x * (f - 1000) /\ x * 0 <= x * (f - 1000)
    BY <1>1, <1>2, ProductMonotone
  <2>2. (g - 1000) * x = x * (g - 1000) /\ (f - 1000) * x = x * (f - 1000) /\ x * 0 = 0
        /\ (g - 1000) * x \in Int /\ (f - 1000) * x \in Int
    BY <1>1, SMTT(30)
  <2>3. QED BY <2>1, <2>2
<1> HIDE DEF a, b
<1>6. w * b <= w * a /\ w * 10000 <= w * a /\ w * a \in Int /\ w * b \in Int
  BY <1>4, <1>5, ProductMonotone
<1>7. (w * b) \div 10000 <= (w * a) \div 10000
  BY <1>6, DivMonotone
<1>8. w <= (w * a) \div 10000
  BY <1>4, <1>6, DivLower
<1>9. QED BY <1>3, <1>7, <1>8 DEF a, b, w
=============================================================================
