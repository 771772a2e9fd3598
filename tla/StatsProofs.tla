------------------------------ MODULE StatsProofs ------------------------------
(***************************************************************************)
(* For any records, clock, zones and data: the figures of Stats and the    *)
(* calendars of Calendar are what they promise.  The figures are functions *)
(* of the state, so they are right in every state in which the store's     *)
(* invariant holds; what it takes is to reason about sums, sorted values,  *)
(* loops over days and the two offsets of a zone.                          *)
(*                                                                         *)
(* Induction over the data is done with sets: a property of the parts of a *)
(* finite set is the set of those that have it (FinSet), and a counter-    *)
(* example of least size is refuted (Smallest).                            *)
(***************************************************************************)
EXTENDS Stats, SessionStoreProofs, FiniteSetTheorems, WellFoundedInduction, TLAPS

-----------------------------------------------------------------------------
(* Induction over sets in place of operators *)

\* A non-empty set of naturals has a least element.
LEMMA Least ==
    ASSUME NEW X \in SUBSET Nat, X # {}
    PROVE  \E n \in X : \A m \in X : n <= m
<1>1. \E n \in X : \A m \in X : ~(<<m, n>> \in OpToRel(<, Nat))
  BY WFMin, NatLessThanWellFounded
<1>2. PICK n \in X : \A m \in X : ~(<<m, n>> \in OpToRel(<, Nat))
  BY <1>1
<1>3. \A m \in X : ~(m < n)
  BY <1>2 DEF OpToRel
<1> QED
  BY <1>3

\* A set of naturals that holds 0 and every successor is all of them.
LEMMA NatSet ==
    ASSUME NEW X, 0 \in X, \A n \in Nat : n \in X => n + 1 \in X
    PROVE  Nat \subseteq X
<1> DEFINE out == Nat \ X
<1> SUFFICES ASSUME out # {} PROVE FALSE
  OBVIOUS
<1>1. PICK n \in out : \A m \in out : n <= m
  BY Least
<1>2. n # 0 /\ n - 1 \in Nat
  OBVIOUS
<1>3. n - 1 \in X
  BY <1>1, <1>2
<1> QED
  BY <1>2, <1>3

\* Some set among finite ones is smallest.
LEMMA Smallest ==
    ASSUME NEW S, IsFiniteSet(S), NEW B \in SUBSET (SUBSET S), B # {}
    PROVE  \E T \in B : /\ IsFiniteSet(T)
                        /\ \A x \in T : T \ {x} \notin B
<1>1. \A T \in B : IsFiniteSet(T) /\ Cardinality(T) \in Nat
  BY FS_Subset, FS_CardinalityType
<1> DEFINE sizes == {Cardinality(T) : T \in B}
<1>5. sizes \in SUBSET Nat /\ sizes # {}
  BY <1>1
<1> HIDE DEF sizes
<1>2. PICK n \in sizes : \A m \in sizes : n <= m
  BY <1>5, Least
<1>3. PICK T \in B : n = Cardinality(T)
  BY <1>2 DEF sizes
<1>4. ASSUME NEW x \in T, T \ {x} \in B PROVE FALSE
  <2>1. IsFiniteSet(T) /\ Cardinality(T) \in Nat
    BY <1>1
  <2>2. Cardinality(T \ {x}) = Cardinality(T) - 1
    BY <2>1, FS_RemoveElement
  <2>3. n <= Cardinality(T \ {x})
    BY <1>2, <1>4 DEF sizes
  <2> QED
    BY <1>3, <2>1, <2>2, <2>3
<1> QED
  BY <1>1, <1>3, <1>4

\* What holds of the empty set and stays true when an element comes in holds
\* of every finite set.
LEMMA FinSet ==
    ASSUME NEW S, IsFiniteSet(S), NEW G, {} \in G,
           \A T \in SUBSET S : \A x \in S \ T : T \in G => T \cup {x} \in G
    PROVE  S \in G
<1> DEFINE B == {T \in SUBSET S : T \notin G}
<1> SUFFICES ASSUME B # {} PROVE FALSE
  OBVIOUS
<1>1. PICK T \in B : \A x \in T : T \ {x} \notin B
  BY Smallest
<1>2. PICK x \in T : TRUE
  OBVIOUS
<1>3. T \ {x} \in G
  BY <1>1, <1>2
<1>4. (T \ {x}) \cup {x} = T
  OBVIOUS
<1>5. T \ {x} \in SUBSET S /\ x \in S \ (T \ {x})
  OBVIOUS
<1> HIDE DEF B
<1>6. (T \ {x}) \cup {x} \in G
  BY <1>3, <1>5
<1> QED
  BY <1>4, <1>6 DEF B

\* A finite set of integers has a largest and a smallest element.
LEMMA Bounded ==
    ASSUME NEW S \in SUBSET Int, IsFiniteSet(S), S # {}
    PROVE  /\ \E x \in S : \A y \in S : x >= y
           /\ \E x \in S : \A y \in S : x <= y
<1> DEFINE Most(T) == T = {} \/ ((\E x \in T : \A y \in T : x >= y) /\ (\E x \in T : \A y \in T : x <= y))
           G == {T \in SUBSET S : Most(T)}
<1>1. {} \in G
  OBVIOUS
<1>2. ASSUME NEW T \in SUBSET S, NEW x \in S \ T, T \in G PROVE T \cup {x} \in G
  <2>1. CASE T = {}
    BY <2>1
  <2>2. CASE T # {}
    <3>1. PICK a \in T : \A y \in T : a >= y
      BY <1>2, <2>2
    <3>2. PICK b \in T : \A y \in T : b <= y
      BY <1>2, <2>2
    <3>3. \E c \in T \cup {x} : \A y \in T \cup {x} : c >= y
      <4>1. CASE a >= x
        BY <3>1, <4>1
      <4>2. CASE ~(a >= x)
        BY <3>1, <4>2
      <4> QED
        BY <4>1, <4>2
    <3>4. \E c \in T \cup {x} : \A y \in T \cup {x} : c <= y
      <4>1. CASE b <= x
        BY <3>2, <4>1
      <4>2. CASE ~(b <= x)
        BY <3>2, <4>2
      <4> QED
        BY <4>1, <4>2
    <3> QED
      BY <3>3, <3>4
  <2> QED
    BY <2>1, <2>2
<1> HIDE DEF G
<1>3. S \in G
  BY <1>1, <1>2, FinSet
<1> QED
  BY <1>3 DEF G

-----------------------------------------------------------------------------
(* Sums *)

\* One of its elements is the first that a sum takes from a set.
FirstTaken(s) == CHOOSE x \in s : TRUE

\* g sums f over the sets in D.
Sums(g, f, D) ==
    g = [s \in D |-> IF s = {} THEN 0 ELSE f[FirstTaken(s)] + g[s \ {FirstTaken(s)}]]

\* The sum of the library is a value of such a function, if there is one.
LEMMA SumChosen ==
    ASSUME NEW f, NEW S, \E g : Sums(g, f, SUBSET S)
    PROVE  \E g : Sums(g, f, SUBSET S) /\ SumFunctionOnSet(f, S) = g[S]
<1> DEFINE iter == CHOOSE g : g = [s \in SUBSET S |->
                      IF s = {} THEN 0 ELSE f[CHOOSE x \in s : TRUE] + g[s \ {CHOOSE x \in s : TRUE}]]
<1>1. SumFunctionOnSet(f, S) = iter[S]
  BY DEF SumFunctionOnSet, FoldFunctionOnSet, MapThenFoldSet
<1>2. iter = [s \in SUBSET S |->
                  IF s = {} THEN 0 ELSE f[CHOOSE x \in s : TRUE] + iter[s \ {CHOOSE x \in s : TRUE}]]
  BY DEF Sums, FirstTaken
<1> QED
  BY <1>1, <1>2 DEF Sums, FirstTaken

\* There is one for the subsets of a finite set.
LEMMA SumsExist ==
    ASSUME NEW f, NEW S, IsFiniteSet(S)
    PROVE  \E g : Sums(g, f, SUBSET S)
<1> DEFINE UpTo(n) == {s \in SUBSET S : Cardinality(s) <= n}
           X == {n \in Nat : \E g : Sums(g, f, UpTo(n))}
<1>1. \A s \in SUBSET S : IsFiniteSet(s) /\ Cardinality(s) \in Nat
  BY FS_Subset, FS_CardinalityType
<1>2. \A s \in SUBSET S : s # {} =>
            /\ FirstTaken(s) \in s
            /\ s \ {FirstTaken(s)} \in SUBSET S
            /\ Cardinality(s \ {FirstTaken(s)}) = Cardinality(s) - 1
  BY <1>1, FS_RemoveElement DEF FirstTaken
<1>3. 0 \in X
  <2>1. \A s \in UpTo(0) : s = {}
    BY <1>1, FS_EmptySet
  <2>2. Sums([s \in UpTo(0) |-> 0], f, UpTo(0))
    BY <2>1 DEF Sums
  <2> QED
    BY <2>2
<1>4. ASSUME NEW n \in Nat, n \in X PROVE n + 1 \in X
  <2>1. PICK g : Sums(g, f, UpTo(n))
    BY <1>4
  <2> DEFINE h == [s \in UpTo(n + 1) |->
                      IF s = {} THEN 0 ELSE f[FirstTaken(s)] + g[s \ {FirstTaken(s)}]]
  <2>2. ASSUME NEW s \in UpTo(n + 1), s # {}
        PROVE  h[s \ {FirstTaken(s)}] = g[s \ {FirstTaken(s)}]
    <3> DEFINE r == s \ {FirstTaken(s)}
    <3>1. r \in UpTo(n) /\ r \in UpTo(n + 1)
      BY <1>1, <1>2, <2>2
    <3>2. g[r] = IF r = {} THEN 0 ELSE f[FirstTaken(r)] + g[r \ {FirstTaken(r)}]
      BY <2>1, <3>1 DEF Sums
    <3>3. h[r] = IF r = {} THEN 0 ELSE f[FirstTaken(r)] + g[r \ {FirstTaken(r)}]
      BY <3>1
    <3> QED
      BY <3>2, <3>3
  <2>3. Sums(h, f, UpTo(n + 1))
    <3>1. \A s \in UpTo(n + 1) : h[s] = IF s = {} THEN 0 ELSE f[FirstTaken(s)] + h[s \ {FirstTaken(s)}]
      BY <2>2
    <3>2. h = [s \in UpTo(n + 1) |-> h[s]]
      OBVIOUS
    <3> HIDE DEF h, UpTo
    <3> QED
      BY <3>1, <3>2 DEF Sums
  <2> HIDE DEF h, UpTo
  <2>4. \E k : Sums(k, f, UpTo(n + 1))
    BY <2>3
  <2> QED
    BY <2>4
<1> HIDE DEF X
<1>5. Cardinality(S) \in X
  BY <1>1, <1>3, <1>4, NatSet
<1>6. PICK g : Sums(g, f, UpTo(Cardinality(S)))
  BY <1>5 DEF X
<1>7. UpTo(Cardinality(S)) = SUBSET S
  <2>1. \A s \in SUBSET S : Cardinality(s) <= Cardinality(S)
    BY FS_Subset
  <2> QED
    BY <2>1
<1> QED
  BY <1>6, <1>7

\* Two such functions agree where both are defined.
LEMMA SumsAgree ==
    ASSUME NEW f, NEW S, IsFiniteSet(S), NEW T, T \in SUBSET S,
           NEW g, NEW h, Sums(g, f, SUBSET S), Sums(h, f, SUBSET T)
    PROVE  g[T] = h[T]
<1> DEFINE B == {s \in SUBSET T : g[s] # h[s]}
<1>1. SUFFICES ASSUME B # {} PROVE FALSE
  OBVIOUS
<1>2. IsFiniteSet(T) /\ B \in SUBSET (SUBSET T)
  BY FS_Subset
<1>3. PICK s \in B : \A x \in s : s \ {x} \notin B
  BY <1>1, <1>2, Smallest
<1>4. s # {} => FirstTaken(s) \in s
  BY DEF FirstTaken
<1>5. /\ g[s] = IF s = {} THEN 0 ELSE f[FirstTaken(s)] + g[s \ {FirstTaken(s)}]
      /\ h[s] = IF s = {} THEN 0 ELSE f[FirstTaken(s)] + h[s \ {FirstTaken(s)}]
  BY DEF Sums
<1>6. s # {}
  BY <1>5
<1>7. g[s \ {FirstTaken(s)}] = h[s \ {FirstTaken(s)}]
  BY <1>3, <1>4, <1>6
<1> QED
  BY <1>5, <1>6, <1>7

\* The sum over nothing is 0, and a sum is its first element and the rest.
LEMMA SumTaken ==
    ASSUME NEW f, NEW S, IsFiniteSet(S)
    PROVE  SumFunctionOnSet(f, S) =
              IF S = {} THEN 0
              ELSE f[FirstTaken(S)] + SumFunctionOnSet(f, S \ {FirstTaken(S)})
<1> DEFINE R == S \ {FirstTaken(S)}
<1>1. IsFiniteSet(R) /\ R \in SUBSET S
  BY FS_Subset
<1>6. S # {} => R = S \ {FirstTaken(S)}
  OBVIOUS
<1> HIDE DEF R
<1>2. PICK g : Sums(g, f, SUBSET S) /\ SumFunctionOnSet(f, S) = g[S]
  BY SumsExist, SumChosen
<1>3. PICK h : Sums(h, f, SUBSET R) /\ SumFunctionOnSet(f, R) = h[R]
  BY <1>1, SumsExist, SumChosen
<1>4. g[R] = h[R]
  <2>1. /\ IsFiniteSet(S) /\ R \in SUBSET S
        /\ Sums(g, f, SUBSET S) /\ Sums(h, f, SUBSET R)
    BY <1>1, <1>2, <1>3
  <2> QED
    BY <2>1, SumsAgree
<1>5. g[S] = IF S = {} THEN 0 ELSE f[FirstTaken(S)] + g[R]
  BY <1>2, <1>6 DEF Sums
<1> QED
  BY <1>2, <1>3, <1>4, <1>5, <1>6
\* A sum of integers is one.
LEMMA SumInt ==
    ASSUME NEW f, NEW S, IsFiniteSet(S), \A x \in S : f[x] \in Int
    PROVE  SumFunctionOnSet(f, S) \in Int
<1> DEFINE B == {s \in SUBSET S : SumFunctionOnSet(f, s) \notin Int}
<1>1. SUFFICES ASSUME B # {} PROVE FALSE
  OBVIOUS
<1>2. PICK s \in B : IsFiniteSet(s) /\ \A x \in s : s \ {x} \notin B
  BY <1>1, Smallest
<1>3. SumFunctionOnSet(f, s) =
         IF s = {} THEN 0 ELSE f[FirstTaken(s)] + SumFunctionOnSet(f, s \ {FirstTaken(s)})
  BY <1>2, SumTaken
<1>4. s # {} => FirstTaken(s) \in s
  BY DEF FirstTaken
<1>5. s # {} => SumFunctionOnSet(f, s \ {FirstTaken(s)}) \in Int /\ f[FirstTaken(s)] \in Int
  BY <1>2, <1>4
<1> QED
  BY <1>3, <1>5

\* The order does not matter: any element may be taken first.
LEMMA SumTakes ==
    ASSUME NEW f, NEW S, IsFiniteSet(S), \A x \in S : f[x] \in Int, NEW y, y \in S
    PROVE  SumFunctionOnSet(f, S) = f[y] + SumFunctionOnSet(f, S \ {y})
<1> DEFINE Takes(s, x) == SumFunctionOnSet(f, s) = f[x] + SumFunctionOnSet(f, s \ {x})
           B == {s \in SUBSET S : \E x \in s : ~Takes(s, x)}
<1>1. SUFFICES ASSUME B # {} PROVE FALSE
  OBVIOUS
<1>2. PICK s \in B : IsFiniteSet(s) /\ \A x \in s : s \ {x} \notin B
  BY <1>1, Smallest
<1>3. PICK x \in s : ~Takes(s, x)
  OBVIOUS
<1> DEFINE c == FirstTaken(s)
<1>4. c \in s
  BY <1>3 DEF FirstTaken
<1>5. Takes(s, c)
  BY <1>2, <1>3, SumTaken
<1>6. x # c
  BY <1>3, <1>5
<1>7. Takes(s \ {c}, x) /\ Takes(s \ {x}, c)
  BY <1>2, <1>3, <1>4, <1>6
<1>8. (s \ {c}) \ {x} = (s \ {x}) \ {c}
  OBVIOUS
<1>9. SumFunctionOnSet(f, (s \ {c}) \ {x}) \in Int /\ f[x] \in Int /\ f[c] \in Int
  <2>1. IsFiniteSet((s \ {c}) \ {x}) /\ \A z \in (s \ {c}) \ {x} : f[z] \in Int
    BY <1>2, FS_Subset
  <2> QED
    BY <2>1, <1>3, <1>4, SumInt
<1> HIDE DEF c
<1> QED
  BY <1>3, <1>5, <1>7, <1>8, <1>9

\* What a sum is when an element comes in.
LEMMA SumAdds ==
    ASSUME NEW f, NEW T, IsFiniteSet(T), NEW x, x \notin T, \A y \in T \cup {x} : f[y] \in Int
    PROVE  SumFunctionOnSet(f, T \cup {x}) = SumFunctionOnSet(f, T) + f[x]
<1>1. IsFiniteSet(T \cup {x})
  BY FS_AddElement
<1>2. SumFunctionOnSet(f, T \cup {x}) = f[x] + SumFunctionOnSet(f, (T \cup {x}) \ {x})
  BY <1>1, SumTakes
<1>3. (T \cup {x}) \ {x} = T
  OBVIOUS
<1>4. SumFunctionOnSet(f, T) \in Int
  BY SumInt
<1>5. f[x] \in Int
  OBVIOUS
<1>6. SumFunctionOnSet(f, T \cup {x}) = f[x] + SumFunctionOnSet(f, T)
  BY <1>2, <1>3, Zenon
<1> QED
  BY <1>4, <1>5, <1>6

\* The sum of nothing.
LEMMA SumEmpty ==
    ASSUME NEW f
    PROVE  SumFunctionOnSet(f, {}) = 0
BY SumTaken, FS_EmptySet

\* A sum is that of the values at the elements.
LEMMA SumSame ==
    ASSUME NEW f, NEW g, NEW S, IsFiniteSet(S), \A x \in S : f[x] \in Int /\ f[x] = g[x]
    PROVE  SumFunctionOnSet(f, S) = SumFunctionOnSet(g, S)
<1> DEFINE G == {T \in SUBSET S : SumFunctionOnSet(f, T) = SumFunctionOnSet(g, T)}
<1>1. {} \in G
  BY SumEmpty
<1>2. ASSUME NEW T \in SUBSET S, NEW x \in S \ T, T \in G PROVE T \cup {x} \in G
  <2>1. IsFiniteSet(T)
    BY FS_Subset
  <2>2. SumFunctionOnSet(f, T \cup {x}) = SumFunctionOnSet(f, T) + f[x]
    <3>1. \A y \in T \cup {x} : f[y] \in Int
      OBVIOUS
    <3> QED
      BY <2>1, <3>1, SumAdds
  <2>3. SumFunctionOnSet(g, T \cup {x}) = SumFunctionOnSet(g, T) + g[x]
    <3>1. \A y \in T \cup {x} : g[y] \in Int
      OBVIOUS
    <3> QED
      BY <2>1, <3>1, SumAdds
  <2> QED
    BY <1>2, <2>2, <2>3
<1> HIDE DEF G
<1>3. S \in G
  BY <1>1, <1>2, FinSet
<1> QED
  BY <1>3 DEF G

\* The sum over two sets without common elements.
LEMMA SumUnion ==
    ASSUME NEW f, NEW S, NEW R, IsFiniteSet(S), IsFiniteSet(R), S \cap R = {},
           \A x \in S \cup R : f[x] \in Int
    PROVE  SumFunctionOnSet(f, S \cup R) = SumFunctionOnSet(f, S) + SumFunctionOnSet(f, R)
<1> DEFINE G == {T \in SUBSET S :
                    SumFunctionOnSet(f, T \cup R) = SumFunctionOnSet(f, T) + SumFunctionOnSet(f, R)}
<1>1. {} \in G
  <2>1. {} \cup R = R
    OBVIOUS
  <2>2. SumFunctionOnSet(f, R) \in Int
    BY SumInt
  <2> QED
    BY <2>1, <2>2, SumEmpty
<1>2. ASSUME NEW T \in SUBSET S, NEW x \in S \ T, T \in G PROVE T \cup {x} \in G
  <2>1. IsFiniteSet(T) /\ IsFiniteSet(T \cup R)
    BY FS_Subset, FS_Union
  <2>2. \A y \in T \cup {x} : f[y] \in Int
    OBVIOUS
  <2>3. SumFunctionOnSet(f, T \cup {x}) = SumFunctionOnSet(f, T) + f[x]
    BY <2>1, <2>2, SumAdds
  <2>4. x \notin T \cup R /\ \A y \in (T \cup R) \cup {x} : f[y] \in Int
    OBVIOUS
  <2>5. SumFunctionOnSet(f, (T \cup R) \cup {x}) = SumFunctionOnSet(f, T \cup R) + f[x]
    BY <2>1, <2>4, SumAdds
  <2>6. (T \cup {x}) \cup R = (T \cup R) \cup {x}
    OBVIOUS
  <2>7. SumFunctionOnSet(f, T) \in Int /\ SumFunctionOnSet(f, R) \in Int /\ f[x] \in Int
    <3>1. \A y \in T : f[y] \in Int
      OBVIOUS
    <3>2. \A y \in R : f[y] \in Int
      OBVIOUS
    <3> QED
      BY <2>1, <3>1, <3>2, SumInt
  <2>8. SumFunctionOnSet(f, T \cup R) = SumFunctionOnSet(f, T) + SumFunctionOnSet(f, R)
    BY <1>2
  <2>9. SumFunctionOnSet(f, (T \cup {x}) \cup R) = SumFunctionOnSet(f, T \cup {x}) + SumFunctionOnSet(f, R)
    <3>1. SumFunctionOnSet(f, (T \cup {x}) \cup R) = SumFunctionOnSet(f, T \cup R) + f[x]
      BY <2>5, <2>6, Zenon
    <3> QED
      BY <3>1, <2>3, <2>7, <2>8
  <2> QED
    BY <2>9
<1> HIDE DEF G
<1>3. S \in G
  BY <1>1, <1>2, FinSet
<1> QED
  BY <1>3 DEF G

\* A sum of values that are not negative grows with the set.
LEMMA SumGrows ==
    ASSUME NEW f, NEW S, IsFiniteSet(S), NEW R, R \in SUBSET S, \A x \in S : f[x] \in Nat
    PROVE  0 <= SumFunctionOnSet(f, R) /\ SumFunctionOnSet(f, R) <= SumFunctionOnSet(f, S)
<1> DEFINE G == {T \in SUBSET S : SumFunctionOnSet(f, T) >= 0}
<1>1. {} \in G
  BY SumEmpty
<1>2. ASSUME NEW T \in SUBSET S, NEW x \in S \ T, T \in G PROVE T \cup {x} \in G
  <2>1. IsFiniteSet(T)
    BY FS_Subset
  <2>2. \A y \in T \cup {x} : f[y] \in Int
    OBVIOUS
  <2>3. SumFunctionOnSet(f, T \cup {x}) = SumFunctionOnSet(f, T) + f[x]
    BY <2>1, <2>2, SumAdds
  <2>4. SumFunctionOnSet(f, T) \in Int /\ f[x] \in Nat
    BY <2>1, <2>2, SumInt
  <2> QED
    BY <1>2, <2>3, <2>4
<1> HIDE DEF G
<1>3. \A T \in SUBSET S : T \in G
  <2> SUFFICES ASSUME NEW T \in SUBSET S PROVE T \in G
    OBVIOUS
  <2>1. IsFiniteSet(T)
    BY FS_Subset
  <2>2. \A Q \in SUBSET T : \A x \in T \ Q : Q \in G => Q \cup {x} \in G
    BY <1>2
  <2> QED
    BY <1>1, <2>1, <2>2, FinSet
<1>4. R \in G /\ S \ R \in G /\ R \cup (S \ R) = S /\ R \cap (S \ R) = {}
  BY <1>3
<1>5. IsFiniteSet(R) /\ IsFiniteSet(S \ R)
  BY FS_Subset
<1>6. \A x \in R \cup (S \ R) : f[x] \in Int
  OBVIOUS
<1>7. SumFunctionOnSet(f, S) = SumFunctionOnSet(f, R) + SumFunctionOnSet(f, S \ R)
  BY <1>4, <1>5, <1>6, SumUnion
<1>8. SumFunctionOnSet(f, R) \in Int /\ SumFunctionOnSet(f, S \ R) \in Int
  <2>1. (\A x \in R : f[x] \in Int) /\ (\A x \in S \ R : f[x] \in Int)
    OBVIOUS
  <2> QED
    BY <1>5, <2>1, SumInt
<1> QED
  BY <1>4, <1>7, <1>8 DEF G

\* Sums of the classes that a key makes of the elements add up to the sum.
LEMMA SumByKey ==
    ASSUME NEW f, NEW S, IsFiniteSet(S), NEW key, NEW K, IsFiniteSet(K),
           \A x \in S : f[x] \in Int /\ key[x] \in K
    PROVE  SumFunctionOnSet([c \in K |-> SumFunctionOnSet(f, {x \in S : key[x] = c})], K)
              = SumFunctionOnSet(f, S)
<1> DEFINE Class(T, c) == {x \in T : key[x] = c}
           By(T) == [c \in K |-> SumFunctionOnSet(f, Class(T, c))]
           G == {T \in SUBSET S : SumFunctionOnSet(By(T), K) = SumFunctionOnSet(f, T)}
<1>0. ASSUME NEW T \in SUBSET S
      PROVE  /\ \A c \in K : By(T)[c] = SumFunctionOnSet(f, Class(T, c))
             /\ \A c \in K : By(T)[c] \in Int
  <2>1. ASSUME NEW c \in K PROVE SumFunctionOnSet(f, Class(T, c)) \in Int
    <3>1. IsFiniteSet(Class(T, c))
      BY FS_Subset
    <3>2. \A x \in Class(T, c) : f[x] \in Int
      OBVIOUS
    <3> HIDE DEF Class
    <3> QED
      BY <3>1, <3>2, SumInt
  <2> QED
    BY <2>1
<1>1. {} \in G
  <2>1. \A c \in K : Class({}, c) = {}
    OBVIOUS
  <2>2. \A c \in K : By({})[c] = 0
    BY <2>1, SumEmpty
  <2> DEFINE H == {L \in SUBSET K : SumFunctionOnSet(By({}), L) = 0}
  <2>3. {} \in H
    BY SumEmpty
  <2>4. ASSUME NEW L \in SUBSET K, NEW c \in K \ L, L \in H PROVE L \cup {c} \in H
    <3>1. IsFiniteSet(L)
      BY FS_Subset
    <3>2. \A d \in L \cup {c} : By({})[d] \in Int
      BY <2>2
    <3> HIDE DEF By
    <3>3. SumFunctionOnSet(By({}), L \cup {c}) = SumFunctionOnSet(By({}), L) + By({})[c]
      BY <3>1, <3>2, SumAdds
    <3> QED
      BY <2>2, <2>4, <3>3
  <2> HIDE DEF H
  <2>5. K \in H
    BY <2>3, <2>4, FinSet
  <2> HIDE DEF By
  <2> QED
    BY <2>5, SumEmpty DEF H
<1>2. ASSUME NEW T \in SUBSET S, NEW x \in S \ T, T \in G PROVE T \cup {x} \in G
  <2> DEFINE k == key[x]
             N == T \cup {x}
  <2>1. IsFiniteSet(T) /\ N \in SUBSET S /\ k \in K
    BY FS_Subset
  <2>2. \A c \in K : c # k => Class(N, c) = Class(T, c)
    OBVIOUS
  <2>3. Class(N, k) = Class(T, k) \cup {x} /\ x \notin Class(T, k)
    OBVIOUS
  <2>4. By(N)[k] = By(T)[k] + f[x]
    <3>1. IsFiniteSet(Class(T, k))
      BY <2>1, FS_Subset
    <3>2. \A y \in Class(T, k) \cup {x} : f[y] \in Int
      OBVIOUS
    <3>3. By(N)[k] = SumFunctionOnSet(f, Class(N, k)) /\ By(T)[k] = SumFunctionOnSet(f, Class(T, k))
      BY <1>0, <2>1
    <3> HIDE DEF Class, By
    <3>4. SumFunctionOnSet(f, Class(T, k) \cup {x}) = SumFunctionOnSet(f, Class(T, k)) + f[x]
      BY <2>3, <3>1, <3>2, SumAdds
    <3> QED
      BY <2>3, <3>3, <3>4
  <2>5. \A c \in K \ {k} : By(N)[c] = By(T)[c]
    <3>1. \A c \in K : /\ By(N)[c] = SumFunctionOnSet(f, Class(N, c))
                       /\ By(T)[c] = SumFunctionOnSet(f, Class(T, c))
      BY <1>0, <2>1
    <3> HIDE DEF Class, By
    <3> QED
      BY <2>2, <3>1
  <2>6. \A c \in K : By(N)[c] \in Int /\ By(T)[c] \in Int
    BY <1>0, <2>1
  <2>7. f[x] \in Int /\ \A y \in T \cup {x} : f[y] \in Int
    OBVIOUS
  <2>8. SumFunctionOnSet(By(T), K) = SumFunctionOnSet(f, T)
    BY <1>2
  <2> HIDE DEF By, N, k
  <2>9. IsFiniteSet(K \ {k})
    BY FS_Subset
  <2>10. SumFunctionOnSet(By(N), K \ {k}) = SumFunctionOnSet(By(T), K \ {k})
    BY <2>5, <2>6, <2>9, SumSame
  <2>11. /\ SumFunctionOnSet(By(N), K) = By(N)[k] + SumFunctionOnSet(By(N), K \ {k})
         /\ SumFunctionOnSet(By(T), K) = By(T)[k] + SumFunctionOnSet(By(T), K \ {k})
    BY <2>1, <2>6, SumTakes
  <2>12. SumFunctionOnSet(By(T), K \ {k}) \in Int
    BY <2>6, <2>9, SumInt
  <2>13. SumFunctionOnSet(f, T \cup {x}) = SumFunctionOnSet(f, T) + f[x]
    BY <2>1, <2>7, SumAdds
  <2>14. By(T)[k] \in Int
    BY <2>1, <2>6
  <2>15. SumFunctionOnSet(By(N), K) = SumFunctionOnSet(f, T \cup {x})
    BY <2>4, <2>7, <2>8, <2>10, <2>11, <2>12, <2>13, <2>14
  <2> QED
    BY <2>1, <2>15 DEF N
<1> HIDE DEF G
<1>3. S \in G
  BY <1>1, <1>2, FinSet
<1> QED
  BY <1>3 DEF G

-----------------------------------------------------------------------------
(* The records *)

\* What the figures are made of: finitely many sessions with integer times.
LEMMA DoneTypes ==
    ASSUME StoreTypeOK, StoreInv
    PROVE  /\ Done \subseteq Nat /\ IsFiniteSet(Done)
           /\ \A i \in Done : Start(i) \in Int /\ Duration(i) \in Int /\ records[i].client \in Clients
           /\ now \in Int
<1>1. DOMAIN records \subseteq 1..MaxId /\ MaxId \in Nat
  BY StoreAssumption DEF StoreTypeOK, Ids
<1>2. Done \subseteq 1..MaxId
  BY <1>1 DEF Done
<1>3. IsFiniteSet(Done)
  <2>1. IsFiniteSet(1..MaxId)
    BY <1>1, FS_Interval
  <2> QED
    BY <1>2, <2>1, FS_Subset
<1>4. ASSUME NEW i \in Done
      PROVE  Start(i) \in Int /\ Duration(i) \in Int /\ records[i].client \in Clients
  <2>1. i \in DOMAIN records /\ records[i] \in Row /\ records[i].status = "completed"
    BY DEF Done, StoreTypeOK
  <2>2. records[i].end # NULL /\ records[i].duration = records[i].end - records[i].start
    BY <2>1 DEF StoreInv, RowsConsistent
  <2>3. records[i].end \in Int /\ records[i].start \in Int
    BY <2>1, <2>2 DEF Row
  <2> QED
    BY <2>1, <2>2, <2>3 DEF Start, Duration, Row
<1>5. now \in Int
  BY StoreAssumption DEF StoreTypeOK, Times
<1> QED
  BY <1>1, <1>2, <1>3, <1>4, <1>5

-----------------------------------------------------------------------------
(* Local time *)

\* A date is a day of 86400 seconds of local time.
LEMMA DateBounds ==
    ASSUME NEW z \in Zones, NEW t \in Int, NEW d \in Int
    PROVE  /\ DateOf(z, t) \in Int
           /\ DateOf(z, t) >= d <=> t + Offset(z, t) >= d * Day
           /\ DateOf(z, t) = d <=> d * Day <= t + Offset(z, t) /\ t + Offset(z, t) < (d + 1) * Day
<1>1. z.before \in Int /\ z.after \in Int /\ z.at \in Int
  BY ZonesAssumption
<1>2. t + Offset(z, t) \in Int
  BY <1>1 DEF Offset
<1> DEFINE l == t + Offset(z, t)
<1>3. l \in Int
  BY <1>2
<1>4. DateOf(z, t) = l \div 86400
  BY DEF DateOf, Day
<1> HIDE DEF l
<1>5. /\ l \div 86400 \in Int
      /\ l \div 86400 >= d <=> l >= d * 86400
      /\ l \div 86400 = d <=> d * 86400 <= l /\ l < (d + 1) * 86400
  BY <1>3
<1> QED
  BY <1>4, <1>5 DEF Day, l

\* The instants at which a local time is shown, case by case.
LEMMA InstantsCases ==
    ASSUME NEW z \in Zones, NEW l \in Int
    PROVE  /\ \A t : t \in Instants(z, l) <=> \/ t = l - z.before /\ l < z.at + z.before
                                              \/ t = l - z.after /\ l >= z.at + z.after
           /\ Instants(z, l) = {} <=> z.at + z.before <= l /\ l < z.at + z.after
<1>1. z.before \in Int /\ z.after \in Int /\ z.at \in Int
  BY ZonesAssumption
<1>3. \A t : t \in Instants(z, l) <=> \/ t = l - z.before /\ l < z.at + z.before
                                      \/ t = l - z.after /\ l >= z.at + z.after
  BY <1>1 DEF Instants, Offset
<1>2. Instants(z, l) # {} <=> l < z.at + z.before \/ l >= z.at + z.after
  BY <1>3
<1>4. Instants(z, l) = {} <=> ~(l < z.at + z.before) /\ ~(l >= z.at + z.after)
  BY <1>2
<1>5. l < z.at + z.before <=> ~(z.at + z.before <= l)
  BY <1>1
<1>6. l >= z.at + z.after <=> ~(l < z.at + z.after)
  BY <1>1
<1> QED
  BY <1>3, <1>4, <1>5, <1>6

\* When a day begins that is not left out: at its midnight, by the clocks
\* before or after the change, or with the change that skips its midnight.
LEMMA DayStarts ==
    ASSUME NEW z \in Zones, NEW d \in Int, ~DayLeftOut(z, d)
    PROVE  LocalDateStart(z, d) =
              IF d * Day < z.at + z.before THEN d * Day - z.before
              ELSE IF z.at + z.after <= d * Day THEN d * Day - z.after
              ELSE z.at
<1> DEFINE b == z.before  a == z.after  at == z.at  D == d * Day
<1>1. b \in Int /\ a \in Int /\ at \in Int /\ D \in Int
  BY ZonesAssumption DEF Day
<1>2. a > b => (at + a) % 60 = 0
  BY ZonesAssumption
<1>3. D % 60 = 0 /\ D + 86400 = (d + 1) * Day
  BY DEF Day
<1>4. ~(at + b <= D /\ D + 86400 <= at + a)
  BY <1>3 DEF DayLeftOut
<1> DEFINE Shows(m) == Instants(z, D + m * 60) # {}
           First(m) == /\ Shows(m)
                       /\ \A k \in 0..(m - 1) : Instants(z, D + k * 60) = {}
           inGap == at + b <= D /\ D < at + a
           m0 == IF inGap THEN (at + a - D) \div 60 ELSE 0
<1>5. \A m \in Int : Shows(m) <=> ~(at + b <= D + m * 60 /\ D + m * 60 < at + a)
  BY <1>1, InstantsCases
<1>6. inGap => m0 * 60 = at + a - D /\ m0 \in 1..1439
  <2> HAVE inGap
  <2>1. a > b /\ (at + a) % 60 = 0
    BY <1>1, <1>2
  <2> DEFINE e == at + a
  <2>2. e \in Int /\ e % 60 = 0 /\ D % 60 = 0 /\ D < e /\ e < D + 86400 /\ m0 = (e - D) \div 60
    BY <1>1, <1>3, <1>4, <2>1
  <2> HIDE DEF D, e, m0
  <2>3. m0 \in Int /\ m0 * 60 = e - D
    BY <1>1, <2>2
  <2>4. m0 \in 1..1439
    BY <1>1, <2>2, <2>3
  <2> QED
    BY <1>1, <2>3, <2>4 DEF e
<1>17. ~inGap => m0 = 0
  OBVIOUS
<1>18. inGap => at + b <= D /\ D < at + a
  OBVIOUS
<1>19. ~inGap => ~(at + b <= D /\ D < at + a)
  OBVIOUS
<1> HIDE DEF m0, inGap, D
<1>7. m0 \in 0..1439 /\ D + m0 * 60 = IF inGap THEN at + a ELSE D
  BY <1>1, <1>6, <1>17
<1>8. First(m0)
  <2>1. CASE inGap
    <3>1. Shows(m0)
      <4>1. m0 \in Int /\ D + m0 * 60 = at + a
        BY <1>7, <2>1
      <4> HIDE DEF Shows
      <4> QED
        BY <1>1, <1>5, <4>1
    <3>2. ASSUME NEW k \in 0..(m0 - 1) PROVE ~Shows(k)
      <4>1. k \in Int /\ 0 <= k /\ k < m0 /\ m0 \in Int /\ m0 * 60 = at + a - D
        BY <1>6, <2>1
      <4>2. at + b <= D + k * 60 /\ D + k * 60 < at + a
        BY <1>1, <1>18, <2>1, <4>1
      <4> HIDE DEF Shows
      <4> QED
        BY <1>5, <4>1, <4>2
    <3> QED
      BY <3>1, <3>2
  <2>2. CASE ~inGap
    <3>1. m0 = 0
      BY <1>17, <2>2
    <3>2. Shows(0)
      <4>1. D + 0 * 60 = D
        BY <1>1
      <4> HIDE DEF Shows
      <4> QED
        BY <1>5, <1>19, <2>2, <4>1
    <3> QED
      BY <3>1, <3>2
  <2> QED
    BY <2>1, <2>2
<1>9. FirstMinute(z, d) = m0
  <2>1. FirstMinute(z, d) = CHOOSE m \in 0..1439 : First(m)
    BY Zenon DEF FirstMinute, D
  <2>2. \A m \in 0..1439 : First(m) => m = m0
    <3> TAKE m \in 0..1439
    <3> HAVE First(m)
    <3> SUFFICES ASSUME m # m0 PROVE FALSE
      OBVIOUS
    <3> HIDE DEF Shows
    <3>1. m < m0 => m \in 0..(m0 - 1)
      BY <1>7
    <3>2. m0 < m => m0 \in 0..(m - 1)
      BY <1>7
    <3> QED
      BY <1>7, <1>8, <3>1, <3>2 DEF Shows
  <2> HIDE DEF First
  <2> QED
    BY <1>7, <1>8, <2>1, <2>2
<1>10. LocalDateStart(z, d) = Earliest(Instants(z, D + m0 * 60))
  <2> DEFINE shown == \E m \in 0..1439 : Instants(z, d * Day + m * 60) # {}
             begin == Earliest(Instants(z, d * Day + FirstMinute(z, d) * 60))
  <2>1. shown
    BY <1>7, <1>8 DEF D
  <2>2. LocalDateStart(z, d) = IF shown THEN begin ELSE d * Day
    BY Zenon DEF LocalDateStart
  <2>3. begin = Earliest(Instants(z, D + m0 * 60))
    BY <1>9, Zenon DEF D
  <2> HIDE DEF shown, begin
  <2> QED
    BY <2>1, <2>2, <2>3
<1> DEFINE l == D + m0 * 60
           first == IF D < at + b THEN D - b ELSE IF at + a <= D THEN D - a ELSE at
<1>11. l \in Int
  BY <1>1, <1>7
<1>12. \A t : t \in Instants(z, l) <=> \/ t = l - b /\ l < at + b
                                       \/ t = l - a /\ l >= at + a
  BY <1>11, InstantsCases
<1>13. l = IF inGap THEN at + a ELSE D
  BY <1>7
<1> HIDE DEF l
<1>14. first \in Instants(z, l) /\ first \in Int
  BY <1>1, <1>12, <1>13, <1>18, <1>19
<1>15. \A t \in Instants(z, l) : first <= t
  BY <1>1, <1>12, <1>13, <1>18, <1>19
<1>16. Earliest(Instants(z, l)) = first
  <2>1. \A t \in Instants(z, l) : t \in Int
    BY <1>1, <1>11, <1>12
  <2>2. \A x \in Instants(z, l) : (\A t \in Instants(z, l) : x <= t) => x = first
    BY <1>14, <1>15, <2>1
  <2> HIDE DEF first
  <2> QED
    BY <1>14, <1>15, <2>2 DEF Earliest, Min
<1> QED
  BY <1>10, <1>16 DEF l, D
\* Where the local days lie about their beginnings.
LEMMA StartFacts ==
    ASSUME NEW z \in Zones, NEW d \in Int, ~DayLeftOut(z, d), NEW t \in Int
    PROVE  LET first == LocalDateStart(z, d) IN
              /\ first \in Int
              /\ DateOf(z, first) = d /\ DateOf(z, first - 1) < d
              /\ DateOf(z, t) >= d => t >= first
              /\ t > first => DateOf(z, t) >= d \/ (BeginsTwice(z, d) /\ t >= z.at)
<1> DEFINE first == LocalDateStart(z, d)
<1>1. z.before \in Int /\ z.after \in Int /\ z.at \in Int /\ d * Day \in Int /\ (d + 1) * Day = d * Day + 86400
  BY ZonesAssumption DEF Day
<1>2. first = IF d * Day < z.at + z.before THEN d * Day - z.before
              ELSE IF z.at + z.after <= d * Day THEN d * Day - z.after
              ELSE z.at
  BY DayStarts
<1>3. ~(z.at + z.before <= d * Day /\ (d + 1) * Day <= z.at + z.after)
  BY DEF DayLeftOut
<1> HIDE DEF first
<1>4. first \in Int
  BY <1>1, <1>2
<1>5. \A u \in Int : Offset(z, u) = IF u < z.at THEN z.before ELSE z.after
  BY DEF Offset
<1>6. d * Day <= first + Offset(z, first) /\ first + Offset(z, first) < (d + 1) * Day
  BY <1>1, <1>2, <1>3, <1>4, <1>5
<1>7. DateOf(z, first) = d
  BY <1>4, <1>6, DateBounds
<1>8. (first - 1) + Offset(z, first - 1) < d * Day
  <2>1. first - 1 \in Int
    BY <1>4
  <2>2. Offset(z, first - 1) = IF first - 1 < z.at THEN z.before ELSE z.after
    BY <1>5, <2>1
  <2> QED
    BY <1>1, <1>2, <1>3, <1>4, <2>2
<1>9. DateOf(z, first - 1) < d
  <2>1. first - 1 \in Int
    BY <1>4
  <2>2. DateOf(z, first - 1) \in Int /\ (DateOf(z, first - 1) >= d <=> (first - 1) + Offset(z, first - 1) >= d * Day)
    BY <2>1, DateBounds
  <2>3. Offset(z, first - 1) \in Int
    BY <1>1, <1>5, <2>1
  <2> QED
    BY <1>1, <1>4, <1>8, <2>2, <2>3
<1>10. DateOf(z, t) >= d <=> t + Offset(z, t) >= d * Day
  BY DateBounds
<1>11. t + Offset(z, t) >= d * Day => t >= first
  BY <1>1, <1>2, <1>3, <1>4, <1>5
<1>12. t > first => t + Offset(z, t) >= d * Day \/ (BeginsTwice(z, d) /\ t >= z.at)
  BY <1>1, <1>2, <1>3, <1>4, <1>5 DEF BeginsTwice
<1>13. first = LocalDateStart(z, d)
  BY DEF first
<1> QED
  BY <1>4, <1>7, <1>9, <1>10, <1>11, <1>12, <1>13

\* A day that has a session is not left out.
LEMMA DayShown ==
    ASSUME NEW z \in Zones, NEW t \in Int
    PROVE  DateOf(z, t) \in Int /\ ~DayLeftOut(z, DateOf(z, t))
<1> DEFINE d == DateOf(z, t)
<1>1. z.before \in Int /\ z.after \in Int /\ z.at \in Int
  BY ZonesAssumption
<1>2. 0 \in Int /\ d \in Int
  BY DateBounds
<1>3. d * Day <= t + Offset(z, t) /\ t + Offset(z, t) < (d + 1) * Day
  BY <1>2, DateBounds
<1> HIDE DEF d
<1>4. d * Day \in Int /\ (d + 1) * Day \in Int
  BY <1>2 DEF Day
<1>5. ~DayLeftOut(z, d)
  BY <1>1, <1>3, <1>4 DEF DayLeftOut, Offset
<1> QED
  BY <1>2, <1>5 DEF d

\* There is a first session.
LEMMA EarliestStart ==
    ASSUME StoreTypeOK, StoreInv, Done # {}
    PROVE  Min({Start(i) : i \in Done}) \in Int
<1> DEFINE starts == {Start(i) : i \in Done}
<1>1. starts \subseteq Int /\ starts # {}
  BY DoneTypes
<1>2. IsFiniteSet(starts)
  <2> DEFINE f == [i \in Done |-> Start(i)]
  <2>1. f \in Surjection(Done, starts)
    BY DEF Surjection
  <2> QED
    BY <2>1, DoneTypes, FS_Surjection
<1> HIDE DEF starts
<1>3. \E x \in starts : \A y \in starts : x <= y
  BY <1>1, <1>2, Bounded
<1> QED
  BY <1>1, <1>3 DEF Min, starts

\* The first minutes of days are where the sessions' days begin.
LEMMA DaysBeginHolds ==
    ASSUME StoreTypeOK, StoreInv
    PROVE  DaysBegin
<1> SUFFICES ASSUME NEW z \in Zones, NEW i \in Done
             PROVE  LET date == DateOf(z, Start(i))
                        first == LocalDateStart(z, date)
                    IN  first <= Start(i) /\ DateOf(z, first) = date /\ DateOf(z, first - 1) # date
  BY DEF DaysBegin
<1> DEFINE date == DateOf(z, Start(i))
           first == LocalDateStart(z, date)
<1>1. Start(i) \in Int
  BY DoneTypes
<1>2. date \in Int /\ ~DayLeftOut(z, date)
  BY <1>1, DayShown
<1>3. /\ first \in Int
      /\ DateOf(z, first) = date /\ DateOf(z, first - 1) < date
      /\ DateOf(z, Start(i)) >= date => Start(i) >= first
  <2> HIDE DEF date
  <2> QED
    BY <1>1, <1>2, StartFacts
<1>4. first <= Start(i)
  <2> HIDE DEF first
  <2> QED
    BY <1>1, <1>2, <1>3
<1>5. DateOf(z, first - 1) # date
  BY <1>2, <1>3
<1> QED
  BY <1>3, <1>4, <1>5

\* The periods hold the sessions of their days.
LEMMA PeriodsHold ==
    ASSUME StoreTypeOK, StoreInv
    PROVE  PeriodsHoldTheirDays
<1> SUFFICES ASSUME Done # {}, NEW z \in Zones, NEW n \in Periods(z),
                    ~DayLeftOut(z, Today(z) - n)
             PROVE  LET first == Today(z) - n
                        days == {i \in Done : DateOf(z, Start(i)) >= first}
                    IN  /\ \A i \in InPeriod(z, n) \ days : BeginsTwice(z, first) /\ Start(i) >= z.at
                        /\ \A i \in days \ InPeriod(z, n) :
                                DateOf(z, Start(i)) = first /\ DateOf(z, Start(i) - 1) # first
  BY DEF PeriodsHoldTheirDays
<1> DEFINE d == Today(z) - n
           cutoff == LocalDateStart(z, d)
<1>1. Today(z) \in Int /\ TotalDays(z) \in Int
  BY DayShown, DoneTypes, EarliestStart DEF Today, TotalDays, FirstDate
<1>2. n \in Int
  BY <1>1 DEF Periods
<1>3. d \in Int
  BY <1>1, <1>2
<1> HIDE DEF d
<1>4. ~DayLeftOut(z, d)
  BY DEF d
<1>5. InPeriod(z, n) = {i \in Done : Start(i) > cutoff}
  BY DEF InPeriod, d
<1>6. ASSUME NEW i \in Done
      PROVE  /\ Start(i) \in Int /\ cutoff \in Int
             /\ DateOf(z, cutoff) = d /\ DateOf(z, cutoff - 1) < d
             /\ DateOf(z, Start(i)) >= d => Start(i) >= cutoff
             /\ Start(i) > cutoff => DateOf(z, Start(i)) >= d \/ (BeginsTwice(z, d) /\ Start(i) >= z.at)
  <2>1. Start(i) \in Int
    BY DoneTypes
  <2> QED
    BY <1>3, <1>4, <2>1, StartFacts
<1>7. ASSUME NEW i \in InPeriod(z, n), ~(DateOf(z, Start(i)) >= d)
      PROVE  BeginsTwice(z, d) /\ Start(i) >= z.at
  <2>1. i \in Done /\ Start(i) > cutoff
    BY <1>5
  <2> QED
    BY <1>6, <1>7, <2>1
<1>8. ASSUME NEW i \in Done, DateOf(z, Start(i)) >= d, i \notin InPeriod(z, n)
      PROVE  DateOf(z, Start(i)) = d /\ DateOf(z, Start(i) - 1) # d
  <2>1. ~(Start(i) > cutoff)
    BY <1>5, <1>8
  <2> HIDE DEF cutoff
  <2>2. Start(i) = cutoff
    BY <1>6, <1>8, <2>1
  <2>3. DateOf(z, cutoff) = d /\ DateOf(z, cutoff - 1) < d
    BY <1>6
  <2> QED
    BY <1>3, <2>2, <2>3
<1> DEFINE days == {i \in Done : DateOf(z, Start(i)) >= d}
<1>9. \A i \in InPeriod(z, n) \ days : BeginsTwice(z, d) /\ Start(i) >= z.at
  BY <1>5, <1>7
<1>10. \A i \in days \ InPeriod(z, n) : DateOf(z, Start(i)) = d /\ DateOf(z, Start(i) - 1) # d
  BY <1>8
<1> QED
  BY <1>9, <1>10 DEF d

\* The rows of periods hold the sessions of the days they name.
THEOREM PeriodsHoldDays == StoreSpec => []PeriodsRight
<1>1. StoreTypeOK /\ StoreInv => PeriodsRight
  BY DaysBeginHolds, PeriodsHold DEF PeriodsRight
<1> QED
  BY <1>1, StoreTypeCorrect, StoreInvariant, PTL

-----------------------------------------------------------------------------
(* Breakdowns *)

\* What the elements of a finite set have in place of themselves is finite.
LEMMA FiniteImage ==
    ASSUME NEW S, IsFiniteSet(S), NEW g
    PROVE  IsFiniteSet({g[x] : x \in S})
<1> DEFINE f == [x \in S |-> g[x]]
<1>1. f \in Surjection(S, {g[x] : x \in S})
  BY DEF Surjection
<1> QED
  BY <1>1, FS_Surjection

\* The sum over the classes of a key that makes no others.
LEMMA SumOfClasses ==
    ASSUME NEW f, NEW S, IsFiniteSet(S), NEW key, \A x \in S : f[x] \in Int,
           NEW total, DOMAIN total = {key[x] : x \in S},
           total = [c \in DOMAIN total |-> total[c]],
           \A c \in DOMAIN total : total[c] = SumFunctionOnSet(f, {x \in S : key[x] = c})
    PROVE  SumFunction(total) = SumFunctionOnSet(f, S)
<1> DEFINE K == {key[x] : x \in S}
           By == [c \in K |-> SumFunctionOnSet(f, {x \in S : key[x] = c})]
<1>1. IsFiniteSet(K)
  BY FiniteImage
<1>2. \A x \in S : f[x] \in Int /\ key[x] \in K
  OBVIOUS
<1>3. SumFunctionOnSet(By, K) = SumFunctionOnSet(f, S)
  <2> HIDE DEF K
  <2> QED
    BY <1>1, <1>2, SumByKey
<1>4. total = By
  <2>1. \A c \in K : total[c] = By[c]
    OBVIOUS
  <2>2. total = [c \in K |-> total[c]]
    OBVIOUS
  <2>3. By = [c \in K |-> By[c]]
    OBVIOUS
  <2> HIDE DEF By, K
  <2> QED
    BY <2>1, <2>2, <2>3
<1> HIDE DEF By
<1> QED
  BY <1>3, <1>4 DEF SumFunction

\* Nothing but zeros.
LEMMA SumZeros ==
    ASSUME NEW f, NEW S, IsFiniteSet(S), \A x \in S : f[x] = 0
    PROVE  SumFunctionOnSet(f, S) = 0
<1> DEFINE G == {T \in SUBSET S : SumFunctionOnSet(f, T) = 0}
<1>1. {} \in G
  BY SumEmpty
<1>2. ASSUME NEW T \in SUBSET S, NEW x \in S \ T, T \in G PROVE T \cup {x} \in G
  <2>1. IsFiniteSet(T)
    BY FS_Subset
  <2>2. \A y \in T \cup {x} : f[y] \in Int
    OBVIOUS
  <2>3. SumFunctionOnSet(f, T \cup {x}) = SumFunctionOnSet(f, T) + f[x]
    BY <2>1, <2>2, SumAdds
  <2> QED
    BY <1>2, <2>3
<1> HIDE DEF G
<1>3. S \in G
  BY <1>1, <1>2, FinSet
<1> QED
  BY <1>3 DEF G

\* Durations by session, and those of the calendars.
Durations == [i \in Done |-> Duration(i)]

DurationsCounted == [i \in Done |-> Counted(i)]

\* Durations are integers, and so is their sum over any of the records.
LEMMA DurationValues ==
    ASSUME StoreTypeOK, StoreInv
    PROVE  /\ \A i \in Done : Durations[i] \in Int /\ Durations[i] = Duration(i)
           /\ \A i \in Done : DurationsCounted[i] \in Nat /\ DurationsCounted[i] = Counted(i)
           /\ \A S \in SUBSET Done : IsFiniteSet(S)
           /\ \A S \in SUBSET Done : TotalOf(S) = SumFunctionOnSet(Durations, S) /\ TotalOf(S) \in Int
<1>1. \A i \in Done : Durations[i] \in Int /\ Durations[i] = Duration(i)
  BY DoneTypes DEF Durations
<1>2. \A i \in Done : DurationsCounted[i] \in Nat /\ DurationsCounted[i] = Counted(i)
  BY DoneTypes DEF DurationsCounted, Counted
<1>3. \A S \in SUBSET Done : IsFiniteSet(S)
  BY DoneTypes, FS_Subset
<1>4. \A S \in SUBSET Done : TotalOf(S) = SumFunctionOnSet(Durations, S)
  BY DEF TotalOf, Durations
<1>5. ASSUME NEW S \in SUBSET Done PROVE SumFunctionOnSet(Durations, S) \in Int
  <2>1. \A i \in S : Durations[i] \in Int
    BY <1>1
  <2> QED
    BY <1>3, <2>1, SumInt
<1> QED
  BY <1>1, <1>2, <1>3, <1>4, <1>5

\* What durations that are not positive leave of the calendar is nothing.
LEMMA CountedTotal ==
    ASSUME StoreTypeOK, StoreInv
    PROVE  SumFunctionOnSet(DurationsCounted, Done) = TotalOf({i \in Done : Duration(i) > 0})
<1> DEFINE P == {i \in Done : Duration(i) > 0}
           Z == Done \ P
<1>1. IsFiniteSet(P) /\ IsFiniteSet(Z) /\ P \cap Z = {} /\ P \cup Z = Done /\ P \in SUBSET Done
  BY DurationValues
<1>2. \A i \in P : Durations[i] = DurationsCounted[i] /\ DurationsCounted[i] \in Int
  BY DurationValues, DoneTypes DEF Counted
<1>3. \A i \in Z : DurationsCounted[i] = 0
  BY DurationValues, DoneTypes DEF Counted
<1>4. TotalOf(P) = SumFunctionOnSet(Durations, P) /\ TotalOf(P) \in Int
  BY <1>1, DurationValues
<1> HIDE DEF P, Z
<1>5. SumFunctionOnSet(DurationsCounted, P) = SumFunctionOnSet(Durations, P)
  BY <1>1, <1>2, SumSame
<1>6. SumFunctionOnSet(DurationsCounted, Z) = 0
  BY <1>1, <1>3, SumZeros
<1>7. \A i \in P \cup Z : DurationsCounted[i] \in Int
  BY <1>1, DurationValues
<1>8. SumFunctionOnSet(DurationsCounted, P \cup Z) =
         SumFunctionOnSet(DurationsCounted, P) + SumFunctionOnSet(DurationsCounted, Z)
  BY <1>1, <1>7, SumUnion
<1>9. SumFunctionOnSet(DurationsCounted, Done) = TotalOf(P)
  <2>1. SumFunctionOnSet(DurationsCounted, Done) = SumFunctionOnSet(DurationsCounted, P \cup Z)
    BY <1>1
  <2> QED
    BY <2>1, <1>4, <1>5, <1>6, <1>8
<1> QED
  BY <1>9 DEF P

\* The breakdowns by client, weekday, hour and day account for all the time.
LEMMA BreakdownsAgreeHolds ==
    ASSUME StoreTypeOK, StoreInv
    PROVE  BreakdownsAgree
<1> SUFFICES ASSUME NEW z \in Zones
             PROVE  /\ SumFunction(ByClient) = TotalOf(Done)
                    /\ WeekendTotal(z) + WeekdayTotal(z) = TotalOf(Done)
                    /\ SumFunction(Grid(z)) = TotalOf(Done)
                    /\ SumFunction(DailyData(z)) = TotalOf({i \in Done : Duration(i) > 0})
  BY DEF BreakdownsAgree
<1>0. /\ IsFiniteSet(Done)
      /\ \A i \in Done : Durations[i] \in Int /\ DurationsCounted[i] \in Int
      /\ \A S \in SUBSET Done : TotalOf(S) = SumFunctionOnSet(Durations, S) /\ TotalOf(S) \in Int
  BY DurationValues
<1>1. SumFunction(ByClient) = TotalOf(Done)
  <2> DEFINE key == [i \in Done |-> records[i].client]
  <2>1. \A i \in Done : key[i] = records[i].client
    OBVIOUS
  <2>2. DOMAIN ByClient = {key[i] : i \in Done}
    BY <2>1 DEF ByClient
  <2>3. ASSUME NEW c \in DOMAIN ByClient
        PROVE  ByClient[c] = SumFunctionOnSet(Durations, {i \in Done : key[i] = c})
    <3>1. {i \in Done : records[i].client = c} = {i \in Done : key[i] = c}
      BY <2>1
    <3>2. ByClient[c] = TotalOf({i \in Done : records[i].client = c})
      BY DEF ByClient
    <3> HIDE DEF key
    <3>3. TotalOf({i \in Done : key[i] = c}) = SumFunctionOnSet(Durations, {i \in Done : key[i] = c})
      BY <1>0
    <3> QED
      BY <3>1, <3>2, <3>3
  <2>4. ByClient = [c \in DOMAIN ByClient |-> ByClient[c]]
    BY DEF ByClient
  <2> HIDE DEF key
  <2>5. SumFunction(ByClient) = SumFunctionOnSet(Durations, Done)
    BY <1>0, <2>2, <2>3, <2>4, SumOfClasses
  <2> QED
    BY <1>0, <2>5
<1>2. WeekendTotal(z) + WeekdayTotal(z) = TotalOf(Done)
  <2> DEFINE E == {i \in Done : IsWeekend(z, i)}
             W == {i \in Done : ~IsWeekend(z, i)}
  <2>1. E \cup W = Done /\ E \cap W = {} /\ E \in SUBSET Done /\ W \in SUBSET Done
    OBVIOUS
  <2>2. WeekendTotal(z) = TotalOf(E) /\ WeekdayTotal(z) = TotalOf(W)
    BY DEF WeekendTotal, WeekdayTotal
  <2> HIDE DEF E, W
  <2>3. IsFiniteSet(E) /\ IsFiniteSet(W)
    BY <2>1, DurationValues
  <2>4. \A i \in E \cup W : Durations[i] \in Int
    BY <1>0, <2>1
  <2>5. SumFunctionOnSet(Durations, E \cup W) = SumFunctionOnSet(Durations, E) + SumFunctionOnSet(Durations, W)
    BY <2>1, <2>3, <2>4, SumUnion
  <2>6. /\ TotalOf(E) = SumFunctionOnSet(Durations, E) /\ TotalOf(W) = SumFunctionOnSet(Durations, W)
        /\ TotalOf(Done) = SumFunctionOnSet(Durations, Done)
    BY <1>0, <2>1
  <2>7. SumFunctionOnSet(Durations, E \cup W) = SumFunctionOnSet(Durations, Done)
    BY <2>1
  <2> QED
    BY <2>2, <2>5, <2>6, <2>7
<1>3. SumFunction(Grid(z)) = TotalOf(Done)
  <2> DEFINE key == [i \in Done |-> Cell(z, i)]
             grid == Grid(z)
  <2>1. \A i \in Done : key[i] = Cell(z, i)
    OBVIOUS
  <2>2. DOMAIN grid = {key[i] : i \in Done}
    BY <2>1 DEF Grid
  <2>3. ASSUME NEW c \in DOMAIN grid
        PROVE  grid[c] = SumFunctionOnSet(Durations, {i \in Done : key[i] = c})
    <3>1. {i \in Done : Cell(z, i) = c} = {i \in Done : key[i] = c}
      BY <2>1
    <3>2. grid[c] = TotalOf({i \in Done : Cell(z, i) = c})
      BY DEF Grid
    <3> HIDE DEF key, grid
    <3>3. TotalOf({i \in Done : key[i] = c}) = SumFunctionOnSet(Durations, {i \in Done : key[i] = c})
      BY <1>0
    <3> QED
      BY <3>1, <3>2, <3>3
  <2>4. grid = [c \in DOMAIN grid |-> grid[c]]
    BY DEF Grid
  <2> HIDE DEF key, grid
  <2>5. SumFunction(grid) = SumFunctionOnSet(Durations, Done)
    BY <1>0, <2>2, <2>3, <2>4, SumOfClasses
  <2> QED
    BY <1>0, <2>5 DEF grid
<1>4. SumFunction(DailyData(z)) = TotalOf({i \in Done : Duration(i) > 0})
  <2> DEFINE key == [i \in Done |-> DateOf(z, Start(i))]
             daily == DailyData(z)
  <2>1. \A i \in Done : key[i] = DateOf(z, Start(i))
    OBVIOUS
  <2>2. DOMAIN daily = {key[i] : i \in Done}
    BY <2>1 DEF DailyData, DatesOf
  <2>3. ASSUME NEW c \in DOMAIN daily
        PROVE  daily[c] = SumFunctionOnSet(DurationsCounted, {i \in Done : key[i] = c})
    <3>1. {i \in Done : DateOf(z, Start(i)) = c} = {i \in Done : key[i] = c}
      BY <2>1
    <3>2. daily[c] = SumFunctionOnSet(DurationsCounted, {i \in Done : DateOf(z, Start(i)) = c})
      BY DEF DailyData, DurationsCounted
    <3> HIDE DEF key, daily
    <3> QED
      BY <3>1, <3>2
  <2>4. daily = [c \in DOMAIN daily |-> daily[c]]
    BY DEF DailyData
  <2> HIDE DEF key, daily
  <2>5. SumFunction(daily) = SumFunctionOnSet(DurationsCounted, Done)
    BY <1>0, <2>2, <2>3, <2>4, SumOfClasses
  <2> QED
    BY <2>5, CountedTotal DEF daily
<1> QED
  BY <1>1, <1>2, <1>3, <1>4

\* What a cell of the heat map holds when session i has been added.
CellUpTo(z, i) == TotalOf({j \in Done : j <= i /\ Cell(z, j) = Cell(z, i)})

\* max_seconds is a value some cell had on the way, and no cell ever had more.
LEMMA GridMaxFacts ==
    ASSUME StoreTypeOK, StoreInv, NEW z \in Zones
    PROVE  /\ GridMax(z) \in {0} \cup {CellUpTo(z, i) : i \in Done}
           /\ \A v \in {0} \cup {CellUpTo(z, i) : i \in Done} : v <= GridMax(z)
<1> DEFINE g == [i \in Done |-> CellUpTo(z, i)]
           V == {0} \cup {CellUpTo(z, i) : i \in Done}
<1>1. \A i \in Done : CellUpTo(z, i) \in Int
  BY DurationValues DEF CellUpTo
<1>2. IsFiniteSet(V)
  <2>1. IsFiniteSet({g[i] : i \in Done})
    <3> HIDE DEF g
    <3> QED
      BY DoneTypes, FiniteImage
  <2>2. V = {g[i] : i \in Done} \cup {0}
    OBVIOUS
  <2> HIDE DEF V, g
  <2> QED
    BY <2>1, <2>2, FS_AddElement
<1>3. V \subseteq Int /\ V # {}
  BY <1>1
<1>4. GridMax(z) = Max(V)
  BY DEF GridMax, CellUpTo
<1> HIDE DEF V
<1>5. \E x \in V : \A y \in V : x >= y
  BY <1>2, <1>3, Bounded
<1>6. Max(V) \in V /\ \A y \in V : Max(V) >= y
  BY <1>5 DEF Max
<1> QED
  BY <1>3, <1>4, <1>6 DEF V

\* The scale of the heat map is the largest cell.
LEMMA HeatmapScaledHolds ==
    ASSUME StoreTypeOK, StoreInv
    PROVE  HeatmapScaled
<1> SUFFICES ASSUME NEW z \in Zones
             PROVE  /\ \A c \in DOMAIN Grid(z) : Grid(z)[c] <= GridMax(z)
                    /\ (\A i \in Done : Duration(i) >= 0) =>
                          GridMax(z) \in {0} \cup {Grid(z)[c] : c \in DOMAIN Grid(z)}
  BY DEF HeatmapScaled
<1> DEFINE grid == Grid(z)
           Of(c) == {i \in Done : Cell(z, i) = c}
<1>1. DOMAIN grid = {Cell(z, i) : i \in Done} /\ \A c \in DOMAIN grid : grid[c] = TotalOf(Of(c))
  BY DEF Grid
<1> HIDE DEF grid
<1>2. \A c \in DOMAIN grid : grid[c] <= GridMax(z)
  <2> SUFFICES ASSUME NEW c \in DOMAIN grid PROVE grid[c] <= GridMax(z)
    OBVIOUS
  <2>1. Of(c) \in SUBSET Int /\ IsFiniteSet(Of(c)) /\ Of(c) # {}
    BY <1>1, DoneTypes, DurationValues
  <2>2. PICK i \in Of(c) : \A j \in Of(c) : i >= j
    <3> HIDE DEF Of
    <3> QED
      BY <2>1, Bounded
  <2>3. {j \in Done : j <= i /\ Cell(z, j) = Cell(z, i)} = Of(c)
    BY <2>2, DoneTypes
  <2>4. CellUpTo(z, i) = TotalOf(Of(c))
    BY <2>3 DEF CellUpTo
  <2>5. i \in Done
    BY <2>2
  <2> QED
    BY <1>1, <2>4, <2>5, GridMaxFacts
<1>3. ASSUME \A i \in Done : Duration(i) >= 0
      PROVE  GridMax(z) \in {0} \cup {grid[c] : c \in DOMAIN grid}
  <2> SUFFICES ASSUME GridMax(z) # 0 PROVE \E c \in DOMAIN grid : GridMax(z) = grid[c]
    OBVIOUS
  <2>1. PICK i \in Done : GridMax(z) = CellUpTo(z, i)
    BY GridMaxFacts
  <2> DEFINE c == Cell(z, i)
             R == {j \in Done : j <= i /\ Cell(z, j) = c}
  <2>2. c \in DOMAIN grid /\ R \in SUBSET Of(c) /\ Of(c) \in SUBSET Done /\ IsFiniteSet(Of(c))
    BY <1>1, DurationValues
  <2>3. \A j \in Of(c) : Durations[j] \in Nat
    BY <1>3, DurationValues
  <2>4. CellUpTo(z, i) = TotalOf(R)
    BY DEF CellUpTo
  <2>5. /\ TotalOf(R) = SumFunctionOnSet(Durations, R) /\ TotalOf(R) \in Int
        /\ TotalOf(Of(c)) = SumFunctionOnSet(Durations, Of(c)) /\ TotalOf(Of(c)) \in Int
    BY <2>2, DurationValues
  <2>6. TotalOf(Of(c)) <= GridMax(z)
    BY <1>1, <1>2, <2>2
  <2> HIDE DEF R, Of, c
  <2>7. SumFunctionOnSet(Durations, R) <= SumFunctionOnSet(Durations, Of(c))
    BY <2>2, <2>3, SumGrows
  <2>8. GridMax(z) = TotalOf(Of(c))
    BY <2>1, <2>4, <2>5, <2>6, <2>7
  <2> QED
    BY <1>1, <2>2, <2>8 DEF Of
<1> QED
  BY <1>2, <1>3 DEF grid

\* Every breakdown of the dashboard accounts for the same time, and the scale
\* of the heat map fits its cells.
THEOREM BreakdownsAddUp == StoreSpec => []BreakdownsRight
<1>1. StoreTypeOK /\ StoreInv => BreakdownsRight
  BY BreakdownsAgreeHolds, HeatmapScaledHolds DEF BreakdownsRight
<1> QED
  BY <1>1, StoreTypeCorrect, StoreInvariant, PTL

-----------------------------------------------------------------------------
(* Counting *)

\* The number of elements is a sum of ones.
LEMMA SumOfOnes ==
    ASSUME NEW f, NEW S, IsFiniteSet(S), \A x \in S : f[x] = 1
    PROVE  SumFunctionOnSet(f, S) = Cardinality(S)
<1> DEFINE G == {T \in SUBSET S : SumFunctionOnSet(f, T) = Cardinality(T)}
<1>1. {} \in G
  BY SumEmpty, FS_EmptySet
<1>2. ASSUME NEW T \in SUBSET S, NEW x \in S \ T, T \in G PROVE T \cup {x} \in G
  <2>1. IsFiniteSet(T) /\ Cardinality(T) \in Nat
    BY FS_Subset, FS_CardinalityType
  <2>2. \A y \in T \cup {x} : f[y] \in Int
    OBVIOUS
  <2>3. SumFunctionOnSet(f, T \cup {x}) = SumFunctionOnSet(f, T) + f[x]
    BY <2>1, <2>2, SumAdds
  <2>4. Cardinality(T \cup {x}) = Cardinality(T) + 1
    BY <2>1, FS_AddElement
  <2> QED
    BY <1>2, <2>3, <2>4
<1> HIDE DEF G
<1>3. S \in G
  BY <1>1, <1>2, FinSet
<1> QED
  BY <1>3 DEF G

\* The classes of a key have together as many elements as there are.
LEMMA CountByKey ==
    ASSUME NEW S, IsFiniteSet(S), NEW key, NEW K, IsFiniteSet(K), \A x \in S : key[x] \in K,
           NEW count, DOMAIN count = K, count = [c \in K |-> count[c]],
           \A c \in K : count[c] = Cardinality({x \in S : key[x] = c})
    PROVE  SumFunction(count) = Cardinality(S)
<1> DEFINE f == [x \in S |-> 1]
           By == [c \in K |-> SumFunctionOnSet(f, {x \in S : key[x] = c})]
<1>1. \A T \in SUBSET S : SumFunctionOnSet(f, T) = Cardinality(T)
  <2> SUFFICES ASSUME NEW T \in SUBSET S PROVE SumFunctionOnSet(f, T) = Cardinality(T)
    OBVIOUS
  <2>1. IsFiniteSet(T) /\ \A x \in T : f[x] = 1
    BY FS_Subset
  <2> HIDE DEF f
  <2> QED
    BY <2>1, SumOfOnes
<1>2. \A x \in S : f[x] \in Int /\ key[x] \in K
  OBVIOUS
<1>3. \A c \in K : count[c] = SumFunctionOnSet(f, {x \in S : key[x] = c})
  <2> SUFFICES ASSUME NEW c \in K PROVE count[c] = SumFunctionOnSet(f, {x \in S : key[x] = c})
    OBVIOUS
  <2>1. {x \in S : key[x] = c} \in SUBSET S
    OBVIOUS
  <2> HIDE DEF f
  <2> QED
    BY <1>1, <2>1
<1> HIDE DEF f
<1>4. SumFunctionOnSet(By, K) = SumFunctionOnSet(f, S)
  BY <1>2, SumByKey
<1>5. count = By
  <2>1. \A c \in K : count[c] = By[c]
    BY <1>3
  <2>2. By = [c \in K |-> By[c]]
    OBVIOUS
  <2> HIDE DEF By
  <2> QED
    BY <2>1, <2>2
<1> HIDE DEF By
<1>6. SumFunctionOnSet(f, S) = Cardinality(S)
  BY <1>1
<1> QED
  BY <1>4, <1>5, <1>6 DEF SumFunction

\* Sorted places: in a finite order every place from the first to the last is
\* that of one element.
LEMMA Ranks ==
    ASSUME NEW S, IsFiniteSet(S), NEW before,
           \A x \in S : before[x] \in SUBSET S /\ x \notin before[x],
           \A x \in S : \A y \in before[x] : before[y] \subseteq before[x],
           \A x, y \in S : x = y \/ x \in before[y] \/ y \in before[x]
    PROVE  /\ Cardinality(S) \in Nat
           /\ \A k \in 1..Cardinality(S) : \E x \in S : Cardinality(before[x]) = k - 1
           /\ \A x \in S : IsFiniteSet(before[x]) /\ Cardinality(before[x]) \in 0..(Cardinality(S) - 1)
           /\ \A x \in S : \A y \in before[x] : Cardinality(before[y]) < Cardinality(before[x])
           /\ \A x, y \in S : Cardinality(before[x]) = Cardinality(before[y]) => x = y
<1> DEFINE n == Cardinality(S)
           F == [x \in S |-> Cardinality(before[x])]
           T == 0..(n - 1)
<1>1. n \in Nat
  BY FS_CardinalityType
<1>2. ASSUME NEW x \in S
      PROVE  /\ IsFiniteSet(before[x]) /\ Cardinality(before[x]) \in Nat
             /\ Cardinality(before[x]) < n
  <2>1. before[x] \in SUBSET S /\ before[x] # S
    OBVIOUS
  <2>2. IsFiniteSet(before[x]) /\ Cardinality(before[x]) <= n /\ Cardinality(before[x]) # n
    BY <2>1, FS_Subset
  <2>3. Cardinality(before[x]) \in Nat
    BY <2>2, FS_CardinalityType
  <2> HIDE DEF n
  <2> QED
    BY <1>1, <2>2, <2>3
<1>3. ASSUME NEW x \in S, NEW y \in before[x]
      PROVE  Cardinality(before[y]) < Cardinality(before[x])
  <2>1. y \in S /\ before[y] \in SUBSET before[x] /\ before[y] # before[x]
    OBVIOUS
  <2>2. Cardinality(before[y]) <= Cardinality(before[x]) /\ Cardinality(before[y]) # Cardinality(before[x])
    BY <1>2, <2>1, FS_Subset
  <2> QED
    BY <1>2, <2>1, <2>2
<1>4. ASSUME NEW x \in S, NEW y \in S, Cardinality(before[x]) = Cardinality(before[y])
      PROVE  x = y
  <2>1. x \in before[y] => Cardinality(before[x]) < Cardinality(before[y])
    BY <1>3
  <2>2. y \in before[x] => Cardinality(before[y]) < Cardinality(before[x])
    BY <1>3
  <2> QED
    BY <1>2, <1>4, <2>1, <2>2
<1> HIDE DEF n
<1>5. \A x \in S : Cardinality(before[x]) \in T
  BY <1>1, <1>2
<1>6. F \in Injection(S, T)
  <2>1. F \in [S -> T]
    BY <1>5
  <2>2. \A x, y \in S : F[x] = F[y] => x = y
    BY <1>4
  <2> HIDE DEF F, T
  <2> QED
    BY <2>1, <2>2 DEF Injection, IsInjective
<1>7. IsFiniteSet(T) /\ Cardinality(T) = n
  <2>1. 0 \in Int /\ n - 1 \in Int
    BY <1>1
  <2>2. IsFiniteSet(T) /\ Cardinality(T) = IF 0 > n - 1 THEN 0 ELSE (n - 1) - 0 + 1
    BY <2>1, FS_Interval
  <2> HIDE DEF T
  <2> QED
    BY <1>1, <2>2
<1>8. F \in Surjection(S, T)
  <2> HIDE DEF F, T
  <2> QED
    BY <1>6, <1>7, FS_Injection DEF n
<1>9. \A t \in T : \E x \in S : F[x] = t
  <2> HIDE DEF F
  <2> QED
    BY <1>8 DEF Surjection
<1>10. ASSUME NEW k \in 1..n
       PROVE  \E x \in S : Cardinality(before[x]) = k - 1
  <2>1. k - 1 \in T
    BY <1>1
  <2> HIDE DEF T
  <2> QED
    BY <1>9, <2>1
<1> QED
  BY <1>1, <1>2, <1>3, <1>4, <1>5, <1>10 DEF n

\* The sorted durations.
LEMMA ShorterRanks ==
    ASSUME StoreTypeOK, StoreInv, NEW k \in 1..Cardinality(Done)
    PROVE  \E i \in Done : /\ SortedDuration(k) = Duration(i)
                           /\ Cardinality({j \in Done : Shorter(j, i)}) = k - 1
<1> DEFINE before == [i \in Done |-> {j \in Done : Shorter(j, i)}]
<1>1. \A i \in Done : Duration(i) \in Int /\ i \in Int
  BY DoneTypes
<1>2. \A i \in Done : before[i] = {j \in Done : Shorter(j, i)}
  OBVIOUS
<1>3. \A i \in Done : before[i] \in SUBSET Done /\ i \notin before[i]
  BY <1>1 DEF Shorter
<1>4. ASSUME NEW i \in Done, NEW j \in before[i] PROVE before[j] \subseteq before[i]
  <2>1. j \in Done /\ Shorter(j, i)
    OBVIOUS
  <2>2. ASSUME NEW l \in Done, Shorter(l, j) PROVE Shorter(l, i)
    BY <1>1, <2>1, <2>2 DEF Shorter
  <2> QED
    BY <2>1, <2>2
<1>5. \A i, j \in Done : i = j \/ i \in before[j] \/ j \in before[i]
  BY <1>1 DEF Shorter
<1>6. IsFiniteSet(Done)
  BY DoneTypes
<1>7. \E i \in Done : Cardinality(before[i]) = k - 1
  <2> HIDE DEF before
  <2> QED
    BY <1>3, <1>4, <1>5, <1>6, Ranks
<1>8. \E i \in Done : Cardinality({j \in Done : Shorter(j, i)}) = k - 1
  <2> HIDE DEF before
  <2> QED
    BY <1>2, <1>7
<1> DEFINE i == CHOOSE i \in Done : Cardinality({j \in Done : Shorter(j, i)}) = k - 1
<1>9. i \in Done /\ Cardinality({j \in Done : Shorter(j, i)}) = k - 1
  BY <1>8
<1>10. SortedDuration(k) = Duration(i)
  BY DEF SortedDuration
<1> HIDE DEF i
<1> QED
  BY <1>9, <1>10

\* The sorted values are durations.
LEMMA SortedIsInt ==
    ASSUME StoreTypeOK, StoreInv, NEW k \in 1..Cardinality(Done)
    PROVE  SortedDuration(k) \in Int
BY ShorterRanks, DoneTypes

\* How many sessions are no longer than the k-th, and how many no shorter.
LEMMA AboutSorted ==
    ASSUME StoreTypeOK, StoreInv, NEW k \in 1..Cardinality(Done), NEW d \in Int
    PROVE  /\ SortedDuration(k) <= d => Cardinality({i \in Done : Duration(i) <= d}) >= k
           /\ SortedDuration(k) >= d =>
                 Cardinality({i \in Done : Duration(i) >= d}) >= Cardinality(Done) - k + 1
<1>1. IsFiniteSet(Done) /\ Cardinality(Done) \in Nat /\ \A i \in Done : Duration(i) \in Int /\ i \in Int
  BY DoneTypes, FS_CardinalityType
<1>2. PICK i \in Done : /\ SortedDuration(k) = Duration(i)
                        /\ Cardinality({j \in Done : Shorter(j, i)}) = k - 1
  BY ShorterRanks
<1> DEFINE B == {j \in Done : Shorter(j, i)}
           Low == {j \in Done : Duration(j) <= d}
           High == {j \in Done : Duration(j) >= d}
<1>3. IsFiniteSet(B) /\ IsFiniteSet(Low) /\ IsFiniteSet(High) /\ i \notin B
  BY <1>1, FS_Subset DEF Shorter
<1>4. SortedDuration(k) <= d => Cardinality(Low) >= k
  <2> HAVE SortedDuration(k) <= d
  <2>1. B \cup {i} \in SUBSET Low
    BY <1>1, <1>2 DEF Shorter
  <2>2. Cardinality(B \cup {i}) = Cardinality(B) + 1
    BY <1>3, FS_AddElement
  <2>3. Cardinality(B \cup {i}) <= Cardinality(Low)
    BY <1>3, <2>1, FS_Subset
  <2>4. Cardinality(Low) \in Nat
    BY <1>3, FS_CardinalityType
  <2> HIDE DEF Low
  <2> QED
    BY <1>1, <1>2, <2>2, <2>3, <2>4
<1>5. SortedDuration(k) >= d => Cardinality(High) >= Cardinality(Done) - k + 1
  <2> HAVE SortedDuration(k) >= d
  <2>1. Done \ B \in SUBSET High
    BY <1>1, <1>2 DEF Shorter
  <2>2. Cardinality(Done \ B) = Cardinality(Done) - Cardinality(Done \cap B)
    BY <1>1, FS_Difference
  <2>3. Done \cap B = B
    OBVIOUS
  <2>4. Cardinality(Done \ B) <= Cardinality(High)
    BY <1>3, <2>1, FS_Subset
  <2>5. Cardinality(High) \in Nat
    BY <1>3, FS_CardinalityType
  <2>6. Cardinality(Done \cap B) = k - 1
    BY <1>2, <2>3
  <2> HIDE DEF High, B
  <2> QED
    BY <1>1, <1>2, <2>2, <2>4, <2>5, <2>6
<1> QED
  BY <1>1, <1>2, <1>4, <1>5

\* The sorted values do not fall.
LEMMA SortedGrows ==
    ASSUME StoreTypeOK, StoreInv, NEW k \in 1..Cardinality(Done), k + 1 \in 1..Cardinality(Done)
    PROVE  SortedDuration(k) <= SortedDuration(k + 1)
<1>1. IsFiniteSet(Done) /\ Cardinality(Done) \in Nat /\ \A i \in Done : Duration(i) \in Int /\ i \in Int
  BY DoneTypes, FS_CardinalityType
<1>2. PICK i \in Done : /\ SortedDuration(k) = Duration(i)
                        /\ Cardinality({j \in Done : Shorter(j, i)}) = k - 1
  BY ShorterRanks
<1>3. PICK l \in Done : /\ SortedDuration(k + 1) = Duration(l)
                        /\ Cardinality({j \in Done : Shorter(j, l)}) = (k + 1) - 1
  BY ShorterRanks
<1>4. SUFFICES ASSUME Duration(l) < Duration(i) PROVE FALSE
  BY <1>1, <1>2, <1>3
<1>5. {j \in Done : Shorter(j, l)} \in SUBSET {j \in Done : Shorter(j, i)}
  BY <1>1, <1>4 DEF Shorter
<1>6. IsFiniteSet({j \in Done : Shorter(j, i)})
  BY <1>1, FS_Subset
<1>7. Cardinality({j \in Done : Shorter(j, l)}) <= Cardinality({j \in Done : Shorter(j, i)})
  BY <1>5, <1>6, FS_Subset
<1> QED
  BY <1>2, <1>3, <1>7

\* The middle of two integers, rounded towards zero, is between them.
LEMMA Middle ==
    ASSUME NEW a \in Int, NEW b \in Int, a <= b
    PROVE  DivTrunc(a + b, 2) \in Int /\ a <= DivTrunc(a + b, 2) /\ DivTrunc(a + b, 2) <= b
<1>1. CASE a + b >= 0
  BY <1>1 DEF DivTrunc
<1>2. CASE ~(a + b >= 0)
  BY <1>2 DEF DivTrunc
<1> QED
  BY <1>1, <1>2

\* Every duration that is not negative is in one bucket.
LEMMA OneBucket ==
    ASSUME NEW d \in Int
    PROVE  /\ d >= 0 => \E k \in 1..7 : InBucket(k, d)
           /\ \A k, l \in 1..7 : InBucket(k, d) /\ InBucket(l, d) => k = l
           /\ \A k \in 1..7 : InBucket(k, d) => d >= 0
<1>1. /\ InBucket(1, d) <=> d >= 0 /\ d < 300
      /\ InBucket(2, d) <=> d >= 300 /\ d < 900
      /\ InBucket(3, d) <=> d >= 900 /\ d < 1800
      /\ InBucket(4, d) <=> d >= 1800 /\ d < 3600
      /\ InBucket(5, d) <=> d >= 3600 /\ d < 7200
      /\ InBucket(6, d) <=> d >= 7200 /\ d < 14400
      /\ InBucket(7, d) <=> d >= 14400
  BY DEF InBucket, Edges
<1>2. \A k \in 1..7 : k = 1 \/ k = 2 \/ k = 3 \/ k = 4 \/ k = 5 \/ k = 6 \/ k = 7
  OBVIOUS
<1> QED
  BY <1>1, <1>2

\* The buckets count the sessions that are not negative.
LEMMA BucketsComplete ==
    ASSUME StoreTypeOK, StoreInv
    PROVE  SumFunction(Buckets) = Cardinality({i \in Done : Duration(i) >= 0})
<1> DEFINE S == {i \in Done : Duration(i) >= 0}
           key == [i \in Done |-> CHOOSE k \in 1..7 : InBucket(k, Duration(i))]
<1>1. IsFiniteSet(S) /\ IsFiniteSet(1..7)
  <2>1. IsFiniteSet(1..7)
    <3>1. 1 \in Int /\ 7 \in Int
      OBVIOUS
    <3> QED
      BY <3>1, FS_Interval
  <2> QED
    BY <2>1, DoneTypes, FS_Subset
<1>2. \A i \in S : key[i] \in 1..7 /\ InBucket(key[i], Duration(i))
  <2> SUFFICES ASSUME NEW i \in S PROVE key[i] \in 1..7 /\ InBucket(key[i], Duration(i))
    OBVIOUS
  <2>1. \E k \in 1..7 : InBucket(k, Duration(i))
    BY DoneTypes, OneBucket
  <2>2. key[i] = CHOOSE k \in 1..7 : InBucket(k, Duration(i))
    OBVIOUS
  <2> HIDE DEF key
  <2> QED
    BY <2>1, <2>2
<1> HIDE DEF key
<1>3. ASSUME NEW c \in 1..7
      PROVE  Buckets[c] = Cardinality({i \in S : key[i] = c})
  <2>1. {i \in Done : InBucket(c, Duration(i))} = {i \in S : key[i] = c}
    BY <1>2, DoneTypes, OneBucket
  <2> QED
    BY <2>1 DEF Buckets
<1>4. DOMAIN Buckets = 1..7 /\ Buckets = [c \in 1..7 |-> Buckets[c]]
  BY DEF Buckets
<1> DEFINE K == 1..7
<1> HIDE DEF S, K
<1>5. SumFunction(Buckets) = Cardinality(S)
  <2>1. IsFiniteSet(S) /\ IsFiniteSet(K) /\ \A i \in S : key[i] \in K
    BY <1>1, <1>2 DEF K
  <2>2. DOMAIN Buckets = K /\ Buckets = [c \in K |-> Buckets[c]]
    BY <1>4 DEF K
  <2>3. \A c \in K : Buckets[c] = Cardinality({i \in S : key[i] = c})
    BY <1>3 DEF K
  <2> QED
    BY <2>1, <2>2, <2>3, CountByKey
<1> QED
  BY <1>5 DEF S

\* The median of an odd number and of an even number of sessions.
LEMMA DistributionHolds ==
    ASSUME StoreTypeOK, StoreInv
    PROVE  DistributionComplete
<1> SUFFICES ASSUME Done # {}
             PROVE  /\ 2 * Cardinality({i \in Done : Duration(i) <= Median}) >= Cardinality(Done)
                    /\ 2 * Cardinality({i \in Done : Duration(i) >= Median}) >= Cardinality(Done)
  BY BucketsComplete DEF DistributionComplete
<1> DEFINE n == Cardinality(Done)
           low == Cardinality({i \in Done : Duration(i) <= Median})
           high == Cardinality({i \in Done : Duration(i) >= Median})
<1>1. n \in Nat /\ n # 0
  BY DoneTypes, FS_CardinalityType, FS_EmptySet
<1>2. IsFiniteSet({i \in Done : Duration(i) <= Median}) /\ IsFiniteSet({i \in Done : Duration(i) >= Median})
  BY DoneTypes, FS_Subset
<1>3. low \in Nat /\ high \in Nat
  BY <1>2, FS_CardinalityType
<1>4. CASE n % 2 = 1
  <2> DEFINE k == (n + 1) \div 2
  <2>1. Median = SortedDuration(k)
    BY <1>4 DEF Median
  <2> HIDE DEF n
  <2>2. k \in 1..n /\ 2 * k = n + 1
    BY <1>1, <1>4
  <2> HIDE DEF k
  <2>3. Median \in Int
    BY <2>1, <2>2, SortedIsInt DEF n
  <2>4. low >= k /\ high >= n - k + 1
    BY <2>1, <2>2, <2>3, AboutSorted DEF n
  <2> HIDE DEF low, high
  <2>5. k \in Int
    BY <2>2
  <2>6. 2 * low >= n /\ 2 * high >= n
    BY <1>1, <1>3, <2>2, <2>4, <2>5
  <2> QED
    BY <2>6 DEF low, high, n
<1>5. CASE n % 2 # 1
  <2> DEFINE k == n \div 2
             a == SortedDuration(k)
             b == SortedDuration(k + 1)
  <2>1. Median = DivTrunc(a + b, 2)
    BY <1>5 DEF Median
  <2> HIDE DEF n
  <2>2. k \in 1..n /\ k + 1 \in 1..n /\ 2 * k = n
    BY <1>1, <1>5
  <2> HIDE DEF k
  <2>3. a \in Int /\ b \in Int /\ a <= b
    BY <2>2, SortedIsInt, SortedGrows DEF n
  <2> HIDE DEF a, b
  <2>4. Median \in Int /\ a <= Median /\ Median <= b
    BY <2>1, <2>3, Middle
  <2>5. low >= k /\ high >= n - (k + 1) + 1
    BY <2>2, <2>4, AboutSorted DEF n, a, b
  <2> HIDE DEF low, high
  <2>6. k \in Int
    BY <2>2
  <2>7. 2 * low >= n /\ 2 * high >= n
    BY <1>1, <1>3, <2>2, <2>5, <2>6
  <2> QED
    BY <2>7 DEF low, high, n
<1> QED
  BY <1>4, <1>5

\* Every session has its bucket, and the median has half of them on each side.
THEOREM DistributionsComplete == StoreSpec => []DistributionComplete
<1>1. StoreTypeOK /\ StoreInv => DistributionComplete
  BY DistributionHolds
<1> QED
  BY <1>1, StoreTypeCorrect, StoreInvariant, PTL

-----------------------------------------------------------------------------
(* Streaks *)

\* s lists the elements of D in order, each once.
InOrder(s, D) ==
    /\ DOMAIN s = 1..Cardinality(D)
    /\ \A k \in 1..Cardinality(D) : s[k] \in D
    /\ \A d \in D : \E k \in 1..Cardinality(D) : s[k] = d
    /\ \A j, k \in 1..Cardinality(D) : j < k => s[j] < s[k]

\* The days with activity are finitely many, and sorted.
LEMMA ActiveDays ==
    ASSUME StoreTypeOK, StoreInv, NEW z \in Zones
    PROVE  /\ ActiveDates(z) \in SUBSET Int /\ IsFiniteSet(ActiveDates(z))
           /\ Cardinality(ActiveDates(z)) \in Nat
           /\ InOrder(DaysSorted(z), ActiveDates(z))
<1> DEFINE D == ActiveDates(z)
           n == Cardinality(D)
           s == DaysSorted(z)
           A == {i \in Done : Duration(i) > 0}
           dates == [i \in A |-> DateOf(z, Start(i))]
           before == [d \in D |-> {e \in D : e < d}]
<1>1. D \in SUBSET Int
  BY DoneTypes, DayShown DEF ActiveDates, DatesOf
<1>2. IsFiniteSet(D)
  <2>1. IsFiniteSet(A)
    BY DoneTypes, FS_Subset
  <2>2. D = {dates[i] : i \in A}
    BY DEF ActiveDates, DatesOf
  <2> HIDE DEF dates, A, D
  <2> QED
    BY <2>1, <2>2, FiniteImage
<1> HIDE DEF D
<1>3. \A d \in D : before[d] = {e \in D : e < d}
  OBVIOUS
<1> HIDE DEF before
<1>4. /\ \A d \in D : before[d] \in SUBSET D /\ d \notin before[d]
      /\ \A d \in D : \A e \in before[d] : before[e] \subseteq before[d]
      /\ \A d, e \in D : d = e \/ d \in before[e] \/ e \in before[d]
  <2>1. \A d \in D : before[d] \in SUBSET D /\ d \notin before[d]
    BY <1>1, <1>3
  <2>2. \A d, e \in D : d = e \/ d \in before[e] \/ e \in before[d]
    BY <1>1, <1>3
  <2>3. ASSUME NEW d \in D, NEW e \in before[d] PROVE before[e] \subseteq before[d]
    <3>1. e \in D /\ e < d /\ before[d] = {f \in D : f < d} /\ before[e] = {f \in D : f < e}
      BY <1>3
    <3>2. \A f \in D : f < e => f < d
      BY <1>1, <3>1
    <3> QED
      BY <3>1, <3>2
  <2> QED
    BY <2>1, <2>2, <2>3
<1>5. /\ n \in Nat
      /\ \A k \in 1..n : \E d \in D : Cardinality(before[d]) = k - 1
      /\ \A d \in D : Cardinality(before[d]) \in 0..(n - 1)
      /\ \A d \in D : \A e \in before[d] : Cardinality(before[e]) < Cardinality(before[d])
      /\ \A d, e \in D : Cardinality(before[d]) = Cardinality(before[e]) => d = e
  BY <1>2, <1>4, Ranks
<1> HIDE DEF n
<1>6. s = [k \in 1..n |-> CHOOSE d \in D : Cardinality({e \in D : e < d}) = k - 1]
  BY DEF DaysSorted, D, n
<1> HIDE DEF s
<1>7. ASSUME NEW k \in 1..n PROVE s[k] \in D /\ Cardinality(before[s[k]]) = k - 1
  <2>1. s[k] = CHOOSE d \in D : Cardinality({e \in D : e < d}) = k - 1
    BY <1>6
  <2>2. \E d \in D : Cardinality({e \in D : e < d}) = k - 1
    BY <1>3, <1>5
  <2>3. s[k] \in D /\ Cardinality({e \in D : e < s[k]}) = k - 1
    BY <2>1, <2>2
  <2> QED
    BY <1>3, <2>3
<1>8. ASSUME NEW d \in D PROVE \E k \in 1..n : s[k] = d
  <2> DEFINE k == Cardinality(before[d]) + 1
  <2>1. k \in 1..n /\ Cardinality(before[d]) = k - 1
    BY <1>5
  <2> HIDE DEF k
  <2>2. s[k] \in D /\ Cardinality(before[s[k]]) = Cardinality(before[d])
    BY <1>7, <2>1
  <2>3. s[k] = d
    BY <1>5, <2>2
  <2> QED
    BY <2>1, <2>3
<1>9. ASSUME NEW j \in 1..n, NEW k \in 1..n, j < k PROVE s[j] < s[k]
  <2>1. /\ s[j] \in D /\ Cardinality(before[s[j]]) = j - 1
        /\ s[k] \in D /\ Cardinality(before[s[k]]) = k - 1
    BY <1>7
  <2>2. s[k] \in before[s[j]] => k - 1 < j - 1
    BY <1>5, <2>1
  <2>3. s[j] # s[k]
    BY <1>9, <2>1
  <2>4. s[j] \in Int /\ s[k] \in Int
    BY <1>1, <2>1
  <2> QED
    BY <1>3, <1>9, <2>1, <2>2, <2>3, <2>4
<1>10. InOrder(s, D)
  <2>1. DOMAIN s = 1..n
    BY <1>6
  <2> QED
    BY <1>7, <1>8, <1>9, <2>1 DEF InOrder, n
<1> QED
  BY <1>1, <1>2, <1>5, <1>10 DEF D, n, s

\* One round of the loop.
RunStep(days, k, before) ==
    IF k = 1 THEN [current |-> 1, best |-> 1]
    ELSE IF days[k] - days[k - 1] = 1
         THEN [current |-> before.current + 1, best |-> before.best]
         ELSE [current |-> 1, best |-> Best(before)]

\* The loop is what it is after each round.
LEMMA RunsUnfold ==
    ASSUME NEW days, NEW n \in Nat, DOMAIN days = 1..n, NEW k \in 1..n
    PROVE  Runs(days)[k] = RunStep(days, k, Runs(days)[k - 1])
<1> DEFINE Loop(g, m) == g = [j \in 1..m |-> RunStep(days, j, g[j - 1])]
           X == {m \in Nat : \E g : Loop(g, m)}
<1>1. 0 \in X
  <2>1. Loop([j \in 1..0 |-> 0], 0)
    OBVIOUS
  <2> QED
    BY <2>1
<1>2. ASSUME NEW m \in Nat, m \in X PROVE m + 1 \in X
  <2>1. PICK g : Loop(g, m)
    BY <1>2
  <2> DEFINE h == [j \in 1..(m + 1) |-> RunStep(days, j, g[j - 1])]
  <2>2. ASSUME NEW j \in 1..(m + 1) PROVE h[j] = RunStep(days, j, h[j - 1])
    <3>1. h[j] = RunStep(days, j, g[j - 1])
      OBVIOUS
    <3>2. CASE j = 1
      BY <3>1, <3>2 DEF RunStep
    <3>3. CASE j # 1
      <4>1. j - 1 \in 1..m /\ j - 1 \in 1..(m + 1)
        BY <3>3
      <4>2. g[j - 1] = RunStep(days, j - 1, g[(j - 1) - 1])
        BY <2>1, <4>1
      <4>3. h[j - 1] = RunStep(days, j - 1, g[(j - 1) - 1])
        BY <4>1
      <4> HIDE DEF h
      <4> QED
        BY <3>1, <4>2, <4>3
    <3> QED
      BY <3>2, <3>3
  <2>3. h = [j \in 1..(m + 1) |-> h[j]]
    OBVIOUS
  <2> HIDE DEF h
  <2>4. Loop(h, m + 1)
    BY <2>2, <2>3
  <2>5. \E f : Loop(f, m + 1)
    BY <2>4
  <2> QED
    BY <2>5
<1> HIDE DEF X
<1>3. n \in X
  BY <1>1, <1>2, NatSet
<1>4. \E g : Loop(g, n)
  BY <1>3 DEF X
<1> DEFINE run == CHOOSE g : g = [j \in DOMAIN days |-> RunStep(days, j, g[j - 1])]
<1>5. Runs(days) = run
  BY DEF Runs, RunStep
<1>6. run = [j \in DOMAIN days |-> RunStep(days, j, run[j - 1])]
  BY <1>4
<1> HIDE DEF run
<1> QED
  BY <1>5, <1>6
\* Days d to d + n - 1 are all in D.
IsRunOf(D, d, n) == d..(d + n - 1) \subseteq D

\* What the loop knows when it has seen the k-th day.
LoopInv(D, s, k, run) ==
    /\ run.current \in Nat \ {0} /\ run.best \in Nat \ {0}
    /\ IsRunOf(D, s[k] - run.current + 1, run.current)
    /\ s[k] - run.current \notin D
    /\ \E d \in D : IsRunOf(D, d, run.best)
    /\ \A d \in Int, n \in Nat \ {0} :
          IsRunOf(D, d, n) /\ d + n - 1 <= s[k] => n <= run.current \/ n <= run.best

\* A run has both of its ends, and all between them.
LEMMA Ends ==
    ASSUME NEW D, NEW d \in Int, NEW n \in Nat \ {0}, IsRunOf(D, d, n)
    PROVE  /\ d \in D /\ d + n - 1 \in D
           /\ \A e \in Int : d <= e /\ e <= d + n - 1 => e \in D
BY DEF IsRunOf

\* The first round.
LEMMA FirstRound ==
    ASSUME NEW D \in SUBSET Int, Cardinality(D) \in Nat, NEW s, InOrder(s, D), Cardinality(D) # 0,
           NEW run, run = [current |-> 1, best |-> 1]
    PROVE  LoopInv(D, s, 1, run)
<1> DEFINE N == Cardinality(D)
<1>0. 1 \in 1..N /\ N \in Nat
  OBVIOUS
<1>1. s[1] \in D /\ s[1] \in Int
  BY <1>0 DEF InOrder
<1>2. ASSUME NEW d \in D PROVE s[1] <= d
  <2>1. PICK k \in 1..N : s[k] = d
    BY DEF InOrder
  <2>2. k = 1 \/ 1 < k
    OBVIOUS
  <2>3. 1 < k => s[1] < s[k]
    BY <1>0 DEF InOrder
  <2>4. d \in Int
    OBVIOUS
  <2> QED
    BY <1>1, <2>1, <2>2, <2>3, <2>4
<1>3. IsRunOf(D, s[1], 1) /\ s[1] - 1 + 1 = s[1]
  BY <1>1 DEF IsRunOf
<1>4. s[1] - 1 \notin D
  BY <1>1, <1>2
<1>5. ASSUME NEW d \in Int, NEW n \in Nat \ {0}, IsRunOf(D, d, n), d + n - 1 <= s[1]
      PROVE  n <= 1
  <2>1. d \in D
    BY <1>5, Ends
  <2> QED
    BY <1>1, <1>2, <1>5, <2>1
<1>6. run.current = 1 /\ run.best = 1
  OBVIOUS
<1>7. IsRunOf(D, s[1] - run.current + 1, run.current)
  BY <1>3, <1>6
<1> QED
  BY <1>1, <1>3, <1>4, <1>5, <1>6, <1>7 DEF LoopInv

\* Every other round.
LEMMA NextRound ==
    ASSUME NEW D \in SUBSET Int, Cardinality(D) \in Nat, NEW s, InOrder(s, D),
           NEW k \in Nat \ {0}, k + 1 \in 1..Cardinality(D), NEW old, LoopInv(D, s, k, old),
           NEW new, new = RunStep(s, k + 1, old)
    PROVE  LoopInv(D, s, k + 1, new)
<1> DEFINE N == Cardinality(D)
           a == s[k]
           b == s[k + 1]
           c == old.current
           o == old.best
<1>0. k \in 1..N /\ k + 1 \in 1..N /\ N \in Nat /\ k < k + 1 /\ (k + 1) - 1 = k /\ k + 1 # 1
  OBVIOUS
<1> HIDE DEF N
<1>1. a \in D /\ a \in Int /\ b \in D /\ b \in Int /\ a < b
  BY <1>0 DEF InOrder, N
<1>2. ASSUME NEW d \in D, a < d PROVE b <= d
  <2>1. PICK j \in 1..N : s[j] = d
    BY DEF InOrder, N
  <2>2. j < k => s[j] < s[k]
    BY <1>0 DEF InOrder, N
  <2>3. k + 1 < j => s[k + 1] < s[j]
    BY <1>0 DEF InOrder, N
  <2>4. j = k \/ j = k + 1 \/ j < k \/ k + 1 < j
    BY <1>0
  <2>5. d \in Int
    OBVIOUS
  <2> QED
    BY <1>1, <1>2, <2>1, <2>2, <2>3, <2>4, <2>5
<1>3. /\ c \in Nat \ {0} /\ o \in Nat \ {0}
      /\ IsRunOf(D, a - c + 1, c)
      /\ a - c \notin D
      /\ \E d \in D : IsRunOf(D, d, o)
      /\ \A d \in Int, n \in Nat \ {0} : IsRunOf(D, d, n) /\ d + n - 1 <= a => n <= c \/ n <= o
  BY DEF LoopInv
<1>4. new = IF b - a = 1 THEN [current |-> c + 1, best |-> o] ELSE [current |-> 1, best |-> Best(old)]
  BY <1>0 DEF RunStep
<1>5. Best(old) = IF c > o THEN c ELSE o
  BY DEF Best
<1> DEFINE nc == new.current
           no == new.best
<1> SUFFICES /\ nc \in Nat \ {0} /\ no \in Nat \ {0}
             /\ IsRunOf(D, b - nc + 1, nc)
             /\ b - nc \notin D
             /\ \E d \in D : IsRunOf(D, d, no)
             /\ \A d \in Int, n \in Nat \ {0} : IsRunOf(D, d, n) /\ d + n - 1 <= b => n <= nc \/ n <= no
  BY DEF LoopInv
<1>6. nc = (IF b - a = 1 THEN c + 1 ELSE 1) /\ no = (IF b - a = 1 THEN o ELSE Best(old))
  BY <1>4
<1> HIDE DEF a, b, c, o, nc, no
<1>7. nc \in Nat \ {0} /\ no \in Nat \ {0}
  BY <1>3, <1>5, <1>6
<1>8. IsRunOf(D, b - nc + 1, nc)
  <2>1. CASE b - a = 1
    <3>1. nc = c + 1 /\ b = a + 1
      BY <1>1, <1>6, <2>1
    <3>2. \A e \in Int : a - c + 1 <= e /\ e <= a => e \in D
      <4>1. a - c + 1 \in Int /\ (a - c + 1) + c - 1 = a
        BY <1>1, <1>3
      <4> QED
        BY <1>3, <4>1, Ends
    <3>3. \A e \in Int : b - nc + 1 <= e /\ e <= b => e \in D
      BY <1>1, <1>3, <3>1, <3>2
    <3>4. (b - nc + 1) + nc - 1 = b
      BY <1>1, <1>7
    <3> QED
      BY <1>1, <1>7, <3>3, <3>4 DEF IsRunOf
  <2>2. CASE b - a # 1
    BY <1>1, <1>6, <2>2 DEF IsRunOf
  <2> QED
    BY <2>1, <2>2
<1>9. b - nc \notin D
  <2>1. CASE b - a = 1
    <3>1. b - nc = a - c
      BY <1>1, <1>3, <1>6, <2>1
    <3> QED
      BY <1>3, <3>1
  <2>2. CASE b - a # 1
    <3>1. nc = 1 /\ a < b - 1
      BY <1>1, <1>6, <2>2
    <3> QED
      BY <1>1, <1>2, <3>1
  <2> QED
    BY <2>1, <2>2
<1>10. \E d \in D : IsRunOf(D, d, no)
  <2>1. CASE no = o
    BY <1>3, <2>1
  <2>2. CASE no # o
    <3>1. no = c
      BY <1>5, <1>6, <2>2
    <3>2. a - c + 1 \in Int
      BY <1>1, <1>3
    <3>3. a - c + 1 \in D
      BY <1>3, <3>2, Ends
    <3> QED
      BY <1>3, <3>1, <3>3
  <2> QED
    BY <2>1, <2>2
<1>11. ASSUME NEW d \in Int, NEW n \in Nat \ {0}, IsRunOf(D, d, n), d + n - 1 <= b
       PROVE  n <= nc \/ n <= no
  <2> DEFINE e == d + n - 1
  <2>1. e \in D /\ e \in Int /\ \A x \in Int : d <= x /\ x <= e => x \in D
    BY <1>11, Ends
  <2>2. CASE e <= a
    <3>1. n <= c \/ n <= o
      BY <1>3, <1>11, <2>2
    <3> QED
      BY <1>3, <1>5, <1>6, <3>1
  <2>3. CASE ~(e <= a)
    <3>1. e = b
      BY <1>1, <1>2, <1>11, <2>1, <2>3
    <3>2. ~(n > nc)
      <4> SUFFICES ASSUME n > nc PROVE FALSE
        OBVIOUS
      <4>1. b - nc \in Int /\ d <= b - nc /\ b - nc <= e
        BY <1>1, <1>7, <3>1
      <4> QED
        BY <1>9, <2>1, <4>1
    <3> QED
      BY <1>7, <3>2
  <2> QED
    BY <2>2, <2>3
<1> QED
  BY <1>7, <1>8, <1>9, <1>10, <1>11

\* The invariant of the loop.
LEMMA LoopHolds ==
    ASSUME NEW D \in SUBSET Int, Cardinality(D) \in Nat, NEW s, InOrder(s, D), NEW k \in 1..Cardinality(D)
    PROVE  LoopInv(D, s, k, Runs(s)[k])
<1> DEFINE N == Cardinality(D)
           X == {m \in Nat : m + 1 \in 1..N => LoopInv(D, s, m + 1, Runs(s)[m + 1])}
<1>1. DOMAIN s = 1..N
  BY DEF InOrder
<1>2. \A j \in 1..N : Runs(s)[j] = RunStep(s, j, Runs(s)[j - 1])
  BY <1>1, RunsUnfold
<1>3. 0 \in X
  <2> SUFFICES ASSUME 1 \in 1..N PROVE LoopInv(D, s, 1, Runs(s)[1])
    OBVIOUS
  <2>1. Runs(s)[1] = [current |-> 1, best |-> 1]
    BY <1>2 DEF RunStep
  <2> QED
    BY <2>1, FirstRound
<1>4. ASSUME NEW m \in Nat, m \in X PROVE m + 1 \in X
  <2> SUFFICES ASSUME (m + 1) + 1 \in 1..N PROVE LoopInv(D, s, (m + 1) + 1, Runs(s)[(m + 1) + 1])
    OBVIOUS
  <2>1. m + 1 \in Nat \ {0} /\ m + 1 \in 1..N /\ ((m + 1) + 1) - 1 = m + 1
    OBVIOUS
  <2>2. LoopInv(D, s, m + 1, Runs(s)[m + 1])
    BY <1>4, <2>1
  <2> DEFINE p == m + 1
  <2>3. Runs(s)[p + 1] = RunStep(s, p + 1, Runs(s)[p])
    <3>1. Runs(s)[p + 1] = RunStep(s, p + 1, Runs(s)[(p + 1) - 1])
      BY <1>2
    <3> QED
      BY <2>1, <3>1
  <2>4. p \in Nat \ {0} /\ p + 1 \in 1..N /\ LoopInv(D, s, p, Runs(s)[p])
    BY <2>1, <2>2
  <2> HIDE DEF p
  <2>5. LoopInv(D, s, p + 1, Runs(s)[p + 1])
    BY <2>3, <2>4, NextRound
  <2> QED
    BY <2>5 DEF p
<1> HIDE DEF X
<1>5. k - 1 \in Nat
  OBVIOUS
<1>6. k - 1 \in X
  BY <1>3, <1>4, <1>5, NatSet
<1>7. (k - 1) + 1 = k
  OBVIOUS
<1> QED
  BY <1>6, <1>7 DEF X
\* A run of days is no longer than there are days.
LEMMA RunFits ==
    ASSUME NEW D \in SUBSET Int, IsFiniteSet(D), NEW d \in Int, NEW n \in Nat \ {0}, IsRunOf(D, d, n)
    PROVE  n \in 1..Cardinality(D)
<1> DEFINE I == d..(d + n - 1)
<1>1. I \in SUBSET D
  BY DEF IsRunOf
<1>2. Cardinality(I) = n
  <2>1. d + n - 1 \in Int /\ ~(d > d + n - 1) /\ (d + n - 1) - d + 1 = n
    OBVIOUS
  <2> QED
    BY <2>1, FS_Interval
<1> HIDE DEF I
<1>3. Cardinality(I) <= Cardinality(D) /\ Cardinality(D) \in Nat
  BY <1>1, FS_Subset, FS_CardinalityType
<1> QED
  BY <1>2, <1>3

\* The largest element is the one that bounds the others.
LEMMA MaxIs ==
    ASSUME NEW S \in SUBSET Int, NEW x \in S, \A y \in S : y <= x
    PROVE  Max(S) = x
<1>1. \A y \in S : y \in Int
  OBVIOUS
<1>2. x \in S /\ \A y \in S : x >= y
  BY <1>1
<1>3. \A w \in S : (\A y \in S : w >= y) => w = x
  BY <1>1, <1>2
<1> QED
  BY <1>2, <1>3 DEF Max

\* What the loop leaves are the longest run and the last.
LEMMA StreaksHold ==
    ASSUME StoreTypeOK, StoreInv
    PROVE  StreaksAreRuns
<1> SUFFICES ASSUME NEW z \in Zones, ActiveDates(z) # {}
             PROVE  LET days == ActiveDates(z)
                        IsRun(d, n) == d..(d + n - 1) \subseteq days
                        Lengths == 1..Cardinality(days)
                    IN  /\ MaxStreak(z) = Max({n \in Lengths : \E d \in days : IsRun(d, n)})
                        /\ CurrentStreak(z) = Max({n \in Lengths : IsRun(Max(days) - n + 1, n)})
  BY DEF StreaksAreRuns
<1> DEFINE D == ActiveDates(z)
           N == Cardinality(D)
           s == DaysSorted(z)
           run == Runs(s)[N]
           c == run.current
           b == run.best
<1>1. D \in SUBSET Int /\ IsFiniteSet(D) /\ N \in Nat /\ InOrder(s, D) /\ D # {}
  BY ActiveDays
<1>2. MaxStreak(z) = Best(run) /\ CurrentStreak(z) = c
  BY DEF MaxStreak, CurrentStreak, Run
<1> HIDE DEF D, s
<1>3. N # 0 /\ N \in 1..N
  BY <1>1, FS_EmptySet
<1>4. LoopInv(D, s, N, run)
  BY <1>1, <1>3, LoopHolds
<1>5. s[N] \in D /\ \A d \in D : d <= s[N]
  <2>1. s[N] \in D
    BY <1>1, <1>3 DEF InOrder
  <2>2. ASSUME NEW d \in D PROVE d <= s[N]
    <3>1. PICK k \in 1..N : s[k] = d
      BY <1>1 DEF InOrder
    <3>2. k < N => s[k] < s[N]
      BY <1>1, <1>3 DEF InOrder
    <3>3. k = N \/ k < N
      BY <1>1
    <3>4. d \in Int /\ s[N] \in Int
      BY <1>1, <2>1
    <3> QED
      BY <3>1, <3>2, <3>3, <3>4
  <2> QED
    BY <2>1, <2>2
<1>6. Max(D) = s[N]
  BY <1>1, <1>5, MaxIs
<1>7. /\ c \in Nat \ {0} /\ b \in Nat \ {0}
      /\ IsRunOf(D, s[N] - c + 1, c)
      /\ s[N] - c \notin D
      /\ \E d \in D : IsRunOf(D, d, b)
      /\ \A d \in Int, n \in Nat \ {0} : IsRunOf(D, d, n) /\ d + n - 1 <= s[N] => n <= c \/ n <= b
  BY <1>4 DEF LoopInv
<1>8. Best(run) = IF c > b THEN c ELSE b
  BY DEF Best
<1> HIDE DEF run, c, b
<1>9. s[N] \in Int
  BY <1>1, <1>5
<1> DEFINE All == {n \in 1..N : \E d \in D : IsRunOf(D, d, n)}
           Last == {n \in 1..N : IsRunOf(D, s[N] - n + 1, n)}
<1>10. c \in Last
  <2>1. s[N] - c + 1 \in Int
    BY <1>7, <1>9
  <2>2. c \in 1..N
    BY <1>1, <1>7, <2>1, RunFits
  <2> QED
    BY <1>7, <2>2
<1>11. c \in All
  <2>1. s[N] - c + 1 \in Int
    BY <1>7, <1>9
  <2>2. s[N] - c + 1 \in D
    BY <1>7, <2>1, Ends
  <2> QED
    BY <1>7, <1>10, <2>2
<1>12. b \in All
  <2>1. PICK d \in D : IsRunOf(D, d, b)
    BY <1>7
  <2>2. d \in Int
    BY <1>1
  <2>3. b \in 1..N
    BY <1>1, <1>7, <2>1, <2>2, RunFits
  <2> QED
    BY <2>1, <2>3
<1>13. Best(run) = Max(All)
  <2>1. Best(run) \in All
    BY <1>8, <1>11, <1>12
  <2>2. \A n \in All : n <= Best(run)
    <3> SUFFICES ASSUME NEW n \in All PROVE n <= Best(run)
      OBVIOUS
    <3>1. PICK d \in D : IsRunOf(D, d, n)
      OBVIOUS
    <3>2. d \in Int /\ n \in Nat \ {0}
      BY <1>1
    <3>3. d + n - 1 \in D
      BY <3>1, <3>2, Ends
    <3>4. d + n - 1 <= s[N]
      BY <1>5, <3>3
    <3>5. n <= c \/ n <= b
      BY <1>7, <3>1, <3>2, <3>4
    <3> QED
      BY <1>7, <1>8, <3>2, <3>5
  <2>3. All \in SUBSET Int
    OBVIOUS
  <2> HIDE DEF All
  <2> QED
    BY <2>1, <2>2, <2>3, MaxIs
<1>14. c = Max(Last)
  <2>1. \A n \in Last : n <= c
    <3> SUFFICES ASSUME NEW n \in Last, n > c PROVE FALSE
      BY <1>7
    <3>1. n \in Nat \ {0} /\ s[N] - n + 1 \in Int /\ IsRunOf(D, s[N] - n + 1, n)
      BY <1>9
    <3>2. s[N] - c \in Int /\ s[N] - n + 1 <= s[N] - c /\ s[N] - c <= (s[N] - n + 1) + n - 1
      BY <1>7, <1>9, <3>1
    <3>3. s[N] - c \in D
      BY <3>1, <3>2, Ends
    <3> QED
      BY <1>7, <3>3
  <2>2. Last \in SUBSET Int
    OBVIOUS
  <2> HIDE DEF Last
  <2> QED
    BY <1>10, <2>1, <2>2, MaxIs
<1>15. /\ All = {n \in 1..Cardinality(D) : \E d \in D : d..(d + n - 1) \subseteq D}
       /\ Last = {n \in 1..Cardinality(D) : (Max(D) - n + 1)..((Max(D) - n + 1) + n - 1) \subseteq D}
  BY <1>6 DEF IsRunOf
<1> HIDE DEF All, Last
<1> QED
  BY <1>2, <1>13, <1>14, <1>15 DEF D

\* The streaks are the longest run of active days, and the last one.
THEOREM StreaksCorrect == StoreSpec => []StreaksAreRuns
<1>1. StoreTypeOK /\ StoreInv => StreaksAreRuns
  BY StreaksHold
<1> QED
  BY <1>1, StoreTypeCorrect, StoreInvariant, PTL

-----------------------------------------------------------------------------
(* Years *)

\* Division by a constant grows by one at its multiples.
LEMMA DivSteps ==
    ASSUME NEW x \in Int
    PROVE  /\ (x + 1) \div 4 = IF (x + 1) % 4 = 0 THEN x \div 4 + 1 ELSE x \div 4
           /\ (x + 1) \div 100 = IF (x + 1) % 100 = 0 THEN x \div 100 + 1 ELSE x \div 100
           /\ (x + 1) \div 400 = IF (x + 1) % 400 = 0 THEN x \div 400 + 1 ELSE x \div 400
<1>1. (x + 1) \div 4 = IF (x + 1) % 4 = 0 THEN x \div 4 + 1 ELSE x \div 4
  OBVIOUS
<1>2. (x + 1) \div 100 = IF (x + 1) % 100 = 0 THEN x \div 100 + 1 ELSE x \div 100
  OBVIOUS
<1>3. (x + 1) \div 400 = IF (x + 1) % 400 = 0 THEN x \div 400 + 1 ELSE x \div 400
  OBVIOUS
<1> QED
  BY <1>1, <1>2, <1>3

\* A year has 365 days or 366.
LEMMA YearLength ==
    ASSUME NEW y \in Int
    PROVE  /\ YearBegins(y) \in Int
           /\ YearBegins(y + 1) - YearBegins(y) \in {365, 366}
           /\ February(y) \in {28, 29}
<1> DEFINE a(x) == (x - 1969) \div 4
           b(x) == (x - 1901) \div 100
           c(x) == (x - 1601) \div 400
           u == y - 1969
           v == y - 1901
           w == y - 1601
<1>1. a(y) \in Int /\ b(y) \in Int /\ c(y) \in Int
  OBVIOUS
<1>2. /\ a(y) = u \div 4 /\ b(y) = v \div 100 /\ c(y) = w \div 400
      /\ u \in Int /\ v \in Int /\ w \in Int
  OBVIOUS
<1>3. /\ a(y + 1) = IF (u + 1) % 4 = 0 THEN a(y) + 1 ELSE a(y)
      /\ b(y + 1) = IF (v + 1) % 100 = 0 THEN b(y) + 1 ELSE b(y)
      /\ c(y + 1) = IF (w + 1) % 400 = 0 THEN c(y) + 1 ELSE c(y)
  <2>1. (y + 1) - 1969 = u + 1 /\ (y + 1) - 1901 = v + 1 /\ (y + 1) - 1601 = w + 1
    OBVIOUS
  <2>2. a(y + 1) = (u + 1) \div 4 /\ b(y + 1) = (v + 1) \div 100 /\ c(y + 1) = (w + 1) \div 400
    <3> HIDE DEF u, v, w
    <3> QED
      BY <2>1
  <2> HIDE DEF a, b, c, u, v, w
  <2>3. (u + 1) \div 4 = IF (u + 1) % 4 = 0 THEN u \div 4 + 1 ELSE u \div 4
    BY <1>2, DivSteps
  <2>4. (v + 1) \div 100 = IF (v + 1) % 100 = 0 THEN v \div 100 + 1 ELSE v \div 100
    BY <1>2, DivSteps
  <2>5. (w + 1) \div 400 = IF (w + 1) % 400 = 0 THEN w \div 400 + 1 ELSE w \div 400
    BY <1>2, DivSteps
  <2> QED
    BY <1>2, <2>2, <2>3, <2>4, <2>5
<1>4. (w + 1) % 400 = 0 => (v + 1) % 100 = 0
  OBVIOUS
<1>5. (v + 1) % 100 = 0 => (u + 1) % 4 = 0
  OBVIOUS
<1>6. YearBegins(y) = 365 * (y - 1970) + a(y) - b(y) + c(y)
  BY DEF YearBegins
<1>7. YearBegins(y + 1) = 365 * (y + 1 - 1970) + a(y + 1) - b(y + 1) + c(y + 1)
  BY DEF YearBegins
<1> HIDE DEF a, b, c, u, v, w
<1>8. YearBegins(y) \in Int
  BY <1>1, <1>6
<1>9. YearBegins(y + 1) = YearBegins(y) + 365 + (a(y + 1) - a(y)) - (b(y + 1) - b(y)) + (c(y + 1) - c(y))
  BY <1>1, <1>3, <1>6, <1>7
<1>10. /\ a(y + 1) - a(y) = IF (u + 1) % 4 = 0 THEN 1 ELSE 0
       /\ b(y + 1) - b(y) = IF (v + 1) % 100 = 0 THEN 1 ELSE 0
       /\ c(y + 1) - c(y) = IF (w + 1) % 400 = 0 THEN 1 ELSE 0
  BY <1>1, <1>3
<1> DEFINE leap == (a(y + 1) - a(y)) - (b(y + 1) - b(y)) + (c(y + 1) - c(y))
<1>11. leap \in {0, 1}
  BY <1>4, <1>5, <1>10
<1>12. YearBegins(y + 1) = YearBegins(y) + 365 + leap
  BY <1>1, <1>3, <1>8, <1>9
<1> HIDE DEF leap
<1>13. YearBegins(y + 1) - YearBegins(y) \in {365, 366}
  BY <1>8, <1>11, <1>12
<1>14. February(y) \in {28, 29}
  BY <1>8, <1>11, <1>12 DEF February
<1> QED
  BY <1>8, <1>13, <1>14

\* YearOf looks for the year where it can be.
LEMMA YearBounds ==
    ASSUME NEW k \in Nat
    PROVE  365 * k <= YearBegins(1970 + k) /\ YearBegins(1970 + k) <= 366 * k
<1> DEFINE X == {m \in Nat : 365 * m <= YearBegins(1970 + m) /\ YearBegins(1970 + m) <= 366 * m}
<1>1. 0 \in X
  BY DEF YearBegins
<1>2. ASSUME NEW m \in Nat, m \in X PROVE m + 1 \in X
  <2>1. 1970 + m \in Int /\ 1970 + (m + 1) = (1970 + m) + 1
    OBVIOUS
  <2>2. YearBegins(1970 + m) \in Int /\ YearBegins((1970 + m) + 1) - YearBegins(1970 + m) \in {365, 366}
    BY <2>1, YearLength
  <2>3. YearBegins(1970 + (m + 1)) \in Int
    BY <2>1, YearLength
  <2>4. YearBegins((1970 + m) + 1) = YearBegins(1970 + (m + 1))
    BY <2>1
  <2>5. 365 * (m + 1) <= YearBegins(1970 + (m + 1)) /\ YearBegins(1970 + (m + 1)) <= 366 * (m + 1)
    BY <1>2, <2>2, <2>3, <2>4
  <2> QED
    BY <2>5
<1> HIDE DEF X
<1>3. k \in X
  BY <1>1, <1>2, NatSet
<1> QED
  BY <1>3 DEF X

\* Every date from 1970 on is of one year, and later than its beginning.
LEMMA YearOfDate ==
    ASSUME NEW date \in Nat
    PROVE  /\ YearOf(date) \in Nat /\ YearOf(date) >= 1970
           /\ YearBegins(YearOf(date)) <= date /\ date < YearBegins(YearOf(date) + 1)
<1> DEFINE X == {m \in Nat : YearBegins(1970 + m) > date}
<1>1. date + 1 \in X
  <2>1. date + 1 \in Nat /\ 1970 + (date + 1) \in Int
    OBVIOUS
  <2>2. 365 * (date + 1) <= YearBegins(1970 + (date + 1)) /\ YearBegins(1970 + (date + 1)) \in Int
    BY <2>1, YearBounds, YearLength
  <2> QED
    BY <2>1, <2>2
<1>2. PICK n \in X : \A m \in X : n <= m
  <2>1. X \in SUBSET Nat
    OBVIOUS
  <2> HIDE DEF X
  <2>2. X # {}
    BY <1>1
  <2> QED
    BY <2>1, <2>2, Least
<1>3. 0 \notin X
  BY DEF YearBegins
<1>4. n # 0 /\ n - 1 \in Nat /\ n - 1 \notin X
  <2>1. n \in Nat /\ n # 0
    BY <1>3
  <2>2. n - 1 \in Nat /\ ~(n <= n - 1)
    BY <2>1
  <2> HIDE DEF X
  <2> QED
    BY <1>2, <2>1, <2>2
<1> DEFINE k == n - 1
           y == 1970 + k
<1>5. k \in Nat /\ y \in Int /\ y + 1 = 1970 + n /\ YearBegins(y) \in Int /\ YearBegins(y + 1) \in Int
  <2>1. k \in Nat /\ y \in Int /\ y + 1 = 1970 + n /\ y + 1 \in Int
    BY <1>4
  <2> HIDE DEF y
  <2> QED
    BY <2>1, YearLength
<1>6. YearBegins(y) <= date /\ date < YearBegins(y + 1)
  <2>1. ~(YearBegins(y) > date)
    BY <1>4
  <2>2. YearBegins(1970 + n) > date
    OBVIOUS
  <2>3. YearBegins(y + 1) = YearBegins(1970 + n)
    BY <1>5
  <2> HIDE DEF y, k, X
  <2> QED
    BY <1>5, <2>1, <2>2, <2>3
<1>7. 365 * k <= YearBegins(y) /\ YearBegins(y + 1) <= 366 * (k + 1)
  <2>1. 365 * k <= YearBegins(1970 + k)
    BY <1>5, YearBounds
  <2>2. YearBegins(1970 + n) <= 366 * n /\ n = k + 1
    BY <1>4, YearBounds
  <2> HIDE DEF k
  <2> QED
    BY <1>5, <2>1, <2>2
<1>8. 365 * k <= date /\ date < 366 * (k + 1)
  <2> HIDE DEF y, k
  <2> QED
    BY <1>5, <1>6, <1>7
<1>9. y \in (1970 + date \div 366)..(1970 + date \div 365)
  <2> HIDE DEF k
  <2>1. k <= date \div 365
    BY <1>5, <1>8
  <2>2. date \div 366 <= k
    BY <1>5, <1>8
  <2> QED
    BY <1>5, <2>1, <2>2
<1>10. date \in YearBegins(y)..(YearBegins(y + 1) - 1)
  <2> HIDE DEF y, k
  <2> QED
    BY <1>5, <1>6
<1> DEFINE of == YearOf(date)
<1>11. of \in (1970 + date \div 366)..(1970 + date \div 365) /\ date \in YearBegins(of)..(YearBegins(of + 1) - 1)
  <2> HIDE DEF y, k
  <2> QED
    BY <1>9, <1>10 DEF YearOf
<1> HIDE DEF of
<1>12. of \in Nat /\ of >= 1970
  <2>1. date \div 366 \in Nat
    OBVIOUS
  <2> QED
    BY <1>11, <2>1
<1>13. YearBegins(of) \in Int /\ YearBegins(of + 1) \in Int
  BY <1>12, YearLength
<1>14. YearBegins(of) <= date /\ date < YearBegins(of + 1)
  BY <1>11, <1>13
<1> QED
  BY <1>12, <1>14 DEF of

-----------------------------------------------------------------------------
(* Rows and columns *)

\* Products keep the order.
LEMMA Products ==
    ASSUME NEW a \in Int, NEW b \in Int, NEW h \in Nat, a <= b
    PROVE  a * h \in Int /\ b * h \in Int /\ a * h <= b * h
<1>1. (b - a) * h >= 0
  OBVIOUS
<1>2. (b - a) * h = b * h - a * h
  OBVIOUS
<1>3. a * h \in Int /\ b * h \in Int
  OBVIOUS
<1> QED
  BY <1>1, <1>2, <1>3

\* Division with remainder.
LEMMA Division ==
    ASSUME NEW k \in Nat, NEW h \in Nat \ {0}
    PROVE  /\ k % h \in 0..(h - 1) /\ k \div h \in Nat
           /\ k = (k \div h) * h + (k % h)
<1>1. ASSUME NEW a \in Int PROVE a % h \in 0..(h - 1) /\ a \div h \in Int
  OBVIOUS
<1>2. k = (k \div h) * h + (k % h)
  <2> DEFINE q == k \div h
             m == k % h
  <2>1. m = k - h * q /\ q \in Int
    OBVIOUS
  <2> SUFFICES k = q * h + m
    OBVIOUS
  <2> HIDE DEF q, m
  <2>2. h * q = q * h /\ h * q \in Int
    BY <2>1
  <2> QED
    BY <2>1, <2>2
<1>3. k \div h \in Nat
  OBVIOUS
<1> QED
  BY <1>1, <1>2, <1>3

\* A place in a row and a column is that of one number only.
LEMMA OnePlace ==
    ASSUME NEW h \in Nat \ {0}, NEW r \in 0..(h - 1), NEW q \in 0..(h - 1), NEW c \in Int, NEW e \in Int,
           c * h + r = e * h + q
    PROVE  c = e /\ r = q
<1>1. c * h \in Int /\ e * h \in Int /\ (c + 1) * h = c * h + h /\ (e + 1) * h = e * h + h
  OBVIOUS
<1>2. ~(c < e)
  <2> SUFFICES ASSUME c < e PROVE FALSE
    OBVIOUS
  <2>1. c + 1 \in Int /\ c + 1 <= e
    OBVIOUS
  <2>2. (c + 1) * h <= e * h
    BY <2>1, Products
  <2> QED
    BY <1>1, <2>2
<1>3. ~(e < c)
  <2> SUFFICES ASSUME e < c PROVE FALSE
    OBVIOUS
  <2>1. e + 1 \in Int /\ e + 1 <= c
    OBVIOUS
  <2>2. (e + 1) * h <= c * h
    BY <2>1, Products
  <2> QED
    BY <1>1, <2>2
<1>4. c = e
  BY <1>2, <1>3
<1>5. c * h = e * h
  BY <1>4
<1> QED
  BY <1>1, <1>4, <1>5

\* There are enough columns.
LEMMA Columns ==
    ASSUME NEW h \in Nat \ {0}, NEW n \in Nat \ {0}, NEW k \in 0..(n - 1)
    PROVE  k \div h \in 0..((n + h - 1) \div h - 1)
<1> DEFINE x == n + h - 1
           w == x \div h
           c == k \div h
<1>1. x \in Nat /\ k \in Nat
  OBVIOUS
<1>2. w \in Nat /\ x % h \in 0..(h - 1) /\ x = w * h + (x % h)
  <2> HIDE DEF x
  <2> QED
    BY <1>1, Division
<1>3. c \in Nat /\ k % h \in 0..(h - 1) /\ k = c * h + (k % h)
  BY <1>1, Division
<1> DEFINE xm == x % h
           km == k % h
<1>4. xm \in 0..(h - 1) /\ x = w * h + xm /\ km \in 0..(h - 1) /\ k = c * h + km /\ x = n + h - 1
  BY <1>2, <1>3
<1> HIDE DEF xm, km, c, w, x
<1>5. SUFFICES ASSUME ~(c < w) PROVE FALSE
  <2>1. c < w => c \in 0..(w - 1)
    BY <1>2, <1>3
  <2> QED
    BY <2>1 DEF c, w, x
<1>6. w * h <= c * h /\ w * h \in Int /\ c * h \in Int
  <2>1. w <= c /\ w \in Int /\ c \in Int /\ h \in Nat
    BY <1>2, <1>3, <1>5
  <2> QED
    BY <2>1, Products
<1> QED
  BY <1>1, <1>4, <1>6

-----------------------------------------------------------------------------
(* Calendars *)

\* The years of the data are those of its days.
LEMMA InputTypes ==
    ASSUME NEW in \in Inputs
    PROVE  /\ in.today \in Nat
           /\ DOMAIN in.data # {} /\ DOMAIN in.data \subseteq Nat /\ IsFiniteSet(DOMAIN in.data)
           /\ \A d \in DOMAIN in.data : in.data[d] \in Nat
<1>1. in.data \in [DOMAIN in.data -> Nat]
  BY InputsAssumption
<1> DEFINE data == in.data
<1>2. data \in [DOMAIN data -> Nat]
  BY <1>1
<1> HIDE DEF data
<1>3. \A d \in DOMAIN data : data[d] \in Nat
  BY <1>2
<1> QED
  BY <1>3, InputsAssumption DEF data

\* The first day of a calendar and the last.
LEMMA Span ==
    ASSUME NEW in \in Inputs, NEW y \in YearsOf(in) \cup {AllTime}
    PROVE  /\ FirstDay(in, y) \in Nat /\ LastDay(in, y) \in Nat /\ FirstDay(in, y) <= LastDay(in, y)
           /\ y = AllTime => \A d \in DOMAIN in.data : FirstDay(in, y) <= d /\ d <= LastDay(in, y)
           /\ y # AllTime => /\ y \in Nat /\ FirstDay(in, y) = YearBegins(y)
                             /\ YearBegins(y + 1) \in Nat
                             /\ \/ LastDay(in, y) = YearBegins(y + 1) - 1
                                \/ LastDay(in, y) = in.today /\ in.today < YearBegins(y + 1)
<1>1. CASE y = AllTime
  <2> DEFINE D == DOMAIN in.data
             T == DOMAIN in.data \cup {in.today}
  <2>1. D \in SUBSET Int /\ IsFiniteSet(D) /\ D # {} /\ T \in SUBSET Int /\ IsFiniteSet(T) /\ T # {}
    BY InputTypes, FS_AddElement
  <2>2. \A x \in D : x \in Nat
    BY InputTypes
  <2>3. \A x \in T : x \in Nat
    BY InputTypes
  <2>4. FirstDay(in, y) = Min(D) /\ LastDay(in, y) = Max(T) /\ D \subseteq T
    BY <1>1 DEF FirstDay, LastDay, Latest
  <2> HIDE DEF D, T
  <2>5. Min(D) \in D /\ \A x \in D : Min(D) <= x
    BY <2>1, Bounded DEF Min
  <2>6. Max(T) \in T /\ \A x \in T : Max(T) >= x
    BY <2>1, Bounded DEF Max
  <2>7. Min(D) \in Nat /\ Max(T) \in Nat /\ \A d \in D : Min(D) <= d /\ d <= Max(T)
    BY <2>2, <2>3, <2>4, <2>5, <2>6
  <2>8. Min(D) <= Max(T)
    BY <2>5, <2>7
  <2> QED
    BY <1>1, <2>4, <2>7, <2>8 DEF D
<1>2. CASE y # AllTime
  <2>1. PICK d \in DOMAIN in.data : y = YearOf(d)
    BY <1>2 DEF YearsOf
  <2>2. d \in Nat
    BY InputTypes
  <2>3. y \in Nat /\ y >= 1970 /\ YearBegins(y) <= d /\ d < YearBegins(y + 1)
    BY <2>1, <2>2, YearOfDate
  <2>4. y \in Int /\ y - 1970 \in Nat /\ 1970 + (y - 1970) = y
    BY <2>3
  <2>5. YearBegins(y) \in Int /\ YearBegins(y + 1) - YearBegins(y) \in {365, 366} /\ YearBegins(y + 1) \in Int
    BY <2>4, YearLength
  <2>6. YearBegins(y) \in Nat
    <3>1. 365 * (y - 1970) <= YearBegins(1970 + (y - 1970))
      BY <2>4, YearBounds
    <3> QED
      BY <2>4, <2>5, <3>1
  <2>7. YearBegins(y + 1) \in Nat
    BY <2>5, <2>6
  <2>8. FirstDay(in, y) = YearBegins(y)
    BY <1>2 DEF FirstDay
  <2>9. CASE y = YearOf(in.today)
    <3>1. in.today \in Nat
      BY InputTypes
    <3>2. YearBegins(y) <= in.today /\ in.today < YearBegins(y + 1)
      BY <2>9, <3>1, YearOfDate
    <3>3. LastDay(in, y) = in.today
      BY <1>2, <2>9 DEF LastDay
    <3> QED
      BY <1>2, <2>3, <2>6, <2>7, <2>8, <3>1, <3>2, <3>3
  <2>10. CASE y # YearOf(in.today)
    <3>1. LastDay(in, y) = YearBegins(y + 1) - 1
      BY <1>2, <2>10 DEF LastDay
    <3>2. YearBegins(y + 1) - 1 \in Nat /\ YearBegins(y) <= YearBegins(y + 1) - 1
      BY <2>5, <2>6, <2>7
    <3> QED
      BY <1>2, <2>3, <2>6, <2>7, <2>8, <3>1, <3>2
  <2> QED
    BY <2>9, <2>10
<1> QED
  BY <1>1, <1>2

\* There is a height for every number of days.
LEMMA HeightExists ==
    ASSUME NEW n \in Nat
    PROVE  \E h \in 7..Max({7, n}) : h * h >= n /\ (h = 7 \/ (h - 1) * (h - 1) < n)
<1> DEFINE X == {h \in Nat : h >= 7 /\ h * h >= n}
           m == IF n > 7 THEN n ELSE 7
<1>1. Max({7, n}) = m
  <2>1. {7, n} \in SUBSET Int /\ m \in {7, n} /\ \A x \in {7, n} : x <= m
    OBVIOUS
  <2> HIDE DEF m
  <2> QED
    BY <2>1, MaxIs
<1>2. m * m >= n
  <2>1. CASE n > 7
    <3>1. 1 * n <= n * n
      <4>1. 1 \in Int /\ n \in Int /\ 1 <= n
        BY <2>1
      <4> QED
        BY <4>1, Products
    <3>2. n * n \in Int
      OBVIOUS
    <3> QED
      BY <2>1, <3>1, <3>2
  <2>2. CASE ~(n > 7)
    BY <2>2
  <2> QED
    BY <2>1, <2>2
<1>3. m \in X
  BY <1>2
<1>4. PICK h \in X : \A x \in X : h <= x
  <2>1. X \in SUBSET Nat
    OBVIOUS
  <2> HIDE DEF X, m
  <2> QED
    BY <1>3, <2>1, Least
<1>5. h \in Nat /\ h >= 7 /\ h * h >= n /\ h <= m
  <2>1. h \in Nat /\ h >= 7 /\ h * h >= n
    OBVIOUS
  <2> HIDE DEF X, m
  <2> QED
    BY <1>3, <1>4, <2>1
<1>6. h = 7 \/ (h - 1) * (h - 1) < n
  <2> SUFFICES ASSUME h # 7, ~((h - 1) * (h - 1) < n) PROVE FALSE
    OBVIOUS
  <2> DEFINE g == h - 1
  <2>1. g \in Nat /\ g >= 7 /\ ~(h <= g)
    BY <1>5
  <2>2. ~(g * g < n)
    OBVIOUS
  <2> HIDE DEF g
  <2>3. g * g \in Int
    BY <2>1
  <2>4. g \in X
    BY <2>1, <2>2, <2>3
  <2> HIDE DEF X
  <2> QED
    BY <1>4, <2>1, <2>4
<1>7. h \in 7..m
  BY <1>5
<1> HIDE DEF m, X
<1> QED
  BY <1>1, <1>5, <1>6, <1>7

\* Rows, columns and the days before the first.
LEMMA Sizes ==
    ASSUME NEW in \in Inputs, NEW y \in YearsOf(in) \cup {AllTime}
    PROVE  /\ TotalDaysOf(in, y) \in Nat \ {0}
           /\ TotalDaysOf(in, y) = LastDay(in, y) - FirstDay(in, y) + 1
           /\ Height(in, y) \in Nat \ {0} /\ Height(in, y) >= 7
           /\ y # AllTime => Height(in, y) = 7 /\ Skipped(in, y) = FromMonday(FirstDay(in, y))
           /\ Skipped(in, y) \in 0..6
           /\ Width(in, y) \in Nat
<1>1. FirstDay(in, y) \in Nat /\ LastDay(in, y) \in Nat /\ FirstDay(in, y) <= LastDay(in, y)
  BY Span
<1>2. TotalDaysOf(in, y) \in Nat \ {0} /\ TotalDaysOf(in, y) = LastDay(in, y) - FirstDay(in, y) + 1
  BY <1>1 DEF TotalDaysOf
<1>3. Height(in, y) \in Nat \ {0} /\ Height(in, y) >= 7
  <2>1. CASE y = AllTime
    <3> DEFINE n == TotalDaysOf(in, y)
    <3>1. Height(in, y) = CHOOSE h \in 7..Max({7, n}) : h * h >= n /\ (h = 7 \/ (h - 1) * (h - 1) < n)
      BY <2>1 DEF Height
    <3>2. n \in Nat
      BY <1>2
    <3> HIDE DEF n
    <3>3. \E h \in 7..Max({7, n}) : h * h >= n /\ (h = 7 \/ (h - 1) * (h - 1) < n)
      BY <3>2, HeightExists
    <3>4. Height(in, y) \in 7..Max({7, n})
      BY <3>1, <3>3
    <3> QED
      BY <3>4
  <2>2. CASE y # AllTime
    BY <2>2 DEF Height
  <2> QED
    BY <2>1, <2>2
<1>4. y # AllTime => Height(in, y) = 7 /\ Skipped(in, y) = FromMonday(FirstDay(in, y))
  BY DEF Height, Skipped
<1>5. Skipped(in, y) \in 0..6
  BY <1>1 DEF Skipped, FromMonday
<1>6. Width(in, y) \in Nat
  <2> DEFINE h == Height(in, y)
             x == TotalDaysOf(in, y) + Skipped(in, y) + h - 1
  <2>1. h \in Nat \ {0} /\ x \in Nat
    BY <1>2, <1>3, <1>5
  <2>2. Width(in, y) = x \div h
    BY DEF Width
  <2> HIDE DEF x, h
  <2> QED
    BY <2>1, <2>2, Division
<1> QED
  BY <1>2, <1>3, <1>4, <1>5, <1>6

-----------------------------------------------------------------------------
(* Cells *)

\* What a function pairs off has the same number of elements.
LEMMA OneToOne ==
    ASSUME NEW S, IsFiniteSet(S), NEW T, NEW f, \A x \in S : f[x] \in T,
           \A t \in T : \E x \in S : f[x] = t,
           \A x, y \in S : f[x] = f[y] => x = y
    PROVE  IsFiniteSet(T) /\ Cardinality(T) = Cardinality(S)
<1> DEFINE g == [x \in S |-> f[x]]
<1>1. g \in Bijection(S, T)
  <2>1. g \in [S -> T]
    OBVIOUS
  <2>2. \A t \in T : \E x \in S : g[x] = t
    OBVIOUS
  <2>3. \A x, y \in S : g[x] = g[y] => x = y
    OBVIOUS
  <2> HIDE DEF g
  <2> QED
    BY <2>1, <2>2, <2>3 DEF Bijection, Injection, IsInjective, Surjection
<1>2. ExistsBijection(S, T)
  BY <1>1 DEF ExistsBijection
<1> QED
  BY <1>2, FS_Bijection

\* Every day of a calendar has one cell, and every cell is that of a day.
LEMMA CellDays ==
    ASSUME NEW in \in Inputs, NEW y \in YearsOf(in) \cup {AllTime}
    PROVE  /\ IsFiniteSet(CellsOf(in, y))
           /\ \A p \in CellsOf(in, y) : DayAt(in, y, p[1], p[2]) \in FirstDay(in, y)..LastDay(in, y)
           /\ \A d \in FirstDay(in, y)..LastDay(in, y) :
                \E p \in CellsOf(in, y) : DayAt(in, y, p[1], p[2]) = d
           /\ \A p, q \in CellsOf(in, y) :
                DayAt(in, y, p[1], p[2]) = DayAt(in, y, q[1], q[2]) => p = q
<1> DEFINE f == FirstDay(in, y)
           l == LastDay(in, y)
           h == Height(in, y)
           w == Width(in, y)
           s == Skipped(in, y)
           n == TotalDaysOf(in, y) + s
<1>1. /\ f \in Nat /\ l \in Nat /\ h \in Nat \ {0} /\ w \in Nat /\ s \in 0..6 /\ n \in Nat \ {0}
      /\ n = l - f + 1 + s
  BY Span, Sizes
<1>2. w = (n + h - 1) \div h
  BY DEF Width
<1>3. \A r, c : DayAt(in, y, r, c) = f + c * h + r - s
  BY DEF DayAt
<1>4. \A p \in CellsOf(in, y) :
          /\ p = <<p[1], p[2]>> /\ p[1] \in 0..(h - 1) /\ p[2] \in 0..(w - 1)
          /\ DayAt(in, y, p[1], p[2]) \in f..l
  BY DEF CellsOf, Shown
<1>5. \A r \in 0..(h - 1), c \in 0..(w - 1) :
          DayAt(in, y, r, c) \in f..l => <<r, c>> \in CellsOf(in, y)
  BY DEF CellsOf, Shown
<1>6. IsFiniteSet(CellsOf(in, y))
  <2> DEFINE A == 0..(h - 1)
             B == 0..(w - 1)
  <2>1. 0 \in Int /\ h - 1 \in Int /\ w - 1 \in Int
    BY <1>1
  <2>2. IsFiniteSet(A) /\ IsFiniteSet(B)
    BY <2>1, FS_Interval
  <2>3. CellsOf(in, y) \in SUBSET (A \X B)
    BY DEF CellsOf
  <2> HIDE DEF A, B
  <2>4. IsFiniteSet(A \X B)
    BY <2>2, FS_Product
  <2> QED
    BY <2>3, <2>4, FS_Subset
<1> HIDE DEF f, l, h, w, s, n
<1>7. \A d \in f..l : \E p \in CellsOf(in, y) : DayAt(in, y, p[1], p[2]) = d
  <2> SUFFICES ASSUME NEW d \in f..l
               PROVE  \E p \in CellsOf(in, y) : DayAt(in, y, p[1], p[2]) = d
    OBVIOUS
  <2> DEFINE k == d - f + s
             r == k % h
             c == k \div h
  <2>1. k \in 0..(n - 1) /\ k \in Nat
    BY <1>1
  <2> HIDE DEF k
  <2>2. r \in 0..(h - 1) /\ c \in Nat /\ k = c * h + r
    BY <1>1, <2>1, Division
  <2>3. c \in 0..(w - 1)
    BY <1>1, <1>2, <2>1, Columns
  <2> HIDE DEF r, c
  <2>4. c * h \in Int
    BY <1>1, <2>2
  <2>5. f + c * h + r - s = d
    BY <1>1, <2>2, <2>4 DEF k
  <2>6. DayAt(in, y, r, c) = d
    BY <1>3, <2>5
  <2>7. <<r, c>> \in CellsOf(in, y)
    BY <1>5, <2>2, <2>3, <2>6
  <2> QED
    BY <2>6, <2>7
<1>8. \A p, q \in CellsOf(in, y) : DayAt(in, y, p[1], p[2]) = DayAt(in, y, q[1], q[2]) => p = q
  <2> SUFFICES ASSUME NEW p \in CellsOf(in, y), NEW q \in CellsOf(in, y),
                      DayAt(in, y, p[1], p[2]) = DayAt(in, y, q[1], q[2])
               PROVE  p = q
    OBVIOUS
  <2> DEFINE r == p[1]
             c == p[2]
             t == q[1]
             e == q[2]
  <2>1. r \in 0..(h - 1) /\ c \in Int /\ t \in 0..(h - 1) /\ e \in Int /\ p = <<r, c>> /\ q = <<t, e>>
    BY <1>1, <1>4
  <2>2. f + c * h + r - s = f + e * h + t - s
    BY <1>3
  <2> HIDE DEF r, c, t, e
  <2>3. c * h \in Int /\ e * h \in Int
    BY <1>1, <2>1
  <2>4. c * h + r = e * h + t
    BY <1>1, <2>1, <2>2, <2>3
  <2>5. c = e /\ r = t
    BY <1>1, <2>1, <2>4, OnePlace
  <2> QED
    BY <2>1, <2>5
<1> QED
  BY <1>4, <1>6, <1>7, <1>8 DEF f, l

\* In the calendar of a year the rows are those of the weekdays.
LEMMA Weekdays ==
    ASSUME NEW in \in Inputs, NEW y \in YearsOf(in), NEW p \in CellsOf(in, y), y # AllTime
    PROVE  FromMonday(DayAt(in, y, p[1], p[2])) = p[1]
<1> DEFINE f == FirstDay(in, y)
           s == Skipped(in, y)
           r == p[1]
           c == p[2]
<1>1. f \in Nat /\ s = (f + 3) % 7 /\ Height(in, y) = 7 /\ Width(in, y) \in Nat
  BY Span, Sizes DEF FromMonday
<1>2. r \in 0..6 /\ c \in Nat
  BY <1>1 DEF CellsOf
<1>3. DayAt(in, y, r, c) = f + c * 7 + r - s
  BY <1>1 DEF DayAt
<1> HIDE DEF f, s, r, c
<1>4. (f + c * 7 + r - s + 3) % 7 = r
  BY <1>1, <1>2
<1> QED
  BY <1>3, <1>4 DEF FromMonday, r, c

-----------------------------------------------------------------------------
(* Counts *)

\* Counting the active cells line by line counts the active days.
LEMMA CountLines ==
    ASSUME NEW cells, IsFiniteSet(cells), NEW dayOf, NEW active,
           \A d \in active : \E p \in cells : dayOf[p] = d,
           \A p, q \in cells : dayOf[p] = dayOf[q] => p = q,
           NEW lines, IsFiniteSet(lines), NEW key, \A p \in cells : key[p] \in lines,
           NEW count, DOMAIN count = lines, count = [k \in lines |-> count[k]],
           \A k \in lines : count[k] = Cardinality({p \in cells : dayOf[p] \in active /\ key[p] = k})
    PROVE  SumFunction(count) = Cardinality(active)
<1> DEFINE A == {p \in cells : dayOf[p] \in active}
<1>1. IsFiniteSet(A) /\ \A p \in A : p \in cells /\ dayOf[p] \in active
  BY FS_Subset
<1>2. \A d \in active : \E p \in A : dayOf[p] = d
  OBVIOUS
<1>3. \A k \in lines : count[k] = Cardinality({p \in A : key[p] = k})
  <2> SUFFICES ASSUME NEW k \in lines PROVE count[k] = Cardinality({p \in A : key[p] = k})
    OBVIOUS
  <2>1. {p \in A : key[p] = k} = {p \in cells : dayOf[p] \in active /\ key[p] = k}
    OBVIOUS
  <2> QED
    BY <2>1, Zenon
<1> HIDE DEF A
<1>4. \A p \in A : key[p] \in lines
  BY <1>1
<1>5. SumFunction(count) = Cardinality(A)
  BY <1>1, <1>3, <1>4, CountByKey
<1>6. \A p, q \in A : dayOf[p] = dayOf[q] => p = q
  BY <1>1
<1>7. Cardinality(active) = Cardinality(A)
  BY <1>1, <1>2, <1>6, OneToOne
<1> QED
  BY <1>5, <1>7

\* The counts beside the rows and below the columns.
LEMMA CountsRight ==
    ASSUME NEW in \in Inputs, NEW y \in YearsOf(in) \cup {AllTime}, NEW active,
           active = {d \in DOMAIN in.data : in.data[d] > 0 /\ d \in FirstDay(in, y)..LastDay(in, y)}
    PROVE  /\ SumFunction([r \in 0..(Height(in, y) - 1) |-> RowCount(in, y, r)]) = Cardinality(active)
           /\ SumFunction([c \in 0..(Width(in, y) - 1) |-> ColCount(in, y, c)]) = Cardinality(active)
<1> DEFINE cells == CellsOf(in, y)
           dayOf == [p \in cells |-> DayAt(in, y, p[1], p[2])]
           R == 0..(Height(in, y) - 1)
           C == 0..(Width(in, y) - 1)
           row == [p \in cells |-> p[1]]
           col == [p \in cells |-> p[2]]
           rows == [r \in R |-> RowCount(in, y, r)]
           cols == [c \in C |-> ColCount(in, y, c)]
<1>1. IsFiniteSet(R) /\ IsFiniteSet(C)
  <2>1. 0 \in Int /\ Height(in, y) - 1 \in Int /\ Width(in, y) - 1 \in Int
    BY Sizes
  <2> QED
    BY <2>1, FS_Interval
<1>2. IsFiniteSet(cells)
  BY CellDays
<1>3. \A p \in cells : dayOf[p] = DayAt(in, y, p[1], p[2]) /\ row[p] = p[1] /\ col[p] = p[2]
  OBVIOUS
<1>4. \A p \in cells : p = <<p[1], p[2]>> /\ p[1] \in R /\ p[2] \in C
  BY DEF CellsOf
<1>5. \A d \in active : \E p \in cells : dayOf[p] = d
  BY <1>3, CellDays
<1>6. \A p, q \in cells : dayOf[p] = dayOf[q] => p = q
  <2> SUFFICES ASSUME NEW p \in cells, NEW q \in cells, dayOf[p] = dayOf[q] PROVE p = q
    OBVIOUS
  <2>1. DayAt(in, y, p[1], p[2]) = DayAt(in, y, q[1], q[2])
    OBVIOUS
  <2> QED
    BY <2>1, CellDays
<1>7. ASSUME NEW r \in R, NEW c \in C
      PROVE  ActiveAt(in, y, r, c) <=> <<r, c>> \in cells /\ dayOf[<<r, c>>] \in active
  <2> DEFINE d == DayAt(in, y, r, c)
  <2>1. Shown(in, y, r, c) <=> <<r, c>> \in cells
    BY DEF CellsOf
  <2>2. <<r, c>> \in cells => dayOf[<<r, c>>] = d
    BY <1>3
  <2>3. <<r, c>> \in cells => d \in FirstDay(in, y)..LastDay(in, y)
    BY <2>1 DEF Shown
  <2>4. Seconds(in, d) > 0 <=> d \in DOMAIN in.data /\ in.data[d] > 0
    BY DEF Seconds
  <2>5. ActiveAt(in, y, r, c) <=> Shown(in, y, r, c) /\ Seconds(in, d) > 0
    BY DEF ActiveAt
  <2> HIDE DEF d, cells, dayOf
  <2> QED
    BY <2>1, <2>2, <2>3, <2>4, <2>5
<1>8. \A r \in R : rows[r] = Cardinality({p \in cells : dayOf[p] \in active /\ row[p] = r})
  <2> SUFFICES ASSUME NEW r \in R
               PROVE  rows[r] = Cardinality({p \in cells : dayOf[p] \in active /\ row[p] = r})
    BY Zenon
  <2> DEFINE S == {c \in C : ActiveAt(in, y, r, c)}
             T == {p \in cells : dayOf[p] \in active /\ row[p] = r}
             f == [c \in S |-> <<r, c>>]
  <2>1. rows[r] = Cardinality(S)
    BY DEF RowCount
  <2>2. IsFiniteSet(S)
    BY <1>1, FS_Subset
  <2> HIDE DEF cells, dayOf, row, R, C
  <2>3. \A c \in S : f[c] = <<r, c>> /\ <<r, c>> \in cells /\ dayOf[<<r, c>>] \in active
    BY <1>7
  <2>4. \A c \in S : f[c] \in T
    BY <1>3, <2>3
  <2>5. \A p \in T : \E c \in S : f[c] = p
    <3> SUFFICES ASSUME NEW p \in T PROVE \E c \in S : f[c] = p
      OBVIOUS
    <3>1. p \in cells /\ dayOf[p] \in active /\ p = <<r, p[2]>> /\ p[2] \in C
      BY <1>3, <1>4
    <3>2. p[2] \in S
      BY <1>7, <3>1
    <3> QED
      BY <3>1, <3>2
  <2>6. \A c, e \in S : f[c] = f[e] => c = e
    BY <2>3
  <2> HIDE DEF S, T, f, rows
  <2>7. Cardinality(T) = Cardinality(S)
    BY <2>2, <2>4, <2>5, <2>6, OneToOne
  <2> QED
    BY <2>1, <2>7 DEF T
<1>9. \A c \in C : cols[c] = Cardinality({p \in cells : dayOf[p] \in active /\ col[p] = c})
  <2> SUFFICES ASSUME NEW c \in C
               PROVE  cols[c] = Cardinality({p \in cells : dayOf[p] \in active /\ col[p] = c})
    BY Zenon
  <2> DEFINE S == {r \in R : ActiveAt(in, y, r, c)}
             T == {p \in cells : dayOf[p] \in active /\ col[p] = c}
             f == [r \in S |-> <<r, c>>]
  <2>1. cols[c] = Cardinality(S)
    BY DEF ColCount
  <2>2. IsFiniteSet(S)
    BY <1>1, FS_Subset
  <2> HIDE DEF cells, dayOf, col, R, C
  <2>3. \A r \in S : f[r] = <<r, c>> /\ <<r, c>> \in cells /\ dayOf[<<r, c>>] \in active
    BY <1>7
  <2>4. \A r \in S : f[r] \in T
    BY <1>3, <2>3
  <2>5. \A p \in T : \E r \in S : f[r] = p
    <3> SUFFICES ASSUME NEW p \in T PROVE \E r \in S : f[r] = p
      OBVIOUS
    <3>1. p \in cells /\ dayOf[p] \in active /\ p = <<p[1], c>> /\ p[1] \in R
      BY <1>3, <1>4
    <3>2. p[1] \in S
      BY <1>7, <3>1
    <3> QED
      BY <3>1, <3>2
  <2>6. \A r, q \in S : f[r] = f[q] => r = q
    BY <2>3
  <2> HIDE DEF S, T, f, cols
  <2>7. Cardinality(T) = Cardinality(S)
    BY <2>2, <2>4, <2>5, <2>6, OneToOne
  <2> QED
    BY <2>1, <2>7 DEF T
<1>10. SumFunction(rows) = Cardinality(active)
  <2>1. DOMAIN rows = R /\ rows = [k \in R |-> rows[k]] /\ \A p \in cells : row[p] \in R
    BY <1>3, <1>4
  <2> HIDE DEF cells, dayOf, row, R, rows
  <2> QED
    BY <1>1, <1>2, <1>5, <1>6, <1>8, <2>1, CountLines
<1>11. SumFunction(cols) = Cardinality(active)
  <2>1. DOMAIN cols = C /\ cols = [k \in C |-> cols[k]] /\ \A p \in cells : col[p] \in C
    BY <1>3, <1>4
  <2> HIDE DEF cells, dayOf, col, C, cols
  <2> QED
    BY <1>1, <1>2, <1>5, <1>6, <1>9, <2>1, CountLines
<1> QED
  BY <1>10, <1>11

-----------------------------------------------------------------------------
(* Months *)

\* Two months never begin in one week.
LEMMA MonthsApart ==
    ASSUME NEW y \in Int
    PROVE  /\ MonthBegins(y) \in SUBSET Int
           /\ \A a, b \in MonthBegins(y) : a < b => b - a >= 7
<1> DEFINE N == {0, 31, 61, 92, 122, 153, 184, 214, 245, 275}
           b0 == YearBegins(y)
           f == b0 + 31 + February(y)
<1>1. b0 \in Int /\ f \in Int /\ f \in {b0 + 59, b0 + 60}
  BY YearLength
<1>2. \A x : x \in MonthBegins(y) <=> x = b0 \/ x = b0 + 31 \/ \E n \in N : x = f + n
  BY DEF MonthBegins
<1>3. \A n \in N : n \in Nat
  OBVIOUS
<1>4. \A m, n \in N : m < n => n - m >= 7
  OBVIOUS
<1> HIDE DEF N, b0, f
<1>5. MonthBegins(y) \in SUBSET Int
  BY <1>1, <1>2, <1>3
<1>6. \A a, b \in MonthBegins(y) : a < b => b - a >= 7
  <2> SUFFICES ASSUME NEW a \in MonthBegins(y), NEW b \in MonthBegins(y), a < b PROVE b - a >= 7
    OBVIOUS
  <2>1. CASE \E n \in N : b = f + n
    <3>1. PICK n \in N : b = f + n
      BY <2>1
    <3>2. CASE \E m \in N : a = f + m
      <4>1. PICK m \in N : a = f + m
        BY <3>2
      <4>2. m < n
        BY <1>1, <1>3, <3>1, <4>1
      <4> QED
        BY <1>1, <1>3, <1>4, <3>1, <4>1, <4>2
    <3>3. CASE a = b0 \/ a = b0 + 31
      BY <1>1, <1>3, <3>1, <3>3
    <3> QED
      BY <1>2, <3>2, <3>3
  <2>2. CASE b = b0 \/ b = b0 + 31
    <3>1. ~(\E m \in N : a = f + m)
      BY <1>1, <1>3, <2>2
    <3> QED
      BY <1>1, <1>2, <2>2, <3>1
  <2> QED
    BY <1>2, <2>1, <2>2
<1> QED
  BY <1>5, <1>6

\* A month that begins in the calendar has a column of its own.
LEMMA MonthsLabelled ==
    ASSUME NEW in \in Inputs, NEW y \in YearsOf(in), y # AllTime
    PROVE  Cardinality(MonthLabels(in, y)) = Cardinality(MonthBegins(y) \cap (FirstDay(in, y)..LastDay(in, y)))
<1> DEFINE cells == CellsOf(in, y)
           days == FirstDay(in, y)..LastDay(in, y)
           M == {q \in cells : DayAt(in, y, q[1], q[2]) \in MonthBegins(y)}
           dayOf == [q \in M |-> DayAt(in, y, q[1], q[2])]
           col == [q \in M |-> q[2]]
           labels == {p[2] : p \in M}
<1>1. y \in Int /\ Height(in, y) = 7 /\ FirstDay(in, y) \in Int /\ Skipped(in, y) \in Int /\ Width(in, y) \in Nat
  BY Span, Sizes
<1>2. IsFiniteSet(cells)
  BY CellDays
<1>3. IsFiniteSet(M)
  BY <1>2, FS_Subset
<1>4. \A q \in M : q \in cells /\ dayOf[q] = DayAt(in, y, q[1], q[2]) /\ dayOf[q] \in MonthBegins(y) /\ col[q] = q[2]
  OBVIOUS
<1>5. Cardinality(MonthBegins(y) \cap days) = Cardinality(M)
  <2>1. \A q \in M : dayOf[q] \in MonthBegins(y) \cap days
    BY <1>4, CellDays
  <2>2. \A d \in MonthBegins(y) \cap days : \E q \in M : dayOf[q] = d
    BY CellDays
  <2>3. \A p, q \in M : dayOf[p] = dayOf[q] => p = q
    <3> SUFFICES ASSUME NEW p \in M, NEW q \in M, dayOf[p] = dayOf[q] PROVE p = q
      OBVIOUS
    <3>1. p \in cells /\ q \in cells /\ DayAt(in, y, p[1], p[2]) = DayAt(in, y, q[1], q[2])
      BY <1>4
    <3> QED
      BY <3>1, CellDays
  <2> HIDE DEF M, days, dayOf
  <2> QED
    BY <1>3, <2>1, <2>2, <2>3, OneToOne
<1>6. Cardinality(labels) = Cardinality(M)
  <2>1. \A q \in M : col[q] \in labels
    OBVIOUS
  <2>2. \A c \in labels : \E q \in M : col[q] = c
    OBVIOUS
  <2>3. \A p, q \in M : col[p] = col[q] => p = q
    <3> SUFFICES ASSUME NEW p \in M, NEW q \in M, col[p] = col[q] PROVE p = q
      OBVIOUS
    <3>1. /\ p = <<p[1], p[2]>> /\ p[1] \in 0..6 /\ p[2] \in Int
          /\ q = <<q[1], q[2]>> /\ q[1] \in 0..6 /\ q[2] = p[2]
      BY <1>1, <1>4 DEF CellsOf
    <3> DEFINE r == p[1]
               t == q[1]
               c == p[2]
               a == DayAt(in, y, r, c)
               b == DayAt(in, y, t, c)
    <3>2. a \in MonthBegins(y) /\ b \in MonthBegins(y)
      BY <1>4, <3>1
    <3>3. /\ a = FirstDay(in, y) + c * 7 + r - Skipped(in, y)
          /\ b = FirstDay(in, y) + c * 7 + t - Skipped(in, y)
      BY <1>1 DEF DayAt
    <3>4. r \in 0..6 /\ t \in 0..6 /\ c \in Int /\ p = <<r, c>> /\ q = <<t, c>>
      BY <3>1
    <3> HIDE DEF a, b, r, t, c
    <3>5. /\ a \in Int /\ b \in Int /\ ~(a < b /\ b - a >= 7) /\ ~(b < a /\ a - b >= 7)
          /\ a = b => r = t
      BY <1>1, <3>3, <3>4
    <3>6. a = b
      BY <1>1, <3>2, <3>5, MonthsApart
    <3> QED
      BY <3>4, <3>5, <3>6
  <2> HIDE DEF M, labels, col
  <2> QED
    BY <1>3, <2>1, <2>2, <2>3, OneToOne
<1>7. MonthLabels(in, y) = labels
  BY DEF MonthLabels
<1> QED
  BY <1>5, <1>6, <1>7

-----------------------------------------------------------------------------
(* Calendars are right *)

\* A day of the data is in the calendar of its year.
LEMMA DataShown ==
    ASSUME NEW in \in Inputs, NEW d \in DOMAIN in.data, NEW y \in {AllTime, YearOf(d)}
    PROVE  d \in FirstDay(in, y)..LastDay(in, y) \/ d > in.today
<1>1. y \in YearsOf(in) \cup {AllTime} /\ d \in Nat /\ in.today \in Nat
  BY InputTypes DEF YearsOf
<1>2. CASE y = AllTime
  BY <1>1, <1>2, Span
<1>3. CASE y # AllTime
  <2>1. YearBegins(y) <= d /\ d < YearBegins(y + 1)
    BY <1>1, <1>3, YearOfDate
  <2>2. /\ FirstDay(in, y) = YearBegins(y) /\ FirstDay(in, y) \in Nat /\ LastDay(in, y) \in Nat
        /\ YearBegins(y + 1) \in Nat
        /\ LastDay(in, y) = YearBegins(y + 1) - 1 \/ LastDay(in, y) = in.today
    BY <1>1, <1>3, Span
  <2> QED
    BY <1>1, <2>1, <2>2
<1> QED
  BY <1>2, <1>3

\* The parts of EveryDayHasACell together.
LEMMA CellsHold == EveryDayHasACell
<1> SUFFICES ASSUME NEW in \in Inputs, NEW y \in YearsOf(in) \cup {AllTime}
             PROVE  LET cells == CellsOf(in, y)
                        days == FirstDay(in, y)..LastDay(in, y)
                        active == {d \in DOMAIN in.data : in.data[d] > 0 /\ d \in days}
                        dayOf == [p \in cells |-> DayAt(in, y, p[1], p[2])]
                    IN  /\ {dayOf[p] : p \in cells} = days /\ Cardinality(cells) = Cardinality(days)
                        /\ y # AllTime => \A p \in cells : FromMonday(dayOf[p]) = p[1]
                        /\ SumFunction([r \in 0..(Height(in, y) - 1) |-> RowCount(in, y, r)]) = Cardinality(active)
                        /\ SumFunction([c \in 0..(Width(in, y) - 1) |-> ColCount(in, y, c)]) = Cardinality(active)
                        /\ y # AllTime => Cardinality(MonthLabels(in, y)) = Cardinality(MonthBegins(y) \cap days)
                        /\ \A d \in DOMAIN in.data : y \in {AllTime, YearOf(d)} => d \in days \/ d > in.today
  BY DEF EveryDayHasACell
<1> DEFINE cells == CellsOf(in, y)
           days == FirstDay(in, y)..LastDay(in, y)
           active == {d \in DOMAIN in.data : in.data[d] > 0 /\ d \in days}
           dayOf == [p \in cells |-> DayAt(in, y, p[1], p[2])]
<1>1. IsFiniteSet(cells)
  BY CellDays
<1>2. \A p \in cells : dayOf[p] \in days
  BY CellDays
<1>3. \A d \in days : \E p \in cells : dayOf[p] = d
  BY CellDays
<1>4. \A p, q \in cells : dayOf[p] = dayOf[q] => p = q
  <2> SUFFICES ASSUME NEW p \in cells, NEW q \in cells, dayOf[p] = dayOf[q] PROVE p = q
    OBVIOUS
  <2>1. DayAt(in, y, p[1], p[2]) = DayAt(in, y, q[1], q[2])
    OBVIOUS
  <2> QED
    BY <2>1, CellDays
<1>5. {dayOf[p] : p \in cells} = days /\ Cardinality(cells) = Cardinality(days)
  <2> HIDE DEF cells, days, dayOf
  <2>1. Cardinality(days) = Cardinality(cells)
    BY <1>1, <1>2, <1>3, <1>4, OneToOne
  <2>2. {dayOf[p] : p \in cells} = days
    BY <1>2, <1>3
  <2> QED
    BY <2>1, <2>2
<1>6. y # AllTime => \A p \in cells : FromMonday(dayOf[p]) = p[1]
  BY Weekdays
<1>7. /\ SumFunction([r \in 0..(Height(in, y) - 1) |-> RowCount(in, y, r)]) = Cardinality(active)
      /\ SumFunction([c \in 0..(Width(in, y) - 1) |-> ColCount(in, y, c)]) = Cardinality(active)
  BY CountsRight
<1>8. y # AllTime => Cardinality(MonthLabels(in, y)) = Cardinality(MonthBegins(y) \cap days)
  BY MonthsLabelled
<1>9. \A d \in DOMAIN in.data : y \in {AllTime, YearOf(d)} => d \in days \/ d > in.today
  BY DataShown
<1> HIDE DEF cells, days, active, dayOf
<1>10. /\ {dayOf[p] : p \in cells} = days /\ Cardinality(cells) = Cardinality(days)
       /\ y # AllTime => \A p \in cells : FromMonday(dayOf[p]) = p[1]
       /\ SumFunction([r \in 0..(Height(in, y) - 1) |-> RowCount(in, y, r)]) = Cardinality(active)
       /\ SumFunction([c \in 0..(Width(in, y) - 1) |-> ColCount(in, y, c)]) = Cardinality(active)
       /\ y # AllTime => Cardinality(MonthLabels(in, y)) = Cardinality(MonthBegins(y) \cap days)
       /\ \A d \in DOMAIN in.data : y \in {AllTime, YearOf(d)} => d \in days \/ d > in.today
  BY <1>5, <1>6, <1>7, <1>8, <1>9
<1> QED
  BY <1>10, Zenon DEF cells, days, active, dayOf

\* Around a corner every cell sees the other three in its colour, or none does.
LEMMA CornersHold == CornersAgree
<1> SUFFICES ASSUME NEW in \in Inputs, NEW y \in YearsOf(in) \cup {AllTime}, NEW p \in CellsOf(in, y),
                    CornerFilled(in, y, p, 1, 1)
             PROVE  /\ CornerFilled(in, y, <<p[1] + 1, p[2]>>, -1, 1)
                    /\ CornerFilled(in, y, <<p[1], p[2] + 1>>, 1, -1)
                    /\ CornerFilled(in, y, <<p[1] + 1, p[2] + 1>>, -1, -1)
  BY DEF CornersAgree
<1> DEFINE r == p[1]
           c == p[2]
           S(a, b) == Shown(in, y, a, b)
           K(a, b) == ColorAt(in, y, <<a, b>>)
<1>1. p = <<r, c>> /\ r \in Int /\ c \in Int /\ S(r, c)
  BY Sizes DEF CellsOf
<1>2. /\ S(r + 1, c) /\ K(r + 1, c) = K(r, c)
      /\ S(r, c + 1) /\ K(r, c + 1) = K(r, c)
      /\ S(r + 1, c + 1) /\ K(r + 1, c + 1) = K(r, c)
  <2>1. r + 0 = r /\ c + 0 = c
    BY <1>1
  <2>2. p = <<r, c>> /\ p[1] = r /\ p[2] = c
    BY <1>1
  <2> HIDE DEF r, c
  <2> QED
    BY <2>1, <2>2 DEF CornerFilled, Joins
<1>3. \A a, b, d, e : Joins(in, y, <<a, b>>, d, e) <=> S(a + d, b + e) /\ K(a + d, b + e) = K(a, b)
  BY DEF Joins
<1>4. /\ (r + 1) + (-1) = r /\ (c + 1) + (-1) = c /\ r + 0 = r /\ c + 0 = c
      /\ (r + 1) + 0 = r + 1 /\ (c + 1) + 0 = c + 1
  BY <1>1
<1> HIDE DEF r, c, S, K
<1>5. CornerFilled(in, y, <<r + 1, c>>, -1, 1)
  <2>1. /\ Joins(in, y, <<r + 1, c>>, -1, 0) /\ Joins(in, y, <<r + 1, c>>, 0, 1)
        /\ Joins(in, y, <<r + 1, c>>, -1, 1)
    BY <1>1, <1>2, <1>3, <1>4
  <2> QED
    BY <2>1 DEF CornerFilled
<1>6. CornerFilled(in, y, <<r, c + 1>>, 1, -1)
  <2>1. /\ Joins(in, y, <<r, c + 1>>, 1, 0) /\ Joins(in, y, <<r, c + 1>>, 0, -1)
        /\ Joins(in, y, <<r, c + 1>>, 1, -1)
    BY <1>1, <1>2, <1>3, <1>4
  <2> QED
    BY <2>1 DEF CornerFilled
<1>7. CornerFilled(in, y, <<r + 1, c + 1>>, -1, -1)
  <2>1. /\ Joins(in, y, <<r + 1, c + 1>>, -1, 0) /\ Joins(in, y, <<r + 1, c + 1>>, 0, -1)
        /\ Joins(in, y, <<r + 1, c + 1>>, -1, -1)
    BY <1>1, <1>2, <1>3, <1>4
  <2> QED
    BY <2>1 DEF CornerFilled
<1> QED
  BY <1>5, <1>6, <1>7 DEF r, c

\* No day has less than nothing.
LEMMA DaysCounted ==
    ASSUME StoreTypeOK, StoreInv, NEW z \in Zones, NEW d \in DOMAIN DailyData(z)
    PROVE  DailyData(z)[d] >= 0
<1> DEFINE S == {i \in Done : DateOf(z, Start(i)) = d}
<1>1. DailyData(z)[d] = SumFunctionOnSet(DurationsCounted, S)
  BY DEF DailyData, DurationsCounted
<1>2. S \in SUBSET Done /\ IsFiniteSet(Done) /\ \A i \in Done : DurationsCounted[i] \in Nat
  BY DurationValues
<1> HIDE DEF S
<1>3. 0 <= SumFunctionOnSet(DurationsCounted, S) /\ SumFunctionOnSet(DurationsCounted, S) \in Int
  <2>1. IsFiniteSet(S) /\ \A i \in S : DurationsCounted[i] \in Int
    BY <1>2, FS_Subset
  <2> QED
    BY <1>2, <2>1, SumGrows, SumInt
<1> QED
  BY <1>1, <1>3

\* Whatever the data, a calendar has one cell for every day, in the row of its
\* weekday, the counts around it are those of the active days, every month has
\* its label, the cells around a corner fill it alike; and what the server
\* gives it to draw is never negative.
THEOREM CalendarsCorrect == StoreSpec => []CalendarsRight
<1>1. StoreTypeOK /\ StoreInv => CalendarsRight
  BY CellsHold, CornersHold, DaysCounted DEF CalendarsRight
<1> QED
  BY <1>1, StoreTypeCorrect, StoreInvariant, PTL

=============================================================================
