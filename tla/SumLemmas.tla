----------------------------- MODULE SumLemmas ------------------------------
(***************************************************************************)
(* What SumFunction and SumFunctionOnSet of the community modules compute  *)
(* on finite sets of numbers.  They fold in an order nobody knows: the     *)
(* lemmas say that the order does not matter and what a sum does when a    *)
(* term comes, changes or moves.                                           *)
(*                                                                         *)
(* The induction over finite sets they need goes by a smallest             *)
(* counterexample (lemma Smallest): the theorem on well-founded orders that*)
(* gives it has no operator as a parameter.                                *)
(***************************************************************************)
EXTENDS Integers, Sequences, FiniteSets, Functions, FiniteSetTheorems, WellFoundedInduction, TLAPS

\* The element a sum takes next.
Pick(s) == CHOOSE x \in s : TRUE

\* h is the sum of f on every subset of S.
IsSum(f, S, h) ==
  h = [s \in SUBSET S |-> IF s = {} THEN 0 ELSE f[Pick(s)] + h[s \ {Pick(s)}]]

\* The function CHOOSEn by the recursive definition of the fold.
LEMMA SumIs ==
  ASSUME NEW f, NEW S
  PROVE  SumFunctionOnSet(f, S) = (CHOOSE h : IsSum(f, S, h))[S]
BY DEF SumFunctionOnSet, FoldFunctionOnSet, MapThenFoldSet, IsSum, Pick

(***************************************************************************)
(* Induction on finite sets: if there is a counterexample, there is a      *)
(* smallest one.                                                           *)
(***************************************************************************)
LEMMA Smallest ==
  ASSUME NEW S, IsFiniteSet(S), NEW T \in SUBSET (SUBSET S), T # {}
  PROVE  \E s \in T : \A t \in T : t \subseteq s => t = s
<1> DEFINE R == StrictSubsetOrdering(S)
<1>1. IsWellFoundedOn(R, FiniteSubsetsOf(S))
  BY FS_StrictSubsetOrderingWellFounded
<1>2. T \subseteq FiniteSubsetsOf(S)
  BY FS_Subset DEF FiniteSubsetsOf
<1> HIDE DEF R
<1>3. PICK s \in T : \A t \in T : <<t, s>> \notin R
  BY <1>1, <1>2, WFMin
<1>4. \A t \in T : t \subseteq s /\ t # s => <<t, s>> \in R
  BY DEF R, StrictSubsetOrdering
<1>5. ASSUME NEW t \in T, t \subseteq s PROVE t = s
  BY <1>3, <1>4, <1>5
<1> QED
  BY <1>5, Zenon

\* What is picked is an element.
LEMMA PickIn ==
  ASSUME NEW s, s # {}
  PROVE  Pick(s) \in s
BY DEF Pick

\* Sums on two sets agree on the subsets of both.
LEMMA SumsAgree ==
  ASSUME NEW f, NEW S, IsFiniteSet(S), NEW g, IsSum(f, S, g),
         NEW U \in SUBSET S, NEW h, IsSum(f, U, h)
  PROVE  g[U] = h[U]
<1> DEFINE T == {s \in SUBSET U : g[s] # h[s]}
<1> SUFFICES ASSUME T # {} PROVE FALSE
  BY DEF T
<1>1. IsFiniteSet(U) /\ T \in SUBSET (SUBSET U)
  BY FS_Subset
<1>2. PICK s \in T : \A t \in T : t \subseteq s => t = s
  <2> HIDE DEF T
  <2> QED
    BY <1>1, Smallest
<1>3. s \in SUBSET U /\ s \in SUBSET S /\ g[s] # h[s]
  BY <1>2
<1>4. s # {}
  BY <1>3 DEF IsSum
<1>5. Pick(s) \in s
  BY <1>4, PickIn
<1> DEFINE r == s \ {Pick(s)}
<1>6. r \in SUBSET U /\ r \subseteq s /\ r # s
  BY <1>3, <1>5
<1>7. g[r] = h[r]
  BY <1>2, <1>6
<1>8. g[s] = f[Pick(s)] + g[r] /\ h[s] = f[Pick(s)] + h[r]
  BY <1>3, <1>4 DEF IsSum
<1> QED
  BY <1>3, <1>7, <1>8

\* On a finite set there are sums.
LEMMA SumsExist ==
  ASSUME NEW f, NEW S, IsFiniteSet(S)
  PROVE  \E h : IsSum(f, S, h)
<1> DEFINE T == {s \in SUBSET S : ~ \E h : IsSum(f, s, h)}
<1> SUFFICES ASSUME T # {} PROVE FALSE
  BY DEF T
<1>1. PICK s \in T : \A t \in T : t \subseteq s => t = s
  <2>1. T \in SUBSET (SUBSET S)
    OBVIOUS
  <2> HIDE DEF T
  <2> QED
    BY <2>1, Smallest
<1>2. s \in SUBSET S /\ ~ \E h : IsSum(f, s, h)
  BY <1>1
<1>3. ASSUME NEW t \in SUBSET s, t # s
      PROVE  IsFiniteSet(t) /\ IsSum(f, t, CHOOSE h : IsSum(f, t, h))
  <2>1. t \in SUBSET S /\ t \notin T
    BY <1>1, <1>2, <1>3
  <2>2. \E h : IsSum(f, t, h)
    BY <2>1
  <2> QED
    BY <2>1, <2>2, FS_Subset
<1> DEFINE below(t) == CHOOSE h : IsSum(f, t, h)
           H == [t \in SUBSET s |-> IF t = {} THEN 0
                                    ELSE f[Pick(t)] + below(t \ {Pick(t)})[t \ {Pick(t)}]]
<1>4. ASSUME NEW t \in SUBSET s, t # s PROVE H[t] = below(t)[t]
  <2>1. IsSum(f, t, below(t)) /\ IsFiniteSet(t)
    BY <1>3, <1>4
  <2> HIDE DEF below
  <2>2. CASE t = {}
    BY <2>1, <2>2 DEF IsSum
  <2>3. CASE t # {}
    <3> DEFINE r == t \ {Pick(t)}
    <3>1. r \in SUBSET t /\ r \in SUBSET s /\ r # s
      BY <2>3, PickIn
    <3>2. IsSum(f, r, below(r))
      BY <1>3, <3>1 DEF below
    <3>3. below(t)[r] = below(r)[r]
      BY <2>1, <3>1, <3>2, SumsAgree
    <3>4. below(t)[t] = f[Pick(t)] + below(t)[r]
      BY <2>1, <2>3 DEF IsSum
    <3>5. H[t] = f[Pick(t)] + below(r)[r]
      BY <2>3
    <3> QED
      BY <3>3, <3>4, <3>5
  <2> QED
    BY <2>2, <2>3
<1>5. ASSUME NEW t \in SUBSET s, t # {}
      PROVE  H[t \ {Pick(t)}] = below(t \ {Pick(t)})[t \ {Pick(t)}]
  <2>1. t \ {Pick(t)} \in SUBSET s /\ t \ {Pick(t)} # s
    BY <1>5, PickIn
  <2> HIDE DEF H, below
  <2> QED
    BY <1>4, <2>1
<1>6. IsSum(f, s, H)
  <2> HIDE DEF below
  <2>1. \A t \in SUBSET s : t # {} => H[t] = f[Pick(t)] + H[t \ {Pick(t)}]
    BY <1>5
  <2>2. H = [t \in SUBSET s |-> H[t]] /\ H[{}] = 0
    OBVIOUS
  <2> HIDE DEF H
  <2> QED
    BY <2>1, <2>2 DEF IsSum
<1> QED
  BY <1>2, <1>6

-----------------------------------------------------------------------------
(* What a sum on a finite set is.                                          *)

\* Nothing to add.
LEMMA SumOnEmpty ==
  ASSUME NEW f
  PROVE  SumFunctionOnSet(f, {}) = 0
<1> DEFINE h == CHOOSE h : IsSum(f, {}, h)
<1>1. IsSum(f, {}, h)
  BY SumsExist, FS_EmptySet
<1> HIDE DEF h
<1>2. h[{}] = 0
  BY <1>1 DEF IsSum
<1> QED
  BY <1>2, SumIs DEF h

\* The recursive step, for any finite set and not only below a fixed one.
LEMMA SumPicks ==
  ASSUME NEW f, NEW S, IsFiniteSet(S), S # {}
  PROVE  SumFunctionOnSet(f, S) =
           f[Pick(S)] + SumFunctionOnSet(f, S \ {Pick(S)})
<1> DEFINE R == S \ {Pick(S)}
           g == CHOOSE h : IsSum(f, S, h)
           h == CHOOSE h : IsSum(f, R, h)
<1>1. R \in SUBSET S /\ IsFiniteSet(R)
  BY FS_Subset
<1>2. IsSum(f, S, g) /\ IsSum(f, R, h)
  <2> HIDE DEF R
  <2> QED
    BY <1>1, SumsExist
<1>3. SumFunctionOnSet(f, S) = g[S] /\ SumFunctionOnSet(f, R) = h[R]
  BY SumIs
<1> HIDE DEF g, h
<1>4. g[R] = h[R]
  <2> HIDE DEF R
  <2> QED
    BY <1>1, <1>2, SumsAgree
<1>5. g[S] = f[Pick(S)] + g[R]
  BY <1>2 DEF IsSum
<1> QED
  BY <1>3, <1>4, <1>5

\* The terms of a sum.
Terms(f, S) == \A x \in S : f[x] \in Nat

(***************************************************************************)
(* Any element may be taken first.                                         *)
(***************************************************************************)
LEMMA SumTakes ==
  ASSUME NEW f, NEW S, IsFiniteSet(S), Terms(f, S)
  PROVE  /\ SumFunctionOnSet(f, S) \in Nat
         /\ \A x \in S : SumFunctionOnSet(f, S) = f[x] + SumFunctionOnSet(f, S \ {x})
<1> DEFINE sum(s) == SumFunctionOnSet(f, s)
           OK(s) == sum(s) \in Nat /\ \A x \in s : sum(s) = f[x] + sum(s \ {x})
           T == {s \in SUBSET S : ~OK(s)}
<1> SUFFICES ASSUME T # {} PROVE FALSE
  BY DEF T
<1>1. PICK s \in T : \A t \in T : t \subseteq s => t = s
  <2>1. T \in SUBSET (SUBSET S)
    OBVIOUS
  <2> HIDE DEF T
  <2> QED
    BY <2>1, Smallest
<1>2. s \in SUBSET S /\ ~OK(s) /\ IsFiniteSet(s)
  BY <1>1, FS_Subset
<1>3. ASSUME NEW t \in SUBSET s, t # s PROVE OK(t)
  BY <1>1, <1>2, <1>3
<1> HIDE DEF T
<1> DEFINE y == Pick(s)
<1>4. s # {} /\ y \in s
  <2>1. CASE s = {}
    BY <1>2, <2>1, SumOnEmpty
  <2> QED
    BY <2>1, PickIn
<1>5. sum(s) = f[y] + sum(s \ {y})
  BY <1>2, <1>4, SumPicks
<1> HIDE DEF y
<1>6. \A x \in s : f[x] \in Nat
  BY <1>2 DEF Terms
<1>7. \A x \in s : OK(s \ {x})
  <2> TAKE x \in s
  <2>1. s \ {x} \in SUBSET s /\ s \ {x} # s
    OBVIOUS
  <2> HIDE DEF OK
  <2> QED
    BY <1>3, <2>1
<1> HIDE DEF sum
<1>8. sum(s) \in Nat
  BY <1>4, <1>5, <1>6, <1>7
<1>9. ASSUME NEW x \in s, x # y
      PROVE  sum(s) = f[x] + sum(s \ {x})
  <2>1. sum(s \ {x}) = f[y] + sum((s \ {x}) \ {y})
    BY <1>4, <1>7, <1>9
  <2>2. sum(s \ {y}) = f[x] + sum((s \ {y}) \ {x})
    BY <1>4, <1>7, <1>9
  <2>3. (s \ {x}) \ {y} = (s \ {y}) \ {x}
    OBVIOUS
  <2>4. s \ {x} \in SUBSET s /\ (s \ {x}) \ {y} \in SUBSET s /\ (s \ {x}) \ {y} # s
    OBVIOUS
  <2>5. sum((s \ {x}) \ {y}) \in Nat
    BY <1>3, <2>4
  <2>6. f[x] \in Nat /\ f[y] \in Nat
    BY <1>4, <1>6
  <2> QED
    BY <1>5, <2>1, <2>2, <2>3, <2>5, <2>6
<1>10. OK(s)
  BY <1>5, <1>8, <1>9
<1> QED
  BY <1>2, <1>10

(***************************************************************************)
(* One more element.                                                       *)
(***************************************************************************)
LEMMA SumAdds ==
  ASSUME NEW f, NEW S, IsFiniteSet(S), Terms(f, S), NEW x, x \notin S, f[x] \in Nat
  PROVE  SumFunctionOnSet(f, S \cup {x}) = SumFunctionOnSet(f, S) + f[x]
<1>1. IsFiniteSet(S \cup {x}) /\ Terms(f, S \cup {x}) /\ (S \cup {x}) \ {x} = S
  BY FS_AddElement DEF Terms
<1>2. SumFunctionOnSet(f, S \cup {x}) = f[x] + SumFunctionOnSet(f, S)
  BY <1>1, SumTakes
<1>3. SumFunctionOnSet(f, S) \in Nat
  BY SumTakes
<1> QED
  BY <1>2, <1>3

(***************************************************************************)
(* The sum of terms that are those of another set, each once, is its sum.  *)
(***************************************************************************)
LEMMA SumMoves ==
  ASSUME NEW f, NEW S, IsFiniteSet(S), Terms(f, S), NEW g, NEW b,
         \A x \in S : g[b[x]] = f[x],
         \A x, y \in S : b[x] = b[y] => x = y
  PROVE  SumFunctionOnSet(g, {b[x] : x \in S}) = SumFunctionOnSet(f, S)
<1> DEFINE im(s) == {b[x] : x \in s}
           OK(s) == SumFunctionOnSet(g, im(s)) = SumFunctionOnSet(f, s)
           T == {s \in SUBSET S : ~OK(s)}
<1> SUFFICES ASSUME T # {} PROVE FALSE
  BY DEF T
<1>1. PICK s \in T : \A t \in T : t \subseteq s => t = s
  <2>1. T \in SUBSET (SUBSET S)
    OBVIOUS
  <2> HIDE DEF T
  <2> QED
    BY <2>1, Smallest
<1>2. s \in SUBSET S /\ ~OK(s) /\ IsFiniteSet(s)
  BY <1>1, FS_Subset
<1>3. ASSUME NEW t \in SUBSET s, t # s PROVE OK(t)
  BY <1>1, <1>2, <1>3
<1> HIDE DEF T
<1>4. s # {}
  <2> SUFFICES ASSUME s = {} PROVE FALSE
    OBVIOUS
  <2>1. im(s) = {}
    OBVIOUS
  <2> HIDE DEF im
  <2> QED
    BY <1>2, <2>1, SumOnEmpty
<1>5. PICK x \in s : TRUE
  BY <1>4
<1> DEFINE r == s \ {x}
<1>6. r \in SUBSET s /\ r # s /\ r \in SUBSET S /\ x \in S /\ x \notin r /\ s = r \cup {x}
  BY <1>2, <1>5
<1>7. IsFiniteSet(r) /\ Terms(f, r) /\ f[x] \in Nat
  BY <1>2, <1>6, FS_Subset DEF Terms
<1>8. SumFunctionOnSet(f, s) = SumFunctionOnSet(f, r) + f[x]
  <2> HIDE DEF r
  <2> QED
    BY <1>6, <1>7, SumAdds
<1>9. im(s) = im(r) \cup {b[x]} /\ b[x] \notin im(r)
  BY <1>6
<1>10. IsFiniteSet(im(r)) /\ Terms(g, im(r)) /\ g[b[x]] = f[x]
  <2>1. IsFiniteSet(im(r))
    <3> DEFINE c == [w \in r |-> b[w]]
    <3>1. c \in Surjection(r, im(r))
      BY DEF Surjection
    <3> HIDE DEF c, im, r
    <3> QED
      BY <1>7, <3>1, FS_Surjection
  <2>2. ASSUME NEW z \in im(r) PROVE g[z] \in Nat
    <3>1. PICK w \in r : z = b[w]
      BY <2>2
    <3> QED
      BY <1>6, <1>7, <3>1 DEF Terms
  <2> QED
    BY <1>6, <2>1, <2>2 DEF Terms
<1>11. SumFunctionOnSet(g, im(s)) = SumFunctionOnSet(g, im(r)) + g[b[x]]
  <2> HIDE DEF im, r
  <2> QED
    BY <1>7, <1>9, <1>10, SumAdds
<1>12. OK(r)
  BY <1>3, <1>6
<1> QED
  BY <1>2, <1>8, <1>10, <1>11, <1>12

\* Only the terms on the set count.
LEMMA SumSame ==
  ASSUME NEW f, NEW S, IsFiniteSet(S), Terms(f, S), NEW g, \A x \in S : g[x] = f[x]
  PROVE  SumFunctionOnSet(g, S) = SumFunctionOnSet(f, S)
<1> DEFINE b == [x \in S |-> x]
<1>1. /\ \A x \in S : g[b[x]] = f[x]
      /\ \A x, y \in S : b[x] = b[y] => x = y
      /\ {b[x] : x \in S} = S
  OBVIOUS
<1> HIDE DEF b
<1>2. SumFunctionOnSet(g, {b[x] : x \in S}) = SumFunctionOnSet(f, S)
  BY <1>1, SumMoves
<1> QED
  BY <1>1, <1>2

(***************************************************************************)
(* The sum of two sets that have nothing in common.                        *)
(***************************************************************************)
LEMMA SumJoins ==
  ASSUME NEW f, NEW S, IsFiniteSet(S), Terms(f, S),
         NEW U, IsFiniteSet(U), Terms(f, U), S \cap U = {}
  PROVE  SumFunctionOnSet(f, S \cup U) = SumFunctionOnSet(f, S) + SumFunctionOnSet(f, U)
<1> DEFINE sum(s) == SumFunctionOnSet(f, s)
           OK(s) == sum(S \cup s) = sum(S) + sum(s)
           T == {s \in SUBSET U : ~OK(s)}
<1> SUFFICES ASSUME T # {} PROVE FALSE
  BY DEF T
<1>1. PICK s \in T : \A t \in T : t \subseteq s => t = s
  <2>1. T \in SUBSET (SUBSET U)
    OBVIOUS
  <2> HIDE DEF T
  <2> QED
    BY <2>1, Smallest
<1>2. s \in SUBSET U /\ ~OK(s) /\ sum(S) \in Nat
  BY <1>1, SumTakes
<1>3. ASSUME NEW t \in SUBSET s, t # s PROVE OK(t)
  BY <1>1, <1>2, <1>3
<1> HIDE DEF T
<1>4. s # {}
  <2> SUFFICES ASSUME s = {} PROVE FALSE
    OBVIOUS
  <2>1. S \cup s = S
    OBVIOUS
  <2> QED
    BY <1>2, <2>1, SumOnEmpty
<1>5. PICK x \in s : TRUE
  BY <1>4
<1> DEFINE r == s \ {x}
<1>6. /\ r \in SUBSET s /\ r # s /\ r \in SUBSET U /\ x \notin r /\ s = r \cup {x}
      /\ S \cup s = (S \cup r) \cup {x} /\ x \notin S \cup r /\ x \in U
  BY <1>2, <1>5
<1> HIDE DEF r
<1>7. IsFiniteSet(r) /\ Terms(f, r) /\ f[x] \in Nat
  BY <1>6, FS_Subset DEF Terms
<1>8. IsFiniteSet(S \cup r) /\ Terms(f, S \cup r)
  BY <1>7, FS_Union DEF Terms
<1>9. sum(s) = sum(r) + f[x] /\ sum(r) \in Nat
  BY <1>6, <1>7, SumAdds, SumTakes
<1>10. sum(S \cup s) = sum(S \cup r) + f[x]
  BY <1>6, <1>7, <1>8, SumAdds
<1>11. OK(r)
  BY <1>3, <1>6
<1> HIDE DEF sum
<1> QED
  BY <1>2, <1>7, <1>9, <1>10, <1>11

-----------------------------------------------------------------------------
(* Sums of functions and of sequences of numbers.                          *)

\* A sum of natural numbers is one.
LEMMA SumType ==
  ASSUME NEW f, IsFiniteSet(DOMAIN f), Terms(f, DOMAIN f)
  PROVE  SumFunction(f) \in Nat
BY SumTakes DEF SumFunction

\* The sum of one term.
LEMMA SumOne ==
  ASSUME NEW f, NEW x, DOMAIN f = {x}, f[x] \in Nat
  PROVE  SumFunction(f) = f[x]
<1>1. IsFiniteSet({x}) /\ Terms(f, {x}) /\ {x} \ {x} = {} /\ x \in {x}
  BY FS_Singleton DEF Terms
<1>2. SumFunctionOnSet(f, {x}) = f[x] + SumFunctionOnSet(f, {})
  BY <1>1, SumTakes
<1> QED
  BY <1>2, SumOnEmpty DEF SumFunction

\* One more argument.
LEMMA SumGrows ==
  ASSUME NEW f, IsFiniteSet(DOMAIN f), Terms(f, DOMAIN f),
         NEW x, x \notin DOMAIN f, NEW g, DOMAIN g = DOMAIN f \cup {x},
         \A y \in DOMAIN f : g[y] = f[y], g[x] \in Nat
  PROVE  SumFunction(g) = SumFunction(f) + g[x]
<1>1. Terms(g, DOMAIN f)
  BY DEF Terms
<1>2. SumFunctionOnSet(g, DOMAIN f \cup {x}) = SumFunctionOnSet(g, DOMAIN f) + g[x]
  BY <1>1, SumAdds
<1>3. SumFunctionOnSet(g, DOMAIN f) = SumFunctionOnSet(f, DOMAIN f)
  BY SumSame
<1> QED
  BY <1>2, <1>3 DEF SumFunction

\* Another value for one argument.
LEMMA SumChanges ==
  ASSUME NEW f, IsFiniteSet(DOMAIN f), Terms(f, DOMAIN f),
         NEW x \in DOMAIN f, NEW g, DOMAIN g = DOMAIN f,
         \A y \in DOMAIN f : y # x => g[y] = f[y], g[x] \in Nat
  PROVE  SumFunction(g) + f[x] = SumFunction(f) + g[x]
<1> DEFINE R == DOMAIN f \ {x}
<1>1. IsFiniteSet(R) /\ Terms(f, R) /\ Terms(g, DOMAIN f) /\ Terms(g, R) /\ f[x] \in Nat
  BY FS_Subset DEF Terms
<1>2. SumFunction(f) = f[x] + SumFunctionOnSet(f, R)
  BY SumTakes DEF SumFunction
<1>3. SumFunction(g) = g[x] + SumFunctionOnSet(g, R)
  BY <1>1, SumTakes DEF SumFunction
<1>4. \A y \in R : g[y] = f[y]
  OBVIOUS
<1> HIDE DEF R
<1>5. SumFunctionOnSet(g, R) = SumFunctionOnSet(f, R) /\ SumFunctionOnSet(f, R) \in Nat
  BY <1>1, <1>4, SumSame, SumTakes
<1> QED
  BY <1>1, <1>2, <1>3, <1>5

\* A sequence has finitely many terms.
LEMMA SumOfSequence ==
  ASSUME NEW s \in Seq(Nat)
  PROVE  IsFiniteSet(DOMAIN s) /\ Terms(s, DOMAIN s) /\ SumFunction(s) \in Nat
<1>1. DOMAIN s = 1 .. Len(s) /\ Len(s) \in Nat
  OBVIOUS
<1>2. IsFiniteSet(1 .. Len(s))
  BY <1>1, FS_Interval
<1>3. Terms(s, DOMAIN s)
  BY DEF Terms
<1> QED
  BY <1>1, <1>2, <1>3, SumType

(***************************************************************************)
(* The sum of two sequences is that of the two together.                   *)
(***************************************************************************)
LEMMA SumConcat ==
  ASSUME NEW s \in Seq(Nat), NEW t \in Seq(Nat)
  PROVE  SumFunction(s \o t) = SumFunction(s) + SumFunction(t)
<1> DEFINE m == Len(s)
           n == Len(t)
           st == s \o t
           b == [i \in 1 .. n |-> m + i]
           N == 1 .. n
           U == {b[i] : i \in N}
<1>1. /\ m \in Nat /\ n \in Nat /\ DOMAIN s = 1 .. m /\ DOMAIN t = 1 .. n
      /\ st \in Seq(Nat) /\ DOMAIN st = 1 .. m + n
      /\ \A i \in 1 .. m : st[i] = s[i]
      /\ \A i \in 1 .. n : st[m + i] = t[i]
  OBVIOUS
<1> HIDE DEF m, n, st
<1>2. /\ \A i \in 1 .. n : st[b[i]] = t[i]
      /\ \A i, j \in 1 .. n : b[i] = b[j] => i = j
  BY <1>1
<1>3. 1 .. m + n = (1 .. m) \cup U /\ (1 .. m) \cap U = {}
  <2>1. ASSUME NEW i \in 1 .. m + n, i \notin 1 .. m PROVE i \in U
    <3>1. i - m \in 1 .. n /\ b[i - m] = i
      BY <1>1, <2>1
    <3> QED
      BY <3>1
  <2>2. ASSUME NEW i \in U PROVE i \in 1 .. m + n /\ i \notin 1 .. m
    <3>1. PICK j \in 1 .. n : i = m + j
      BY <2>2
    <3> QED
      BY <1>1, <3>1
  <2>3. 1 .. m \subseteq 1 .. m + n
    BY <1>1
  <2> QED
    BY <2>1, <2>2, <2>3
<1>4. SumFunctionOnSet(st, U) = SumFunctionOnSet(t, 1 .. n)
  <2>1. IsFiniteSet(N) /\ Terms(t, N)
    BY <1>1, SumOfSequence
  <2>2. \A i, j \in N : b[i] = b[j] => i = j
    BY <1>2
  <2>3. \A i \in N : st[b[i]] = t[i]
    BY <1>2
  <2> HIDE DEF b, N
  <2>4. SumFunctionOnSet(st, U) = SumFunctionOnSet(t, N)
    BY <2>1, <2>2, <2>3, SumMoves
  <2> QED
    BY <2>4 DEF N
<1>5. SumFunctionOnSet(st, 1 .. m) = SumFunctionOnSet(s, 1 .. m)
  BY <1>1, SumSame, SumOfSequence
<1>6. /\ IsFiniteSet(1 .. m) /\ IsFiniteSet(U)
      /\ Terms(st, 1 .. m) /\ Terms(st, U)
  <2>1. IsFiniteSet(1 .. m + n) /\ Terms(st, 1 .. m + n)
    BY <1>1, SumOfSequence
  <2> QED
    BY <1>3, <2>1, FS_Subset DEF Terms
<1> HIDE DEF U
<1>7. SumFunctionOnSet(st, 1 .. m + n)
        = SumFunctionOnSet(st, 1 .. m) + SumFunctionOnSet(st, U)
  <2> DEFINE M == 1 .. m
  <2>1. IsFiniteSet(M) /\ Terms(st, M) /\ M \cap U = {}
    BY <1>3, <1>6
  <2>2. 1 .. m + n = M \cup U
    BY <1>3
  <2> HIDE DEF M
  <2>3. SumFunctionOnSet(st, M \cup U) = SumFunctionOnSet(st, M) + SumFunctionOnSet(st, U)
    BY <1>6, <2>1, SumJoins
  <2> QED
    BY <2>2, <2>3 DEF M
<1> QED
  BY <1>1, <1>4, <1>5, <1>7 DEF SumFunction, st

(***************************************************************************)
(* Sums of the first terms: one more term, and no fewer with more terms.   *)
(***************************************************************************)
LEMMA SumOfFirst ==
  ASSUME NEW f, NEW N \in Nat, Terms(f, 1 .. N)
  PROVE  /\ SumFunctionOnSet(f, 1 .. 0) = 0
         /\ \A n \in 0 .. N : SumFunctionOnSet(f, 1 .. n) \in Nat
         /\ \A n \in 0 .. N - 1 :
              SumFunctionOnSet(f, 1 .. n + 1) = SumFunctionOnSet(f, 1 .. n) + f[n + 1]
         /\ \A m, n \in 0 .. N :
              m <= n => SumFunctionOnSet(f, 1 .. m) <= SumFunctionOnSet(f, 1 .. n)
<1>1. ASSUME NEW n \in 0 .. N
      PROVE  IsFiniteSet(1 .. n) /\ Terms(f, 1 .. n)
  <2>1. 1 .. n \subseteq 1 .. N
    OBVIOUS
  <2> QED
    BY <2>1, FS_Interval DEF Terms
<1>2. SumFunctionOnSet(f, 1 .. 0) = 0
  <2>1. 1 .. 0 = {}
    OBVIOUS
  <2> QED
    BY <2>1, SumOnEmpty
<1>3. \A n \in 0 .. N : SumFunctionOnSet(f, 1 .. n) \in Nat
  BY <1>1, SumTakes
<1>4. ASSUME NEW n \in 0 .. N - 1
      PROVE  SumFunctionOnSet(f, 1 .. n + 1) = SumFunctionOnSet(f, 1 .. n) + f[n + 1]
  <2>1. /\ n \in 0 .. N /\ n + 1 \in 1 .. N
        /\ 1 .. n + 1 = (1 .. n) \cup {n + 1} /\ n + 1 \notin 1 .. n
    OBVIOUS
  <2>2. f[n + 1] \in Nat
    BY <2>1 DEF Terms
  <2>3. IsFiniteSet(1 .. n) /\ Terms(f, 1 .. n)
    BY <1>1, <2>1
  <2> DEFINE S == 1 .. n
             x == n + 1
  <2> HIDE DEF S, x
  <2>4. SumFunctionOnSet(f, S \cup {x}) = SumFunctionOnSet(f, S) + f[x]
    BY <2>1, <2>2, <2>3, SumAdds DEF S, x
  <2> QED
    BY <2>1, <2>4, Zenon DEF S, x
<1>5. ASSUME NEW m \in 0 .. N, NEW n \in 0 .. N, m <= n
      PROVE  SumFunctionOnSet(f, 1 .. m) <= SumFunctionOnSet(f, 1 .. n)
  <2>1. /\ 1 .. n = (1 .. m) \cup (m + 1 .. n) /\ (1 .. m) \cap (m + 1 .. n) = {}
        /\ m + 1 .. n \subseteq 1 .. N
    BY <1>5
  <2>2. IsFiniteSet(m + 1 .. n) /\ Terms(f, m + 1 .. n)
    BY <2>1, FS_Interval DEF Terms
  <2>3. SumFunctionOnSet(f, 1 .. n) =
          SumFunctionOnSet(f, 1 .. m) + SumFunctionOnSet(f, m + 1 .. n)
    <3>1. IsFiniteSet(1 .. m) /\ Terms(f, 1 .. m)
      BY <1>1
    <3> DEFINE S == 1 .. m
               U == m + 1 .. n
    <3> HIDE DEF S, U
    <3>2. SumFunctionOnSet(f, S \cup U) = SumFunctionOnSet(f, S) + SumFunctionOnSet(f, U)
      BY <2>1, <2>2, <3>1, SumJoins DEF S, U
    <3> QED
      BY <2>1, <3>2, Zenon DEF S, U
  <2>4. SumFunctionOnSet(f, m + 1 .. n) \in Nat /\ SumFunctionOnSet(f, 1 .. m) \in Nat
    BY <1>3, <2>2, SumTakes
  <2> HIDE DEF Terms
  <2> QED
    BY <2>3, <2>4
<1> QED
  BY <1>2, <1>3, <1>4, <1>5
=============================================================================
