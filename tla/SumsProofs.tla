----------------------------- MODULE SumsProofs -----------------------------
(***************************************************************************)
(* Lemmas about sums over finite sets.  SumOf is a fold that picks the     *)
(* members in an order of its own; that the order does not matter is       *)
(* proved by the least counterexample, a finite set that the strict subset *)
(* order puts below all others.                                            *)
(***************************************************************************)
EXTENDS Sums, FiniteSetTheorems, WellFoundedInduction, TLAPS

Pick(s) == CHOOSE x \in s : TRUE

(* g computes the sums of f over the subsets of S as SumOf does.           *)
IsSum(g, f, S) ==
    g = [s \in SUBSET S |-> IF s = {} THEN 0 ELSE f[Pick(s)] + g[s \ {Pick(s)}]]

(* The sum is read from a function that computes it.                       *)
LEMMA SumOfIsSum ==
    ASSUME NEW f, NEW S
    PROVE  SumOf(f, S) = (CHOOSE g : IsSum(g, f, S))[S]
BY DEF SumOf, MapThenSumSet, MapThenFoldSet, IsSum, Pick

(* A nonempty set of finite subsets of S has a member of which no member   *)
(* is a strict subset.                                                     *)
LEMMA LeastSet ==
    ASSUME NEW S, IsFiniteSet(S), NEW D, D \subseteq SUBSET S, D # {}
    PROVE  \E s \in D : \A t \in D : ~(t \subseteq s /\ t # s)
<1>1. D \subseteq FiniteSubsetsOf(S)
  BY FS_FiniteSubsetsOfFinite
<1>2. PICK s \in D : \A t \in D : ~(<<t, s>> \in StrictSubsetOrdering(S))
  BY <1>1, WFMin, FS_StrictSubsetOrderingWellFounded
<1>3. ASSUME NEW t \in D, t \subseteq s, t # s
      PROVE  <<t, s>> \in StrictSubsetOrdering(S)
  BY <1>3 DEF StrictSubsetOrdering
<1>4. \A t \in D : ~(t \subseteq s /\ t # s)
  BY <1>2, <1>3
<1>5. QED
  BY <1>4, Zenon

(* A set that is not empty has the member that is picked.                  *)
LEMMA PickIsMember ==
    ASSUME NEW s, s # {}
    PROVE  Pick(s) \in s
BY DEF Pick

(* Two functions that compute the sum agree.                               *)
LEMMA SumIsUnique ==
    ASSUME NEW f, NEW S, NEW T, NEW g, NEW h, IsSum(g, f, S), IsSum(h, f, T),
           NEW u, u \subseteq S, u \subseteq T, IsFiniteSet(u)
    PROVE  g[u] = h[u]
<1> DEFINE D == {s \in SUBSET u : g[s] # h[s]}
<1> SUFFICES ASSUME D # {} PROVE FALSE
  OBVIOUS
<1>1. D \subseteq SUBSET u
  OBVIOUS
<1>2. PICK s \in D : \A t \in D : ~(t \subseteq s /\ t # s)
  <2> HIDE DEF D
  <2> QED
    BY <1>1, LeastSet
<1>3. s # {}
  BY <1>2 DEF IsSum
<1>4. s \ {Pick(s)} \subseteq s /\ s \ {Pick(s)} # s /\ s \ {Pick(s)} \in SUBSET u
  BY <1>3, PickIsMember
<1>5. g[s \ {Pick(s)}] = h[s \ {Pick(s)}]
  BY <1>2, <1>4
<1>6. s \in SUBSET S /\ s \in SUBSET T
  BY <1>2
<1>7. g[s] = f[Pick(s)] + g[s \ {Pick(s)}]
  BY <1>3, <1>6 DEF IsSum
<1>8. h[s] = f[Pick(s)] + h[s \ {Pick(s)}]
  BY <1>3, <1>6 DEF IsSum
<1>9. QED
  BY <1>2, <1>5, <1>7, <1>8

(* SumOf satisfies its recursion.                                          *)
PartialSums(f, T) == [s \in SUBSET T |-> SumOf(f, s)]

(* There is one: the sums of the subsets.                                  *)
LEMMA SumOfComputes ==
    ASSUME NEW f, NEW S, IsFiniteSet(S)
    PROVE  IsSum(PartialSums(f, S), f, S)
<1> DEFINE D == {T \in SUBSET S : ~IsSum(PartialSums(f, T), f, T)}
<1> SUFFICES ASSUME D # {} PROVE FALSE
  OBVIOUS
<1>1. D \subseteq SUBSET S
  OBVIOUS
<1>2. PICK T \in D : \A t \in D : ~(t \subseteq T /\ t # T)
  <2> HIDE DEF D
  <2> QED
    BY <1>1, LeastSet
<1>3. T \in SUBSET S /\ IsFiniteSet(T) /\ ~IsSum(PartialSums(f, T), f, T)
  BY <1>1, FS_Subset
<1>4. ASSUME NEW s \in SUBSET T, s # T
      PROVE  /\ s = {} => SumOf(f, s) = 0
             /\ s # {} => SumOf(f, s) = f[Pick(s)] + SumOf(f, s \ {Pick(s)})
  <2>1. IsSum(PartialSums(f, s), f, s)
    BY <1>2, <1>3, <1>4
  <2>2. \A t \in SUBSET s : PartialSums(f, s)[t] = SumOf(f, t)
    BY DEF PartialSums
  <2>3. PartialSums(f, s)[s] = IF s = {} THEN 0 ELSE f[Pick(s)] + PartialSums(f, s)[s \ {Pick(s)}]
    BY <2>1 DEF IsSum
  <2>4. QED
    BY <2>2, <2>3
<1> DEFINE top == IF T = {} THEN 0 ELSE f[Pick(T)] + SumOf(f, T \ {Pick(T)})
           g == [s \in SUBSET T |-> IF s = T THEN top ELSE SumOf(f, s)]
<1>5. ASSUME NEW s \in SUBSET T
      PROVE  g[s] = IF s = {} THEN 0 ELSE f[Pick(s)] + g[s \ {Pick(s)}]
  <2>1. s # {} => s \ {Pick(s)} \in SUBSET T /\ s \ {Pick(s)} # T
    BY PickIsMember
  <2>2. s # {} => g[s \ {Pick(s)}] = SumOf(f, s \ {Pick(s)})
    BY <2>1
  <2>3. CASE s = T
    BY <2>2, <2>3
  <2>4. CASE s # T
    <3>1. g[s] = SumOf(f, s)
      BY <2>4
    <3>2. QED
      BY <1>4, <2>2, <2>4, <3>1
  <2>5. QED
    BY <2>3, <2>4
<1>6. IsSum(g, f, T)
  <2> DEFINE r == [s \in SUBSET T |-> IF s = {} THEN 0 ELSE f[Pick(s)] + g[s \ {Pick(s)}]]
  <2>1. g = [s \in SUBSET T |-> g[s]]
    OBVIOUS
  <2> HIDE DEF g
  <2>2. g = r
    BY <1>5, <2>1
  <2>3. QED
    BY <2>2 DEF IsSum
<1>7. SumOf(f, T) = g[T]
  <2> HIDE DEF g
  <2>1. IsSum(CHOOSE h : IsSum(h, f, T), f, T)
    BY <1>6
  <2>2. (CHOOSE h : IsSum(h, f, T))[T] = g[T]
    BY <1>3, <1>6, <2>1, SumIsUnique
  <2>3. QED
    BY <2>2, SumOfIsSum
<1>8. PartialSums(f, T) = g
  <2>1. \A s \in SUBSET T : SumOf(f, s) = g[s]
    BY <1>7
  <2>2. QED
    BY <2>1 DEF PartialSums
<1>9. QED
  BY <1>3, <1>6, <1>8

(* The sum, one member at a time.                                          *)
LEMMA SumStep ==
    ASSUME NEW f, NEW S, IsFiniteSet(S)
    PROVE  /\ S = {} => SumOf(f, S) = 0
           /\ S # {} => SumOf(f, S) = f[Pick(S)] + SumOf(f, S \ {Pick(S)})
<1>1. IsSum(PartialSums(f, S), f, S)
  BY SumOfComputes
<1>2. \A t \in SUBSET S : PartialSums(f, S)[t] = SumOf(f, t)
  BY DEF PartialSums
<1>3. PartialSums(f, S)[S] = IF S = {} THEN 0 ELSE f[Pick(S)] + PartialSums(f, S)[S \ {Pick(S)}]
  BY <1>1 DEF IsSum
<1>4. QED
  BY <1>2, <1>3

(* The sum over no members.                                                *)
LEMMA SumEmpty == \A f : SumOf(f, {}) = 0
BY SumStep, FS_EmptySet

(* A sum of integers is an integer, one of naturals a natural.             *)
LEMMA SumType ==
    ASSUME NEW f, NEW S, IsFiniteSet(S), NEW N \in {Nat, Int}, \A x \in S : f[x] \in N
    PROVE  SumOf(f, S) \in N
<1> DEFINE D == {s \in SUBSET S : SumOf(f, s) \notin N}
<1> SUFFICES ASSUME D # {} PROVE FALSE
  OBVIOUS
<1>1. D \subseteq SUBSET S
  OBVIOUS
<1>2. PICK s \in D : \A t \in D : ~(t \subseteq s /\ t # s)
  <2> HIDE DEF D
  <2> QED
    BY <1>1, LeastSet
<1>3. s \in SUBSET S /\ IsFiniteSet(s) /\ SumOf(f, s) \notin N
  BY FS_Subset
<1>4. s # {}
  BY <1>3, SumEmpty
<1> DEFINE r == s \ {Pick(s)}
<1>5. Pick(s) \in s /\ r \in SUBSET S /\ r \subseteq s /\ r # s
  BY <1>3, <1>4, PickIsMember
<1>6. SumOf(f, r) \in N
  BY <1>2, <1>5
<1>7. SumOf(f, s) = f[Pick(s)] + SumOf(f, r)
  BY <1>3, <1>4, SumStep
<1>8. f[Pick(s)] \in N
  BY <1>3, <1>5
<1>9. QED
  BY <1>3, <1>6, <1>7, <1>8

(* Any member may be taken out first.                                      *)
LEMMA SumRemove ==
    ASSUME NEW f, NEW S, IsFiniteSet(S), \A x \in S : f[x] \in Int, NEW a \in S
    PROVE  SumOf(f, S) = f[a] + SumOf(f, S \ {a})
<1> DEFINE Bad(s) == \E x \in s : SumOf(f, s) # f[x] + SumOf(f, s \ {x})
           D == {s \in SUBSET S : Bad(s)}
<1> SUFFICES ASSUME D # {} PROVE FALSE
  OBVIOUS
<1>1. D \subseteq SUBSET S
  OBVIOUS
<1>2. PICK s \in D : \A t \in D : ~(t \subseteq s /\ t # s)
  <2> HIDE DEF D
  <2> QED
    BY <1>1, LeastSet
<1>3. s \in SUBSET S /\ IsFiniteSet(s) /\ Bad(s)
  BY FS_Subset
<1>4. PICK x \in s : SumOf(f, s) # f[x] + SumOf(f, s \ {x})
  BY <1>3
<1> DEFINE p == Pick(s)
<1>5. p \in s
  BY <1>4, PickIsMember
<1>6. SumOf(f, s) = f[p] + SumOf(f, s \ {p})
  BY <1>3, <1>4, SumStep
<1>7. p # x
  BY <1>4, <1>6
<1>8. ~Bad(s \ {p}) /\ ~Bad(s \ {x})
  <2> HIDE DEF Bad, p
  <2>1. ASSUME NEW y \in s PROVE ~Bad(s \ {y})
    <3>1. s \ {y} \in SUBSET S /\ s \ {y} \subseteq s /\ s \ {y} # s
      BY <1>3
    <3>2. QED
      BY <1>2, <3>1
  <2>2. QED
    BY <1>4, <1>5, <2>1
<1> HIDE DEF p
<1>9. SumOf(f, s \ {p}) = f[x] + SumOf(f, (s \ {p}) \ {x})
  BY <1>4, <1>7, <1>8
<1>10. SumOf(f, s \ {x}) = f[p] + SumOf(f, (s \ {x}) \ {p})
  BY <1>5, <1>7, <1>8
<1>11. (s \ {p}) \ {x} = (s \ {x}) \ {p}
  OBVIOUS
<1>12. f[p] \in Int /\ f[x] \in Int /\ SumOf(f, (s \ {x}) \ {p}) \in Int
  <2>1. IsFiniteSet((s \ {x}) \ {p}) /\ \A y \in (s \ {x}) \ {p} : f[y] \in Int
    BY <1>3, FS_Subset
  <2>2. SumOf(f, (s \ {x}) \ {p}) \in Int
    BY <2>1, SumType
  <2>3. QED
    BY <1>3, <1>4, <1>5, <2>2
<1> DEFINE v == SumOf(f, (s \ {x}) \ {p})
<1>13. v \in Int /\ SumOf(f, s \ {p}) = f[x] + v /\ SumOf(f, s \ {x}) = f[p] + v
  BY <1>9, <1>10, <1>11, <1>12
<1> HIDE DEF v, D, Bad
<1>14. QED
  BY <1>4, <1>6, <1>12, <1>13

(* A new member adds its value.                                            *)
LEMMA SumAdd ==
    ASSUME NEW f, NEW S, IsFiniteSet(S), NEW a, a \notin S, \A x \in S \cup {a} : f[x] \in Int
    PROVE  SumOf(f, S \cup {a}) = f[a] + SumOf(f, S)
<1>1. IsFiniteSet(S \cup {a}) /\ a \in S \cup {a} /\ (S \cup {a}) \ {a} = S
  BY FS_AddElement
<1>2. SumOf(f, S \cup {a}) = f[a] + SumOf(f, (S \cup {a}) \ {a})
  <2> DEFINE T == S \cup {a}
  <2>1. IsFiniteSet(T) /\ a \in T /\ \A x \in T : f[x] \in Int
    BY <1>1
  <2> HIDE DEF T
  <2>2. SumOf(f, T) = f[a] + SumOf(f, T \ {a})
    BY <2>1, SumRemove
  <2>3. QED
    BY <2>2 DEF T
<1>3. QED
  BY <1>1, <1>2

(* Only the values on the set matter.                                      *)
LEMMA SumSame ==
    ASSUME NEW f, NEW g, NEW S, IsFiniteSet(S), \A x \in S : f[x] = g[x]
    PROVE  SumOf(f, S) = SumOf(g, S)
<1> DEFINE D == {s \in SUBSET S : SumOf(f, s) # SumOf(g, s)}
<1> SUFFICES ASSUME D # {} PROVE FALSE
  OBVIOUS
<1>1. D \subseteq SUBSET S
  OBVIOUS
<1>2. PICK s \in D : \A t \in D : ~(t \subseteq s /\ t # s)
  <2> HIDE DEF D
  <2> QED
    BY <1>1, LeastSet
<1>3. s \in SUBSET S /\ IsFiniteSet(s) /\ SumOf(f, s) # SumOf(g, s)
  BY FS_Subset
<1>4. s # {}
  BY <1>3, SumEmpty
<1> DEFINE r == s \ {Pick(s)}
<1>5. Pick(s) \in s /\ r \in SUBSET S /\ r \subseteq s /\ r # s
  BY <1>3, <1>4, PickIsMember
<1>6. SumOf(f, r) = SumOf(g, r)
  BY <1>2, <1>5
<1>7. /\ SumOf(f, s) = f[Pick(s)] + SumOf(f, r)
      /\ SumOf(g, s) = g[Pick(s)] + SumOf(g, r)
  BY <1>3, <1>4, SumStep
<1>8. f[Pick(s)] = g[Pick(s)]
  BY <1>3, <1>5
<1>9. QED
  BY <1>3, <1>6, <1>7, <1>8

(* One value is changed.                                                   *)
LEMMA SumUpdate ==
    ASSUME NEW f, NEW g, NEW S, IsFiniteSet(S), NEW a \in S,
           \A x \in S : f[x] \in Int /\ g[x] \in Int,
           \A x \in S \ {a} : f[x] = g[x]
    PROVE  SumOf(g, S) = SumOf(f, S) - f[a] + g[a]
<1>1. IsFiniteSet(S \ {a})
  BY FS_RemoveElement
<1>2. SumOf(f, S \ {a}) = SumOf(g, S \ {a})
  BY <1>1, SumSame
<1>3. SumOf(f, S \ {a}) \in Int
  BY <1>1, SumType
<1>4. SumOf(f, S) = f[a] + SumOf(f, S \ {a}) /\ SumOf(g, S) = g[a] + SumOf(g, S \ {a})
  BY SumRemove
<1>5. QED
  BY <1>2, <1>3, <1>4

(* Members that count for nothing.                                         *)
LEMMA SumZero ==
    ASSUME NEW f, NEW S, IsFiniteSet(S), \A x \in S : f[x] = 0
    PROVE  SumOf(f, S) = 0
<1> DEFINE D == {s \in SUBSET S : SumOf(f, s) # 0}
<1> SUFFICES ASSUME D # {} PROVE FALSE
  OBVIOUS
<1>1. D \subseteq SUBSET S
  OBVIOUS
<1>2. PICK s \in D : \A t \in D : ~(t \subseteq s /\ t # s)
  <2> HIDE DEF D
  <2> QED
    BY <1>1, LeastSet
<1>3. s \in SUBSET S /\ IsFiniteSet(s) /\ SumOf(f, s) # 0
  BY FS_Subset
<1>4. s # {}
  BY <1>3, SumEmpty
<1> DEFINE r == s \ {Pick(s)}
<1>5. Pick(s) \in s /\ r \in SUBSET S /\ r \subseteq s /\ r # s
  BY <1>3, <1>4, PickIsMember
<1>6. SumOf(f, r) = 0
  BY <1>2, <1>5
<1>7. SumOf(f, s) = f[Pick(s)] + SumOf(f, r)
  BY <1>3, <1>4, SumStep
<1>8. QED
  BY <1>3, <1>5, <1>6, <1>7

(* Members that count for nothing may be left out.                         *)
LEMMA SumFilter ==
    ASSUME NEW f, NEW S, IsFiniteSet(S), NEW T, T \subseteq S,
           \A x \in S : f[x] \in Int, \A x \in S \ T : f[x] = 0
    PROVE  SumOf(f, S) = SumOf(f, T)
<1> DEFINE D == {s \in SUBSET S : SumOf(f, s) # SumOf(f, s \cap T)}
<1> SUFFICES ASSUME D # {} PROVE FALSE
  <2>1. S \cap T = T
    OBVIOUS
  <2>2. QED
    BY <2>1
<1>1. D \subseteq SUBSET S
  OBVIOUS
<1>2. PICK s \in D : \A t \in D : ~(t \subseteq s /\ t # s)
  <2> HIDE DEF D
  <2> QED
    BY <1>1, LeastSet
<1>3. s \in SUBSET S /\ IsFiniteSet(s) /\ SumOf(f, s) # SumOf(f, s \cap T)
  BY FS_Subset
<1>4. s # {}
  <2>1. SUFFICES ASSUME s = {} PROVE FALSE
    OBVIOUS
  <2>2. s \cap T = s
    BY <2>1
  <2>3. QED
    BY <1>3, <2>2
<1>5. PICK a \in s : TRUE
  BY <1>4
<1>6. PICK r : r = s \ {a}
  OBVIOUS
<1>7. SumOf(f, r) = SumOf(f, r \cap T)
  <2>1. r \in SUBSET S /\ r \subseteq s /\ r # s
    BY <1>3, <1>5, <1>6
  <2>2. QED
    BY <1>2, <2>1
<1>8. SumOf(f, s) = f[a] + SumOf(f, r)
  <2>1. \A x \in s : f[x] \in Int
    BY <1>3
  <2>2. QED
    BY <1>3, <1>5, <1>6, <2>1, SumRemove
<1>9. CASE a \in T
  <2>1. PICK u : u = s \cap T
    OBVIOUS
  <2>2. a \in u /\ u \ {a} = r \cap T /\ IsFiniteSet(u) /\ \A x \in u : f[x] \in Int
    <3>1. IsFiniteSet(u)
      BY <1>3, <2>1, FS_Subset
    <3>2. QED
      BY <1>3, <1>5, <1>6, <1>9, <2>1, <3>1
  <2>3. SumOf(f, u) = f[a] + SumOf(f, u \ {a})
    BY <2>2, SumRemove
  <2>4. SumOf(f, s) = SumOf(f, u)
    BY <1>7, <1>8, <2>2, <2>3
  <2>5. QED
    BY <1>3, <2>1, <2>4
<1>10. CASE a \notin T
  <2>1. r \cap T = s \cap T
    BY <1>6, <1>10
  <2>2. SumOf(f, r) \in Int
    <3>1. IsFiniteSet(r) /\ \A x \in r : f[x] \in Int
      BY <1>3, <1>6, FS_Subset
    <3>2. QED
      BY <3>1, SumType
  <2>3. f[a] = 0
    BY <1>3, <1>5, <1>10
  <2>4. SumOf(f, s) = SumOf(f, r)
    BY <1>8, <2>2, <2>3
  <2>5. QED
    BY <1>3, <1>7, <2>1, <2>4
<1>11. QED
  BY <1>9, <1>10

(* The sum over the image of a set under an injection.                     *)
LEMMA SumImage ==
    ASSUME NEW f, NEW g, NEW h, NEW S, IsFiniteSet(S), \A x \in S : f[x] \in Int,
           \A x, y \in S : h[x] = h[y] => x = y,
           \A x \in S : g[h[x]] = f[x]
    PROVE  SumOf(g, {h[x] : x \in S}) = SumOf(f, S)
<1> DEFINE Img(s) == {h[x] : x \in s}
           D == {s \in SUBSET S : SumOf(g, Img(s)) # SumOf(f, s)}
<1> SUFFICES ASSUME D # {} PROVE FALSE
  OBVIOUS
<1>1. D \subseteq SUBSET S
  OBVIOUS
<1>2. PICK s \in D : \A t \in D : ~(t \subseteq s /\ t # s)
  <2> HIDE DEF D
  <2> QED
    BY <1>1, LeastSet
<1>3. s \in SUBSET S /\ IsFiniteSet(s) /\ SumOf(g, Img(s)) # SumOf(f, s)
  BY FS_Subset
<1>4. s # {}
  <2>1. Img({}) = {}
    OBVIOUS
  <2> QED
    BY <1>3, <2>1, SumEmpty
<1>5. PICK a \in s : TRUE
  BY <1>4
<1>6. PICK r : r = s \ {a}
  OBVIOUS
<1>7. SumOf(g, Img(r)) = SumOf(f, r)
  <2>1. r \in SUBSET S /\ r \subseteq s /\ r # s
    BY <1>3, <1>5, <1>6
  <2> QED
    BY <1>2, <2>1
<1>8. SumOf(f, s) = f[a] + SumOf(f, r)
  <2>1. \A x \in s : f[x] \in Int
    BY <1>3
  <2> QED
    BY <1>3, <1>5, <1>6, <2>1, SumRemove
<1>9. SumOf(g, Img(s)) = g[h[a]] + SumOf(g, Img(r))
  <2>1. h[a] \in Img(s) /\ Img(s) \ {h[a]} = Img(r)
    BY <1>3, <1>5, <1>6
  <2>2. IsFiniteSet(Img(s))
    <3>1. [x \in s |-> h[x]] \in Surjection(s, Img(s))
      BY DEF Surjection
    <3> QED
      BY <1>3, <3>1, FS_Surjection
  <2>3. \A y \in Img(s) : g[y] \in Int
    BY <1>3
  <2>4. PICK T : T = Img(s)
    OBVIOUS
  <2>5. SumOf(g, T) = g[h[a]] + SumOf(g, T \ {h[a]})
    BY <2>1, <2>2, <2>3, <2>4, SumRemove
  <2> QED
    BY <2>1, <2>4, <2>5
<1>10. g[h[a]] = f[a]
  BY <1>3, <1>5
<1>11. QED
  BY <1>3, <1>7, <1>8, <1>9, <1>10
=============================================================================
