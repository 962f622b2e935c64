----------------------- MODULE ArchiveInspectionProofs -----------------------
(***************************************************************************)
(* The rules for packages, for archives of any size nested to any depth:   *)
(* inspect_archive finds exactly what makes an archive unacceptable, every *)
(* nested archive is inspected, and a package that passes as a ZIP file    *)
(* passes as the directory it extracts to.                                 *)
(***************************************************************************)
EXTENDS DocumentEditingProofs

(* A recursion over numbers has a solution when the step from each value   *)
(* to the next is a function on some set.                                  *)

Iterates(f, A, base, step, N) ==
    /\ f \in [0 .. N -> A] /\ f[0] = base
    /\ \A n \in Nat : n < N => f[n] \in A /\ f[n + 1] = step[f[n]]

LEMMA Iteration ==
    ASSUME NEW A, NEW base \in A, NEW step \in [A -> A], NEW N \in Nat
    PROVE  \E f : Iterates(f, A, base, step, N)
<1> DEFINE S == {k \in Nat : \E f : Iterates(f, A, base, step, k)}
<1>1. 0 \in S
  <2>1. Iterates([n \in 0 .. 0 |-> base], A, base, step, 0)
    BY DEF Iterates
  <2>2. QED BY <2>1
<1>2. ASSUME NEW k \in Nat, k \in S PROVE k + 1 \in S
  <2>1. PICK f : Iterates(f, A, base, step, k)
    BY <1>2
  <2> DEFINE g == [n \in 0 .. k + 1 |-> IF n = k + 1 THEN step[f[k]] ELSE f[n]]
  <2>2. f[k] \in A /\ step[f[k]] \in A
    <3>1. f \in [0 .. k -> A] /\ k \in 0 .. k
      BY <2>1 DEF Iterates
    <3>2. QED BY <3>1
  <2>3. g \in [0 .. k + 1 -> A] /\ g[0] = base
    BY <2>1, <2>2 DEF Iterates
  <2>4. ASSUME NEW n \in Nat, n < k + 1 PROVE g[n] \in A /\ g[n + 1] = step[g[n]]
    <3>1. CASE n = k
      BY <2>2, <3>1
    <3>2. CASE n < k
      <4>1. g[n] = f[n] /\ g[n + 1] = f[n + 1]
        BY <3>2
      <4> HIDE DEF g
      <4>2. QED BY <2>1, <3>2, <4>1 DEF Iterates
    <3>3. QED BY <2>4, <3>1, <3>2
  <2> HIDE DEF g
  <2>5. Iterates(g, A, base, step, k + 1)
    BY <2>3, <2>4 DEF Iterates
  <2>6. QED BY <2>5
<1> HIDE DEF S
<1>3. \A n \in Nat : n \in S
  BY <1>1, <1>2, Induction
<1>4. QED BY <1>3 DEF S
-----------------------------------------------------------------------------
(***************************************************************************)
(* The bytes that the members expand to: a sum over the indices of a list, *)
(* in whatever order MapThenSumSet takes them.                             *)
(***************************************************************************)
(* The sums of g over the subsets of its domain, as MapThenSumSet has them.*)
Pick(T) == CHOOSE x \in T : TRUE
Sums(sum, g) ==
    sum = [T \in SUBSET (DOMAIN g) |->
             IF T = {} THEN 0 ELSE g[Pick(T)] + sum[T \ {Pick(T)}]]

SumOver(D, g, sum) ==
    IsFiniteSet(D) /\ g \in [D -> Nat] /\ sum \in [SUBSET D -> Nat] /\ Sums(sum, g)

(* One element less, of a finite set.                                      *)
LEMMA Smaller ==
    ASSUME NEW D, IsFiniteSet(D), NEW T \in SUBSET D, NEW x \in T
    PROVE  /\ Cardinality(T) \in Nat \ {0}
           /\ T \ {x} \in SUBSET D
           /\ Cardinality(T \ {x}) = Cardinality(T) - 1
           /\ Cardinality(T) <= Cardinality(D) /\ Cardinality(D) \in Nat
<1>1. IsFiniteSet(T) /\ Cardinality(T) <= Cardinality(D)
  BY FS_Subset
<1>2. Cardinality(T) \in Nat /\ Cardinality(D) \in Nat
  BY <1>1, FS_CardinalityType
<1>3. Cardinality(T) # 0
  BY <1>1, FS_EmptySet
<1>4. Cardinality(T \ {x}) = Cardinality(T) - 1
  BY <1>1, FS_RemoveElement
<1>5. QED BY <1>1, <1>2, <1>3, <1>4

(* The recursion over subsets has a solution.                              *)
LEMMA SumExists ==
    ASSUME NEW D, IsFiniteSet(D), NEW g \in [D -> Nat]
    PROVE  \E sum : SumOver(D, g, sum)
<1> DEFINE A == [SUBSET D -> Nat]
           Next_(h) == [T \in SUBSET D |->
                          IF T = {} THEN 0 ELSE g[Pick(T)] + h[T \ {Pick(T)}]]
           step == [h \in A |-> Next_(h)]
           base == [T \in SUBSET D |-> 0]
           N == Cardinality(D)
<1>1. \A T \in SUBSET D : T # {} => Pick(T) \in T /\ Pick(T) \in D
  BY DEF Pick
<1>2. \A h \in A : Next_(h) \in A
  BY <1>1
<1>3. step \in [A -> A] /\ base \in A
  BY <1>2
<1>4. N \in Nat
  BY FS_CardinalityType
<1>5. \E f : Iterates(f, A, base, step, N)
  <2> HIDE DEF A, step, base, N
  <2>1. QED BY <1>3, <1>4, Iteration
<1>6. PICK f \in [0 .. N -> A] :
         f[0] = base /\ \A n \in Nat : n < N => f[n + 1] = Next_(f[n])
  <2>1. \A h \in A : step[h] = Next_(h)
    OBVIOUS
  <2> HIDE DEF A, step, base, N, Next_
  <2>2. QED BY <1>5, <2>1 DEF Iterates
<1> DEFINE sum == [T \in SUBSET D |-> f[Cardinality(T)][T]]
<1>7. ASSUME NEW T \in SUBSET D
      PROVE  Cardinality(T) \in 0 .. N
  BY FS_Subset, FS_CardinalityType
<1>8. sum \in [SUBSET D -> Nat]
  BY <1>7
<1>9. ASSUME NEW T \in SUBSET D
      PROVE  sum[T] = IF T = {} THEN 0 ELSE g[Pick(T)] + sum[T \ {Pick(T)}]
  <2>1. CASE T = {}
    BY <1>6, <2>1, FS_EmptySet
  <2>2. CASE T # {}
    <3> DEFINE U == T \ {Pick(T)}
               c == Cardinality(T) - 1
    <3>1. c \in Nat /\ c < N /\ c + 1 = Cardinality(T) /\ Cardinality(U) = c /\ U \in SUBSET D
      <4>1. Pick(T) \in T
        BY <1>1, <2>2
      <4>2. /\ Cardinality(T) \in Nat \ {0} /\ Cardinality(T) <= N
            /\ U \in SUBSET D /\ Cardinality(U) = Cardinality(T) - 1
        BY <4>1, Smaller
      <4> HIDE DEF U, N
      <4>3. QED BY <4>2, <1>4
    <3>2. f[c + 1] = Next_(f[c])
      BY <1>6, <3>1
    <3>3. f[c + 1][T] = g[Pick(T)] + f[c][U]
      BY <2>2, <3>2
    <3>4. sum[T] = f[c + 1][T] /\ sum[U] = f[c][U]
      BY <3>1
    <3> HIDE DEF sum, U, c
    <3>5. QED BY <2>2, <3>3, <3>4 DEF U
  <2>3. QED BY <2>1, <2>2
<1>10. DOMAIN g = D /\ sum = [T \in SUBSET D |-> sum[T]]
  OBVIOUS
<1> HIDE DEF sum
<1>11. Sums(sum, g)
  <2>1. [T \in SUBSET D |-> sum[T]] =
        [T \in SUBSET D |-> IF T = {} THEN 0 ELSE g[Pick(T)] + sum[T \ {Pick(T)}]]
    BY <1>9, Zenon
  <2>2. QED BY <1>10, <2>1, Zenon DEF Sums
<1>12. QED BY <1>8, <1>11 DEF SumOver

(* The element that is taken first does not matter.                        *)
LEMMA SumTakes ==
    ASSUME NEW D, NEW g, NEW sum, SumOver(D, g, sum), NEW U \in SUBSET D, NEW e \in U
    PROVE  sum[U] = g[e] + sum[U \ {e}]
<1> USE DEF SumOver
<1> DEFINE Takes(T) == \A x \in T : sum[T] = g[x] + sum[T \ {x}]
           S == {n \in Nat : \A T \in SUBSET D : Cardinality(T) = n => Takes(T)}
<1>1. 0 \in S
  <2>1. \A T \in SUBSET D : Cardinality(T) = 0 => T = {}
    BY FS_Subset, FS_EmptySet
  <2>2. QED BY <2>1
<1>2. ASSUME NEW n \in Nat, \A T \in SUBSET D : Cardinality(T) = n => Takes(T),
             NEW T \in SUBSET D, Cardinality(T) = n + 1, NEW x \in T
      PROVE  sum[T] = g[x] + sum[T \ {x}]
  <2> DEFINE y == Pick(T)
  <2>1. y \in T
    BY DEF Pick
  <2>2. sum[T] = g[y] + sum[T \ {y}]
    BY DEF Sums
  <2>3. CASE x = y
    BY <2>2, <2>3
  <2>4. CASE x # y
    <3>1. T \ {y} \in SUBSET D /\ Cardinality(T \ {y}) = n /\ x \in T \ {y}
          /\ T \ {x} \in SUBSET D /\ Cardinality(T \ {x}) = n /\ y \in T \ {x}
      <4>1. Cardinality(T \ {y}) = Cardinality(T) - 1
        BY <2>1, Smaller
      <4>2. Cardinality(T \ {x}) = Cardinality(T) - 1
        BY Smaller
      <4> HIDE DEF y
      <4>3. QED BY <1>2, <2>1, <2>4, <4>1, <4>2
    <3>2. sum[T \ {y}] = g[x] + sum[(T \ {y}) \ {x}]
          /\ sum[T \ {x}] = g[y] + sum[(T \ {x}) \ {y}]
      BY <1>2, <3>1
    <3>3. (T \ {y}) \ {x} = (T \ {x}) \ {y}
      OBVIOUS
    <3>4. g[x] \in Nat /\ g[y] \in Nat /\ sum[(T \ {y}) \ {x}] \in Nat
      BY <2>1
    <3>5. sum[T \ {x}] = g[y] + sum[(T \ {y}) \ {x}]
      BY <3>2, <3>3
    <3> HIDE DEF y
    <3>6. QED BY <2>2, <3>2, <3>4, <3>5
  <2>5. QED BY <2>3, <2>4
<1>3. ASSUME NEW n \in Nat, n \in S PROVE n + 1 \in S
  <2>1. \A T \in SUBSET D : Cardinality(T) = n => Takes(T)
    BY <1>3
  <2>2. \A T \in SUBSET D : Cardinality(T) = n + 1 => Takes(T)
    BY <1>2, <2>1
  <2> HIDE DEF Takes
  <2>3. QED BY <2>2
<1> HIDE DEF S
<1>4. \A n \in Nat : n \in S
  BY <1>1, <1>3, Induction
<1>5. Cardinality(U) \in Nat
  BY FS_Subset, FS_CardinalityType
<1>6. QED BY <1>4, <1>5 DEF S

Bytes(s) == [i \in DOMAIN s |-> IF IsData(s[i]) THEN s[i].size ELSE 0]

(* The indices of a list are finite, its bytes are numbers.                *)
LEMMA BytesTyped ==
    ASSUME NEW s \in Seq(Member)
    PROVE  IsFiniteSet(DOMAIN s) /\ Bytes(s) \in [DOMAIN s -> Nat]
<1>1. DOMAIN s = 1 .. Len(s) /\ Len(s) \in Nat
  OBVIOUS
<1>2. IsFiniteSet(DOMAIN s)
  BY <1>1, FS_Interval
<1>3. ASSUME NEW i \in DOMAIN s PROVE s[i].size \in Nat
  <2>1. s[i] \in Member
    BY <1>1
  <2>2. s[i].size \in 0 .. MaxSize
    BY <2>1 DEF Member
  <2>3. QED BY <2>2, SizeAssumption
<1>4. QED BY <1>2, <1>3 DEF Bytes

(* Two sums agree where what they sum does.                                *)
LEMMA SumsAgree ==
    ASSUME NEW D, NEW g, NEW sum, SumOver(D, g, sum),
           NEW h, NEW total, Sums(total, h),
           NEW C \in SUBSET (D \cap DOMAIN h), \A x \in C : g[x] = h[x]
    PROVE  sum[C] = total[C]
<1> USE DEF SumOver
<1> DEFINE Same(T) == (\A x \in T : g[x] = h[x]) => sum[T] = total[T]
           S == {n \in Nat : \A T \in SUBSET (D \cap DOMAIN h) : Cardinality(T) = n => Same(T)}
<1>1. 0 \in S
  <2>1. \A T \in SUBSET (D \cap DOMAIN h) : Cardinality(T) = 0 => T = {}
    BY FS_Subset, FS_EmptySet
  <2>2. Same({})
    BY DEF Sums
  <2> HIDE DEF Same
  <2>3. QED BY <2>1, <2>2
<1>2. ASSUME NEW n \in Nat, \A T \in SUBSET (D \cap DOMAIN h) : Cardinality(T) = n => Same(T),
             NEW T \in SUBSET (D \cap DOMAIN h), Cardinality(T) = n + 1,
             \A x \in T : g[x] = h[x]
      PROVE  sum[T] = total[T]
  <2> DEFINE y == Pick(T)
             U == T \ {y}
  <2>1. y \in T /\ T # {}
    <3>1. T # {}
      <4>1. Cardinality({}) = 0
        BY FS_EmptySet
      <4>2. Cardinality(T) # 0
        BY <1>2
      <4>3. QED BY ONLY <4>1, <4>2, Zenon
    <3>2. QED BY <3>1 DEF Pick
  <2>2. sum[T] = g[y] + sum[U] /\ total[T] = h[y] + total[U]
    BY <2>1 DEF Sums
  <2>3. U \in SUBSET (D \cap DOMAIN h) /\ Cardinality(U) = n
    <3>1. T \in SUBSET D
      OBVIOUS
    <3>2. Cardinality(U) = Cardinality(T) - 1
      BY <2>1, <3>1, Smaller
    <3>3. QED BY <1>2, <3>2
  <2>4. sum[U] = total[U]
    BY <1>2, <2>3
  <2>5. g[y] = h[y]
    BY <1>2, <2>1
  <2> HIDE DEF y, U
  <2>6. QED BY <2>2, <2>4, <2>5
<1>3. ASSUME NEW n \in Nat, n \in S PROVE n + 1 \in S
  <2>1. \A T \in SUBSET (D \cap DOMAIN h) : Cardinality(T) = n => Same(T)
    BY <1>3
  <2>2. \A T \in SUBSET (D \cap DOMAIN h) : Cardinality(T) = n + 1 => Same(T)
    BY <1>2, <2>1
  <2> HIDE DEF Same
  <2>3. QED BY <2>2
<1> HIDE DEF S
<1>4. \A n \in Nat : n \in S
  BY <1>1, <1>3, Induction
<1>5. Cardinality(C) \in Nat
  BY FS_Subset, FS_CardinalityType
<1>6. QED BY <1>4, <1>5 DEF S

(* What is summed only grows with the set.                                 *)
LEMMA SumGrows ==
    ASSUME NEW D, NEW g, NEW sum, SumOver(D, g, sum), NEW C \in SUBSET D
    PROVE  sum[C] \in Nat /\ sum[D] \in Nat /\ sum[C] <= sum[D]
<1> DEFINE Grows(U) == \A T \in SUBSET U : sum[T] <= sum[U]
           S == {n \in Nat : \A U \in SUBSET D : Cardinality(U) = n => Grows(U)}
<1>1. 0 \in S
  <2>1. \A U \in SUBSET D : Cardinality(U) = 0 => U = {}
    BY FS_Subset, FS_EmptySet DEF SumOver
  <2>2. Grows({})
    <3>1. sum[{}] \in Nat
      BY DEF SumOver
    <3>2. sum[{}] <= sum[{}]
      BY <3>1
    <3>3. \A T \in SUBSET {} : T = {}
      OBVIOUS
    <3>4. QED BY <3>2, <3>3, Zenon
  <2> HIDE DEF Grows
  <2>3. QED BY <2>1, <2>2
<1>2. ASSUME NEW n \in Nat, \A U \in SUBSET D : Cardinality(U) = n => Grows(U),
             NEW U \in SUBSET D, Cardinality(U) = n + 1, NEW T \in SUBSET U
      PROVE  sum[T] <= sum[U]
  <2>1. CASE T = U
    <3>1. sum[U] \in Nat
      BY DEF SumOver
    <3>2. QED BY <2>1, <3>1
  <2>2. CASE T # U
    <3>1. PICK x \in U : x \notin T
      BY <2>2
    <3>2. U \ {x} \in SUBSET D /\ Cardinality(U \ {x}) = n
      BY <1>2, Smaller DEF SumOver
    <3>3. sum[T] <= sum[U \ {x}]
      BY <1>2, <3>1, <3>2
    <3>4. sum[U] = g[x] + sum[U \ {x}]
      BY SumTakes
    <3>5. g[x] \in Nat /\ sum[T] \in Nat /\ sum[U \ {x}] \in Nat
      BY <3>2 DEF SumOver
    <3>6. QED BY <3>3, <3>4, <3>5
  <2>3. QED BY <2>1, <2>2
<1>3. ASSUME NEW n \in Nat, n \in S PROVE n + 1 \in S
  <2>1. \A U \in SUBSET D : Cardinality(U) = n => Grows(U)
    BY <1>3
  <2>2. \A U \in SUBSET D : Cardinality(U) = n + 1 => Grows(U)
    BY <1>2, <2>1
  <2> HIDE DEF Grows
  <2>3. QED BY <2>2
<1> HIDE DEF S
<1>4. \A n \in Nat : n \in S
  BY <1>1, <1>3, Induction
<1>5. Cardinality(D) \in Nat
  BY FS_CardinalityType DEF SumOver
<1>6. QED BY <1>4, <1>5 DEF S, SumOver

(* Expanded is that sum, over any set of indices.                          *)
LEMMA ExpandedIsSum ==
    ASSUME NEW s \in Seq(Member), NEW sum, SumOver(DOMAIN s, Bytes(s), sum),
           NEW chosen \in SUBSET (DOMAIN s)
    PROVE  Expanded(s, chosen) = sum[chosen]
<1> DEFINE g == [i \in chosen |-> Bytes(s)[i]]
           Recurs(h) == h = [T \in SUBSET chosen |->
             IF T = {} THEN 0
             ELSE (IF IsData(s[Pick(T)]) THEN s[Pick(T)].size ELSE 0)
                  + h[T \ {Pick(T)}]]
           iter == CHOOSE h : Recurs(h)
<1>1. IsFiniteSet(chosen) /\ g \in [chosen -> Nat]
  BY BytesTyped, FS_Subset
<1>2. ASSUME NEW h PROVE Sums(h, g) <=> Recurs(h)
  <2>1. \A T \in SUBSET chosen : T # {} =>
           g[Pick(T)] = IF IsData(s[Pick(T)]) THEN s[Pick(T)].size ELSE 0
    BY DEF Bytes, Pick
  <2>2. [T \in SUBSET chosen |-> IF T = {} THEN 0 ELSE g[Pick(T)] + h[T \ {Pick(T)}]]
        = [T \in SUBSET chosen |->
             IF T = {} THEN 0
             ELSE (IF IsData(s[Pick(T)]) THEN s[Pick(T)].size ELSE 0)
                  + h[T \ {Pick(T)}]]
    <3> HIDE DEF g
    <3>1. QED BY <2>1
  <2>3. DOMAIN g = chosen
    OBVIOUS
  <2> HIDE DEF g
  <2>4. QED BY <2>2, <2>3, Zenon DEF Sums
<1>3. Recurs(iter)
  <2>1. PICK h : SumOver(chosen, g, h)
    BY <1>1, SumExists
  <2>2. Recurs(h)
    BY <1>2, <2>1 DEF SumOver
  <2> HIDE DEF Recurs
  <2>3. QED BY <2>2
<1>4. Expanded(s, chosen) = iter[chosen]
  BY Zenon DEF Expanded, MapThenSumSet, MapThenFoldSet, Pick
<1>5. Sums(iter, g)
  BY <1>2, <1>3
<1>6. iter[chosen] = sum[chosen]
  <2>1. chosen \in SUBSET (DOMAIN s \cap DOMAIN g) /\ \A x \in chosen : Bytes(s)[x] = g[x]
    OBVIOUS
  <2> HIDE DEF g, iter
  <2>2. QED BY <1>5, <2>1, SumsAgree
<1>7. QED BY <1>4, <1>6

(* No choice of members expands to more than all of them.                  *)
LEMMA ExpandedGrows ==
    ASSUME NEW s \in Seq(Member), NEW chosen \in SUBSET (DOMAIN s)
    PROVE  /\ Expanded(s, chosen) \in Nat /\ Expanded(s, DOMAIN s) \in Nat
           /\ Expanded(s, chosen) <= Expanded(s, DOMAIN s)
<1>1. PICK sum : SumOver(DOMAIN s, Bytes(s), sum)
  BY BytesTyped, SumExists
<1>2. Expanded(s, chosen) = sum[chosen]
  BY <1>1, ExpandedIsSum
<1>3. Expanded(s, DOMAIN s) = sum[DOMAIN s]
  BY <1>1, ExpandedIsSum
<1>4. QED BY <1>1, <1>2, <1>3, SumGrows
-----------------------------------------------------------------------------
(***************************************************************************)
(* One archive, without what is nested: no issue exactly when it is clean. *)
(***************************************************************************)

(* A bomb is what exceeds the ratio, the empty member included.            *)
LEMMA NotBomb ==
    ASSUME NEW m \in Member
    PROVE  /\ ~Oversized(m) <=> m.size <= Limits.member
           /\ ~Bomb(m) <=> m.size <= Limits.ratio * m.packed
<1>1. m.size \in 0 .. MaxSize /\ m.packed \in 0 .. MaxSize
  BY DEF Member
<1>2. m.size \in Nat /\ m.packed \in Nat
  BY <1>1, SizeAssumption
<1>3. Limits.ratio \in Nat /\ Limits.member \in Nat
  BY LimitsAssumption
<1>4. Limits.ratio * m.packed \in Nat /\ (m.packed = 0 => Limits.ratio * m.packed = 0)
  BY <1>2, <1>3
<1>5. QED BY <1>2, <1>3, <1>4 DEF Oversized, Bomb

(* Duplicates and collisions together: no two names fold to the same.      *)
LEMMA NamesAreClean ==
    ASSUME NEW s \in Seq(Member)
    PROVE  NameIssues(s) = {} <=>
              \A i, j \in DOMAIN s : FoldOf[s[i].name] = FoldOf[s[j].name] => i = j
BY DEF NameIssues, CaseIssues, When

(* The rules for one member.                                               *)
LEMMA MembersAreClean ==
    ASSUME NEW m \in Member
    PROVE  MemberIssues(m) = {} <=>
              /\ IsSafe(m) /\ ~m.encrypted /\ ~m.link
              /\ m.name \notin DirectoryName =>
                   m.size <= Limits.member /\ m.size <= Limits.ratio * m.packed
<1>1. MemberIssues(m) = {} <=>
         /\ IsSafe(m) /\ ~m.encrypted /\ ~m.link
         /\ IsData(m) => ~Oversized(m) /\ ~Bomb(m)
  BY DEF MemberIssues, When
<1>2. IsSafe(m) => (IsData(m) <=> m.name \notin DirectoryName)
  BY DEF IsData
<1>3. QED BY <1>1, <1>2, NotBomb

(* testzip stops early, but reports nothing only when there is nothing.    *)
LEMMA TestIsClean ==
    ASSUME NEW s
    PROVE  TestIssues(s) = {} <=> \A i \in DOMAIN s : ~s[i].encrypted /\ ~s[i].corrupt
BY DEF TestIssues

(* One root, among members that are all safe.                              *)
LEMMA OneRoot ==
    ASSUME NEW s \in Seq(Member), \A m \in ToSet(s) : IsSafe(m)
    PROVE  Cardinality(Roots(s)) = 1 <=>
              s # <<>> /\ \A i, j \in DOMAIN s : RootOf[s[i].name] = RootOf[s[j].name]
<1> DEFINE R == {RootOf[s[i].name] : i \in DOMAIN s}
<1>1. Roots(s) = R
  <2>1. {n \in ToSet(s) : IsSafe(n)} = {s[i] : i \in DOMAIN s}
    BY DEF ToSet
  <2>2. QED BY <2>1 DEF Roots
<1>2. DOMAIN s = 1 .. Len(s) /\ Len(s) \in Nat /\ IsFiniteSet(DOMAIN s)
  BY BytesTyped
<1>3. IsFiniteSet(R)
  <2> DEFINE f == [i \in DOMAIN s |-> RootOf[s[i].name]]
  <2>1. f \in Surjection(DOMAIN s, R)
    BY DEF Surjection
  <2> HIDE DEF f, R
  <2>2. QED BY <1>2, <2>1, FS_Surjection
<1>4. Cardinality(R) = 1 <=> \E x : R = {x}
  BY <1>3, FS_Singleton
<1>5. (\E x : R = {x}) <=>
         s # <<>> /\ \A i, j \in DOMAIN s : RootOf[s[i].name] = RootOf[s[j].name]
  <2>1. ASSUME NEW x, R = {x}
        PROVE  s # <<>> /\ \A i, j \in DOMAIN s : RootOf[s[i].name] = RootOf[s[j].name]
    <3>1. \A i \in DOMAIN s : RootOf[s[i].name] = x
      BY <2>1
    <3>2. DOMAIN s # {}
      BY <2>1
    <3>3. QED BY <3>1, <3>2
  <2>2. ASSUME s # <<>>, \A i, j \in DOMAIN s : RootOf[s[i].name] = RootOf[s[j].name]
        PROVE  \E x : R = {x}
    <3>1. 1 \in DOMAIN s
      BY <1>2, <2>2
    <3>2. R = {RootOf[s[1].name]}
      BY <2>2, <3>1
    <3>3. QED BY <3>2
  <2>3. QED BY <2>1, <2>2
<1>6. QED BY <1>1, <1>4, <1>5

(* Together, the rules for one archive.                                    *)
LEMMA LevelIsClean ==
    ASSUME NEW s \in Seq(Member) PROVE LevelIssues(s) = {} <=> CleanArchive(s)
<1>1. \A m \in ToSet(s) : m \in Member
  BY DEF ToSet
<1>2. LevelIssues(s) = {} <=>
         /\ ~(Len(s) > Limits.entries) /\ NameIssues(s) = {}
         /\ \A m \in ToSet(s) : MemberIssues(m) = {}
         /\ ~(Expanded(s, DOMAIN s) > Limits.total)
         /\ Cardinality(Roots(s)) = 1
         /\ TestIssues(s) = {}
  BY DEF LevelIssues, When
<1>3. /\ ~(Len(s) > Limits.entries) <=> Len(s) <= Limits.entries
      /\ ~(Expanded(s, DOMAIN s) > Limits.total) <=> Expanded(s, DOMAIN s) <= Limits.total
  BY LimitsAssumption, ExpandedGrows
<1>4. (\A i \in DOMAIN s : ~s[i].encrypted /\ ~s[i].corrupt)
      <=> \A m \in ToSet(s) : ~m.encrypted /\ ~m.corrupt
  BY DEF ToSet
<1>5. QED BY <1>1, <1>2, <1>3, <1>4, NamesAreClean, MembersAreClean, TestIsClean, OneRoot
          DEF CleanArchive
-----------------------------------------------------------------------------
(***************************************************************************)
(* The walk is a recursion over the depth that is left.                    *)
(***************************************************************************)
(* What one level of the walk reports, when below is what the next one does.*)
Level(zip, left, below) ==
    [a \in Archive |->
       LevelIssues(zip[a])
       \cup (UNION {IF left = 0 THEN {"PACKAGE_NESTED_DEPTH_LIMIT"}
                    ELSE ReadIssues(m) : m \in Nested(zip[a])})
       \cup (UNION {below[m.holds] :
                      m \in {n \in Nested(zip[a]) : left > 0 /\ Opens(n)}})]

Walk(zip, f, depth) == f = [left \in 0 .. depth |-> Level(zip, left, f[left - 1])]

(* With no depth left, nothing below is looked at.                         *)
LEMMA LastLevel == \A zip, f, g : Level(zip, 0, f) = Level(zip, 0, g)
<1> SUFFICES ASSUME NEW zip, NEW f, NEW g PROVE Level(zip, 0, f) = Level(zip, 0, g)
  OBVIOUS
<1>1. ~(0 > 0)
  OBVIOUS
<1>2. \A a : {n \in Nested(zip[a]) : 0 > 0 /\ Opens(n)} = {}
  BY <1>1
<1>3. ASSUME NEW a
      PROVE  UNION {f[m.holds] : m \in {n \in Nested(zip[a]) : 0 > 0 /\ Opens(n)}}
           = UNION {g[m.holds] : m \in {n \in Nested(zip[a]) : 0 > 0 /\ Opens(n)}}
  BY <1>2
<1>4. QED BY <1>3, Zenon DEF Level

(* The recursion has a solution for every depth.                           *)
LEMMA WalkExists == \A zip : \A depth \in Nat : \E f : Walk(zip, f, depth)
<1> SUFFICES ASSUME NEW zip PROVE \A depth \in Nat : \E f : Walk(zip, f, depth)
  OBVIOUS
<1> DEFINE S == {depth \in Nat : \E f : Walk(zip, f, depth)}
<1>1. 0 \in S
  <2> DEFINE f == [left \in 0 .. 0 |-> Level(zip, 0, {})]
  <2>1. f = [left \in 0 .. 0 |-> Level(zip, left, f[left - 1])]
    <3>1. \A left \in 0 .. 0 : left = 0
      OBVIOUS
    <3>2. \A left \in 0 .. 0 : Level(zip, 0, {}) = Level(zip, left, f[left - 1])
      <4> HIDE DEF f
      <4>1. QED BY <3>1, LastLevel, Zenon
    <3>3. QED BY <3>2, Zenon
  <2>2. Walk(zip, f, 0)
    BY <2>1, Zenon DEF Walk
  <2>3. QED BY <2>2
<1>2. ASSUME NEW k \in Nat, k \in S PROVE k + 1 \in S
  <2>1. PICK f : Walk(zip, f, k)
    BY <1>2
  <2> DEFINE g == [left \in 0 .. k + 1 |-> IF left = k + 1 THEN Level(zip, k + 1, f[k])
                                           ELSE f[left]]
  <2>2. ASSUME NEW left \in 0 .. k + 1 PROVE g[left] = Level(zip, left, g[left - 1])
    <3>1. CASE left = k + 1
      <4>1. g[left - 1] = f[k]
        BY <3>1
      <4>2. g[left] = Level(zip, k + 1, f[k])
        BY <3>1
      <4> HIDE DEF g
      <4>3. QED BY <3>1, <4>1, <4>2
    <3>2. CASE left = 0
      <4>1. g[left] = f[0] /\ f[0] = Level(zip, 0, f[0 - 1])
        BY <2>1, <3>2 DEF Walk
      <4> HIDE DEF g
      <4>2. QED BY <3>2, <4>1, LastLevel, Zenon
    <3>3. CASE left \in 1 .. k
      <4>1. g[left] = f[left] /\ g[left - 1] = f[left - 1]
        BY <3>3
      <4>2. f[left] = Level(zip, left, f[left - 1])
        BY <2>1, <3>3 DEF Walk
      <4> HIDE DEF g
      <4>3. QED BY <4>1, <4>2, Zenon
    <3>4. QED BY <3>1, <3>2, <3>3
  <2>3. g = [left \in 0 .. k + 1 |-> g[left]]
    OBVIOUS
  <2> HIDE DEF g
  <2>4. Walk(zip, g, k + 1)
    BY <2>2, <2>3, Zenon DEF Walk
  <2>5. QED BY <2>4
<1> HIDE DEF S
<1>3. \A n \in Nat : n \in S
  BY <1>1, <1>2, Induction
<1>4. QED BY <1>3 DEF S

(* Inspection is the walk from the full depth.                             *)
LEMMA InspectionWalks ==
    \A zip : \E f : Walk(zip, f, Limits.depth) /\ Inspection(zip) = f[Limits.depth]
<1> SUFFICES ASSUME NEW zip
             PROVE \E f : Walk(zip, f, Limits.depth) /\ Inspection(zip) = f[Limits.depth]
  OBVIOUS
<1> DEFINE inspect == CHOOSE f : f = [left \in 0 .. Limits.depth |-> Level(zip, left, f[left - 1])]
<1>1. Limits.depth \in Nat
  BY LimitsAssumption
<1>2. \E f : f = [left \in 0 .. Limits.depth |-> Level(zip, left, f[left - 1])]
  BY <1>1, WalkExists, Zenon DEF Walk
<1>3. inspect = [left \in 0 .. Limits.depth |-> Level(zip, left, inspect[left - 1])]
  BY <1>2, Zenon
<1>4. Inspection(zip) = inspect[Limits.depth]
  BY Zenon DEF Inspection, Level
<1>5. QED BY <1>3, <1>4, Zenon DEF Walk
-----------------------------------------------------------------------------
(***************************************************************************)
(* The archives nested in an archive, level by level.                      *)
(***************************************************************************)
(* The ZIP files one level below those of B.                               *)
NextLevel(zip, B) == {m.holds : m \in UNION {Nested(zip[b]) : b \in B \ {NotZip}}}
Data == Archive \cup {NotZip}

(* What a nested member holds: ZIP data, or data that is no ZIP file.      *)
LEMMA HeldIsData ==
    ASSUME NEW zip \in [Archive -> Seq(Member)], NEW a \in Archive, NEW m \in Nested(zip[a])
    PROVE  m \in Member /\ m.holds \in Data /\ m \in ToSet(zip[a]) /\ IsNested(m)
<1>1. zip[a] \in Seq(Member)
  OBVIOUS
<1>2. m \in ToSet(zip[a]) /\ IsNested(m)
  BY DEF Nested
<1>3. m \in Member
  BY <1>1, <1>2 DEF ToSet
<1>4. QED BY <1>2, <1>3 DEF Member, Data

(* So it is level by level.                                                *)
LEMMA NextLevelIsData ==
    ASSUME NEW zip \in [Archive -> Seq(Member)], NEW B \in SUBSET Data
    PROVE  NextLevel(zip, B) \in SUBSET Data
BY HeldIsData DEF NextLevel, Data

(* NestedIn is the recursion that takes one level after the other.         *)
LEMMA NestedLevels ==
    ASSUME NEW zip \in [Archive -> Seq(Member)], NEW a \in Data
    PROVE  /\ NestedIn(zip, a)[0] = {a}
           /\ \A k \in 0 .. Limits.depth :
                 /\ NestedIn(zip, a)[k] \in SUBSET Data
                 /\ NestedIn(zip, a)[k + 1] = NextLevel(zip, NestedIn(zip, a)[k])
<1> DEFINE N == Limits.depth + 1
           A == SUBSET Data
           base == {a}
           step == [B \in A |-> NextLevel(zip, B)]
           Defines(l) == l = [k \in 0 .. N |->
                                IF k = 0 THEN {a} ELSE NextLevel(zip, l[k - 1])]
           level == CHOOSE l : Defines(l)
<1>1. N \in Nat /\ Limits.depth \in Nat
  BY LimitsAssumption
<1>2. step \in [A -> A] /\ base \in A
  BY NextLevelIsData
<1>3. \E f : Iterates(f, A, base, step, N)
  <2> HIDE DEF A, base, step, N, Defines, level
  <2>1. QED BY <1>1, <1>2, Iteration
<1>4. PICK f \in [0 .. N -> A] :
         f[0] = {a} /\ \A n \in Nat : n < N => f[n + 1] = NextLevel(zip, f[n])
  <2>1. base = {a} /\ \A B \in A : step[B] = NextLevel(zip, B)
    OBVIOUS
  <2> HIDE DEF A, base, step, N, Defines, level
  <2>2. QED BY <1>3, <2>1 DEF Iterates
<1>5. Defines(f)
  <2>1. ASSUME NEW k \in 0 .. N PROVE f[k] = IF k = 0 THEN {a} ELSE NextLevel(zip, f[k - 1])
    <3>1. CASE k = 0
      BY <1>4, <3>1
    <3>2. CASE k # 0
      <4>1. k - 1 \in Nat /\ k - 1 < N /\ (k - 1) + 1 = k
        BY <3>2, <1>1
      <4>2. QED BY <1>4, <4>1, <3>2
    <3>3. QED BY <3>1, <3>2
  <2>2. f = [k \in 0 .. N |-> f[k]]
    OBVIOUS
  <2> HIDE DEF N
  <2>3. QED BY <2>1, <2>2, Zenon
<1>6. Defines(level)
  <2> HIDE DEF Defines
  <2>1. QED BY <1>5
<1>7. NestedIn(zip, a) = level
  BY Zenon DEF NestedIn, NextLevel
<1> HIDE DEF level
<1>8. ASSUME NEW k \in 0 .. Limits.depth PROVE level[k + 1] = NextLevel(zip, level[k])
  <2>1. k + 1 \in 0 .. N /\ k + 1 # 0 /\ (k + 1) - 1 = k
    BY <1>1
  <2> HIDE DEF N
  <2>2. QED BY <1>6, <2>1
<1>9. level[0] = {a}
  BY <1>1, <1>6
<1> DEFINE S == {k \in Nat : k <= Limits.depth => level[k] \in A}
<1>10. 0 \in S
  BY <1>2, <1>9
<1>11. ASSUME NEW k \in Nat, k \in S PROVE k + 1 \in S
  <2>1. SUFFICES ASSUME k + 1 <= Limits.depth PROVE level[k + 1] \in A
    OBVIOUS
  <2>2. level[k] \in A /\ k \in 0 .. Limits.depth
    BY <1>1, <1>11, <2>1
  <2>3. QED BY <1>8, <2>2, NextLevelIsData
<1> HIDE DEF S
<1>12. \A k \in Nat : k \in S
  BY <1>10, <1>11, Induction
<1>13. \A k \in 0 .. Limits.depth : level[k] \in A
  BY <1>1, <1>12 DEF S
<1>14. QED BY <1>7, <1>8, <1>9, <1>13

(* Below a single archive.                                                 *)
LEMMA NextLevelOfOne ==
    ASSUME NEW zip, NEW a, a # NotZip
    PROVE  NextLevel(zip, {a}) = {m.holds : m \in Nested(zip[a])}
<1>1. UNION {Nested(zip[b]) : b \in {a} \ {NotZip}} = Nested(zip[a])
  OBVIOUS
<1>2. QED BY <1>1 DEF NextLevel

(* The levels of an archive are those of the archives nested in it, one    *)
(* deeper.                                                                 *)
LEMMA LevelsNest ==
    ASSUME NEW zip \in [Archive -> Seq(Member)], NEW a \in Archive, a # NotZip
    PROVE  \A k \in 0 .. Limits.depth :
              NestedIn(zip, a)[k + 1]
                = UNION {NestedIn(zip, m.holds)[k] : m \in Nested(zip[a])}
<1> DEFINE level(b) == NestedIn(zip, b)
           held == {m.holds : m \in Nested(zip[a])}
           Nests(k) == level(a)[k + 1] = UNION {level(b)[k] : b \in held}
           S == {k \in Nat : k <= Limits.depth => Nests(k)}
<1>1. Limits.depth \in Nat
  BY LimitsAssumption
<1>2. a \in Data /\ \A b \in held : b \in Data
  BY HeldIsData DEF Data
<1>3. \A b \in held \cup {a} :
         /\ level(b)[0] = {b}
         /\ \A k \in 0 .. Limits.depth : level(b)[k + 1] = NextLevel(zip, level(b)[k])
  BY <1>2, NestedLevels
<1>4. 0 \in S
  <2>1. level(a)[0 + 1] = NextLevel(zip, {a})
    <3>1. ASSUME NEW k, k = 0 PROVE level(a)[k + 1] = NextLevel(zip, {a})
      <4>1. k \in 0 .. Limits.depth
        BY <1>1, <3>1
      <4> HIDE DEF level, held
      <4>2. QED BY <1>3, <3>1, <4>1
    <3>2. QED BY <3>1
  <2>2. NextLevel(zip, {a}) = held
    BY NextLevelOfOne
  <2>3. UNION {level(b)[0] : b \in held} = held
    <3>1. \A b \in held : level(b)[0] = {b}
      BY <1>3
    <3> HIDE DEF held, level
    <3>2. QED BY <3>1
  <2>4. QED BY <2>1, <2>2, <2>3
<1>5. ASSUME NEW k \in Nat, k \in S PROVE k + 1 \in S
  <2>1. SUFFICES ASSUME k + 1 <= Limits.depth PROVE Nests(k + 1)
    OBVIOUS
  <2>2. k \in 0 .. Limits.depth /\ k + 1 \in 0 .. Limits.depth
    BY <1>1, <2>1
  <2>3. Nests(k)
    BY <1>1, <1>5, <2>1
  <2>4. level(a)[(k + 1) + 1] = NextLevel(zip, level(a)[k + 1])
    BY <1>3, <2>2
  <2> DEFINE f == [b \in held |-> level(b)[k]]
  <2>5. level(a)[k + 1] = UNION {f[b] : b \in held}
    BY <2>3
  <2>6. NextLevel(zip, level(a)[k + 1]) = UNION {NextLevel(zip, f[b]) : b \in held}
    <3> HIDE DEF f, held, level
    <3>1. QED BY <2>5 DEF NextLevel
  <2>7. \A b \in held : NextLevel(zip, f[b]) = level(b)[k + 1]
    BY <1>3, <2>2
  <2> HIDE DEF f, held, level
  <2>8. QED BY <2>4, <2>6, <2>7
<1> HIDE DEF S
<1>6. \A k \in Nat : k \in S
  BY <1>4, <1>5, Induction
<1>7. ASSUME NEW k \in 0 .. Limits.depth PROVE Nests(k)
  BY <1>1, <1>6 DEF S
<1>8. \A k \in 0 .. Limits.depth :
         UNION {level(b)[k] : b \in held} = UNION {level(m.holds)[k] : m \in Nested(zip[a])}
  <2> HIDE DEF level
  <2>1. QED OBVIOUS
<1>9. QED BY <1>7, <1>8

(* The archive a is acceptable down to left levels below it, and has none  *)
(* that are deeper.                                                        *)
Fine(zip, a, left) ==
    /\ \A k \in 0 .. left : \A b \in NestedIn(zip, a)[k] :
          b # NotZip /\ CleanArchive(zip[b])
    /\ NestedIn(zip, a)[left + 1] = {}

(* An archive is fine when it is clean and what is in it fine.             *)
LEMMA FineNests ==
    ASSUME NEW zip \in [Archive -> Seq(Member)], NEW a \in Archive, a # NotZip,
           NEW left \in 0 .. Limits.depth - 1
    PROVE  Fine(zip, a, left + 1) <=>
              /\ CleanArchive(zip[a])
              /\ \A m \in Nested(zip[a]) : Fine(zip, m.holds, left)
<1> DEFINE level(b) == NestedIn(zip, b)
           Whole(b) == b # NotZip /\ CleanArchive(zip[b])
<1>1. Limits.depth \in Nat
  BY LimitsAssumption
<1>2. \A k \in 0 .. Limits.depth : \A b :
         b \in level(a)[k + 1] <=> \E m \in Nested(zip[a]) : b \in level(m.holds)[k]
  <2>1. ASSUME NEW k \in 0 .. Limits.depth
        PROVE  level(a)[k + 1] = UNION {level(m.holds)[k] : m \in Nested(zip[a])}
    BY LevelsNest
  <2> HIDE DEF level
  <2>2. QED BY <2>1
<1>3. level(a)[0] = {a}
  <2>1. a \in Data
    BY DEF Data
  <2>2. QED BY <2>1, NestedLevels
<1>4. (\A k \in 0 .. left + 1 : \A b \in level(a)[k] : Whole(b)) <=>
         Whole(a) /\ \A k \in 0 .. left : \A b \in level(a)[k + 1] : Whole(b)
  <2>1. ASSUME \A k \in 0 .. left + 1 : \A b \in level(a)[k] : Whole(b)
        PROVE  Whole(a) /\ \A k \in 0 .. left : \A b \in level(a)[k + 1] : Whole(b)
    <3>1. 0 \in 0 .. left + 1 /\ \A k \in 0 .. left : k + 1 \in 0 .. left + 1
      BY <1>1
    <3> HIDE DEF level, Whole
    <3>2. QED BY <1>3, <2>1, <3>1
  <2>2. ASSUME Whole(a), \A k \in 0 .. left : \A b \in level(a)[k + 1] : Whole(b),
               NEW k \in 0 .. left + 1, NEW b \in level(a)[k]
        PROVE  Whole(b)
    <3>1. CASE k = 0
      <4> HIDE DEF level, Whole
      <4>1. QED BY <1>3, <2>2, <3>1
    <3>2. CASE k # 0
      <4>1. k - 1 \in 0 .. left /\ (k - 1) + 1 = k
        BY <1>1, <3>2
      <4> HIDE DEF level, Whole
      <4>2. QED BY <2>2, <4>1
    <3>3. QED BY <3>1, <3>2
  <2> HIDE DEF level, Whole
  <2>3. QED BY <2>1, <2>2
<1>5. \A k \in 0 .. left : k \in 0 .. Limits.depth /\ left + 1 \in 0 .. Limits.depth
  BY <1>1
<1>6. (\A k \in 0 .. left : \A b \in level(a)[k + 1] : Whole(b)) <=>
         \A m \in Nested(zip[a]) : \A k \in 0 .. left : \A b \in level(m.holds)[k] : Whole(b)
  <2> HIDE DEF level, Whole
  <2>1. QED BY <1>2, <1>5
<1>7. level(a)[(left + 1) + 1] = {} <=> \A m \in Nested(zip[a]) : level(m.holds)[left + 1] = {}
  <2>1. \A b : b \in level(a)[(left + 1) + 1]
              <=> \E m \in Nested(zip[a]) : b \in level(m.holds)[left + 1]
    BY <1>1, <1>2
  <2> HIDE DEF level, Whole
  <2>2. QED BY <2>1
<1>8. QED BY <1>4, <1>6, <1>7 DEF Fine

(* With no depth left, there must be nothing in it.                        *)
LEMMA FineLeaf ==
    ASSUME NEW zip \in [Archive -> Seq(Member)], NEW a \in Archive, a # NotZip
    PROVE  Fine(zip, a, 0) <=> CleanArchive(zip[a]) /\ Nested(zip[a]) = {}
<1>1. 0 \in 0 .. Limits.depth
  BY LimitsAssumption
<1>2. a \in Data
  BY DEF Data
<1>3. ASSUME NEW k, k = 0 PROVE NestedIn(zip, a)[k + 1] = NextLevel(zip, {a})
  BY <1>1, <1>2, <1>3, NestedLevels
<1>4. NestedIn(zip, a)[0] = {a} /\ NestedIn(zip, a)[0 + 1] = NextLevel(zip, {a})
  BY <1>2, <1>3, NestedLevels
<1>5. NextLevel(zip, {a}) = {} <=> Nested(zip[a]) = {}
  <2>1. NextLevel(zip, {a}) = {m.holds : m \in Nested(zip[a])}
    BY NextLevelOfOne
  <2>2. QED BY <2>1
<1>6. (\A k \in 0 .. 0 : \A b \in NestedIn(zip, a)[k] : b # NotZip /\ CleanArchive(zip[b]))
         <=> CleanArchive(zip[a])
  BY <1>4
<1>7. QED BY <1>4, <1>5, <1>6 DEF Fine
-----------------------------------------------------------------------------
(***************************************************************************)
(* The walk reports nothing exactly when nothing is wrong at any level, for*)
(* every depth it may start with.                                          *)
(***************************************************************************)
(* A clean member that is a ZIP file is read and opened.                   *)
LEMMA CleanOpens ==
    ASSUME NEW s \in Seq(Member), CleanArchive(s), NEW m \in Nested(s)
    PROVE  /\ ReadIssues(m) = {} <=> m.holds # NotZip
           /\ Opens(m) <=> m.holds # NotZip
<1>1. m \in ToSet(s) /\ m \in Member /\ IsNested(m)
  BY DEF Nested, ToSet
<1>2. ~m.encrypted /\ ~m.corrupt /\ m.size <= Limits.member
  BY <1>1 DEF CleanArchive, IsNested, IsData
<1>3. ~Oversized(m)
  BY <1>1, <1>2, NotBomb
<1>4. QED BY <1>2, <1>3 DEF ReadIssues, Opens, MayRead, When

(* The last level reports nothing exactly when nothing is wrong there.     *)
LEMMA WalkLeaf ==
    ASSUME NEW zip \in [Archive -> Seq(Member)], NEW a \in Archive, a # NotZip, NEW below
    PROVE  Level(zip, 0, below)[a] = {} <=> Fine(zip, a, 0)
<1> DEFINE N == Nested(zip[a])
           deep == UNION {IF 0 = 0 THEN {"PACKAGE_NESTED_DEPTH_LIMIT"}
                          ELSE ReadIssues(m) : m \in N}
           opened == UNION {below[m.holds] : m \in {n \in N : 0 > 0 /\ Opens(n)}}
<1>1. Level(zip, 0, below)[a] = LevelIssues(zip[a]) \cup deep \cup opened
  BY DEF Level
<1>2. deep = {} <=> N = {}
  OBVIOUS
<1>3. opened = {}
  OBVIOUS
<1>4. LevelIssues(zip[a]) = {} <=> CleanArchive(zip[a])
  <2>1. zip[a] \in Seq(Member)
    OBVIOUS
  <2>2. QED BY <2>1, LevelIsClean
<1> HIDE DEF deep, opened
<1>5. QED BY <1>1, <1>2, <1>3, <1>4, FineLeaf

(* So does every other level, when the one below does.                     *)
LEMMA WalkNode ==
    ASSUME NEW zip \in [Archive -> Seq(Member)], NEW a \in Archive, a # NotZip,
           NEW left \in 0 .. Limits.depth - 1, NEW below,
           \A b \in Archive : b # NotZip => (below[b] = {} <=> Fine(zip, b, left))
    PROVE  Level(zip, left + 1, below)[a] = {} <=> Fine(zip, a, left + 1)
<1> DEFINE N == Nested(zip[a])
           read == UNION {IF left + 1 = 0 THEN {"PACKAGE_NESTED_DEPTH_LIMIT"}
                          ELSE ReadIssues(m) : m \in N}
           open == {n \in N : left + 1 > 0 /\ Opens(n)}
           opened == UNION {below[m.holds] : m \in open}
<1>1. Level(zip, left + 1, below)[a] = LevelIssues(zip[a]) \cup read \cup opened
  BY DEF Level
<1>2. left \in Nat /\ left + 1 > 0 /\ left + 1 # 0
  BY LimitsAssumption
<1>3. read = {} <=> \A m \in N : ReadIssues(m) = {}
  BY <1>2
<1>4. opened = {} <=> \A m \in N : Opens(m) => below[m.holds] = {}
  <2>1. \A m : m \in open <=> m \in N /\ Opens(m)
    BY <1>2
  <2> HIDE DEF open, N, read
  <2>2. opened = {} <=> \A m \in open : below[m.holds] = {}
    <3>1. ASSUME opened = {}, NEW m \in open PROVE below[m.holds] = {}
      BY <3>1
    <3>2. ASSUME \A m \in open : below[m.holds] = {} PROVE opened = {}
      BY <3>2
    <3> HIDE DEF opened
    <3>3. QED BY <3>1, <3>2
  <2> HIDE DEF opened
  <2>3. QED BY <2>1, <2>2
<1>5. zip[a] \in Seq(Member)
  OBVIOUS
<1>6. LevelIssues(zip[a]) = {} <=> CleanArchive(zip[a])
  BY <1>5, LevelIsClean
<1>7. ASSUME CleanArchive(zip[a]), NEW m \in N
      PROVE  ReadIssues(m) = {} /\ (Opens(m) => below[m.holds] = {})
               <=> Fine(zip, m.holds, left)
  <2>1. /\ ReadIssues(m) = {} <=> m.holds # NotZip
        /\ Opens(m) <=> m.holds # NotZip
    BY <1>5, <1>7, CleanOpens
  <2>2. m.holds \in Data
    BY HeldIsData
  <2>3. CASE m.holds = NotZip
    <3>1. NestedIn(zip, NotZip)[0] = {NotZip}
      BY NestedLevels DEF Data
    <3>2. 0 \in 0 .. left /\ NotZip \in NestedIn(zip, NotZip)[0]
      BY <1>2, <3>1
    <3> HIDE DEF N, read, opened, open
    <3>3. ~Fine(zip, NotZip, left)
      BY <3>2 DEF Fine
    <3>4. QED BY <2>1, <2>3, <3>3
  <2>4. CASE m.holds # NotZip
    BY <2>1, <2>2, <2>4 DEF Data
  <2>5. QED BY <2>3, <2>4
<1> HIDE DEF read, opened
<1>8. Fine(zip, a, left + 1) <=>
         CleanArchive(zip[a]) /\ \A m \in N : Fine(zip, m.holds, left)
  BY FineNests
<1> HIDE DEF N
<1>9. QED BY <1>1, <1>3, <1>4, <1>6, <1>7, <1>8

(* What is inspected with depth left reports nothing exactly when nothing  *)
(* is wrong, at any level.                                                 *)
LEMMA WalkIsExact ==
    ASSUME NEW zip \in [Archive -> Seq(Member)], NEW a \in Archive, a # NotZip
    PROVE  Inspection(zip)[a] = {} <=> AcceptableArchive(zip, a)
<1>1. PICK f : Walk(zip, f, Limits.depth) /\ Inspection(zip) = f[Limits.depth]
  BY InspectionWalks
<1>2. Limits.depth \in Nat
  BY LimitsAssumption
<1>3. \A left \in 0 .. Limits.depth : f[left] = Level(zip, left, f[left - 1])
  BY <1>1 DEF Walk
<1> DEFINE Exact(left) == \A b \in Archive : b # NotZip => (f[left][b] = {} <=> Fine(zip, b, left))
           S == {left \in Nat : left <= Limits.depth => Exact(left)}
<1>4. 0 \in S
  <2>1. f[0] = Level(zip, 0, f[0 - 1])
    BY <1>2, <1>3
  <2>2. Exact(0)
    BY <2>1, WalkLeaf
  <2> HIDE DEF Exact
  <2>3. QED BY <2>2
<1>5. ASSUME NEW k \in Nat, k \in S PROVE k + 1 \in S
  <2>1. SUFFICES ASSUME k + 1 <= Limits.depth PROVE Exact(k + 1)
    OBVIOUS
  <2>2. k \in 0 .. Limits.depth - 1 /\ k + 1 \in 0 .. Limits.depth /\ (k + 1) - 1 = k
    BY <1>2, <2>1
  <2>3. Exact(k)
    BY <1>2, <1>5, <2>1
  <2>4. f[k + 1] = Level(zip, k + 1, f[k])
    BY <1>3, <2>2
  <2>5. ASSUME NEW b \in Archive, b # NotZip
        PROVE  Level(zip, k + 1, f[k])[b] = {} <=> Fine(zip, b, k + 1)
    BY <2>2, <2>3, <2>5, WalkNode
  <2>6. QED BY <2>4, <2>5
<1> HIDE DEF S
<1>6. \A k \in Nat : k \in S
  BY <1>4, <1>5, Induction
<1>7. Exact(Limits.depth)
  BY <1>2, <1>6 DEF S
<1>8. AcceptableArchive(zip, a) <=> Fine(zip, a, Limits.depth)
  BY Zenon DEF AcceptableArchive, Fine
<1>9. QED BY <1>1, <1>7, <1>8

(* Data that is no ZIP file is never acceptable.                           *)
LEMMA NotZipIsRefused ==
    ASSUME NEW zip \in [Archive -> Seq(Member)] PROVE ~AcceptableArchive(zip, NotZip)
<1>1. NestedIn(zip, NotZip)[0] = {NotZip} /\ 0 \in 0 .. Limits.depth
  BY NestedLevels, LimitsAssumption DEF Data
<1>2. QED BY <1>1 DEF AcceptableArchive

(* inspect_archive, whatever the file.                                     *)
LEMMA ArchiveRulesAreExact ==
    ASSUME NEW zip \in [Archive -> Seq(Member)], NEW a \in Data, NEW size \in 0 .. MaxSize
    PROVE  ArchiveIssues(zip, a, size) = {} <=>
              size <= Limits.total /\ AcceptableArchive(zip, a)
<1>1. size > Limits.total <=> ~(size <= Limits.total)
  BY LimitsAssumption, SizeAssumption
<1>2. CASE a = NotZip
  BY <1>2, NotZipIsRefused DEF ArchiveIssues
<1>3. CASE a # NotZip
  BY <1>1, <1>3, WalkIsExact DEF ArchiveIssues, Data
<1>4. QED BY <1>2, <1>3
-----------------------------------------------------------------------------
(***************************************************************************)
(* Packages: what is nested in what was accepted, and what it extracts to. *)
(***************************************************************************)
(* What has nothing deeper than left has nothing deeper than left + 1.     *)
LEMMA FineDeepens ==
    ASSUME NEW zip \in [Archive -> Seq(Member)], NEW b \in Data,
           NEW left \in 0 .. Limits.depth - 1, Fine(zip, b, left)
    PROVE  Fine(zip, b, left + 1)
<1> DEFINE level == NestedIn(zip, b)
<1>1. Limits.depth \in Nat
  BY LimitsAssumption
<1>2. level[left + 1] = {}
  BY DEF Fine
<1>3. level[(left + 1) + 1] = NextLevel(zip, level[left + 1])
  <2>1. left + 1 \in 0 .. Limits.depth
    BY <1>1
  <2>2. QED BY <2>1, NestedLevels
<1>4. level[(left + 1) + 1] = {}
  BY <1>2, <1>3 DEF NextLevel
<1>5. ASSUME NEW k \in 0 .. left + 1, NEW c \in level[k]
      PROVE  c # NotZip /\ CleanArchive(zip[c])
  <2>1. k \in 0 .. left
    BY <1>1, <1>2, <1>5
  <2>2. QED BY <1>5, <2>1 DEF Fine
<1> HIDE DEF level
<1>6. QED BY <1>4, <1>5 DEF Fine, level

(* What is nested in an acceptable archive is acceptable, and it is small  *)
(* enough to be inspected by itself.                                       *)
LEMMA AcceptableNests ==
    ASSUME NEW zip \in [Archive -> Seq(Member)], NEW a \in Archive,
           AcceptableArchive(zip, a), NEW m \in Nested(zip[a])
    PROVE  AcceptableArchive(zip, m.holds)
<1>1. Limits.depth \in Nat
  BY LimitsAssumption
<1>2. \A b : AcceptableArchive(zip, b) <=> Fine(zip, b, Limits.depth)
  BY Zenon DEF AcceptableArchive, Fine
<1>3. a # NotZip
  BY NotZipIsRefused
<1>4. CASE Limits.depth = 0
  <2>1. Nested(zip[a]) = {}
    BY <1>2, <1>3, <1>4, FineLeaf
  <2>2. QED BY <2>1
<1>5. CASE Limits.depth # 0
  <2> DEFINE left == Limits.depth - 1
  <2>1. left \in 0 .. Limits.depth - 1 /\ left + 1 = Limits.depth
    BY <1>1, <1>5
  <2>2. Fine(zip, a, left + 1)
    BY <1>2, <2>1
  <2> HIDE DEF left
  <2>3. Fine(zip, m.holds, left)
    BY <1>3, <2>1, <2>2, FineNests
  <2>4. m.holds \in Data
    BY HeldIsData
  <2>5. Fine(zip, m.holds, left + 1)
    BY <2>1, <2>3, <2>4, FineDeepens
  <2>6. QED BY <1>2, <2>1, <2>5
<1>6. QED BY <1>4, <1>5

(* One member is no bigger than all together.                              *)
LEMMA MemberIsExpanded ==
    ASSUME NEW s \in Seq(Member), NEW m \in Nested(s)
    PROVE  m.size \in Nat /\ m.size <= Expanded(s, DOMAIN s)
<1>1. PICK i \in DOMAIN s : s[i] = m
  BY DEF Nested, ToSet
<1>2. PICK sum : SumOver(DOMAIN s, Bytes(s), sum)
  BY BytesTyped, SumExists
<1>3. Bytes(s)[i] = m.size /\ Bytes(s)[i] \in Nat
  BY <1>1, BytesTyped DEF Bytes, Nested, IsNested
<1>4. sum[{i}] = Bytes(s)[i] + sum[{i} \ {i}]
  <2> DEFINE C == {i}
  <2>1. C \in SUBSET (DOMAIN s) /\ i \in C
    OBVIOUS
  <2> HIDE DEF C
  <2>2. sum[C] = Bytes(s)[i] + sum[C \ {i}]
    BY <1>2, <2>1, SumTakes
  <2>3. QED BY <2>2 DEF C
<1>5. sum[{}] = 0
  BY <1>2 DEF SumOver, Sums
<1>6. sum[{i}] = m.size
  <2>1. {i} \ {i} = {}
    OBVIOUS
  <2>2. sum[{i}] = m.size + 0
    BY <1>3, <1>4, <1>5, <2>1
  <2>3. QED BY <1>3, <2>2
<1>7. Expanded(s, {i}) = sum[{i}]
  BY <1>2, ExpandedIsSum
<1>8. Expanded(s, {i}) <= Expanded(s, DOMAIN s)
  BY ExpandedGrows
<1>9. QED BY <1>3, <1>6, <1>7, <1>8

(* Archives that are acceptable by themselves have nothing reported.       *)
LEMMA NestedRules ==
    ASSUME NEW zip \in [Archive -> Seq(Member)], NEW N,
           \A m \in N : m \in Member
    PROVE  NestedIssues(zip, N) = {} <=>
              \A m \in N : m.size <= Limits.total /\ AcceptableArchive(zip, m.holds)
<1>1. NestedIssues(zip, N) = {} <=> \A m \in N : ArchiveIssues(zip, m.holds, m.size) = {}
  BY DEF NestedIssues
<1>2. \A m \in N : m.holds \in Data /\ m.size \in 0 .. MaxSize
  BY DEF Member, Data
<1>3. QED BY <1>1, <1>2, ArchiveRulesAreExact

(* What a package is made of.                                              *)
LEMMA PackageParts ==
    ASSUME NEW x \in Package
    PROVE  /\ x.zip \in [Archive -> Seq(Member)] /\ x.outer \in Archive
           /\ x.size \in 0 .. MaxSize /\ x.zip[x.outer] \in Seq(Member)
           /\ \A m \in Nested(x.zip[x.outer]) : m \in Member
<1>1. x.zip \in [Archive -> Seq(Member)] /\ x.outer \in Archive /\ x.size \in 0 .. MaxSize
  BY DEF Package
<1>2. QED BY <1>1, HeldIsData

(* A ZIP file that was accepted is an acceptable archive.                  *)
LEMMA OuterIsAcceptable ==
    ASSUME NEW x \in Package, x.form = "zip", PackageIssues(x) = {}
    PROVE  ArchiveIssues(x.zip, x.outer, x.size) = {} /\ AcceptableArchive(x.zip, x.outer)
<1>1. ZipIssues(x) = {}
  BY DEF PackageIssues
<1>2. ArchiveIssues(x.zip, x.outer, x.size) = {}
  BY <1>1 DEF ZipIssues
<1>3. QED BY <1>2, PackageParts, ArchiveRulesAreExact DEF Data

(* What is nested in whatever was accepted, and not passed over, has been  *)
(* inspected.                                                              *)
LEMMA AcceptedIsInspected ==
    ASSUME NEW x \in Package, PackageIssues(x) = {}, NEW m \in Nested(x.zip[x.outer]),
           ~PassedOver(x, m)
    PROVE  m.holds # NotZip /\ AcceptableArchive(x.zip, m.holds)
<1> DEFINE s == x.zip[x.outer]
<1>1. PICK N : m \in N /\ N \subseteq Nested(s)
               /\ (x.form # "zip" => NestedIssues(x.zip, N) = {})
  <2>1. CASE x.form = "zip"
    BY <2>1
  <2>2. CASE x.form = "directory" /\ IsRelease(x)
    <3>1. EnvelopeIssues(x) = {}
      BY <2>2 DEF PackageIssues, DirectoryIssues
    <3> DEFINE N == {n \in Nested(s) : n.name \in LowerZipName}
    <3>2. x.payload = "directory" /\ NestedIssues(x.zip, N) = {}
      BY <3>1 DEF EnvelopeIssues, When
    <3>3. m \in N
      BY <2>2 DEF PassedOver
    <3>4. QED BY <3>2, <3>3
  <2>3. CASE x.form = "directory" /\ ~IsRelease(x)
    <3>1. GenericIssues(x) = {}
      BY <2>3 DEF PackageIssues, DirectoryIssues
    <3> DEFINE N == {n \in Nested(s) : ~n.link}
    <3>2. NestedIssues(x.zip, N) = {} /\ \A n \in ToSet(s) : ~n.link
      BY <3>1 DEF GenericIssues, When
    <3>3. m \in N
      BY <3>2 DEF Nested
    <3>4. QED BY <3>2, <3>3
  <2>4. x.form \in {"zip", "directory"}
    BY DEF PackageIssues
  <2>5. QED BY <2>1, <2>2, <2>3, <2>4
<1>2. AcceptableArchive(x.zip, m.holds)
  <2>1. CASE x.form = "zip"
    BY <2>1, OuterIsAcceptable, PackageParts, AcceptableNests
  <2>2. CASE x.form # "zip"
    <3>1. \A n \in N : n \in Member
      BY <1>1, PackageParts
    <3>2. NestedIssues(x.zip, N) = {}
      BY <1>1, <2>2
    <3>3. QED BY <1>1, <3>1, <3>2, PackageParts, NestedRules
  <2>3. QED BY <2>1, <2>2
<1>3. QED BY <1>2, PackageParts, NotZipIsRefused

(* The rules for directories let everything pass that is in an archive     *)
(* without an issue.                                                       *)
LEMMA CleanIsGeneric ==
    ASSUME NEW x \in Package, AcceptableArchive(x.zip, x.outer)
    PROVE  GenericIssues(x) = {}
<1> DEFINE s == x.zip[x.outer]
           files == {i \in DOMAIN s : IsData(s[i]) /\ ~s[i].link}
           N == {m \in Nested(s) : ~m.link}
<1>1. x.zip \in [Archive -> Seq(Member)] /\ x.outer \in Archive /\ s \in Seq(Member)
      /\ \A m \in Nested(s) : m \in Member
  BY PackageParts
<1>2. CleanArchive(s)
  <2>1. 0 \in 0 .. Limits.depth
    BY LimitsAssumption
  <2>2. NestedIn(x.zip, x.outer)[0] = {x.outer}
    BY <1>1, NestedLevels DEF Data
  <2>3. QED BY <2>1, <2>2 DEF AcceptableArchive
<1>3. \A i \in DOMAIN s : s[i] \in ToSet(s) /\ s[i] \in Member
  BY <1>1 DEF ToSet
<1>4. \A m \in ToSet(s) : ~m.link
  BY <1>2 DEF CleanArchive
<1>5. ~(Cardinality(files) > Limits.entries)
  <2>1. DOMAIN s = 1 .. Len(s) /\ Len(s) \in Nat /\ IsFiniteSet(DOMAIN s)
    BY <1>1, BytesTyped
  <2>2. Cardinality(DOMAIN s) = Len(s)
    BY <2>1, FS_Interval
  <2>3. Cardinality(files) <= Cardinality(DOMAIN s) /\ IsFiniteSet(files)
    BY <2>1, FS_Subset
  <2>4. Cardinality(files) \in Nat
    BY <2>3, FS_CardinalityType
  <2>5. Len(s) <= Limits.entries
    BY <1>2 DEF CleanArchive
  <2> HIDE DEF files, s
  <2>6. QED BY <2>1, <2>2, <2>3, <2>4, <2>5, LimitsAssumption
<1>6. ~(Expanded(s, files) > Limits.total)
  <2>1. Expanded(s, DOMAIN s) <= Limits.total
    BY <1>2 DEF CleanArchive
  <2>2. files \in SUBSET (DOMAIN s)
    OBVIOUS
  <2> HIDE DEF files, s
  <2>3. QED BY <1>1, <2>1, <2>2, ExpandedGrows, LimitsAssumption
<1>7. ~\E i, j \in files : s[i].name # s[j].name /\ FoldOf[s[i].name] = FoldOf[s[j].name]
  BY <1>2 DEF CleanArchive
<1>8. ~\E i \in files : Oversized(s[i])
  <2>1. \A i \in files : s[i].size <= Limits.member
    BY <1>2, <1>3 DEF CleanArchive, IsData
  <2>2. QED BY <1>3, <2>1, NotBomb
<1>9. NestedIssues(x.zip, N) = {}
  <2>1. ASSUME NEW m \in N
        PROVE  m \in Member /\ m.size <= Limits.total /\ AcceptableArchive(x.zip, m.holds)
    <3>1. m \in Member /\ m \in Nested(s)
      BY <1>1
    <3>2. AcceptableArchive(x.zip, m.holds)
      BY <1>1, <3>1, AcceptableNests
    <3>3. m.size \in Nat /\ m.size <= Expanded(s, DOMAIN s)
      BY <1>1, <3>1, MemberIsExpanded
    <3>4. Expanded(s, DOMAIN s) <= Limits.total /\ Expanded(s, DOMAIN s) \in Nat
      <4>1. DOMAIN s \in SUBSET (DOMAIN s)
        OBVIOUS
      <4>2. QED BY <1>1, <1>2, <4>1, ExpandedGrows DEF CleanArchive
    <3> HIDE DEF s, N
    <3>5. QED BY <3>1, <3>2, <3>3, <3>4, LimitsAssumption
  <2> HIDE DEF N
  <2>2. QED BY <1>1, <2>1, NestedRules
<1>10. QED
  BY <1>4, <1>5, <1>6, <1>7, <1>8, <1>9 DEF GenericIssues, CaseIssues, When

(* The same package, extracted.                                            *)
LEMMA ExtractedIsLetPass ==
    ASSUME NEW x \in Package, x.form = "zip", x.profile # "archive", PackageIssues(x) = {}
    PROVE  PackageIssues([x EXCEPT !.form = "directory"]) = {}
<1> DEFINE y == [x EXCEPT !.form = "directory"]
<1>1. /\ y.form = "directory" /\ y.profile = x.profile /\ y.zip = x.zip /\ y.outer = x.outer
      /\ y.descriptor = x.descriptor /\ y.idIsRoot = x.idIsRoot /\ y.manifest = x.manifest
      /\ y.rootIsPayload = x.rootIsPayload /\ y.verifies = x.verifies
      /\ y.payload = x.payload /\ y.extra = x.extra
  BY DEF Package
<1> HIDE DEF y
<1>2. x.profile # "other" /\ ZipIssues(x) = {}
  BY DEF PackageIssues
<1>3. IsRelease(y) <=> IsRelease(x)
  BY <1>1 DEF IsRelease, HasEnvelope
<1>4. PackageIssues(y) = IF IsRelease(x) THEN EnvelopeIssues(y) ELSE GenericIssues(y)
  BY <1>1, <1>2, <1>3 DEF PackageIssues, DirectoryIssues
<1>5. EnvelopeIssues(y) = EnvelopeIssues(x) /\ GenericIssues(y) = GenericIssues(x)
  BY <1>1, Zenon DEF EnvelopeIssues, GenericIssues
<1>6. ASSUME IsRelease(x) PROVE PackageIssues(y) = {}
  <2>1. EnvelopeIssues(x) = {}
    BY <1>2, <1>6, OuterIsAcceptable DEF ZipIssues
  <2>2. QED BY <1>4, <1>5, <1>6, <2>1
<1>7. ASSUME ~IsRelease(x) PROVE PackageIssues(y) = {}
  <2>1. GenericIssues(x) = {}
    BY OuterIsAcceptable, CleanIsGeneric
  <2>2. QED BY <1>4, <1>5, <1>7, <2>1
<1>8. PackageIssues(y) = {}
  BY <1>6, <1>7
<1>9. QED BY <1>8 DEF y

(* Whatever archive there is, nested to whatever depth, inspect_archive    *)
(* reports nothing exactly when it and all that is nested in it is clean   *)
(* and none of it too deep.                                                *)
THEOREM ArchiveRulesHold == Spec => []ArchiveIsExact
<1>1. ASSUME NEW x \in Package, x.form = "zip", x.profile = "archive"
      PROVE  PackageIssues(x) = {} <=> x.size <= Limits.total
                                       /\ AcceptableArchive(x.zip, x.outer)
  <2>1. PackageIssues(x) = ArchiveIssues(x.zip, x.outer, x.size)
    BY <1>1 DEF PackageIssues, ZipIssues
  <2>2. QED BY <2>1, PackageParts, ArchiveRulesAreExact DEF Data
<1>2. Inv => ArchiveIsExact
  BY <1>1 DEF Inv, ArchiveIsExact, Judged, Document, Ruling
<1>3. QED
  BY <1>2, InvHolds, PTL

(* A package that inspect_package accepts as a ZIP file is accepted as the *)
(* directory it extracts to, under the same profile.                       *)
THEOREM ExtractionIsHarmless == Spec => []ExtractedIsAccepted
<1>1. Inv => ExtractedIsAccepted
  BY ExtractedIsLetPass DEF Inv, ExtractedIsAccepted, Judged, Document, Ruling
<1>2. QED
  BY <1>1, InvHolds, PTL

(* Nothing nested in an accepted package is left uninspected but, in a     *)
(* release directory, an archive whose suffix is not lower case.           *)
THEOREM NestedArchivesAreInspected == Spec => []NestedAreInspected
<1>1. Inv => NestedAreInspected
  BY AcceptedIsInspected DEF Inv, NestedAreInspected, Judged, Document, Ruling
<1>2. QED
  BY <1>1, InvHolds, PTL
=============================================================================
