-------------------------- MODULE RegistersProofs --------------------------
(***************************************************************************)
(* Why merging register masks is safe: what the compiler does to a list of *)
(* masks, pair by pair, changes neither what is written nor what is        *)
(* rejected, whatever the order.  And what running the list it makes does  *)
(* to the registers, for lists of every length, with an interrupt between  *)
(* any two steps.                                                          *)
(***************************************************************************)
EXTENDS Registers, SequenceTheorems, FiniteSetTheorems, Induction

\* The merge of two masks is a mask: it covers what it sets.
LEMMA MergeType ==
  ASSUME NEW a \in RegMasks, NEW b \in RegMasks, Mergeable(a, b)
  PROVE  merge(a, b) \in RegMasks
BY DEF RegMasks, merge, Mergeable

\* The order of two masks does not matter, neither to what they are merged to
\* nor to the assertions of regmask::merge.
THEOREM MergeCommutes ==
  ASSUME NEW a \in RegMasks, NEW b \in RegMasks
  PROVE  /\ Mergeable(a, b) <=> Mergeable(b, a)
         /\ Mergeable(a, b) => merge(a, b) = merge(b, a)
BY DEF RegMasks, merge, Mergeable

\* The order in which three masks are merged does not matter: merged from the
\* right, as merged_regmask does, they pass the assertions if and only if every
\* two of them do, and the result is the one of merging from the left.
THEOREM MergeAssociates ==
  ASSUME NEW a \in RegMasks, NEW b \in RegMasks, NEW c \in RegMasks
  PROVE  /\ Mergeable(b, c) /\ Mergeable(a, merge(b, c))
              <=> Mergeable(a, b) /\ Mergeable(a, c) /\ Mergeable(b, c)
         /\ merge(a, merge(b, c)) = merge(merge(a, b), c)
<1>1. merge(a, merge(b, c)) = merge(merge(a, b), c)
  BY DEF RegMasks, merge
<1>2. ASSUME Mergeable(b, c), Mergeable(a, merge(b, c))
      PROVE  Mergeable(a, b) /\ Mergeable(a, c)
  BY <1>2 DEF RegMasks, merge, Mergeable
<1>3. ASSUME Mergeable(a, b), Mergeable(a, c), Mergeable(b, c)
      PROVE  Mergeable(a, merge(b, c))
  BY <1>3 DEF RegMasks, merge, Mergeable
<1>4. QED
  BY <1>1, <1>2, <1>3

\* set() of a merged mask does to a register what set() of the one mask and
\* then of the other does, and leaves both in effect.
THEOREM MergedSetsBoth ==
  ASSUME NEW a \in RegMasks, NEW b \in RegMasks, Mergeable(a, b), NEW v \in SUBSET Bits
  PROVE  /\ ValueSet(v, merge(a, b)) = ValueSet(ValueSet(v, a), b)
         /\ Holds(a, ValueSet(v, merge(a, b))) /\ Holds(b, ValueSet(v, merge(a, b)))
BY DEF RegMasks, merge, Mergeable, ValueSet, cropped_clear_mask, Holds

\* clear() of a merged mask clears the bits of both.
THEOREM MergedClearsBoth ==
  ASSUME NEW a \in RegMasks, NEW b \in RegMasks, Mergeable(a, b), NEW v \in SUBSET Bits
  PROVE  ValueClear(v, merge(a, b)) = ValueClear(ValueClear(v, a), b)
BY DEF RegMasks, merge, Mergeable, ValueClear

\* Merging with the neutral mask of the register changes nothing, so that
\* strict_reset_to() may put one before each list.
THEOREM NeutralIsNeutral ==
  ASSUME NEW a \in RegMasks
  PROVE  /\ Mergeable(neutral_regmask(a.reg), a)
         /\ merge(neutral_regmask(a.reg), a) = a
BY DEF RegMasks, merge, Mergeable, neutral_regmask

\* test() on any value of the registers.
LEMMA TestTellsWhetherInEffect ==
  ASSUME value \in [Regs -> SUBSET Bits]
  PROVE  TestMeansHolds
<1> SUFFICES ASSUME NEW e \in RegMasks, e.clear_mask # {}
             PROVE  test(e, value[e.reg]) <=>
                      IF e.set_mask = e.clear_mask THEN value[e.reg] \cap e.set_mask # {}
                      ELSE Holds(e, value[e.reg])
  BY DEF TestMeansHolds
<1> DEFINE v == value[e.reg]
<1>1. e.set_mask \subseteq e.clear_mask
  BY DEF RegMasks
<1>2. CASE ~bitop_enabled(e)
  BY <1>1, <1>2 DEF test, Holds
<1>3. CASE bitop_enabled(e)
  <2>1. PICK b \in Bits : e.clear_mask = {b}
    BY <1>3 DEF bitop_enabled
  <2>2. e.set_mask = {} \/ e.set_mask = e.clear_mask
    BY <2>1, <1>1
  <2>3. test(e, v) <=> ((e.set_mask = {}) <=> (v \cap e.clear_mask = {}))
    BY <1>3 DEF test
  <2>4. QED
    BY <2>1, <2>2, <2>3 DEF Holds
<1>4. QED
  BY <1>2, <1>3
-----------------------------------------------------------------------------
(* The lists the compiler computes. *)

\* The elements of a list to which one is appended.
LEMMA AppendElements ==
  ASSUME NEW S, NEW s \in Seq(S), NEW e \in S
  PROVE  /\ Append(s, e) \in Seq(S)
         /\ ToSet(Append(s, e)) = ToSet(s) \cup {e}
<1>1. /\ Append(s, e) \in Seq(S) /\ Len(Append(s, e)) = Len(s) + 1
      /\ \A i \in 1 .. Len(s) : Append(s, e)[i] = s[i]
      /\ Append(s, e)[Len(s) + 1] = e
  BY AppendProperties
<1>2. DOMAIN s = 1 .. Len(s) /\ DOMAIN Append(s, e) = 1 .. Len(s) + 1 /\ Len(s) \in Nat
  BY <1>1, LenProperties
<1>3. \A i \in 1 .. Len(s) + 1 : i \in 1 .. Len(s) \/ i = Len(s) + 1
  BY <1>2
<1>4. ToSet(Append(s, e)) \subseteq ToSet(s) \cup {e}
  BY <1>1, <1>2, <1>3 DEF ToSet
<1>5. \A i \in 1 .. Len(s) : i \in 1 .. Len(s) + 1
  BY <1>2
<1>6. Len(s) + 1 \in 1 .. Len(s) + 1
  BY <1>2
<1>7. ToSet(s) \cup {e} \subseteq ToSet(Append(s, e))
  BY <1>1, <1>2, <1>5, <1>6 DEF ToSet
<1>8. QED
  BY <1>1, <1>4, <1>7

\* A list to which one element, or none, is joined.
LEMMA PushedBack ==
  ASSUME NEW S, NEW s \in Seq(S), NEW e \in S
  PROVE  s \o <<e>> = Append(s, e) /\ s \o <<>> = s
OBVIOUS

\* The lists make_filtered_list<> goes through are those of its recursion.
LEMMA FilteredDef ==
  ASSUME NEW S, NEW l \in Seq(S), NEW keep
  PROVE  /\ filtered(l, keep) \in [0 .. Len(l) -> Seq(S)]
         /\ filtered(l, keep)[0] = <<>>
         /\ \A k \in 1 .. Len(l) :
              filtered(l, keep)[k] = IF l[k] \in keep THEN Append(filtered(l, keep)[k - 1], l[k])
                                                     ELSE filtered(l, keep)[k - 1]
<1> DEFINE Body(f) == [k \in 0 .. Len(l) |->
                         IF k = 0 THEN <<>>
                         ELSE f[k - 1] \o IF l[k] \in keep THEN <<l[k]>> ELSE <<>>]
           step == [x \in (1 .. Len(l)) \X Seq(S) |->
                      IF l[x[1]] \in keep THEN Append(x[2], l[x[1]]) ELSE x[2]]
<1>1. Len(l) \in Nat /\ \A k \in 1 .. Len(l) : l[k] \in S
  BY ElementOfSeq, LenProperties
<1>2. step \in [(1 .. Len(l)) \X Seq(S) -> Seq(S)]
  BY <1>1
<1>3. <<>> \in Seq(S)
  OBVIOUS
<1> HIDE DEF step
<1>4. PICK g \in [0 .. Len(l) -> Seq(S)] :
        g[0] = <<>> /\ \A k \in 1 .. Len(l) : g[k] = step[<<k, g[k - 1]>>]
  <2>1. \E g : IsRecursion(g, Len(l), Seq(S), <<>>, step)
    BY <1>1, <1>2, <1>3, RecursionExists
  <2>2. QED
    BY <2>1 DEF IsRecursion
<1>5. ASSUME NEW k \in 1 .. Len(l), NEW s \in Seq(S)
      PROVE  /\ step[<<k, s>>] = IF l[k] \in keep THEN Append(s, l[k]) ELSE s
             /\ s \o (IF l[k] \in keep THEN <<l[k]>> ELSE <<>>) = step[<<k, s>>]
  BY <1>1, PushedBack DEF step
<1>6. \A k \in 1 .. Len(l) : k - 1 \in 0 .. Len(l) /\ k \in 0 .. Len(l) /\ k # 0
  BY <1>1
<1>7. ASSUME NEW k \in 0 .. Len(l), k # 0 PROVE k \in 1 .. Len(l)
  BY <1>7
<1>8. g = Body(g)
  <2>1. ASSUME NEW k \in 1 .. Len(l)
        PROVE  g[k] = g[k - 1] \o IF l[k] \in keep THEN <<l[k]>> ELSE <<>>
    BY <1>4, <1>5, <1>6
  <2>2. QED
    BY <1>4, <1>7, <2>1
<1> DEFINE f == filtered(l, keep)
<1>9. f = CHOOSE h : h = Body(h)
  BY DEF filtered
<1> HIDE DEF f
<1>10. f = Body(f)
  BY <1>8, <1>9
<1>11. f = [k \in 0 .. Len(l) |-> f[k]] /\ f[0] = <<>>
  BY <1>1, <1>10
<1>12. ASSUME NEW k \in 1 .. Len(l)
       PROVE f[k] = f[k - 1] \o IF l[k] \in keep THEN <<l[k]>> ELSE <<>>
  BY <1>6, <1>10
<1>13. \A k \in 1 .. Len(l) : f[k - 1] \in Seq(S) => f[k] = step[<<k, f[k - 1]>>]
  BY <1>5, <1>12
<1>14. IsRecursion(f, Len(l), Seq(S), <<>>, step)
  BY <1>1, <1>2, <1>3, <1>11, <1>13, RecursionHolds
<1>15. QED
  BY <1>5, <1>6, <1>11, <1>14 DEF f, IsRecursion

\* A filtered list has the elements for which the condition holds.
LEMMA FilteredList ==
  ASSUME NEW S, NEW l \in Seq(S), NEW keep
  PROVE  /\ make_filtered_list(l, keep) \in Seq(S)
         /\ ToSet(make_filtered_list(l, keep)) = ToSet(l) \cap keep
<1> DEFINE f == filtered(l, keep)
           Kept(k) == {l[j] : j \in 1 .. k} \cap keep
           Right == {k \in Nat : ToSet(f[k]) = Kept(k)}
<1>0. Len(l) \in Nat /\ DOMAIN l = 1 .. Len(l)
  BY LenProperties
<1>1. /\ f \in [0 .. Len(l) -> Seq(S)] /\ f[0] = <<>>
      /\ \A k \in 1 .. Len(l) :
            f[k] = IF l[k] \in keep THEN Append(f[k - 1], l[k]) ELSE f[k - 1]
  BY FilteredDef
<1> HIDE DEF f
<1>2. 0 \in Right
  BY <1>1 DEF ToSet
<1>3. ASSUME NEW n \in 0 .. Len(l) - 1, n \in Right PROVE n + 1 \in Right
  <2>1. n + 1 \in 1 .. Len(l) /\ (n + 1) - 1 = n /\ n \in 0 .. Len(l)
    BY <1>0
  <2>2. f[n + 1] = IF l[n + 1] \in keep THEN Append(f[n], l[n + 1]) ELSE f[n]
    BY <1>1, <2>1
  <2>3. f[n] \in Seq(S) /\ l[n + 1] \in S
    BY <1>1, <2>1, ElementOfSeq
  <2>4. ToSet(f[n]) = Kept(n)
    BY <1>3
  <2>5. \A j \in 1 .. n + 1 : j \in 1 .. n \/ j = n + 1
    BY <1>0
  <2>6. {l[j] : j \in 1 .. n + 1} = {l[j] : j \in 1 .. n} \cup {l[n + 1]}
    BY <2>1, <2>5
  <2>7. ToSet(f[n + 1]) = Kept(n + 1)
    <3>1. CASE l[n + 1] \in keep
      <4>1. ToSet(f[n + 1]) = ToSet(f[n]) \cup {l[n + 1]}
        BY <2>2, <2>3, <3>1, AppendElements
      <4>2. QED
        BY <2>4, <2>6, <3>1, <4>1
    <3>2. CASE l[n + 1] \notin keep
      BY <2>2, <2>4, <2>6, <3>2
    <3>3. QED
      BY <3>1, <3>2
  <2>8. QED
    BY <2>7
<1> HIDE DEF Right
<1>4. \A k \in 0 .. Len(l) : k \in Right
  BY <1>0, <1>2, <1>3, SetInductionUpTo
<1>5. ToSet(f[Len(l)]) = Kept(Len(l)) /\ f[Len(l)] \in Seq(S)
  BY <1>0, <1>1, <1>4 DEF Right
<1>6. Kept(Len(l)) = ToSet(l) \cap keep
  BY <1>0 DEF ToSet
<1>7. QED
  BY <1>5, <1>6 DEF f, make_filtered_list

\* The lists make_unique_list<> goes through are those of its recursion.
LEMMA UniquesDef ==
  ASSUME NEW S, NEW l \in Seq(S)
  PROVE  /\ uniques(l) \in [0 .. Len(l) -> Seq(S)]
         /\ uniques(l)[0] = <<>>
         /\ \A k \in 1 .. Len(l) :
              uniques(l)[k] = IF Contains(uniques(l)[k - 1], l[k]) THEN uniques(l)[k - 1]
                              ELSE Append(uniques(l)[k - 1], l[k])
<1> DEFINE Body(f) == [k \in 0 .. Len(l) |->
                         IF k = 0 THEN <<>>
                         ELSE f[k - 1] \o IF Contains(f[k - 1], l[k]) THEN <<>> ELSE <<l[k]>>]
           step == [x \in (1 .. Len(l)) \X Seq(S) |->
                      IF Contains(x[2], l[x[1]]) THEN x[2] ELSE Append(x[2], l[x[1]])]
<1>1. Len(l) \in Nat /\ \A k \in 1 .. Len(l) : l[k] \in S
  BY ElementOfSeq, LenProperties
<1>2. step \in [(1 .. Len(l)) \X Seq(S) -> Seq(S)]
  BY <1>1
<1>3. <<>> \in Seq(S)
  OBVIOUS
<1> HIDE DEF step
<1>4. PICK g : IsRecursion(g, Len(l), Seq(S), <<>>, step)
  BY <1>1, <1>2, <1>3, RecursionExists
<1>5. ASSUME NEW k \in 1 .. Len(l), NEW s \in Seq(S)
      PROVE  /\ step[<<k, s>>] = IF Contains(s, l[k]) THEN s ELSE Append(s, l[k])
             /\ s \o (IF Contains(s, l[k]) THEN <<>> ELSE <<l[k]>>) = step[<<k, s>>]
  BY <1>1, PushedBack DEF step
<1>6. \A k \in 1 .. Len(l) : k - 1 \in 0 .. Len(l) /\ k \in 0 .. Len(l) /\ k # 0
  BY <1>1
<1>7. ASSUME NEW k \in 0 .. Len(l), k # 0 PROVE k \in 1 .. Len(l)
  BY <1>7
<1>8. g = Body(g)
  <2>1. ASSUME NEW k \in 1 .. Len(l)
        PROVE  g[k] = g[k - 1] \o IF Contains(g[k - 1], l[k]) THEN <<>> ELSE <<l[k]>>
    BY <1>4, <1>5, <1>6 DEF IsRecursion
  <2>2. QED
    BY <1>4, <1>7, <2>1 DEF IsRecursion
<1> DEFINE f == uniques(l)
<1>9. f = CHOOSE h : h = Body(h)
  BY DEF uniques
<1> HIDE DEF f
<1>10. f = Body(f)
  BY <1>8, <1>9
<1>11. f = [k \in 0 .. Len(l) |-> f[k]] /\ f[0] = <<>>
  BY <1>1, <1>10
<1>12. ASSUME NEW k \in 1 .. Len(l)
       PROVE f[k] = f[k - 1] \o IF Contains(f[k - 1], l[k]) THEN <<>> ELSE <<l[k]>>
  BY <1>6, <1>10
<1>13. \A k \in 1 .. Len(l) : f[k - 1] \in Seq(S) => f[k] = step[<<k, f[k - 1]>>]
  BY <1>5, <1>12
<1>14. IsRecursion(f, Len(l), Seq(S), <<>>, step)
  BY <1>1, <1>2, <1>3, <1>11, <1>13, RecursionHolds
<1>15. QED
  BY <1>5, <1>6, <1>11, <1>14 DEF f, IsRecursion

\* No two elements of a list are the same.
Distinct(s) == \A j, k \in DOMAIN s : s[j] = s[k] => j = k

\* Appending an element a list does not contain leaves its elements distinct.
LEMMA AppendDistinct ==
  ASSUME NEW S, NEW s \in Seq(S), NEW e \in S, Distinct(s), e \notin ToSet(s)
  PROVE  Distinct(Append(s, e))
<1>1. /\ Append(s, e) \in Seq(S) /\ Len(Append(s, e)) = Len(s) + 1
      /\ \A i \in 1 .. Len(s) : Append(s, e)[i] = s[i]
      /\ Append(s, e)[Len(s) + 1] = e
  BY AppendProperties
<1>2. DOMAIN s = 1 .. Len(s) /\ DOMAIN Append(s, e) = 1 .. Len(s) + 1 /\ Len(s) \in Nat
  BY <1>1, LenProperties
<1>3. \A i \in 1 .. Len(s) + 1 : i \in 1 .. Len(s) \/ i = Len(s) + 1
  BY <1>2
<1>4. \A i \in 1 .. Len(s) : s[i] # e
  BY <1>2 DEF ToSet
<1>5. QED
  BY <1>1, <1>2, <1>3, <1>4 DEF Distinct

\* A list without duplicates has the same elements, and no two that are equal.
LEMMA UniqueList ==
  ASSUME NEW S, NEW l \in Seq(S)
  PROVE  /\ filter_unique(l) \in Seq(S)
         /\ ToSet(filter_unique(l)) = ToSet(l)
         /\ Distinct(filter_unique(l))
<1> DEFINE f == uniques(l)
           Seen(k) == {l[j] : j \in 1 .. k}
           Right == {k \in Nat : ToSet(f[k]) = Seen(k) /\ Distinct(f[k])}
<1>0. Len(l) \in Nat /\ DOMAIN l = 1 .. Len(l)
  BY LenProperties
<1>1. /\ f \in [0 .. Len(l) -> Seq(S)] /\ f[0] = <<>>
      /\ \A k \in 1 .. Len(l) :
            f[k] = IF Contains(f[k - 1], l[k]) THEN f[k - 1] ELSE Append(f[k - 1], l[k])
  BY UniquesDef
<1> HIDE DEF f
<1>2. 0 \in Right
  BY <1>1 DEF ToSet, Distinct
<1>3. ASSUME NEW n \in 0 .. Len(l) - 1, n \in Right PROVE n + 1 \in Right
  <2>1. n + 1 \in 1 .. Len(l) /\ (n + 1) - 1 = n /\ n \in 0 .. Len(l)
    BY <1>0
  <2>2. f[n + 1] = IF Contains(f[n], l[n + 1]) THEN f[n] ELSE Append(f[n], l[n + 1])
    BY <1>1, <2>1
  <2>3. f[n] \in Seq(S) /\ l[n + 1] \in S
    BY <1>1, <2>1, ElementOfSeq
  <2>4. ToSet(f[n]) = Seen(n) /\ Distinct(f[n])
    BY <1>3
  <2>5. \A j \in 1 .. n + 1 : j \in 1 .. n \/ j = n + 1
    BY <1>0
  <2>6. Seen(n + 1) = Seen(n) \cup {l[n + 1]}
    BY <2>1, <2>5
  <2>7. Contains(f[n], l[n + 1]) <=> l[n + 1] \in ToSet(f[n])
    <3>1. DOMAIN f[n] = 1 .. Len(f[n])
      BY <2>3, LenProperties
    <3>2. QED
      BY <3>1 DEF Contains, ToSet
  <2> HIDE DEF Seen
  <2>8. ToSet(f[n + 1]) = Seen(n + 1) /\ Distinct(f[n + 1])
    <3>1. CASE Contains(f[n], l[n + 1])
      BY <2>2, <2>4, <2>6, <2>7, <3>1
    <3>2. CASE ~ Contains(f[n], l[n + 1])
      <4>1. ToSet(f[n + 1]) = ToSet(f[n]) \cup {l[n + 1]}
        BY <2>2, <2>3, <3>2, AppendElements
      <4>2. Distinct(f[n + 1])
        BY <2>2, <2>3, <2>4, <2>7, <3>2, AppendDistinct
      <4>3. QED
        BY <2>4, <2>6, <4>1, <4>2
    <3>3. QED
      BY <3>1, <3>2
  <2>9. QED
    BY <2>8
<1> HIDE DEF Right, Seen
<1>4. \A k \in 0 .. Len(l) : k \in Right
  BY <1>0, <1>2, <1>3, SetInductionUpTo
<1>5. ToSet(f[Len(l)]) = Seen(Len(l)) /\ Distinct(f[Len(l)]) /\ f[Len(l)] \in Seq(S)
  <2>1. Len(l) \in 0 .. Len(l)
    BY <1>0
  <2>2. Len(l) \in Right /\ f[Len(l)] \in Seq(S)
    BY <1>1, <1>4, <2>1
  <2>3. QED
    BY <2>2 DEF Right
<1>6. Seen(Len(l)) = ToSet(l)
  BY <1>0 DEF Seen, ToSet
<1>7. QED
  BY <1>5, <1>6 DEF f, filter_unique

-----------------------------------------------------------------------------
(* Merging a list of masks of one register. *)

\* What is set and covered by the masks of a list from one on.
SetFrom(l, k) == UNION {l[i].set_mask : i \in k .. Len(l)}
ClearFrom(l, k) == UNION {l[i].clear_mask : i \in k .. Len(l)}

\* From one mask on it is that of the mask and that of the rest.
LEMMA FromNext ==
  ASSUME NEW l \in Seq(RegMasks), NEW k \in 1 .. Len(l) - 1
  PROVE  /\ SetFrom(l, k) = l[k].set_mask \cup SetFrom(l, k + 1)
         /\ ClearFrom(l, k) = l[k].clear_mask \cup ClearFrom(l, k + 1)
<1>1. Len(l) \in Nat
  BY LenProperties
<1>2. \A i \in k .. Len(l) : i = k \/ i \in k + 1 .. Len(l)
  BY <1>1
<1>3. k \in k .. Len(l) /\ \A i \in k + 1 .. Len(l) : i \in k .. Len(l)
  BY <1>1
<1>4. SetFrom(l, k) = l[k].set_mask \cup SetFrom(l, k + 1)
  BY <1>2, <1>3 DEF SetFrom
<1>5. ClearFrom(l, k) = l[k].clear_mask \cup ClearFrom(l, k + 1)
  BY <1>2, <1>3 DEF ClearFrom
<1>6. QED
  BY <1>4, <1>5

\* merged_regmask<> is what its recursion makes of a list, from the right.
LEMMA MergedDef ==
  ASSUME NEW l \in Seq(RegMasks), l # <<>>
  PROVE  /\ Merged(l)[Len(l)] = l[Len(l)]
         /\ \A k \in 1 .. Len(l) - 1 : Merged(l)[k] = merge(l[k], Merged(l)[k + 1])
<1> DEFINE n == Len(l) - 1
           Body(f) == [k \in DOMAIN l |-> IF k = Len(l) THEN l[k] ELSE merge(l[k], f[k + 1])]
           step == [x \in (1 .. n) \X RegMasks |-> merge(l[n + 1 - x[1]], x[2])]
<1>1. /\ Len(l) \in Nat \ {0} /\ DOMAIN l = 1 .. Len(l)
      /\ \A k \in 1 .. Len(l) : l[k] \in RegMasks
  BY ElementOfSeq, LenProperties, EmptySeq
<1>2. n \in Nat /\ n + 1 = Len(l)
  BY <1>1
<1> HIDE DEF n
<1>0. DOMAIN l = 1 .. n + 1 /\ \A k \in 1 .. n : k # Len(l) /\ k \in 1 .. n + 1 /\ k + 1 \in 1 .. n + 1
  <2>1. DOMAIN l = 1 .. n + 1
    BY <1>1, <1>2, Zenon
  <2>2. \A k \in 1 .. n : k # n + 1 /\ k \in 1 .. n + 1 /\ k + 1 \in 1 .. n + 1
    BY <1>2
  <2>3. QED
    BY <1>2, <2>1, <2>2, Zenon
<1>3. \A a, b \in RegMasks : merge(a, b) \in RegMasks
  BY DEF merge, RegMasks
<1>4. step \in [(1 .. n) \X RegMasks -> RegMasks]
  <2>1. \A k \in 1 .. n : n + 1 - k \in 1 .. Len(l)
    BY <1>2
  <2>2. QED
    BY <1>1, <1>3, <2>1
<1>5. l[Len(l)] \in RegMasks
  BY <1>1
<1> HIDE DEF step
<1>6. PICK g : IsRecursion(g, n, RegMasks, l[Len(l)], step)
  BY <1>2, <1>4, <1>5, RecursionExists
<1> DEFINE h == [k \in DOMAIN l |-> g[n + 1 - k]]
<1>7. h[Len(l)] = l[Len(l)]
  BY <1>1, <1>2, <1>6 DEF IsRecursion
<1>8. ASSUME NEW k \in 1 .. n PROVE h[k] = merge(l[k], h[k + 1])
  <2>1. n + 1 - k \in 1 .. n /\ (n + 1 - k) - 1 \in 0 .. n /\ n + 1 - (n + 1 - k) = k
    BY <1>2
  <2>2. g[n + 1 - k] = step[<<n + 1 - k, g[(n + 1 - k) - 1]>>] /\ g[(n + 1 - k) - 1] \in RegMasks
    BY <1>6, <2>1 DEF IsRecursion
  <2>3. g[n + 1 - k] = merge(l[k], g[(n + 1 - k) - 1])
    BY <2>1, <2>2 DEF step
  <2>4. k \in DOMAIN l /\ k + 1 \in DOMAIN l /\ n + 1 - (k + 1) = (n + 1 - k) - 1
    BY <1>0, <1>2
  <2>5. QED
    BY <2>3, <2>4
<1>9. \A k \in DOMAIN l : k = Len(l) \/ k \in 1 .. n
  BY <1>1, <1>2
<1>10. h = Body(h)
  <2>1. DOMAIN h = DOMAIN l /\ h = [k \in DOMAIN l |-> h[k]]
    OBVIOUS
  <2>2. \A k \in 1 .. n : k # Len(l)
    BY <1>0
  <2> HIDE DEF h
  <2>3. \A k \in DOMAIN l : h[k] = IF k = Len(l) THEN l[k] ELSE merge(l[k], h[k + 1])
    BY <1>7, <1>8, <1>9, <2>2
  <2>4. QED
    BY <2>1, <2>3
<1> HIDE DEF h
<1> DEFINE m == Merged(l)
<1>11. m = CHOOSE f : f = Body(f)
  BY DEF Merged
<1> HIDE DEF m
<1>12. m = Body(m)
  BY <1>10, <1>11
<1>13. Len(l) \in DOMAIN l /\ \A k \in 1 .. n : k \in DOMAIN l /\ k # Len(l)
  BY <1>0, <1>2
<1>14. m[Len(l)] = l[Len(l)] /\ \A k \in 1 .. n : m[k] = merge(l[k], m[k + 1])
  BY <1>12, <1>13
<1>15. QED
  BY <1>14 DEF m, n

\* Merged, the masks set what one of them sets and cover what one of them covers.
LEMMA MergedList ==
  ASSUME NEW l \in Seq(RegMasks), NEW k \in 1 .. Len(l)
  PROVE  Merged(l)[k] = [reg |-> l[k].reg, set_mask |-> SetFrom(l, k), clear_mask |-> ClearFrom(l, k)]
<1> DEFINE What(i) == [reg |-> l[i].reg, set_mask |-> SetFrom(l, i), clear_mask |-> ClearFrom(l, i)]
           Right == {i \in Nat : Merged(l)[i] = What(i)}
<1>1. Len(l) \in Nat \ {0} /\ l # <<>> /\ \A i \in 1 .. Len(l) : l[i] \in RegMasks
  BY ElementOfSeq, LenProperties, EmptySeq
<1>2. /\ Merged(l)[Len(l)] = l[Len(l)]
      /\ \A i \in 1 .. Len(l) - 1 : Merged(l)[i] = merge(l[i], Merged(l)[i + 1])
  BY <1>1, MergedDef
<1>3. Len(l) \in Right
  <2>1. SetFrom(l, Len(l)) = l[Len(l)].set_mask /\ ClearFrom(l, Len(l)) = l[Len(l)].clear_mask
    <3>1. Len(l) .. Len(l) = {Len(l)}
      BY <1>1
    <3>2. QED
      BY <3>1 DEF SetFrom, ClearFrom
  <2>2. l[Len(l)] \in RegMasks
    BY <1>1
  <2>3. l[Len(l)] = What(Len(l))
    BY <2>1, <2>2 DEF RegMasks
  <2>4. QED
    BY <1>1, <1>2, <2>3
<1>4. ASSUME NEW i \in 1 .. Len(l) - 1, i + 1 \in Right PROVE i \in Right
  <2>1. Merged(l)[i] = merge(l[i], What(i + 1))
    BY <1>2, <1>4
  <2>2. merge(l[i], What(i + 1)) = What(i)
    BY FromNext DEF merge
  <2>3. QED
    BY <2>1, <2>2
<1> HIDE DEF Right
<1>5. \A i \in 1 .. Len(l) : i \in Right
  BY <1>1, <1>3, <1>4, SetInductionDown
<1>6. QED
  BY <1>5 DEF Right

\* One mask leaves alone what another one sets.
Agrees(a, b) == a.set_mask \cap b.clear_mask \subseteq b.set_mask

\* The assertions of the merges, each of a mask with what the rest is merged to,
\* hold for a list of masks of a register if and only if every two masks agree.
LEMMA MergesAsserted ==
  ASSUME NEW f \in Seq(RegMasks), NEW r, \A i \in DOMAIN f : f[i].reg = r
  PROVE  (\A k \in 1 .. Len(f) - 1 : Mergeable(f[k], Merged(f)[k + 1]))
           <=> \A i, j \in DOMAIN f : Agrees(f[i], f[j])
<1>1. Len(f) \in Nat /\ DOMAIN f = 1 .. Len(f)
  BY LenProperties
<1>2. \A k \in 1 .. Len(f) - 1 : k \in DOMAIN f /\ k + 1 \in DOMAIN f
  BY <1>1
<1>3. ASSUME NEW k \in 1 .. Len(f) - 1
      PROVE  Mergeable(f[k], Merged(f)[k + 1]) <=>
               /\ SetFrom(f, k + 1) \cap f[k].clear_mask \subseteq f[k].set_mask
               /\ f[k].set_mask \cap ClearFrom(f, k + 1) \subseteq SetFrom(f, k + 1)
  <2>1. Merged(f)[k + 1] = [reg |-> f[k + 1].reg, set_mask |-> SetFrom(f, k + 1),
                            clear_mask |-> ClearFrom(f, k + 1)]
    BY <1>1, <1>2, MergedList
  <2>2. f[k].reg = f[k + 1].reg
    BY <1>2
  <2>3. QED
    BY <2>1, <2>2 DEF Mergeable
<1>4. ASSUME \A i, j \in DOMAIN f : Agrees(f[i], f[j]), NEW k \in 1 .. Len(f) - 1
      PROVE  Mergeable(f[k], Merged(f)[k + 1])
  <2>1. \A i \in k + 1 .. Len(f) : i \in DOMAIN f
    BY <1>1
  <2>2. SetFrom(f, k + 1) \cap f[k].clear_mask \subseteq f[k].set_mask
    BY <1>2, <1>4, <2>1 DEF SetFrom, Agrees
  <2>3. f[k].set_mask \cap ClearFrom(f, k + 1) \subseteq SetFrom(f, k + 1)
    BY <1>2, <1>4, <2>1 DEF SetFrom, ClearFrom, Agrees
  <2>4. QED
    BY <1>3, <2>2, <2>3
<1>5. ASSUME \A k \in 1 .. Len(f) - 1 : Mergeable(f[k], Merged(f)[k + 1]),
             NEW i \in DOMAIN f, NEW j \in DOMAIN f
      PROVE  Agrees(f[i], f[j])
  <2>1. ASSUME NEW k \in DOMAIN f, NEW n \in DOMAIN f, k < n PROVE Agrees(f[n], f[k])
    <3>1. k \in 1 .. Len(f) - 1 /\ n \in k + 1 .. Len(f)
      BY <1>1, <2>1
    <3>2. SetFrom(f, k + 1) \cap f[k].clear_mask \subseteq f[k].set_mask
      BY <1>3, <1>5, <3>1
    <3>3. QED
      BY <3>1, <3>2 DEF SetFrom, Agrees
  <2>2. ASSUME i < j, NEW b, b \in f[i].set_mask, b \in f[j].clear_mask PROVE b \in f[j].set_mask
    <3> DEFINE T == {d \in Nat : d # 0 /\ d <= j - i /\ b \in f[j - d].set_mask}
    <3>0. i \in Nat /\ j \in Nat /\ 1 <= i /\ j <= Len(f)
      BY <1>1
    <3>1. j - i \in Nat /\ j - (j - i) = i /\ j - i # 0
      BY <2>2, <3>0
    <3>2. j - i \in T
      BY <2>2, <3>1
    <3>3. PICK d \in T : \A e \in T : d <= e
      <4>1. T \in SUBSET Nat /\ T # {}
        BY <3>2
      <4> HIDE DEF T
      <4>2. QED
        BY <4>1, LeastNatural
    <3>4. d \in Nat /\ j - d \in 1 .. Len(f) - 1 /\ j \in (j - d) + 1 .. Len(f)
      BY <3>0, <3>3
    <3>5. b \in f[j - d].set_mask \cap ClearFrom(f, (j - d) + 1)
      BY <2>2, <3>3, <3>4 DEF ClearFrom
    <3>6. b \in SetFrom(f, (j - d) + 1)
      BY <1>3, <1>5, <3>4, <3>5
    <3>7. PICK n \in (j - d) + 1 .. Len(f) : b \in f[n].set_mask
      BY <3>6 DEF SetFrom
    <3>8. CASE n < j
      <4> HIDE DEF T
      <4>1. d <= j - i /\ n \in Nat /\ (j - d) + 1 <= n
        BY <3>0, <3>3, <3>4 DEF T
      <4>2. j - n \in Nat /\ j - n # 0 /\ j - (j - n) = n
        BY <3>0, <3>8, <4>1
      <4>3. j - n < d
        BY <3>0, <3>4, <4>1
      <4>4. j - n <= j - i
        BY <3>0, <3>4, <4>1, <4>3
      <4>5. j - n \in T
        BY <3>7, <4>2, <4>4 DEF T
      <4>6. d <= j - n
        BY <3>3, <4>5
      <4>7. QED
        BY <3>4, <4>2, <4>3, <4>6
    <3>9. CASE n = j
      BY <3>7, <3>9
    <3>10. CASE j < n
      <4>1. n \in DOMAIN f
        BY <1>1, <3>0, <3>10
      <4>2. QED
        BY <2>1, <2>2, <3>7, <3>10, <4>1 DEF Agrees
    <3>11. QED
      BY <3>0, <3>4, <3>8, <3>9, <3>10
  <2>3. CASE i < j
    BY <2>2, <2>3 DEF Agrees
  <2>4. CASE i = j
    BY <2>4 DEF Agrees
  <2>5. CASE j < i
    BY <2>1, <2>5
  <2>6. QED
    BY <1>1, <2>3, <2>4, <2>5
<1>6. QED
  BY <1>4, <1>5

-----------------------------------------------------------------------------
(* What a list comes to for each register. *)

\* What the elements of a list set and cover of a register.
SetOf(l, r) == UNION {l[k].set_mask : k \in {k \in DOMAIN l : l[k].reg = r}}
ClearOf(l, r) == UNION {l[k].clear_mask : k \in {k \in DOMAIN l : l[k].reg = r}}
MaskOf(l, r) == [reg |-> r, set_mask |-> SetOf(l, r), clear_mask |-> ClearOf(l, r)]

\* It is a mask of the register.
LEMMA MaskOfType ==
  ASSUME NEW l \in Seq(RegMasks), NEW r \in Regs
  PROVE  MaskOf(l, r) \in RegMasks
<1>1. \A k \in DOMAIN l : l[k] \in RegMasks
  BY ElementOfSeq, LenProperties
<1>2. \A k \in DOMAIN l : /\ l[k].set_mask \subseteq l[k].clear_mask
                          /\ l[k].clear_mask \subseteq Bits
  BY <1>1 DEF RegMasks
<1>3. SetOf(l, r) \subseteq ClearOf(l, r) /\ ClearOf(l, r) \subseteq Bits
  BY <1>2 DEF SetOf, ClearOf
<1>4. QED
  BY <1>3 DEF MaskOf, RegMasks

\* The elements of a register, as a list.
LEMMA FilteredReg ==
  ASSUME NEW l \in Seq(RegMasks), NEW r
  PROVE  /\ filter_reg_type(l, r) \in Seq(RegMasks)
         /\ ToSet(filter_reg_type(l, r)) = {l[k] : k \in {k \in DOMAIN l : l[k].reg = r}}
<1> DEFINE keep == {l[k] : k \in {k \in DOMAIN l : l[k].reg = r}}
<1>1. ToSet(l) \cap keep = keep
  BY DEF ToSet
<1> HIDE DEF keep
<1>2. filter_reg_type(l, r) = make_filtered_list(l, keep)
  BY DEF filter_reg_type, keep
<1>3. QED
  BY <1>1, <1>2, FilteredList DEF keep

\* Merged, they are the mask of the register.
LEMMA MergedReg ==
  ASSUME NEW l \in Seq(RegMasks), NEW n \in DOMAIN l
  PROVE  Merged(filter_reg_type(l, l[n].reg))[1] = MaskOf(l, l[n].reg)
<1> DEFINE r == l[n].reg
           f == filter_reg_type(l, r)
           Ks == {k \in DOMAIN l : l[k].reg = r}
<1>1. f \in Seq(RegMasks) /\ ToSet(f) = {l[k] : k \in Ks}
  BY FilteredReg
<1> HIDE DEF f
<1>2. DOMAIN f = 1 .. Len(f) /\ Len(f) \in Nat /\ n \in Ks
  BY <1>1, LenProperties
<1>3. \A i \in DOMAIN f : \E k \in Ks : f[i] = l[k]
  BY <1>1 DEF ToSet
<1>4. \A k \in Ks : \E i \in DOMAIN f : f[i] = l[k]
  BY <1>1 DEF ToSet
<1> HIDE DEF Ks
<1>5. 1 \in 1 .. Len(f)
  BY <1>2, <1>4
<1>6. SetFrom(f, 1) = UNION {l[k].set_mask : k \in Ks}
  BY <1>2, <1>3, <1>4 DEF SetFrom
<1>7. ClearFrom(f, 1) = UNION {l[k].clear_mask : k \in Ks}
  BY <1>2, <1>3, <1>4 DEF ClearFrom
<1>8. f[1].reg = r
  BY <1>2, <1>3, <1>5 DEF Ks
<1>9. Merged(f)[1] = [reg |-> f[1].reg, set_mask |-> SetFrom(f, 1), clear_mask |-> ClearFrom(f, 1)]
  BY <1>1, <1>5, MergedList
<1>10. QED
  BY <1>6, <1>7, <1>8, <1>9 DEF f, Ks, MaskOf, SetOf, ClearOf

\* The assertions of all merges of a list hold if and only if no two of its
\* elements contradict each other.
THEOREM AssertedMeansConsistent ==
  ASSUME NEW l \in Seq(RegMasks)
  PROVE  Asserted(l) <=> ~ Contradictory(l)
<1> DEFINE F(n) == filter_reg_type(l, l[n].reg)
           Ks(n) == {k \in DOMAIN l : l[k].reg = l[n].reg}
           All(n) == \A i, j \in DOMAIN F(n) : Agrees(F(n)[i], F(n)[j])
<1>1. ASSUME NEW n \in DOMAIN l
      PROVE  /\ F(n) \in Seq(RegMasks)
             /\ \A i \in DOMAIN F(n) : \E k \in Ks(n) : F(n)[i] = l[k]
             /\ \A k \in Ks(n) : \E i \in DOMAIN F(n) : F(n)[i] = l[k]
  <2>1. F(n) \in Seq(RegMasks) /\ ToSet(F(n)) = {l[k] : k \in Ks(n)}
    BY FilteredReg
  <2> HIDE DEF F, Ks
  <2>2. QED
    BY <2>1 DEF ToSet
<1>2. ASSUME NEW n \in DOMAIN l
      PROVE  (\A k \in 1 .. Len(F(n)) - 1 : Mergeable(F(n)[k], Merged(F(n))[k + 1])) <=> All(n)
  <2>1. \A i \in DOMAIN F(n) : F(n)[i].reg = l[n].reg
    BY <1>1
  <2> HIDE DEF F
  <2>2. QED
    BY <1>1, <2>1, MergesAsserted DEF F
<1>3. Asserted(l) <=> \A n \in DOMAIN l : All(n)
  BY <1>2 DEF Asserted
<1> HIDE DEF F
<1>4. (\A n \in DOMAIN l : All(n))
        <=> \A n \in DOMAIN l : \A j, k \in Ks(n) : Agrees(l[j], l[k])
  <2> HIDE DEF Ks
  <2>1. ASSUME NEW n \in DOMAIN l, All(n), NEW j \in Ks(n), NEW k \in Ks(n)
        PROVE  Agrees(l[j], l[k])
    <3>1. PICK a \in DOMAIN F(n), b \in DOMAIN F(n) : F(n)[a] = l[j] /\ F(n)[b] = l[k]
      BY <1>1
    <3>2. QED
      BY <2>1, <3>1
  <2>2. ASSUME NEW n \in DOMAIN l, \A j, k \in Ks(n) : Agrees(l[j], l[k])
        PROVE  All(n)
    BY <1>1, <2>2
  <2>3. QED
    BY <2>1, <2>2
<1>5. (\A n \in DOMAIN l : \A j, k \in Ks(n) : Agrees(l[j], l[k])) <=> ~ Contradictory(l)
  BY DEF Agrees, Contradictory
<1>6. QED
  BY <1>3, <1>4, <1>5

\* The list that is run has one mask for each register of the list it is made
\* from, and that is the register's.
THEOREM OneMaskPerRegister ==
  ASSUME NEW l \in Seq(RegMasks)
  PROVE  LET u == unique_merged_list(l)
         IN /\ u \in Seq(RegMasks)
            /\ \A k \in DOMAIN u : u[k] = MaskOf(l, u[k].reg) /\ \E n \in DOMAIN l : l[n].reg = u[k].reg
            /\ \A n \in DOMAIN l : \E k \in DOMAIN u : u[k].reg = l[n].reg
            /\ \A j, k \in DOMAIN u : u[j].reg = u[k].reg => j = k
<1> DEFINE m == merged_list(l)
           u == unique_merged_list(l)
<1>1. /\ Len(l) \in Nat /\ DOMAIN l = 1 .. Len(l)
      /\ \A n \in DOMAIN l : l[n] \in RegMasks /\ l[n].reg \in Regs
  BY ElementOfSeq, LenProperties DEF RegMasks
<1>2. m = [n \in DOMAIN l |-> MaskOf(l, l[n].reg)]
  BY MergedReg DEF merged_list
<1> HIDE DEF m
<1>3. \A n \in DOMAIN l : m[n] \in RegMasks
  BY <1>1, <1>2, MaskOfType
<1>4. m \in Seq(RegMasks) /\ DOMAIN m = DOMAIN l
  BY <1>1, <1>2, <1>3, IsASeq
<1>5. u \in Seq(RegMasks) /\ ToSet(u) = ToSet(m) /\ Distinct(u)
  BY <1>4, UniqueList DEF unique_merged_list, m
<1> HIDE DEF u
<1>6. \A k \in DOMAIN u : \E n \in DOMAIN l : u[k] = MaskOf(l, l[n].reg)
  BY <1>2, <1>4, <1>5 DEF ToSet
<1>7. \A n \in DOMAIN l : \E k \in DOMAIN u : u[k] = MaskOf(l, l[n].reg)
  BY <1>2, <1>4, <1>5 DEF ToSet
<1>8. \A r : MaskOf(l, r).reg = r
  BY DEF MaskOf
<1>9. \A k \in DOMAIN u : u[k] = MaskOf(l, u[k].reg) /\ \E n \in DOMAIN l : l[n].reg = u[k].reg
  BY <1>6, <1>8
<1>10. \A j, k \in DOMAIN u : u[j].reg = u[k].reg => j = k
  BY <1>5, <1>9 DEF Distinct
<1>11. QED
  BY <1>5, <1>7, <1>8, <1>9, <1>10 DEF u

-----------------------------------------------------------------------------
(* The list a program is written with. *)

\* A list of lists, flattened, is a list of their elements.
LEMMA FlattenType ==
  ASSUME NEW S, NEW raw \in Seq(Seq(S))
  PROVE  FlattenSeq(raw) \in Seq(S)
<1>1. <<>> \in Seq(S)
  OBVIOUS
<1>2. \A s, t \in Seq(S) : s \o t \in Seq(S)
  OBVIOUS
<1>3. QED
  BY <1>1, <1>2, FlattenClosed

\* What make_reglist<> keeps of a list a program is written with are masks.
LEMMA ReglistType ==
  ASSUME NEW raw \in RawLists
  PROVE  make_reglist(raw) \in Seq(RegMasks)
<1> DEFINE S == RegMasks \cup OtherElements
           l == typelist(raw)
           keep == {l[k] : k \in {k \in DOMAIN l : l[k].reg # NoReg}}
           f == make_filtered_list(l, keep)
<1>1. l \in Seq(S)
  <2>1. raw \in Seq(Seq(S))
    BY RawAssumption
  <2> HIDE DEF S
  <2>2. QED
    BY <2>1, FlattenType DEF typelist
<1> HIDE DEF l
<1>2. \A k \in DOMAIN l : l[k] \in S
  BY <1>1, ElementOfSeq, LenProperties
<1>3. keep \subseteq RegMasks
  BY <1>2 DEF OtherElements
<1>4. f \in Seq(S) /\ ToSet(f) = ToSet(l) \cap keep
  <2> HIDE DEF S, keep
  <2>1. QED
    BY <1>1, FilteredList
<1> HIDE DEF keep, S
<1>5. make_reglist(raw) = f
  BY DEF make_reglist, l, keep
<1> HIDE DEF f
<1>6. DOMAIN f = 1 .. Len(f) /\ Len(f) \in Nat /\ f = [k \in 1 .. Len(f) |-> f[k]]
  BY <1>4, LenProperties
<1>7. \A k \in 1 .. Len(f) : f[k] \in RegMasks
  BY <1>3, <1>4, <1>6 DEF ToSet
<1>8. f \in Seq(RegMasks)
  BY <1>6, <1>7, IsASeq
<1>9. QED
  BY <1>5, <1>8

\* A list has an element of a register.
Names(l, r) == \E k \in DOMAIN l : l[k].reg = r

\* The neutral masks strict_reset_to() puts before a list add registers to it,
\* and neither bits nor contradictions.
LEMMA NeutralsAddNothing ==
  ASSUME NEW o, NEW l \in Seq(RegMasks)
  PROVE  LET s == ListOf(o, l)
         IN /\ s \in Seq(RegMasks)
            /\ \A r : SetOf(s, r) = SetOf(l, r) /\ ClearOf(s, r) = ClearOf(l, r)
            /\ Contradictory(s) <=> Contradictory(l)
            /\ \A r : Names(s, r)
                        <=> Names(l, r) \/ (o = "strict_reset_to" /\ Contains(StrictRegs, r))
<1> DEFINE s == ListOf(o, l)
           t == neutrals(StrictRegs)
<1>1. CASE o # "strict_reset_to"
  BY <1>1 DEF ListOf
<1>2. CASE o = "strict_reset_to"
  <2>1. Len(StrictRegs) \in Nat /\ DOMAIN StrictRegs = 1 .. Len(StrictRegs)
        /\ \A k \in 1 .. Len(StrictRegs) : StrictRegs[k] \in Regs
    BY StrictAssumption, ElementOfSeq, LenProperties
  <2>2. t = [k \in 1 .. Len(StrictRegs) |-> neutral_regmask(StrictRegs[k])]
    BY <2>1 DEF neutrals
  <2>3. \A k \in 1 .. Len(StrictRegs) : neutral_regmask(StrictRegs[k]) \in RegMasks
    BY <2>1 DEF neutral_regmask, RegMasks
  <2>4. t \in Seq(RegMasks) /\ DOMAIN t = 1 .. Len(StrictRegs)
    BY <2>1, <2>2, <2>3, IsASeq
  <2>5. \A k \in DOMAIN t : t[k].reg = StrictRegs[k] /\ t[k].set_mask = {} /\ t[k].clear_mask = {}
    BY <2>2, <2>4 DEF neutral_regmask
  <2>6. s = t \o l
    BY <1>2 DEF ListOf
  <2> HIDE DEF s, t
  <2>7. Len(t) \in Nat /\ Len(l) \in Nat /\ DOMAIN t = 1 .. Len(t) /\ DOMAIN l = 1 .. Len(l)
    BY <2>4, LenProperties
  <2>8. /\ s \in Seq(RegMasks) /\ Len(s) = Len(t) + Len(l)
        /\ \A i \in 1 .. Len(t) : s[i] = t[i]
        /\ \A i \in Len(t) + 1 .. Len(t) + Len(l) : s[i] = l[i - Len(t)]
    BY <2>4, <2>6, <2>7
  <2>9. DOMAIN s = 1 .. Len(t) + Len(l)
    BY <2>8, LenProperties
  <2>10. \A i \in DOMAIN s : (i \in DOMAIN t /\ s[i] = t[i])
                              \/ \E k \in DOMAIN l : s[i] = l[k]
    <3>1. ASSUME NEW i \in 1 .. Len(t) + Len(l), i \notin 1 .. Len(t)
          PROVE  i - Len(t) \in 1 .. Len(l) /\ i \in Len(t) + 1 .. Len(t) + Len(l)
      BY <2>7, <3>1
    <3>2. QED
      BY <2>7, <2>8, <2>9, <3>1
  <2>11. \A k \in DOMAIN l : \E i \in DOMAIN s : s[i] = l[k]
    <3>1. ASSUME NEW k \in 1 .. Len(l)
          PROVE  Len(t) + k \in Len(t) + 1 .. Len(t) + Len(l) /\ Len(t) + k \in 1 .. Len(t) + Len(l)
                 /\ (Len(t) + k) - Len(t) = k
      BY <2>7
    <3>2. QED
      BY <2>7, <2>8, <2>9, <3>1
  <2>12. \A k \in DOMAIN t : k \in DOMAIN s /\ s[k] = t[k]
    BY <2>7, <2>8, <2>9
  <2>13. ASSUME NEW r PROVE SetOf(s, r) = SetOf(l, r) /\ ClearOf(s, r) = ClearOf(l, r)
    <3>1. SetOf(s, r) = SetOf(l, r)
      BY <2>5, <2>10, <2>11 DEF SetOf
    <3>2. ClearOf(s, r) = ClearOf(l, r)
      BY <2>5, <2>10, <2>11 DEF ClearOf
    <3>3. QED
      BY <3>1, <3>2
  <2>14. Contradictory(s) <=> Contradictory(l)
    BY <2>5, <2>10, <2>11 DEF Contradictory
  <2>15. ASSUME NEW r
         PROVE  Names(s, r) <=> Names(l, r) \/ Contains(StrictRegs, r)
    BY <2>4, <2>5, <2>10, <2>11, <2>12 DEF Names, Contains
  <2>16. QED
    BY <1>2, <2>8, <2>13, <2>14, <2>15 DEF s
<1>3. QED
  BY <1>1, <1>2

\* A program is rejected by the compiler if and only if its list contradicts
\* itself, or names a register strict_reset_to() is not given.
LEMMA CompilesIfConsistent ==
  ASSUME NEW o, NEW l \in Seq(RegMasks)
  PROVE  Compiles(o, l) <=> /\ ~ Contradictory(l)
                            /\ o = "strict_reset_to" => all_reg_type(l, StrictRegs)
<1>1. Asserted(ListOf(o, l)) <=> ~ Contradictory(l)
  BY NeutralsAddNothing, AssertedMeansConsistent
<1>2. QED
  BY <1>1 DEF Compiles

-----------------------------------------------------------------------------
(* Running a list. *)

\* What is run, and how many of its operations are done.
Plan == unique_merged_list(ListOf(op, list))
ran == Len(Plan) - Len(todo)

\* What an operation makes of its register.
Applied(e) == IF op = "set" THEN ValueSet(start[e.reg], e)
              ELSE IF op = "clear" THEN ValueClear(start[e.reg], e)
              ELSE ValueResetTo(e)

TypeInv ==
  /\ value \in [Regs -> SUBSET Bits] /\ start \in [Regs -> SUBSET Bits]
  /\ op \in {"set", "clear", "reset_to", "strict_reset_to"}
  /\ list \in Seq(RegMasks) /\ todo \in Seq(RegMasks)
  /\ pc \in {"next", "store", "rejected"} /\ copy \in SUBSET Bits
  /\ writes \in Seq(Regs) /\ isr \in InterruptBits \cup {<<>>}

RejectedInv == pc = "rejected" <=> ~ Compiles(op, list)

\* What is left to do is the end of the plan.
PlanInv ==
  pc # "rejected" => /\ Len(todo) <= Len(Plan)
                     /\ \A i \in 1 .. Len(todo) : todo[i] = Plan[ran + i]

\* Between load and store there is an operation, and no bit-band one.
StoreInv == pc = "store" => todo # <<>> /\ op \in {"set", "clear"} /\ ~ BitOp

\* No register is written to twice.
WritesInv ==
  /\ \A j, k \in 1 .. Len(writes) : writes[j] = writes[k] => j = k
  /\ \A j \in 1 .. Len(writes), i \in 1 .. Len(todo) : writes[j] # todo[i].reg

\* Undisturbed, the operations done have their effect and the registers of the
\* others their values of the start; a copy is still the value.
AppliedInv ==
  pc # "rejected" /\ isr = <<>> =>
    /\ \A k \in 1 .. ran : value[Plan[k].reg] = Applied(Plan[k])
    /\ \A r \in Regs : (\A k \in 1 .. ran : Plan[k].reg # r) => value[r] = start[r]
    /\ pc = "store" => copy = value[current.reg]

\* What is done to a register one bit of which an interrupt sets is by bit-band
\* writes of other bits.
OneBit(e) == bitop_enabled(e) /\ (op = "clear" \/ e.set_mask = e.clear_mask)
OtherBits(l) ==
  \A k \in 1 .. Len(l) : l[k].reg = isr[1] => OneBit(l[k]) /\ isr[2] \notin l[k].clear_mask
KeptInv ==
  pc # "rejected" /\ isr # <<>> /\ ~ Resets /\ OtherBits(Plan) => isr[2] \in value[isr[1]]

RInv == /\ TypeInv /\ RejectedInv /\ PlanInv /\ StoreInv
        /\ WritesInv /\ AppliedInv /\ KeptInv

\* What is run has one mask for each register.
LEMMA PlanType ==
  ASSUME list \in Seq(RegMasks)
  PROVE  /\ Plan \in Seq(RegMasks) /\ Len(Plan) \in Nat
         /\ \A k \in 1 .. Len(Plan) : Plan[k] \in RegMasks
         /\ \A j, k \in 1 .. Len(Plan) : Plan[j].reg = Plan[k].reg => j = k
<1>1. ListOf(op, list) \in Seq(RegMasks)
  BY NeutralsAddNothing
<1>2. /\ Plan \in Seq(RegMasks)
      /\ \A j, k \in DOMAIN Plan : Plan[j].reg = Plan[k].reg => j = k
  BY <1>1, OneMaskPerRegister DEF Plan
<1>3. QED
  BY <1>2, ElementOfSeq, LenProperties

\* The operation at hand is the plan's next, the only one of its register.
LEMMA CurrentOperation ==
  ASSUME TypeInv, PlanInv, pc # "rejected", todo # <<>>
  PROVE  /\ current \in RegMasks /\ current = todo[1]
         /\ ran \in Nat /\ ran + 1 \in 1 .. Len(Plan) /\ current = Plan[ran + 1]
         /\ \A k \in 1 .. ran : Plan[k].reg # current.reg
         /\ Len(todo) \in Nat \ {0}
         /\ Tail(todo) \in Seq(RegMasks) /\ Len(Tail(todo)) = Len(todo) - 1
         /\ \A i \in 1 .. Len(todo) - 1 : /\ Tail(todo)[i] = todo[i + 1]
                                          /\ todo[i + 1].reg # current.reg
<1>1. /\ Plan \in Seq(RegMasks) /\ Len(Plan) \in Nat
      /\ \A k \in 1 .. Len(Plan) : Plan[k] \in RegMasks
      /\ \A j, k \in 1 .. Len(Plan) : Plan[j].reg = Plan[k].reg => j = k
  BY PlanType DEF TypeInv
<1>2. todo \in Seq(RegMasks) /\ Len(todo) \in Nat \ {0}
  <2>1. todo \in Seq(RegMasks)
    BY DEF TypeInv
  <2>2. QED
    BY <2>1, EmptySeq, Zenon
<1>3. /\ Tail(todo) \in Seq(RegMasks) /\ Len(Tail(todo)) = Len(todo) - 1
      /\ \A i \in 1 .. Len(todo) - 1 : Tail(todo)[i] = todo[i + 1]
  BY <1>2, HeadTailProperties
<1>4. current = todo[1]
  BY <1>2 DEF current
<1>5. Len(todo) <= Len(Plan) /\ \A i \in 1 .. Len(todo) : todo[i] = Plan[ran + i]
  BY DEF PlanInv
<1>6. ran \in Nat /\ ran + 1 \in 1 .. Len(Plan) /\ ran + Len(todo) = Len(Plan)
  BY <1>1, <1>2, <1>5 DEF ran
<1> HIDE DEF ran
<1>7. current = Plan[ran + 1] /\ current \in RegMasks
  BY <1>1, <1>2, <1>4, <1>5, <1>6
<1>8. ASSUME NEW k \in 1 .. ran PROVE Plan[k].reg # current.reg
  <2>1. k \in 1 .. Len(Plan) /\ k # ran + 1
    BY <1>1, <1>6
  <2>2. QED
    BY <1>1, <1>6, <1>7, <2>1
<1>9. ASSUME NEW i \in 1 .. Len(todo) - 1 PROVE todo[i + 1].reg # current.reg
  <2>1. i + 1 \in 1 .. Len(todo) /\ ran + (i + 1) \in 1 .. Len(Plan) /\ ran + (i + 1) # ran + 1
    BY <1>1, <1>2, <1>6
  <2>2. QED
    BY <1>1, <1>5, <1>6, <1>7, <2>1
<1>10. QED
  BY <1>2, <1>3, <1>4, <1>6, <1>7, <1>8, <1>9

\* The invariant holds at the start.
LEMMA RInit == Init => RInv
<1> SUFFICES ASSUME Init PROVE RInv
  OBVIOUS
<1>1. list \in Seq(RegMasks)
  BY ReglistType DEF Init
<1>2. Plan \in Seq(RegMasks) /\ Len(Plan) \in Nat
  BY <1>1, PlanType
<1>3. todo = <<>> \/ (pc # "rejected" /\ todo = Plan)
  BY DEF Init, Plan
<1>4. pc = IF Compiles(op, list) THEN "next" ELSE "rejected"
  BY DEF Init
<1>5. TypeInv
  <2>0. <<>> \in Seq(RegMasks) /\ <<>> \in Seq(Regs)
    BY EmptySeq, Zenon
  <2>1. todo \in Seq(RegMasks) /\ writes \in Seq(Regs)
    BY <1>2, <1>3, <2>0 DEF Init
  <2>2. value \in [Regs -> SUBSET Bits] /\ start = value
    BY StartAssumption DEF Init
  <2>3. QED
    BY <1>1, <1>4, <2>1, <2>2 DEF Init, TypeInv
<1>6. RejectedInv
  BY <1>4 DEF RejectedInv
<1>7. pc # "rejected" => todo = Plan
  BY <1>4 DEF Init, Plan
<1>8. PlanInv
  <2>1. pc # "rejected" => ran = 0
    BY <1>2, <1>7 DEF ran
  <2>2. QED
    BY <1>2, <1>7, <2>1 DEF PlanInv
<1>9. StoreInv
  BY <1>4 DEF StoreInv
<1>10. WritesInv
  BY DEF WritesInv, Init
<1>11. AppliedInv
  <2>1. pc # "rejected" => ran = 0
    BY <1>2, <1>7 DEF ran
  <2>2. QED
    BY <1>4, <2>1 DEF AppliedInv, Init
<1>12. KeptInv
  BY DEF KeptInv, Init
<1>13. QED
  BY <1>5, <1>6, <1>8, <1>9, <1>10, <1>11, <1>12 DEF RInv

\* With each operation done, what is left to do stays the end of the plan.
LEMMA PlanAdvances ==
  ASSUME TypeInv, PlanInv, pc # "rejected", todo # <<>>,
         todo' = Tail(todo), UNCHANGED <<op, list>>
  PROVE  Plan' = Plan /\ ran' = ran + 1 /\ PlanInv'
<1>1. /\ ran \in Nat /\ ran + 1 \in 1 .. Len(Plan)
      /\ Len(todo) \in Nat \ {0} /\ Len(Tail(todo)) = Len(todo) - 1
      /\ \A i \in 1 .. Len(todo) - 1 : Tail(todo)[i] = todo[i + 1]
  BY CurrentOperation
<1>2. Len(Plan) \in Nat
  BY PlanType DEF TypeInv
<1>3. Plan' = Plan
  BY DEF Plan
<1>4. ran' = ran + 1
  BY <1>1, <1>2, <1>3 DEF ran
<1> HIDE DEF ran
<1>5. Len(todo) <= Len(Plan) /\ \A i \in 1 .. Len(todo) : todo[i] = Plan[ran + i]
  BY DEF PlanInv
<1>6. ASSUME NEW i \in 1 .. Len(todo) - 1
      PROVE  i + 1 \in 1 .. Len(todo) /\ ran + (i + 1) = (ran + 1) + i
  BY <1>1
<1>7. Len(todo') <= Len(Plan') /\ \A i \in 1 .. Len(todo') : todo'[i] = Plan'[ran' + i]
  BY <1>1, <1>2, <1>3, <1>4, <1>5, <1>6
<1>8. QED
  BY <1>3, <1>4, <1>7 DEF PlanInv

\* A store keeps the invariant if what it stores is, undisturbed, what the
\* operation makes of its register, and has the bit an interrupt has set.
LEMMA StoreKeepsInv ==
  ASSUME RInv, pc # "rejected", todo # <<>>, NEW v \in SUBSET Bits, Store(v),
         isr = <<>> => v = Applied(current),
         isr # <<>> /\ ~ Resets /\ OtherBits(Plan) /\ current.reg = isr[1] => isr[2] \in v
  PROVE  RInv'
<1>1. /\ value' = [value EXCEPT ![current.reg] = v]
      /\ writes' = Append(writes, current.reg)
      /\ todo' = Tail(todo) /\ pc' = "next"
      /\ UNCHANGED <<op, list, copy, start, isr>>
  BY DEF Store
<1>2. TypeInv /\ RejectedInv /\ PlanInv /\ WritesInv /\ AppliedInv /\ KeptInv
  BY DEF RInv
<1>3. /\ current \in RegMasks /\ current = todo[1]
      /\ ran \in Nat /\ ran + 1 \in 1 .. Len(Plan) /\ current = Plan[ran + 1]
      /\ \A k \in 1 .. ran : Plan[k].reg # current.reg
      /\ Len(todo) \in Nat \ {0}
      /\ Tail(todo) \in Seq(RegMasks) /\ Len(Tail(todo)) = Len(todo) - 1
      /\ \A i \in 1 .. Len(todo) - 1 : /\ Tail(todo)[i] = todo[i + 1]
                                       /\ todo[i + 1].reg # current.reg
  BY <1>2, CurrentOperation
<1>4. /\ Plan \in Seq(RegMasks) /\ Len(Plan) \in Nat
      /\ \A k \in 1 .. Len(Plan) : Plan[k] \in RegMasks
      /\ \A j, k \in 1 .. Len(Plan) : Plan[j].reg = Plan[k].reg => j = k
  BY <1>2, PlanType DEF TypeInv
<1>5. Plan' = Plan /\ ran' = ran + 1 /\ PlanInv'
  BY <1>1, <1>2, PlanAdvances
<1>6. current.reg \in Regs /\ writes \in Seq(Regs) /\ value \in [Regs -> SUBSET Bits]
  BY <1>2, <1>3 DEF RegMasks, TypeInv
<1> HIDE DEF current, ran
<1>7. /\ value' \in [Regs -> SUBSET Bits] /\ value'[current.reg] = v
      /\ \A r \in Regs : r # current.reg => value'[r] = value[r]
  BY <1>1, <1>6
<1>8. /\ writes' \in Seq(Regs) /\ Len(writes') = Len(writes) + 1 /\ Len(writes) \in Nat
      /\ \A i \in 1 .. Len(writes) : writes'[i] = writes[i]
      /\ writes'[Len(writes) + 1] = current.reg
  BY <1>1, <1>6, AppendProperties, LenProperties
<1>9. TypeInv'
  BY <1>1, <1>2, <1>3, <1>7, <1>8 DEF TypeInv
<1>10. RejectedInv'
  <2>1. Compiles(op, list)
    BY <1>2 DEF RejectedInv
  <2>2. Compiles(op', list')
    BY <1>1, <2>1
  <2>3. QED
    BY <1>1, <2>2 DEF RejectedInv
<1>12. StoreInv'
  BY <1>1 DEF StoreInv
<1>13. WritesInv'
  <2>1. /\ \A j, k \in 1 .. Len(writes) : writes[j] = writes[k] => j = k
        /\ \A j \in 1 .. Len(writes), i \in 1 .. Len(todo) : writes[j] # todo[i].reg
    BY <1>2 DEF WritesInv
  <2>2. \A j \in 1 .. Len(writes) : writes[j] # current.reg
    <3>1. 1 \in 1 .. Len(todo)
      BY <1>3
    <3>2. \A j \in 1 .. Len(writes) : writes[j] # todo[1].reg
      BY <2>1, <3>1, Zenon
    <3>3. QED
      BY <1>3, <3>2
  <2>3. \A j \in 1 .. Len(writes') : j \in 1 .. Len(writes) \/ j = Len(writes) + 1
    BY <1>8
  <2>4. \A j, k \in 1 .. Len(writes') : writes'[j] = writes'[k] => j = k
    BY <1>8, <2>1, <2>2, <2>3
  <2>5. ASSUME NEW j \in 1 .. Len(writes'), NEW i \in 1 .. Len(todo')
        PROVE  writes'[j] # todo'[i].reg
    <3>1. i \in 1 .. Len(todo) - 1 /\ i + 1 \in 1 .. Len(todo)
      BY <1>1, <1>3
    <3>2. todo'[i] = todo[i + 1] /\ todo[i + 1].reg # current.reg
      BY <1>1, <1>3, <3>1
    <3>3. QED
      BY <1>8, <2>1, <2>3, <3>1, <3>2
  <2>6. QED
    BY <2>4, <2>5 DEF WritesInv
<1>14. AppliedInv'
  <2> SUFFICES ASSUME isr' = <<>>
               PROVE  /\ \A k \in 1 .. ran + 1 : value'[Plan[k].reg] = Applied(Plan[k])'
                      /\ \A r \in Regs : (\A k \in 1 .. ran + 1 : Plan[k].reg # r) => value'[r] = start[r]
    BY <1>1, <1>5 DEF AppliedInv
  <2>1. isr = <<>>
    BY <1>1
  <2>2. /\ \A k \in 1 .. ran : value[Plan[k].reg] = Applied(Plan[k])
        /\ \A r \in Regs : (\A k \in 1 .. ran : Plan[k].reg # r) => value[r] = start[r]
    BY <1>2, <2>1 DEF AppliedInv
  <2>3. ASSUME NEW k \in 1 .. ran + 1 PROVE value'[Plan[k].reg] = Applied(Plan[k])
    <3>1. CASE k = ran + 1
      BY <1>3, <1>7, <2>1, <3>1
    <3>2. CASE k # ran + 1
      <4>1. k \in 1 .. ran /\ k \in 1 .. Len(Plan)
        BY <1>3, <1>4, <3>2
      <4>2. Plan[k].reg \in Regs /\ Plan[k].reg # current.reg
        BY <1>3, <1>4, <4>1 DEF RegMasks
      <4>3. QED
        BY <1>7, <2>2, <4>1, <4>2
    <3>3. QED
      BY <3>1, <3>2
  <2>4. \A k : Applied(Plan[k])' = Applied(Plan[k])
    BY <1>1, <1>5 DEF Applied
  <2>5. ASSUME NEW r \in Regs, \A k \in 1 .. ran + 1 : Plan[k].reg # r
        PROVE  value'[r] = start[r]
    <3>1. \A k \in 1 .. ran : k \in 1 .. ran + 1
      BY <1>3
    <3>2. ran + 1 \in 1 .. ran + 1
      BY <1>3
    <3>3. r # current.reg
      BY <1>3, <2>5, <3>2
    <3>4. QED
      BY <1>7, <2>2, <2>5, <3>1, <3>3
  <2>6. QED
    BY <2>3, <2>4, <2>5
<1>15. KeptInv'
  <2> SUFFICES ASSUME isr # <<>>, ~ Resets, OtherBits(Plan) PROVE isr[2] \in value'[isr[1]]
    <3>1. Resets' <=> Resets
      BY <1>1 DEF Resets
    <3>2. OtherBits(Plan)' <=> OtherBits(Plan)
      BY <1>1, <1>5 DEF OtherBits, OneBit
    <3>3. QED
      BY <1>1, <3>1, <3>2 DEF KeptInv
  <2>1. isr[2] \in value[isr[1]]
    BY <1>2 DEF KeptInv
  <2>2. isr[1] \in Regs
    BY <1>2, InterruptAssumption DEF TypeInv
  <2>3. CASE isr[1] = current.reg
    BY <1>7, <2>3
  <2>4. CASE isr[1] # current.reg
    BY <1>7, <2>1, <2>2, <2>4
  <2>5. QED
    BY <2>3, <2>4
<1>16. QED
  BY <1>5, <1>9, <1>10, <1>12, <1>13, <1>14, <1>15 DEF RInv

\* Undisturbed, the register of an operation has its value of the start.
LEMMA CurrentValue ==
  ASSUME RInv, pc # "rejected", todo # <<>>, isr = <<>>
  PROVE  value[current.reg] = start[current.reg]
<1>1. TypeInv /\ PlanInv /\ AppliedInv
  BY DEF RInv
<1>2. current \in RegMasks /\ \A k \in 1 .. ran : Plan[k].reg # current.reg
  BY <1>1, CurrentOperation
<1>3. current.reg \in Regs
  BY <1>2 DEF RegMasks
<1>4. QED
  BY <1>1, <1>2, <1>3 DEF AppliedInv

\* What set() and clear() make of a value, and what a reset stores.
LEMMA ValueTypes ==
  ASSUME NEW m \in RegMasks, NEW v \in SUBSET Bits
  PROVE  /\ ValueSet(v, m) \in SUBSET Bits /\ ValueClear(v, m) \in SUBSET Bits
         /\ ValueResetTo(m) \in SUBSET Bits
         /\ \A b \in v : b \notin m.clear_mask => b \in ValueSet(v, m) /\ b \in ValueClear(v, m)
<1>1. m.set_mask \subseteq Bits /\ m.reg \in Regs
  BY DEF RegMasks
<1>2. ResetValue[m.reg] \in SUBSET Bits
  BY <1>1, ResetValueAssumption
<1>3. QED
  BY <1>1, <1>2 DEF ValueResetTo, ValueSet, ValueClear, cropped_clear_mask

\* Every step keeps the invariant.
LEMMA RNext == RInv /\ [Next]_vars => RInv'
<1> SUFFICES ASSUME RInv, [Next]_vars PROVE RInv'
  OBVIOUS
<1>1. TypeInv /\ RejectedInv /\ PlanInv /\ StoreInv /\ WritesInv /\ AppliedInv /\ KeptInv
  BY DEF RInv
<1>2. ASSUME pc # "rejected", todo # <<>>
      PROVE  /\ current \in RegMasks /\ current.reg \in Regs /\ value[current.reg] \in SUBSET Bits
             /\ ran + 1 \in 1 .. Len(Plan) /\ current = Plan[ran + 1]
             /\ isr = <<>> => value[current.reg] = start[current.reg]
  <2>1. /\ current \in RegMasks /\ ran + 1 \in 1 .. Len(Plan) /\ current = Plan[ran + 1]
        /\ isr = <<>> => value[current.reg] = start[current.reg]
    BY <1>1, <1>2, CurrentOperation, CurrentValue
  <2>2. current.reg \in Regs
    BY <2>1 DEF RegMasks
  <2>3. QED
    BY <1>1, <2>1, <2>2 DEF TypeInv
<1>3. CASE RegResetTo
  <2>1. /\ pc # "rejected" /\ todo # <<>> /\ Store(ValueResetTo(current))
        /\ op \in {"reset_to", "strict_reset_to"} /\ Resets
    BY <1>3 DEF RegResetTo, MoreToDo, Resets
  <2>2. ValueResetTo(current) \in SUBSET Bits
    BY <1>2, <2>1, ValueTypes
  <2>3. ValueResetTo(current) = Applied(current)
    BY <2>1 DEF Applied
  <2>4. QED
    BY <2>1, <2>2, <2>3, StoreKeepsInv
<1>4. CASE RegBitOp
  <2> DEFINE v == IF op = "set" THEN ValueSet(value[current.reg], current)
                  ELSE ValueClear(value[current.reg], current)
  <2>1. pc # "rejected" /\ todo # <<>> /\ Store(v) /\ op \in {"set", "clear"}
    BY <1>4 DEF RegBitOp, MoreToDo, BitOp
  <2>2. v \in SUBSET Bits
    BY <1>2, <2>1, ValueTypes
  <2>3. isr = <<>> => v = Applied(current)
    BY <1>2, <2>1 DEF Applied
  <2>4. ASSUME isr # <<>>, ~ Resets, OtherBits(Plan), current.reg = isr[1] PROVE isr[2] \in v
    <3>1. isr[2] \notin current.clear_mask
      BY <1>2, <2>1, <2>4 DEF OtherBits
    <3>2. isr[2] \in value[current.reg]
      BY <1>1, <2>1, <2>4 DEF KeptInv
    <3>3. QED
      BY <1>2, <2>1, <3>1, <3>2, ValueTypes
  <2> HIDE DEF v
  <2>5. QED
    BY <2>1, <2>2, <2>3, <2>4, StoreKeepsInv
<1>5. CASE RegStore
  <2> DEFINE v == IF op = "set" THEN ValueSet(copy, current) ELSE ValueClear(copy, current)
  <2>1. pc = "store" /\ Store(v)
    BY <1>5 DEF RegStore
  <2>2. todo # <<>> /\ op \in {"set", "clear"} /\ ~ BitOp
    BY <1>1, <2>1 DEF StoreInv
  <2>3. v \in SUBSET Bits
    BY <1>1, <1>2, <2>1, <2>2, ValueTypes DEF TypeInv
  <2>4. isr = <<>> => v = Applied(current)
    <3>1. isr = <<>> => copy = value[current.reg]
      BY <1>1, <2>1 DEF AppliedInv
    <3>2. QED
      BY <1>2, <2>1, <2>2, <3>1 DEF Applied
  <2>5. ASSUME ~ Resets, OtherBits(Plan), current.reg = isr[1] PROVE FALSE
    <3>1. OneBit(current)
      BY <1>2, <2>1, <2>2, <2>5 DEF OtherBits
    <3>2. QED
      BY <2>2, <3>1 DEF OneBit, BitOp
  <2> HIDE DEF v
  <2>6. QED
    BY <2>1, <2>2, <2>3, <2>4, <2>5, StoreKeepsInv
<1>6. CASE RegNothing
  <2>1. /\ pc = "next" /\ todo # <<>> /\ op \in {"set", "clear"} /\ current.clear_mask = {}
        /\ todo' = Tail(todo)
        /\ UNCHANGED <<value, op, list, pc, copy, start, writes, isr>>
    BY <1>6 DEF RegNothing, MoreToDo
  <2>2. Plan' = Plan /\ ran' = ran + 1 /\ PlanInv'
    BY <1>1, <2>1, PlanAdvances
  <2>3. /\ Len(todo) \in Nat \ {0} /\ Tail(todo) \in Seq(RegMasks)
        /\ Len(Tail(todo)) = Len(todo) - 1 /\ ran \in Nat
        /\ \A i \in 1 .. Len(todo) - 1 : Tail(todo)[i] = todo[i + 1]
    BY <1>1, <2>1, CurrentOperation
  <2>4. TypeInv'
    BY <1>1, <2>1, <2>3 DEF TypeInv
  <2>5. RejectedInv' /\ StoreInv'
    BY <1>1, <2>1 DEF RejectedInv, StoreInv
  <2>6. WritesInv'
    <3>1. ASSUME NEW j \in 1 .. Len(writes), NEW i \in 1 .. Len(todo) - 1
          PROVE  writes[j] # Tail(todo)[i].reg
      <4>1. i + 1 \in 1 .. Len(todo)
        BY <2>3
      <4>2. QED
        BY <1>1, <2>3, <4>1 DEF WritesInv
    <3>2. QED
      BY <1>1, <2>1, <2>3, <3>1 DEF WritesInv
  <2>7. AppliedInv'
    <3> HIDE DEF ran
    <3> SUFFICES ASSUME isr = <<>>
                 PROVE  /\ \A k \in 1 .. ran + 1 : value[Plan[k].reg] = Applied(Plan[k])
                        /\ \A r \in Regs : (\A k \in 1 .. ran + 1 : Plan[k].reg # r) => value[r] = start[r]
      <4>1. \A k : Applied(Plan[k])' = Applied(Plan[k])
        BY <2>1, <2>2 DEF Applied
      <4>2. QED
        BY <2>1, <2>2, <4>1 DEF AppliedInv
    <3>1. /\ \A k \in 1 .. ran : value[Plan[k].reg] = Applied(Plan[k])
          /\ \A r \in Regs : (\A k \in 1 .. ran : Plan[k].reg # r) => value[r] = start[r]
      BY <1>1, <2>1 DEF AppliedInv
    <3>2. value[current.reg] = Applied(current)
      <4>1. current.set_mask = {} /\ value[current.reg] = start[current.reg]
        BY <1>2, <2>1 DEF RegMasks
      <4>2. QED
        BY <2>1, <4>1 DEF Applied, ValueSet, ValueClear, cropped_clear_mask
    <3>3. \A k \in 1 .. ran + 1 : k \in 1 .. ran \/ k = ran + 1
      BY <2>3
    <3>4. \A k \in 1 .. ran : k \in 1 .. ran + 1
      BY <2>3
    <3>5. QED
      BY <1>2, <2>1, <3>1, <3>2, <3>3, <3>4
  <2>8. KeptInv'
    <3>1. (Resets' <=> Resets) /\ (OtherBits(Plan)' <=> OtherBits(Plan))
      BY <2>1, <2>2 DEF Resets, OtherBits, OneBit
    <3>2. QED
      BY <1>1, <2>1, <3>1 DEF KeptInv
  <2>9. QED
    BY <2>2, <2>4, <2>5, <2>6, <2>7, <2>8 DEF RInv
<1>7. CASE RegLoad
  <2>1. /\ pc = "next" /\ todo # <<>> /\ op \in {"set", "clear"} /\ ~ BitOp
        /\ copy' = value[current.reg] /\ pc' = "store"
        /\ UNCHANGED <<value, op, list, todo, start, writes, isr>>
    BY <1>7 DEF RegLoad, MoreToDo
  <2>2. Plan' = Plan /\ ran' = ran /\ current' = current /\ (BitOp' <=> BitOp)
    BY <2>1 DEF Plan, ran, current, BitOp
  <2>3. TypeInv'
    BY <1>1, <1>2, <2>1 DEF TypeInv
  <2>4. RejectedInv' /\ StoreInv' /\ WritesInv' /\ PlanInv'
    BY <1>1, <2>1, <2>2 DEF RejectedInv, StoreInv, WritesInv, PlanInv
  <2>5. AppliedInv'
    <3>1. \A k : Applied(Plan[k])' = Applied(Plan[k])
      BY <2>1, <2>2 DEF Applied
    <3> HIDE DEF Plan, ran, current
    <3>2. QED
      BY <1>1, <2>1, <2>2, <3>1 DEF AppliedInv
  <2>6. KeptInv'
    <3>1. (Resets' <=> Resets) /\ (OtherBits(Plan)' <=> OtherBits(Plan))
      BY <2>1, <2>2 DEF Resets, OtherBits, OneBit
    <3>2. QED
      BY <1>1, <2>1, <3>1 DEF KeptInv
  <2>7. QED
    BY <2>3, <2>4, <2>5, <2>6 DEF RInv
<1>8. CASE Interrupt
  <2>1. PICK rb \in InterruptBits :
          /\ isr = <<>> /\ pc # "rejected"
          /\ value' = [value EXCEPT ![rb[1]] = @ \cup {rb[2]}]
          /\ isr' = rb
          /\ UNCHANGED <<op, list, todo, pc, copy, start, writes>>
    BY <1>8 DEF Interrupt
  <2>2. rb \in Regs \X Bits /\ rb[1] \in Regs /\ rb[2] \in Bits /\ rb # <<>>
    BY InterruptAssumption
  <2>3. Plan' = Plan /\ ran' = ran /\ current' = current /\ (BitOp' <=> BitOp)
    BY <2>1 DEF Plan, ran, current, BitOp
  <2>4. value \in [Regs -> SUBSET Bits]
    BY <1>1 DEF TypeInv
  <2>5. value' \in [Regs -> SUBSET Bits] /\ rb[2] \in value'[rb[1]]
    BY <2>1, <2>2, <2>4
  <2>6. TypeInv'
    BY <1>1, <2>1, <2>5 DEF TypeInv
  <2>7. RejectedInv' /\ StoreInv' /\ WritesInv' /\ PlanInv'
    BY <1>1, <2>1, <2>3 DEF RejectedInv, StoreInv, WritesInv, PlanInv
  <2>8. AppliedInv'
    BY <2>1, <2>2 DEF AppliedInv
  <2>9. KeptInv'
    BY <2>1, <2>5 DEF KeptInv
  <2>10. QED
    BY <2>6, <2>7, <2>8, <2>9 DEF RInv
<1>9. CASE UNCHANGED vars
  <2>1. UNCHANGED <<value, op, list, todo, pc, copy, start, writes, isr>>
    BY <1>9 DEF vars
  <2>2. Plan' = Plan /\ ran' = ran /\ current' = current /\ (BitOp' <=> BitOp)
    BY <2>1 DEF Plan, ran, current, BitOp
  <2>3. TypeInv' /\ RejectedInv' /\ StoreInv' /\ WritesInv' /\ PlanInv'
    BY <1>1, <2>1, <2>2 DEF TypeInv, RejectedInv, StoreInv, WritesInv, PlanInv
  <2>4. AppliedInv'
    <3>1. \A k : Applied(Plan[k])' = Applied(Plan[k])
      BY <2>1, <2>2 DEF Applied
    <3> HIDE DEF Plan, ran, current
    <3>2. QED
      BY <1>1, <2>1, <2>2, <3>1 DEF AppliedInv
  <2>5. KeptInv'
    <3>1. (Resets' <=> Resets) /\ (OtherBits(Plan)' <=> OtherBits(Plan))
      BY <2>1, <2>2 DEF Resets, OtherBits, OneBit
    <3>2. QED
      BY <1>1, <2>1, <3>1 DEF KeptInv
  <2>6. QED
    BY <2>3, <2>4, <2>5 DEF RInv
<1>10. QED
  BY <1>3, <1>4, <1>5, <1>6, <1>7, <1>8, <1>9 DEF Next

\* The invariant holds in every run of a list.
THEOREM RegistersInvariance == Spec => []RInv
<1>1. Init => RInv
  BY RInit
<1>2. RInv /\ [Next]_vars => RInv'
  BY RNext
<1>3. QED
  BY <1>1, <1>2, PTL DEF Spec

\* The compiler rejects the lists that contradict themselves and no others.
THEOREM RejectsContradictions == Spec => []RejectedIfContradictory
<1>1. ASSUME RInv PROVE RejectedIfContradictory
  <2>1. list \in Seq(RegMasks) /\ (pc = "rejected" <=> ~ Compiles(op, list))
    BY <1>1 DEF RInv, TypeInv, RejectedInv
  <2>2. QED
    BY <2>1, CompilesIfConsistent DEF RejectedIfContradictory
<1>2. QED
  BY <1>1, RegistersInvariance, PTL

\* A list writes a register once.
THEOREM WritesOnce == Spec => []OneWritePerRegister
<1>1. ASSUME RInv PROVE OneWritePerRegister
  <2>1. writes \in Seq(Regs) /\ \A j, k \in 1 .. Len(writes) : writes[j] = writes[k] => j = k
    BY <1>1 DEF RInv, TypeInv, WritesInv
  <2>2. DOMAIN writes = 1 .. Len(writes)
    BY <2>1, LenProperties
  <2>3. QED
    BY <2>1, <2>2 DEF OneWritePerRegister
<1>2. QED
  BY <1>1, RegistersInvariance, PTL

\* Bit-band writes lose no bit an interrupt sets.
THEOREM InterruptBitsSurvive == Spec => []BitBandKeepsBits
<1>1. ASSUME RInv PROVE BitBandKeepsBits
  <2> DEFINE l == unique_merged_list(list)
  <2> SUFFICES ASSUME Done, isr # <<>>, ~ Resets,
                      \A k \in DOMAIN l : l[k].reg = isr[1] => OneBit(l[k]) /\ isr[2] \notin l[k].clear_mask
               PROVE  isr[2] \in value[isr[1]]
    BY DEF BitBandKeepsBits, OneBit
  <2>1. TypeInv /\ KeptInv
    BY <1>1 DEF RInv
  <2>2. Plan = l
    BY DEF Plan, ListOf, Resets
  <2>3. DOMAIN Plan = 1 .. Len(Plan)
    BY <2>1, PlanType, LenProperties DEF TypeInv
  <2> HIDE DEF l
  <2>4. OtherBits(Plan)
    BY <2>2, <2>3 DEF OtherBits
  <2>5. QED
    BY <2>1, <2>4 DEF KeptInv, Done
<1>2. QED
  BY <1>1, RegistersInvariance, PTL

\* test() is right about the registers whenever it is called.
THEOREM TestIsRight == Spec => []TestMeansHolds
<1>1. ASSUME RInv PROVE TestMeansHolds
  BY <1>1, TestTellsWhetherInEffect DEF RInv, TypeInv
<1>2. QED
  BY <1>1, RegistersInvariance, PTL

-----------------------------------------------------------------------------
(* What a list says is what its merged list does. *)

\* What a register is before the elements of a list, and after they have taken
\* effect at once.
Before(l, r) == IF InReset(l, r) THEN ResetValue[r] ELSE start[r]
AtOnce(b, set, cleared) == IF op = "clear" THEN b \ cleared ELSE (b \ cleared) \cup set

\* What the first elements of a list set and cover of a register.
SetUpTo(l, k, r) == UNION {l[i].set_mask : i \in {i \in 1 .. k : l[i].reg = r}}
ClearUpTo(l, k, r) == UNION {l[i].clear_mask : i \in {i \in 1 .. k : l[i].reg = r}}

\* One more element adds its bits, to its register.
LEMMA UpToNext ==
  ASSUME NEW l \in Seq(RegMasks), NEW k \in Nat, NEW r
  PROVE  /\ l[k + 1].reg = r => /\ SetUpTo(l, k + 1, r) = SetUpTo(l, k, r) \cup l[k + 1].set_mask
                                /\ ClearUpTo(l, k + 1, r) = ClearUpTo(l, k, r) \cup l[k + 1].clear_mask
         /\ l[k + 1].reg # r => /\ SetUpTo(l, k + 1, r) = SetUpTo(l, k, r)
                                /\ ClearUpTo(l, k + 1, r) = ClearUpTo(l, k, r)
<1> DEFINE Is == {i \in 1 .. k : l[i].reg = r}
<1>1. \A i \in 1 .. k + 1 : i \in 1 .. k \/ i = k + 1
  OBVIOUS
<1>2. k + 1 \in 1 .. k + 1 /\ \A i \in 1 .. k : i \in 1 .. k + 1
  OBVIOUS
<1>3. ASSUME l[k + 1].reg = r
      PROVE  /\ SetUpTo(l, k + 1, r) = SetUpTo(l, k, r) \cup l[k + 1].set_mask
             /\ ClearUpTo(l, k + 1, r) = ClearUpTo(l, k, r) \cup l[k + 1].clear_mask
  <2>1. {i \in 1 .. k + 1 : l[i].reg = r} = Is \cup {k + 1}
    BY <1>1, <1>2, <1>3
  <2> HIDE DEF Is
  <2>2. SetUpTo(l, k + 1, r) = SetUpTo(l, k, r) \cup l[k + 1].set_mask
    BY <2>1 DEF SetUpTo, Is
  <2>3. ClearUpTo(l, k + 1, r) = ClearUpTo(l, k, r) \cup l[k + 1].clear_mask
    BY <2>1 DEF ClearUpTo, Is
  <2>4. QED
    BY <2>2, <2>3
<1>4. ASSUME l[k + 1].reg # r
      PROVE  SetUpTo(l, k + 1, r) = SetUpTo(l, k, r) /\ ClearUpTo(l, k + 1, r) = ClearUpTo(l, k, r)
  <2>1. {i \in 1 .. k + 1 : l[i].reg = r} = Is
    BY <1>1, <1>2, <1>4
  <2>2. QED
    BY <2>1 DEF SetUpTo, ClearUpTo
<1>5. QED
  BY <1>3, <1>4

\* An element takes effect on a register on which the ones before have, none of
\* which it contradicts.
LEMMA NextTakesEffect ==
  ASSUME NEW m \in RegMasks, NEW b, NEW set, NEW cleared,
         set \cap (m.clear_mask \ m.set_mask) = {}
  PROVE  (IF op = "clear" THEN ValueClear(AtOnce(b, set, cleared), m)
          ELSE ValueSet(AtOnce(b, set, cleared), m))
           = AtOnce(b, set \cup m.set_mask, cleared \cup m.clear_mask)
<1>1. m.set_mask \subseteq m.clear_mask
  BY DEF RegMasks
<1>2. CASE op = "clear"
  BY <1>2 DEF AtOnce, ValueClear
<1>3. CASE op # "clear"
  BY <1>1, <1>3 DEF AtOnce, ValueSet, cropped_clear_mask
<1>4. QED
  BY <1>2, <1>3

\* One by one, the elements of a list that does not contradict itself do what
\* they do at once.
LEMMA OneByOneIsAtOnce ==
  ASSUME NEW l \in Seq(RegMasks), ~ Contradictory(l), start \in [Regs -> SUBSET Bits]
  PROVE  OneByOne(l) = [r \in Regs |-> AtOnce(Before(l, r), SetOf(l, r), ClearOf(l, r))]
<1> DEFINE base == [r \in Regs |-> IF InReset(l, r) THEN ResetValue[r] ELSE start[r]]
           Change(e, v) == IF op = "clear" THEN ValueClear(v, e) ELSE ValueSet(v, e)
           Body(f) == [k \in 0 .. Len(l) |->
                         IF k = 0 THEN base
                         ELSE LET before == f[k - 1]
                                  v == before[l[k].reg]
                              IN [before EXCEPT ![l[k].reg] = Change(l[k], v)]]
           D == [Regs -> SUBSET Bits]
           step == [x \in (1 .. Len(l)) \X D |->
                      [x[2] EXCEPT ![l[x[1]].reg] = Change(l[x[1]], x[2][l[x[1]].reg])]]
<1>1. /\ Len(l) \in Nat /\ DOMAIN l = 1 .. Len(l)
      /\ \A k \in 1 .. Len(l) : l[k] \in RegMasks
  BY ElementOfSeq, LenProperties
<1>2. \A k \in 1 .. Len(l) : l[k].reg \in Regs
  BY <1>1 DEF RegMasks
<1>3. base \in D
  BY ResetValueAssumption
<1>4. \A e \in RegMasks, v \in SUBSET Bits : Change(e, v) \in SUBSET Bits
  BY ValueTypes
<1> HIDE DEF base, Change
<1>5. step \in [(1 .. Len(l)) \X D -> D]
  <2>1. ASSUME NEW k \in 1 .. Len(l), NEW f \in D
        PROVE  [f EXCEPT ![l[k].reg] = Change(l[k], f[l[k].reg])] \in D
    <3>1. Change(l[k], f[l[k].reg]) \in SUBSET Bits
      BY <1>1, <1>2, <1>4
    <3>2. QED
      BY <3>1
  <2> HIDE DEF D
  <2>2. QED
    BY <2>1
<1>6. \A k \in 1 .. Len(l), f \in D :
        step[<<k, f>>] = [f EXCEPT ![l[k].reg] = Change(l[k], f[l[k].reg])]
  OBVIOUS
<1> HIDE DEF step, D
<1>7. PICK g : IsRecursion(g, Len(l), D, base, step)
  BY <1>1, <1>3, <1>5, RecursionExists
<1>8. \A k \in 1 .. Len(l) : k - 1 \in 0 .. Len(l) /\ k \in 0 .. Len(l) /\ k # 0
  BY <1>1
<1>9. ASSUME NEW k \in 0 .. Len(l), k # 0 PROVE k \in 1 .. Len(l)
  BY <1>9
<1>10. g = Body(g)
  BY <1>6, <1>7, <1>8, <1>9 DEF IsRecursion
<1> DEFINE f == CHOOSE h : h = Body(h)
<1>11. OneByOne(l) = f[Len(l)]
  BY DEF OneByOne, base, Change
<1>12. f = Body(f)
  BY <1>10
<1> HIDE DEF f
<1>13. f[0] = base
  BY <1>1, <1>12
<1>14. \A k \in 1 .. Len(l) : f[k] = [f[k - 1] EXCEPT ![l[k].reg] = Change(l[k], f[k - 1][l[k].reg])]
  BY <1>8, <1>12
<1> DEFINE What(k) == [r \in Regs |-> AtOnce(base[r], SetUpTo(l, k, r), ClearUpTo(l, k, r))]
           Right == {k \in Nat : f[k] = What(k)}
<1>15. 0 \in Right
  <2>1. \A r : SetUpTo(l, 0, r) = {} /\ ClearUpTo(l, 0, r) = {}
    BY DEF SetUpTo, ClearUpTo
  <2>2. \A r \in Regs : AtOnce(base[r], {}, {}) = base[r]
    BY DEF AtOnce
  <2>3. base = [r \in Regs |-> base[r]]
    BY DEF base
  <2>4. What(0) = base
    BY <2>1, <2>2, <2>3
  <2>5. QED
    BY <1>13, <2>4
<1>16. ASSUME NEW n \in 0 .. Len(l) - 1, n \in Right PROVE n + 1 \in Right
  <2> DEFINE e == l[n + 1]
  <2>1. n + 1 \in 1 .. Len(l) /\ (n + 1) - 1 = n /\ n \in Nat /\ n + 1 \in Nat
    BY <1>1
  <2>2. e \in RegMasks /\ e.reg \in Regs
    BY <1>1, <1>2, <2>1
  <2>3. f[n + 1] = [What(n) EXCEPT ![e.reg] = Change(e, What(n)[e.reg])]
    BY <1>14, <1>16, <2>1
  <2>4. SetUpTo(l, n, e.reg) \cap (e.clear_mask \ e.set_mask) = {}
    <3>1. \A i \in 1 .. n : i \in DOMAIN l /\ n + 1 \in DOMAIN l
      BY <1>1, <2>1
    <3>2. \A i \in 1 .. n : l[i].reg = e.reg => l[i].set_mask \cap (e.clear_mask \ e.set_mask) = {}
      BY <3>1 DEF Contradictory
    <3>3. QED
      BY <3>2 DEF SetUpTo
  <2> HIDE DEF e
  <2>5. Change(e, What(n)[e.reg]) = What(n + 1)[e.reg]
    <3>1. What(n)[e.reg] = AtOnce(base[e.reg], SetUpTo(l, n, e.reg), ClearUpTo(l, n, e.reg))
      BY <2>2
    <3>2. What(n + 1)[e.reg] = AtOnce(base[e.reg], SetUpTo(l, n + 1, e.reg), ClearUpTo(l, n + 1, e.reg))
      BY <2>2
    <3>3. /\ SetUpTo(l, n + 1, e.reg) = SetUpTo(l, n, e.reg) \cup e.set_mask
          /\ ClearUpTo(l, n + 1, e.reg) = ClearUpTo(l, n, e.reg) \cup e.clear_mask
      BY <2>1, UpToNext DEF e
    <3>4. Change(e, AtOnce(base[e.reg], SetUpTo(l, n, e.reg), ClearUpTo(l, n, e.reg)))
            = AtOnce(base[e.reg], SetUpTo(l, n, e.reg) \cup e.set_mask, ClearUpTo(l, n, e.reg) \cup e.clear_mask)
      BY <2>2, <2>4, NextTakesEffect DEF Change
    <3>5. QED
      BY <3>1, <3>2, <3>3, <3>4
  <2>6. ASSUME NEW r \in Regs, r # e.reg PROVE What(n)[r] = What(n + 1)[r]
    <3>1. SetUpTo(l, n + 1, r) = SetUpTo(l, n, r) /\ ClearUpTo(l, n + 1, r) = ClearUpTo(l, n, r)
      <4>1. l[n + 1].reg # r
        BY <2>6 DEF e
      <4>2. QED
        BY <2>1, <4>1, UpToNext
    <3>2. QED
      BY <3>1
  <2>7. What(n) = [r \in Regs |-> What(n)[r]] /\ What(n + 1) = [r \in Regs |-> What(n + 1)[r]]
    OBVIOUS
  <2> HIDE DEF What
  <2>8. f[n + 1] = What(n + 1)
    <3>1. f[n + 1] = [r \in Regs |-> IF r = e.reg THEN What(n + 1)[e.reg] ELSE What(n)[r]]
      BY <2>3, <2>5, <2>7
    <3>2. \A r \in Regs : (IF r = e.reg THEN What(n + 1)[e.reg] ELSE What(n)[r]) = What(n + 1)[r]
      BY <2>6
    <3>3. QED
      BY <2>7, <3>1, <3>2
  <2>9. QED
    BY <2>1, <2>8
<1> HIDE DEF Right, What
<1>17. \A k \in 0 .. Len(l) : k \in Right
  BY <1>1, <1>15, <1>16, SetInductionUpTo
<1>18. f[Len(l)] = What(Len(l))
  <2>1. Len(l) \in Right
    BY <1>1, <1>17
  <2>2. QED
    BY <2>1 DEF Right
<1>19. \A r \in Regs : SetUpTo(l, Len(l), r) = SetOf(l, r) /\ ClearUpTo(l, Len(l), r) = ClearOf(l, r)
  BY <1>1 DEF SetUpTo, ClearUpTo, SetOf, ClearOf
<1>20. \A r \in Regs : base[r] = Before(l, r)
  BY DEF base, Before
<1>21. QED
  BY <1>11, <1>18, <1>19, <1>20 DEF What

\* The order of a list is irrelevant to what it comes to.
LEMMA OrderIsIrrelevant ==
  ASSUME NEW l \in Seq(RegMasks), NEW p \in [DOMAIN l -> DOMAIN l],
         \A j, k \in DOMAIN l : p[j] = p[k] => j = k
  PROVE  LET q == [k \in DOMAIN l |-> l[p[k]]]
         IN /\ q \in Seq(RegMasks)
            /\ Contradictory(q) <=> Contradictory(l)
            /\ \A r : /\ SetOf(q, r) = SetOf(l, r) /\ ClearOf(q, r) = ClearOf(l, r)
                      /\ InReset(q, r) <=> InReset(l, r)
<1> DEFINE q == [k \in DOMAIN l |-> l[p[k]]]
<1>1. /\ Len(l) \in Nat /\ DOMAIN l = 1 .. Len(l)
      /\ \A k \in 1 .. Len(l) : l[k] \in RegMasks
  BY ElementOfSeq, LenProperties
<1>2. q \in Seq(RegMasks) /\ DOMAIN q = DOMAIN l
  <2>1. \A k \in 1 .. Len(l) : l[p[k]] \in RegMasks
    BY <1>1
  <2>2. q = [k \in 1 .. Len(l) |-> l[p[k]]]
    BY <1>1
  <2>3. [k \in 1 .. Len(l) |-> l[p[k]]] \in Seq(RegMasks)
    BY <1>1, <2>1, IsASeq
  <2>4. QED
    BY <2>2, <2>3
<1>3. \A i \in DOMAIN l : \E k \in DOMAIN l : p[k] = i
  <2> DEFINE S == DOMAIN l
  <2>1. IsFiniteSet(S)
    BY <1>1, FS_Interval
  <2>2. p \in Injection(S, S)
    BY DEF Injection, IsInjective
  <2> HIDE DEF S
  <2>3. p \in Surjection(S, S)
    BY <2>1, <2>2, FS_Injection
  <2>4. QED
    BY <2>3 DEF Surjection, S
<1>4. \A k \in DOMAIN l : p[k] \in DOMAIN l /\ q[k] = l[p[k]]
  OBVIOUS
<1> HIDE DEF q
<1>5. ASSUME NEW r PROVE SetOf(q, r) = SetOf(l, r)
  BY <1>2, <1>3, <1>4 DEF SetOf
<1>6. ASSUME NEW r PROVE ClearOf(q, r) = ClearOf(l, r)
  BY <1>2, <1>3, <1>4 DEF ClearOf
<1>7. ASSUME NEW r PROVE InReset(q, r) <=> InReset(l, r)
  BY <1>2, <1>3, <1>4 DEF InReset
<1>8. Contradictory(q) <=> Contradictory(l)
  <2>1. ASSUME NEW i \in DOMAIN q, NEW j \in DOMAIN q, q[i].reg = q[j].reg,
               q[i].set_mask \cap (q[j].clear_mask \ q[j].set_mask) # {}
        PROVE  Contradictory(l)
    BY <1>2, <1>4, <2>1 DEF Contradictory
  <2>2. ASSUME NEW i \in DOMAIN l, NEW j \in DOMAIN l, l[i].reg = l[j].reg,
               l[i].set_mask \cap (l[j].clear_mask \ l[j].set_mask) # {}
        PROVE  Contradictory(q)
    <3>1. PICK m \in DOMAIN q, n \in DOMAIN q : q[m] = l[i] /\ q[n] = l[j]
      BY <1>2, <1>3, <1>4
    <3>2. QED
      BY <2>2, <3>1 DEF Contradictory
  <2>3. QED
    BY <2>1, <2>2 DEF Contradictory
<1>9. QED
  BY <1>2, <1>5, <1>6, <1>7, <1>8 DEF q

\* Running the merged list leaves each register as the elements at once do.
LEMMA RunIsAtOnce ==
  ASSUME RInv, Done, isr = <<>>
  PROVE  /\ list \in Seq(RegMasks) /\ ~ Contradictory(list)
         /\ start \in [Regs -> SUBSET Bits]
         /\ value = [r \in Regs |-> AtOnce(Before(list, r), SetOf(list, r), ClearOf(list, r))]
<1> DEFINE s == ListOf(op, list)
<1>1. TypeInv /\ RejectedInv /\ AppliedInv
  BY DEF RInv
<1>2. /\ list \in Seq(RegMasks) /\ value \in [Regs -> SUBSET Bits]
      /\ start \in [Regs -> SUBSET Bits] /\ op \in {"set", "clear", "reset_to", "strict_reset_to"}
  BY <1>1 DEF TypeInv
<1>3. pc # "rejected" /\ todo = <<>>
  BY DEF Done
<1>4. ~ Contradictory(list)
  BY <1>1, <1>2, <1>3, CompilesIfConsistent DEF RejectedInv
<1>5. /\ s \in Seq(RegMasks)
      /\ \A r : SetOf(s, r) = SetOf(list, r) /\ ClearOf(s, r) = ClearOf(list, r)
      /\ \A r : Names(s, r)
                  <=> Names(list, r) \/ (op = "strict_reset_to" /\ Contains(StrictRegs, r))
  <2>1. s \in Seq(RegMasks)
    BY <1>2, NeutralsAddNothing
  <2>2. \A r : SetOf(s, r) = SetOf(list, r) /\ ClearOf(s, r) = ClearOf(list, r)
    BY <1>2, NeutralsAddNothing
  <2>3. ASSUME NEW r
        PROVE  Names(s, r)
                 <=> Names(list, r) \/ (op = "strict_reset_to" /\ Contains(StrictRegs, r))
    BY <1>2, NeutralsAddNothing
  <2>4. QED
    BY <2>1, <2>2, <2>3
<1> HIDE DEF s
<1>6. /\ Plan \in Seq(RegMasks)
      /\ \A k \in DOMAIN Plan : Plan[k] = MaskOf(s, Plan[k].reg) /\ \E n \in DOMAIN s : s[n].reg = Plan[k].reg
      /\ \A n \in DOMAIN s : \E k \in DOMAIN Plan : Plan[k].reg = s[n].reg
  BY <1>5, OneMaskPerRegister DEF Plan, s
<1>7. DOMAIN Plan = 1 .. Len(Plan) /\ ran = Len(Plan)
  <2>1. DOMAIN Plan = 1 .. Len(Plan) /\ Len(Plan) \in Nat
    BY <1>6, LenProperties
  <2>2. Len(todo) = 0
    BY <1>3
  <2>3. QED
    BY <2>1, <2>2 DEF ran
<1>8. /\ \A k \in DOMAIN Plan : value[Plan[k].reg] = Applied(Plan[k])
      /\ \A r \in Regs : (\A k \in DOMAIN Plan : Plan[k].reg # r) => value[r] = start[r]
  BY <1>1, <1>3, <1>7 DEF AppliedInv
<1>9. ASSUME NEW r \in Regs
      PROVE  value[r] = AtOnce(Before(list, r), SetOf(list, r), ClearOf(list, r))
  <2>1. CASE Names(s, r)
    <3>1. PICK k \in DOMAIN Plan : Plan[k].reg = r
      BY <1>6, <2>1 DEF Names
    <3>2. value[r] = Applied(MaskOf(list, r))
      BY <1>5, <1>6, <1>8, <3>1 DEF MaskOf
    <3>3. SetOf(list, r) \subseteq ClearOf(list, r)
      BY <1>2, MaskOfType DEF MaskOf, RegMasks
    <3>4. CASE op = "set"
      BY <3>2, <3>3, <3>4 DEF Applied, MaskOf, ValueSet, cropped_clear_mask, AtOnce, Before, InReset, Resets
    <3>5. CASE op = "clear"
      BY <3>2, <3>5 DEF Applied, MaskOf, ValueClear, AtOnce, Before, InReset, Resets
    <3>6. CASE op \in {"reset_to", "strict_reset_to"}
      <4>1. Before(list, r) = ResetValue[r]
        BY <1>5, <2>1, <3>6 DEF Names, Before, InReset, Resets
      <4>2. QED
        BY <3>2, <3>3, <3>6, <4>1 DEF Applied, MaskOf, ValueResetTo, ValueSet, cropped_clear_mask, AtOnce
    <3>7. QED
      BY <1>2, <3>4, <3>5, <3>6
  <2>2. CASE ~ Names(s, r)
    <3>1. value[r] = start[r]
      BY <1>6, <1>8, <2>2 DEF Names
    <3>2. ~ (\E k \in DOMAIN list : list[k].reg = r) /\ ~ InReset(list, r)
      BY <1>5, <2>2 DEF Names, InReset
    <3>3. SetOf(list, r) = {} /\ ClearOf(list, r) = {}
      BY <3>2 DEF SetOf, ClearOf
    <3>4. QED
      BY <3>1, <3>2, <3>3 DEF AtOnce, Before
  <2>3. QED
    BY <2>1, <2>2
<1>10. QED
  BY <1>2, <1>4, <1>9

\* Undisturbed, running a list leaves the registers as its elements, as written
\* and in any order, do one by one.
THEOREM RunIsListApplied == Spec => []ListApplied
<1>1. ASSUME RInv PROVE ListApplied
  <2> SUFFICES ASSUME Done, isr = <<>>, NEW p \in [DOMAIN list -> DOMAIN list],
                      \A j, k \in DOMAIN list : p[j] = p[k] => j = k
               PROVE  value = OneByOne([k \in DOMAIN list |-> list[p[k]]])
    BY DEF ListApplied
  <2> DEFINE q == [k \in DOMAIN list |-> list[p[k]]]
  <2>1. /\ list \in Seq(RegMasks) /\ ~ Contradictory(list)
        /\ start \in [Regs -> SUBSET Bits]
        /\ value = [r \in Regs |-> AtOnce(Before(list, r), SetOf(list, r), ClearOf(list, r))]
    BY <1>1, RunIsAtOnce
  <2>2. /\ q \in Seq(RegMasks)
        /\ Contradictory(q) <=> Contradictory(list)
        /\ \A r : /\ SetOf(q, r) = SetOf(list, r) /\ ClearOf(q, r) = ClearOf(list, r)
                  /\ InReset(q, r) <=> InReset(list, r)
    BY <2>1, OrderIsIrrelevant
  <2> HIDE DEF q
  <2>3. \A r : Before(q, r) = Before(list, r)
    BY <2>2 DEF Before
  <2>4. OneByOne(q) = [r \in Regs |-> AtOnce(Before(q, r), SetOf(q, r), ClearOf(q, r))]
    BY <2>1, <2>2, OneByOneIsAtOnce
  <2>5. QED
    BY <2>1, <2>2, <2>3, <2>4 DEF q
<1>2. QED
  BY <1>1, RegistersInvariance, PTL
=============================================================================
