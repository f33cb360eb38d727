----------------------------- MODULE Induction -----------------------------
(***************************************************************************)
(* Induction on the natural numbers, and functions defined by recursion,   *)
(* stated over sets: a property is the set of the numbers that have it, a  *)
(* step a function.  So stated the facts can be cited for any property, as *)
(* those of the library, which take operators, cannot.  With them, that    *)
(* flattening lists of a set which joining does not leave stays in it.     *)
(***************************************************************************)
EXTENDS SequencesExt, SequenceTheorems, WellFoundedInduction, TLAPS

\* A set of natural numbers that is not empty has a least element.
LEMMA LeastNatural ==
  ASSUME NEW T \in SUBSET Nat, T # {}
  PROVE  \E x \in T : \A y \in T : x <= y
<1>1. IsWellFoundedOn(OpToRel(<, Nat), Nat)
  BY NatLessThanWellFounded
<1>2. \E x \in T : \A y \in T : ~ (<<y, x>> \in OpToRel(<, Nat))
  BY <1>1, WFMin, Zenon
<1>3. \A x, y \in Nat : <<y, x>> \in OpToRel(<, Nat) <=> y < x
  BY DEF OpToRel
<1>4. \E x \in T : \A y \in T : ~ (y < x)
  BY <1>2, <1>3, Zenon
<1>5. QED
  BY <1>4

\* A set that has 0, and with each number the next, has all numbers.
LEMMA SetInduction ==
  ASSUME NEW S, 0 \in S, \A n \in Nat : n \in S => n + 1 \in S
  PROVE  \A n \in Nat : n \in S
<1> DEFINE T == {n \in Nat : n \notin S}
<1>1. SUFFICES ASSUME T # {} PROVE FALSE
  OBVIOUS
<1>2. PICK x \in T : \A y \in T : x <= y
  BY <1>1, LeastNatural
<1>3. x # 0
  BY <1>2
<1>4. x - 1 \in Nat /\ x - 1 \notin T
  BY <1>2, <1>3
<1>5. x - 1 \in S
  BY <1>4
<1>6. (x - 1) + 1 \in S
  BY <1>4, <1>5
<1>7. QED
  BY <1>2, <1>6

\* The same up to a number.
LEMMA SetInductionUpTo ==
  ASSUME NEW N \in Nat, NEW S, 0 \in S, \A n \in 0 .. N - 1 : n \in S => n + 1 \in S
  PROVE  \A n \in 0 .. N : n \in S
<1> DEFINE T == {n \in Nat : n <= N => n \in S}
<1>1. 0 \in T
  OBVIOUS
<1>2. \A n \in Nat : n \in T => n + 1 \in T
  OBVIOUS
<1> HIDE DEF T
<1>3. \A n \in Nat : n \in T
  BY <1>1, <1>2, SetInduction
<1>4. QED
  BY <1>3 DEF T

\* The same from a number down to 1.
LEMMA SetInductionDown ==
  ASSUME NEW N \in Nat \ {0}, NEW S, N \in S, \A n \in 1 .. N - 1 : n + 1 \in S => n \in S
  PROVE  \A n \in 1 .. N : n \in S
<1> DEFINE T == {n \in Nat : n < N => N - n \in S}
<1>1. 0 \in T
  OBVIOUS
<1>2. ASSUME NEW n \in Nat, n \in T PROVE n + 1 \in T
  <2>1. CASE n + 1 < N
    <3>1. N - n \in S /\ N - (n + 1) \in 1 .. N - 1 /\ (N - (n + 1)) + 1 = N - n
      BY <1>2, <2>1
    <3>2. QED
      BY <3>1
  <2>2. CASE ~ (n + 1 < N)
    BY <2>2
  <2>3. QED
    BY <2>1, <2>2
<1> HIDE DEF T
<1>3. \A n \in Nat : n \in T
  BY <1>1, <1>2, SetInduction
<1>4. ASSUME NEW n \in 1 .. N PROVE n \in S
  <2>1. N - n \in Nat /\ N - n < N /\ N - (N - n) = n
    OBVIOUS
  <2>2. N - n \in T
    BY <1>3, <2>1
  <2>3. QED
    BY <2>1, <2>2 DEF T
<1>5. QED
  BY <1>4

-----------------------------------------------------------------------------
\* f is the function that base and step define up to N.
IsRecursion(f, N, D, base, step) ==
  /\ f \in [0 .. N -> D]
  /\ f[0] = base
  /\ \A k \in 1 .. N : f[k] = step[<<k, f[k - 1]>>]

\* A function may be defined from its value at 0 and from each value to the
\* next.
LEMMA RecursionExists ==
  ASSUME NEW N \in Nat, NEW D, NEW base \in D, NEW step \in [(1 .. N) \X D -> D]
  PROVE  \E f : IsRecursion(f, N, D, base, step)
<1> DEFINE Good(n) == \E f \in [0 .. n -> D] :
                        f[0] = base /\ \A k \in 1 .. n : f[k] = step[<<k, f[k - 1]>>]
           S == {n \in Nat : Good(n)}
<1>1. 0 \in S
  <2> DEFINE f == [k \in 0 .. 0 |-> base]
  <2>1. f \in [0 .. 0 -> D] /\ f[0] = base
    OBVIOUS
  <2>2. \A k \in 1 .. 0 : f[k] = step[<<k, f[k - 1]>>]
    OBVIOUS
  <2> HIDE DEF f
  <2>3. Good(0)
    BY <2>1, <2>2
  <2>4. QED
    BY <2>3
<1>2. ASSUME NEW n \in 0 .. N - 1, n \in S PROVE n + 1 \in S
  <2>1. PICK f \in [0 .. n -> D] : f[0] = base /\ \A k \in 1 .. n : f[k] = step[<<k, f[k - 1]>>]
    BY <1>2
  <2> DEFINE g == [k \in 0 .. n + 1 |-> IF k = n + 1 THEN step[<<n + 1, f[n]>>] ELSE f[k]]
  <2>2. <<n + 1, f[n]>> \in (1 .. N) \X D
    <3>1. n \in 0 .. n /\ n + 1 \in 1 .. N
      OBVIOUS
    <3>2. QED
      BY <3>1
  <2>3. step[<<n + 1, f[n]>>] \in D
    BY <2>2
  <2>4. g \in [0 .. n + 1 -> D]
    BY <2>3
  <2>5. g[0] = base
    BY <2>1
  <2>6. ASSUME NEW k \in 1 .. n + 1 PROVE g[k] = step[<<k, g[k - 1]>>]
    <3>1. k - 1 \in 0 .. n /\ k - 1 # n + 1 /\ k \in 0 .. n + 1
      OBVIOUS
    <3>2. g[k - 1] = f[k - 1]
      BY <3>1
    <3>3. CASE k = n + 1
      BY <3>1, <3>2, <3>3
    <3>4. CASE k # n + 1
      <4>1. k \in 1 .. n
        BY <3>4
      <4>2. QED
        BY <2>1, <3>1, <3>2, <3>4, <4>1
    <3>5. QED
      BY <3>3, <3>4
  <2>7. Good(n + 1)
    BY <2>4, <2>5, <2>6
  <2>8. QED
    BY <2>7
<1> HIDE DEF S
<1>3. \A n \in 0 .. N : n \in S
  BY <1>1, <1>2, SetInductionUpTo
<1>4. N \in S
  BY <1>3
<1>5. Good(N)
  BY <1>4 DEF S
<1>6. QED
  BY <1>5 DEF IsRecursion

\* A function that follows the same recursion has values of the same type.
LEMMA RecursionHolds ==
  ASSUME NEW N \in Nat, NEW D, NEW base \in D, NEW step \in [(1 .. N) \X D -> D],
         NEW f, f = [k \in 0 .. N |-> f[k]], f[0] = base,
         \A k \in 1 .. N : f[k - 1] \in D => f[k] = step[<<k, f[k - 1]>>]
  PROVE  IsRecursion(f, N, D, base, step)
<1> DEFINE S == {k \in Nat : f[k] \in D}
<1>1. 0 \in S
  OBVIOUS
<1>2. ASSUME NEW n \in 0 .. N - 1, n \in S PROVE n + 1 \in S
  <2>1. n + 1 \in 1 .. N /\ (n + 1) - 1 = n /\ f[n] \in D
    BY <1>2
  <2>2. f[n + 1] = step[<<n + 1, f[n]>>]
    BY <2>1
  <2>3. <<n + 1, f[n]>> \in (1 .. N) \X D
    BY <2>1
  <2>4. f[n + 1] \in D
    BY <2>2, <2>3
  <2>5. QED
    BY <2>4
<1> HIDE DEF S
<1>3. \A n \in 0 .. N : n \in S
  BY <1>1, <1>2, SetInductionUpTo
<1>4. \A n \in 0 .. N : f[n] \in D
  BY <1>3 DEF S
<1>5. f \in [0 .. N -> D]
  BY <1>4
<1>6. \A k \in 1 .. N : k - 1 \in 0 .. N
  OBVIOUS
<1>7. QED
  BY <1>4, <1>5, <1>6 DEF IsRecursion
-----------------------------------------------------------------------------
\* Lists flattened: what holds for the empty list, for each of the lists, and
\* for two lists one after the other if for both, holds for all of them one after
\* the other.
LEMMA FlattenClosed ==
  ASSUME NEW D, <<>> \in D, \A s, t \in D : s \o t \in D, NEW raw \in Seq(D)
  PROVE  FlattenSeq(raw) \in D
<1>1. /\ Len(raw) \in Nat /\ DOMAIN raw = 1 .. Len(raw)
      /\ \A k \in 1 .. Len(raw) : raw[k] \in D
  BY ElementOfSeq, LenProperties
<1>2. CASE Len(raw) = 0
  <2>1. raw = <<>>
    BY <1>2, EmptySeq
  <2>2. QED
    BY <1>2, <2>1 DEF FlattenSeq
<1>3. CASE Len(raw) # 0
  <2> DEFINE n == Len(raw) - 1
             Body(f) == [i \in 1 .. Len(raw) |-> IF i = 1 THEN raw[i] ELSE f[i - 1] \o raw[i]]
             step == [x \in (1 .. n) \X D |-> x[2] \o raw[x[1] + 1]]
  <2>1. n \in Nat /\ n + 1 = Len(raw) /\ raw[1] \in D
    BY <1>1, <1>3
  <2>2. step \in [(1 .. n) \X D -> D]
    <3>1. \A k \in 1 .. n : raw[k + 1] \in D
      BY <1>1, <2>1
    <3> HIDE DEF n
    <3>2. QED
      BY <3>1
  <2> HIDE DEF step, n
  <2>3. PICK g : IsRecursion(g, n, D, raw[1], step)
    BY <2>1, <2>2, RecursionExists
  <2> DEFINE h == [i \in 1 .. Len(raw) |-> g[i - 1]]
  <2>4. ASSUME NEW i \in 1 .. Len(raw), i # 1
        PROVE  h[i] = h[i - 1] \o raw[i]
    <3>1. /\ i - 1 \in 1 .. n /\ (i - 1) - 1 \in 0 .. n /\ (i - 1) + 1 = i
          /\ i - 1 \in 1 .. Len(raw)
      BY <2>1, <2>4
    <3>2. g[i - 1] = step[<<i - 1, g[(i - 1) - 1]>>] /\ g[(i - 1) - 1] \in D
      BY <2>3, <3>1 DEF IsRecursion
    <3>3. g[i - 1] = g[(i - 1) - 1] \o raw[i]
      BY <3>1, <3>2 DEF step
    <3>4. QED
      BY <3>1, <3>3
  <2>5. 1 \in 1 .. Len(raw) /\ h[1] = raw[1]
    BY <2>1, <2>3 DEF IsRecursion
  <2>6. h = [i \in 1 .. Len(raw) |-> h[i]]
    OBVIOUS
  <2> HIDE DEF h
  <2>7. h = Body(h)
    BY <2>4, <2>5, <2>6
  <2> DEFINE f == CHOOSE f : f = Body(f)
  <2>8. f = Body(f)
    BY <2>7
  <2>9. FlattenSeq(raw) = f[Len(raw)]
    BY <1>3 DEF FlattenSeq
  <2> HIDE DEF f
  <2> DEFINE Typed == {i \in Nat : f[i + 1] \in D}
  <2>10. 0 \in Typed
    BY <2>1, <2>5, <2>8
  <2>11. ASSUME NEW i \in 0 .. n - 1, i \in Typed PROVE i + 1 \in Typed
    <3>1. /\ (i + 1) + 1 \in 1 .. Len(raw) /\ (i + 1) + 1 # 1 /\ ((i + 1) + 1) - 1 = i + 1
          /\ i + 1 \in Nat
      BY <2>1
    <3>2. f[(i + 1) + 1] = f[i + 1] \o raw[(i + 1) + 1]
      BY <2>8, <3>1
    <3>3. f[i + 1] \in D /\ raw[(i + 1) + 1] \in D
      BY <1>1, <2>11, <3>1
    <3>4. f[(i + 1) + 1] \in D
      BY <3>2, <3>3
    <3>5. QED
      BY <3>1, <3>4
  <2> HIDE DEF Typed
  <2>12. \A i \in 0 .. n : i \in Typed
    BY <2>1, <2>10, <2>11, SetInductionUpTo
  <2>13. n \in Typed
    BY <2>1, <2>12
  <2>14. QED
    BY <2>1, <2>9, <2>13 DEF Typed
<1>4. QED
  BY <1>2, <1>3
=============================================================================
