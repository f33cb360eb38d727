------------------------------ MODULE RegList ------------------------------
(***************************************************************************)
(* What the compiler makes of a reglist (include/register.hpp) and of the  *)
(* typelist it is given as (include/typelist.hpp): the list is flattened,  *)
(* the masks of each register are merged into one and duplicates dropped.  *)
(***************************************************************************)
EXTENDS RegMask, SequencesExt

CONSTANT NoReg   \* the register of a list element that is no regmask

\* typelist<>: appends elements and the elements of lists, drops void.  A raw
\* list is a sequence of <<>> for void, <<e>> for an element, and lists.
typelist(raw) == FlattenSeq(raw)

\* make_filtered_list<>: the list after k elements, to which those of a set, for
\* which the condition holds, are pushed back.
filtered(l, keep) ==
  LET list[k \in 0 .. Len(l)] ==
        IF k = 0 THEN <<>>
        ELSE list[k - 1] \o IF l[k] \in keep THEN <<l[k]>> ELSE <<>>
  IN list

make_filtered_list(l, keep) == filtered(l, keep)[Len(l)]

\* make_reglist<>: the elements that are regmasks.
make_reglist(raw) ==
  LET l == typelist(raw)
  IN make_filtered_list(l, {l[k] : k \in {k \in DOMAIN l : l[k].reg # NoReg}})

\* filter_reg_type<>: the elements of a register.
filter_reg_type(l, r) ==
  make_filtered_list(l, {l[k] : k \in {k \in DOMAIN l : l[k].reg = r}})

\* merged_regmask<T0, Tp...>: T0 is merged with what the rest is merged to.
Merged(l) == LET m[k \in DOMAIN l] == IF k = Len(l) THEN l[k] ELSE merge(l[k], m[k + 1])
             IN m

merged_list(l) == [k \in DOMAIN l |-> Merged(filter_reg_type(l, l[k].reg))[1]]

\* Mutant: duplicates stay.
filter_uniqueNot(l) == l

\* make_unique_list<>: the list after k elements, of which those it does not
\* contain are pushed back.
uniques(l) ==
  LET list[k \in 0 .. Len(l)] ==
        IF k = 0 THEN <<>>
        ELSE LET before == list[k - 1]
             IN before \o IF Contains(before, l[k]) THEN <<>> ELSE <<l[k]>>
  IN list

filter_unique(l) == uniques(l)[Len(l)]

unique_merged_list(l) == filter_unique(merged_list(l))

\* Mutant: only neighbours are looked at.
AssertedNeighbours(l) ==
  \A n \in DOMAIN l : LET f == filter_reg_type(l, l[n].reg)
                         IN \A k \in 1 .. Len(f) - 1 : Mergeable(f[k], f[k + 1])

\* No assertion of a merge fails.
Asserted(l) ==
  \A n \in DOMAIN l : LET f == filter_reg_type(l, l[n].reg)
                         IN \A k \in 1 .. Len(f) - 1 : Mergeable(f[k], Merged(f)[k + 1])

\* all_reg_type<>: each element's register is one of those given.
all_reg_type(l, rs) == \A k \in DOMAIN l : Contains(rs, l[k].reg)

\* What strict_reset_to<>() of registers puts before its list.
neutrals(rs) == [k \in DOMAIN rs |-> neutral_regmask(rs[k])]
=============================================================================
