------------------------------ MODULE TypeList ------------------------------
(***************************************************************************)
(* utility/type_list.hpp: the compile-time lists of types.  A list is a    *)
(* sequence, a type a model value, a unary predicate the set of the types  *)
(* that satisfy it, a binary one a set of pairs.  Each recursive template  *)
(* is a recursive operator, its specialisations are the cases.  The lists  *)
(* the templates are applied to are those that can be built from the empty *)
(* one.  tl_head of the empty list, void, is none_t here.                  *)
(***************************************************************************)
EXTENDS Integers, FiniteSets, Sequences, SequencesExt

CONSTANTS
  Types,        \* the types that are put into lists
  unit_t,       \* one of them, also the padding
  none_t,       \* what stands for "no such type"
  MaxLen        \* bound: the length of a list

TypeListAssumption == unit_t \in Types /\ none_t \notin Types /\ MaxLen \in Nat

VARIABLES ListA, ListB

listVars == <<ListA, ListB>>

Predicates == SUBSET Types

-----------------------------------------------------------------------------
(* Heads, tails and slices *)
tl_head(l) == IF l = <<>> THEN none_t ELSE Head(l)
tl_tail(l) == IF l = <<>> THEN <<>> ELSE Tail(l)

RECURSIVE tl_back(_)
tl_back(l) ==
  IF l = <<>> THEN unit_t ELSE IF Len(l) = 1 THEN Head(l) ELSE tl_back(Tail(l))

\* stops at the end of the list
RECURSIVE tl_slice_impl_NoPad(_, _, _, _)
tl_slice_impl_NoPad(left, remaining, l, ts) ==
  IF left > 0 THEN tl_slice_impl_NoPad(left - 1, remaining, tl_tail(l), ts)
  ELSE IF remaining = 0 \/ l = <<>> THEN ts
  ELSE tl_slice_impl_NoPad(0, remaining - 1, tl_tail(l), Append(ts, tl_head(l)))

(* Skips, then collects into ts, padding when the list is at its end. *)
RECURSIVE tl_slice_impl(_, _, _, _)
tl_slice_impl(left, remaining, l, ts) ==
  IF left > 0 THEN tl_slice_impl(left - 1, remaining, tl_tail(l), ts)
  ELSE IF remaining = 0 THEN ts
  ELSE tl_slice_impl(0, remaining - 1, tl_tail(l),
                     Append(ts, IF l = <<>> THEN unit_t ELSE tl_head(l)))

tl_slice_(l, first, last) ==
  IF first = 0 /\ last = Len(l) THEN l ELSE tl_slice_impl(first, last - first, l, <<>>)

tl_slice(l, first, last) == tl_slice_(l, IF first > last THEN last ELSE first, last)

tl_right(l, n) ==
  IF l = <<>> \/ n = Len(l) THEN l
  ELSE tl_slice(l, IF Len(l) > n THEN Len(l) - n ELSE 0, Len(l))

tl_pop_back(l) == IF l = <<>> THEN l ELSE tl_slice(l, 0, Len(l) - 1)

RECURSIVE tl_replace_back(_, _, _)
tl_replace_back(l, back, us) ==
  IF Len(l) = 1 THEN Append(us, back)
  ELSE tl_replace_back(Tail(l), back, Append(us, Head(l)))

RECURSIVE tl_at(_, _)
tl_at(l, n) ==
  IF l = <<>> THEN unit_t ELSE IF n = 0 THEN Head(l) ELSE tl_at(Tail(l), n - 1)

RECURSIVE tl_reverse_impl(_, _)
tl_reverse_impl(l, es) ==
  IF l = <<>> THEN es ELSE tl_reverse_impl(Tail(l), <<Head(l)>> \o es)

tl_reverse(l) == tl_reverse_impl(l, <<>>)

-----------------------------------------------------------------------------
(* Adding, padding, trimming *)
tl_push_back(l, what)  == Append(l, what)
tl_push_front(l, what) == <<what>> \o l

RECURSIVE tl_concat(_)
tl_concat(lists) ==
  IF Len(lists) = 1 THEN lists[1]
  ELSE tl_concat(<<lists[1] \o lists[2]>> \o Tail(Tail(lists)))

RECURSIVE tl_pad_right_impl(_, _, _)
tl_pad_right_impl(l, size, fill) ==
  IF Len(l) < size THEN tl_pad_right_impl(tl_push_back(l, fill), size, fill)
  ELSE IF Len(l) = size THEN l ELSE tl_slice(l, 0, size)

RECURSIVE tl_pad_left_impl(_, _, _)
tl_pad_left_impl(l, size, fill) ==
  IF Len(l) = size THEN l ELSE tl_pad_left_impl(tl_push_front(l, fill), size, fill)

tl_pad_left(l, size, fill) ==
  tl_pad_left_impl(l, IF Len(l) > size THEN Len(l) ELSE size, fill)

RECURSIVE tl_trim(_, _)
tl_trim(l, what) ==
  IF l = <<>> THEN l
  ELSE IF tl_back(l) = what THEN tl_trim(tl_pop_back(l), what) ELSE l

-----------------------------------------------------------------------------
(* Two lists side by side; a pair is a type_pair *)
tl_zip_impl(l, m) == [i \in 1..Len(l) |-> <<l[i], m[i]>>]

tl_zip(l, m) ==
  LET result_size == IF Len(l) < Len(m) THEN Len(l) ELSE Len(m)
  IN  tl_zip_impl(tl_slice(l, 0, result_size), tl_slice(m, 0, result_size))

tl_zip_right(l, m, n) == tl_zip_impl(tl_right(l, n), tl_right(m, n))

(* The parameters PadA and PadB are not used: both are padded with unit_t. *)
tl_zip_all(l, m) ==
  LET result_size == IF Len(l) > Len(m) THEN Len(l) ELSE Len(m)
  IN  tl_zip_impl(tl_slice_(l, 0, result_size), tl_slice_(m, 0, result_size))

tl_unzip(z) == << [i \in 1..Len(z) |-> z[i][1]], [i \in 1..Len(z) |-> z[i][2]] >>

-----------------------------------------------------------------------------
(* Searching, testing, counting *)
RECURSIVE tl_index_of_impl(_, _, _)
tl_index_of_impl(pos, x, l) ==
  IF l = <<>> THEN -1
  ELSE IF Head(l) = x THEN pos ELSE tl_index_of_impl(pos + 1, x, Tail(l))

RECURSIVE tl_index_where_impl(_, _, _)
tl_index_where_impl(pos, pred, l) ==
  IF l = <<>> THEN -1
  ELSE IF Head(l) \in pred THEN pos ELSE tl_index_where_impl(pos + 1, pred, Tail(l))

RECURSIVE tl_find(_, _)
tl_find(l, pred) ==
  IF l = <<>> THEN none_t
  ELSE IF Head(l) \in pred THEN Head(l) ELSE tl_find(Tail(l), pred)

RECURSIVE tl_forall(_, _)
tl_forall(l, pred) ==
  l = <<>> \/ (tl_head(l) \in pred /\ tl_forall(tl_tail(l), pred))

RECURSIVE tl_forall2_impl(_, _, _)
tl_forall2_impl(l, m, pred) ==
  l = <<>> \/ (<<tl_head(l), tl_head(m)>> \in pred /\ tl_forall2_impl(tl_tail(l), tl_tail(m), pred))

tl_binary_forall(l, m, pred) == Len(l) = Len(m) /\ tl_forall2_impl(l, m, pred)

RECURSIVE tl_exists(_, _)
tl_exists(l, pred) ==
  l # <<>> /\ (tl_head(l) \in pred \/ tl_exists(tl_tail(l), pred))

RECURSIVE tl_count(_, _)
tl_count(l, pred) ==
  IF l = <<>> THEN 0
  ELSE (IF tl_head(l) \in pred THEN 1 ELSE 0) + tl_count(tl_tail(l), pred)

RECURSIVE tl_count_type(_, _)
tl_count_type(l, t) ==
  IF l = <<>> THEN 0
  ELSE (IF tl_head(l) = t THEN 1 ELSE 0) + tl_count_type(tl_tail(l), t)

RECURSIVE tl_count_not(_, _)
tl_count_not(l, pred) ==
  IF l = <<>> THEN 0
  ELSE (IF tl_head(l) \in pred THEN 0 ELSE 1) + tl_count_not(tl_tail(l), pred)

RECURSIVE tl_contains(_, _)
tl_contains(l, x) == l # <<>> /\ (Head(l) = x \/ tl_contains(Tail(l), x))

RECURSIVE tl_subset_of(_, _, _)
tl_subset_of(l, m, fwd) ==
  fwd /\ (l = <<>> \/ tl_subset_of(Tail(l), m, tl_contains(m, Head(l))))

tl_equal(l, m) == tl_subset_of(l, m, TRUE) /\ tl_subset_of(m, l, TRUE)

-----------------------------------------------------------------------------
(* Selecting.  tl_filter_impl keeps what its row of booleans selects. *)
RECURSIVE tl_filter_impl(_, _)
tl_filter_impl(l, selected) ==
  IF l = <<>> THEN <<>>
  ELSE LET rest == tl_filter_impl(Tail(l), Tail(selected))
       IN  IF Head(selected) THEN <<Head(l)>> \o rest ELSE rest

tl_filter(l, pred)     == tl_filter_impl(l, [i \in 1..Len(l) |-> l[i] \in pred])
tl_filter_not(l, pred) == tl_filter_impl(l, [i \in 1..Len(l) |-> l[i] \notin pred])

(* Both keep what differs from the type. *)
tl_filter_type(l, type)     == tl_filter_impl(l, [i \in 1..Len(l) |-> l[i] # type])
tl_filter_not_type(l, type) == tl_filter_impl(l, [i \in 1..Len(l) |-> l[i] # type])

RECURSIVE tl_distinct(_)
tl_distinct(l) ==
  IF l = <<>> THEN <<>>
  ELSE tl_concat(<< <<Head(l)>>, tl_distinct(tl_filter_type(Tail(l), Head(l))) >>)

tl_is_distinct(l) == Len(l) = Len(tl_distinct(l))

(* Keeps, once, the types that occur more than once. *)
RECURSIVE tl_intersect_impl(_)
tl_intersect_impl(l) ==
  IF l = <<>> THEN <<>>
  ELSE IF tl_count_type(l, tl_head(l)) = 1 THEN tl_intersect_impl(Tail(l))
  ELSE tl_concat(<< <<Head(l)>>, tl_intersect_impl(tl_filter_type(Tail(l), Head(l))) >>)

tl_union(l, m)     == tl_distinct(tl_concat(<<l, m>>))
tl_intersect(l, m) == tl_intersect_impl(tl_concat(<<l, m>>))

RECURSIVE tl_map_conditional(_, _, _, _)
tl_map_conditional(l, trait, result, fun) ==
  IF l = <<>> THEN <<>>
  ELSE tl_concat(<< << IF (tl_head(l) \in trait) = result THEN fun[tl_head(l)] ELSE tl_head(l) >>,
                    tl_map_conditional(tl_tail(l), trait, result, fun) >>)

-----------------------------------------------------------------------------
(* The lists one can come to *)
Init == ListA = <<>> /\ ListB = <<>>

PushBack(t) ==
  /\ Len(ListA) < MaxLen
  /\ ListA' = tl_push_back(ListA, t)
  /\ UNCHANGED ListB

PushFront(t) ==
  /\ Len(ListB) < MaxLen
  /\ ListB' = tl_push_front(ListB, t)
  /\ UNCHANGED ListA

Next == \E t \in Types : PushBack(t) \/ PushFront(t)

-----------------------------------------------------------------------------
(* What the comments of the header promise, or the names where there is no *)
(* comment, by position and by membership rather than by recursion.        *)
Padded(l, n) == [i \in 1..n |-> IF i <= Len(l) THEN l[i] ELSE unit_t]

SlicesAgree ==
  /\ tl_back(ListA) = (IF ListA = <<>> THEN unit_t ELSE Last(ListA))
  /\ tl_reverse(ListA) = Reverse(ListA)
  /\ ListA # <<>> =>
       /\ tl_pop_back(ListA) = Front(ListA)
       /\ tl_replace_back(ListA, unit_t, <<>>) = Append(Front(ListA), unit_t)
  /\ \A n \in 0..MaxLen + 1 :
       /\ tl_at(ListA, n) = Padded(ListA, n + 1)[n + 1]
       /\ tl_right(ListA, n) = Reverse(SubSeq(Reverse(ListA), 1, IF n < Len(ListA) THEN n ELSE Len(ListA)))
       /\ \A first \in 0..n : tl_slice(ListA, first, n) = SubSeq(Padded(ListA, n), first + 1, n)
       /\ \A t \in Types :
            LET right == tl_pad_right_impl(ListA, n, t)
                left  == tl_pad_left(ListA, n, t)
            IN  /\ Len(right) = n
                /\ \A i \in 1..n : right[i] = IF i <= Len(ListA) THEN ListA[i] ELSE t
                /\ n >= Len(ListA) => left = Reverse(tl_pad_right_impl(Reverse(ListA), n, t))
                /\ tl_trim(right, t) = tl_trim(tl_slice(ListA, 0, IF n < Len(ListA) THEN n ELSE Len(ListA)), t)
  /\ \A t \in Types :
       LET kept == Len(tl_trim(ListA, t))
       IN  /\ tl_trim(ListA, t) = SubSeq(ListA, 1, kept)
           /\ kept > 0 => ListA[kept] # t
           /\ \A i \in kept + 1..Len(ListA) : ListA[i] = t

ZipsAgree ==
  LET unzipped == tl_unzip(tl_zip(ListA, ListB))
      all      == tl_unzip(tl_zip_all(ListA, ListB))
  IN  /\ IsPrefix(unzipped[1], ListA) /\ IsPrefix(unzipped[2], ListB)
      /\ Len(unzipped[1]) \in {Len(ListA), Len(ListB)}
      /\ \E n \in {Len(ListA), Len(ListB)} : all = <<Padded(ListA, n), Padded(ListB, n)>>
      /\ \A n \in 0..Len(unzipped[1]) :
           tl_zip_right(ListA, ListB, n) =
             Reverse(SubSeq(tl_zip(Reverse(ListA), Reverse(ListB)), 1, n))

SearchesAgree ==
  LET At(pred)    == {i \in 1..Len(ListA) : ListA[i] \in pred}
      First(pred) == CHOOSE i \in At(pred) : \A j \in At(pred) : i <= j
  IN  /\ \A pred \in Predicates :
           LET found == At(pred) # {}
           IN  /\ tl_index_where_impl(0, pred, ListA) = (IF found THEN First(pred) - 1 ELSE -1)
               /\ tl_find(ListA, pred) = (IF found THEN ListA[First(pred)] ELSE none_t)
               /\ tl_exists(ListA, pred) = found
               /\ tl_forall(ListA, pred) = (At(pred) = 1..Len(ListA))
               /\ tl_count(ListA, pred) = Cardinality(At(pred))
               /\ tl_filter(ListA, pred) = SelectSeq(ListA, LAMBDA t : t \in pred)
               /\ tl_filter_not(ListA, pred) = tl_filter(ListA, Types \ pred)
               /\ tl_map_conditional(ListA, pred, FALSE, [t \in Types |-> unit_t]) =
                    [i \in 1..Len(ListA) |-> IF i \in At(pred) THEN ListA[i] ELSE unit_t]
      /\ \A t \in Types :
           /\ tl_index_of_impl(0, t, ListA) = tl_index_where_impl(0, {t}, ListA)
           /\ tl_contains(ListA, t) = (t \in Range(ListA))
           /\ tl_count_type(ListA, t) = tl_count(ListA, {t})
           /\ tl_filter_not_type(ListA, t) = tl_filter_not(ListA, {t})
      /\ tl_binary_forall(ListA, ListB, {<<t, t>> : t \in Types}) = (ListA = ListB)

SetsAgree ==
  LET union == tl_union(ListA, ListB)
      both  == tl_intersect(ListA, ListB)
  IN  /\ Range(union) = Range(ListA) \cup Range(ListB)
      /\ tl_is_distinct(union) /\ IsPrefix(tl_distinct(ListA), union)
      /\ tl_is_distinct(ListA) <=> Len(ListA) = Cardinality(Range(ListA))
      /\ tl_is_distinct(ListA) /\ tl_is_distinct(ListB) =>
           tl_is_distinct(both) /\ Range(both) = Range(ListA) \cap Range(ListB)
      /\ tl_subset_of(ListA, ListB, TRUE) <=> Range(ListA) \subseteq Range(ListB)
      /\ tl_equal(ListA, ListB) <=> Range(ListA) = Range(ListB)

(* The recursive templates, with their special cases for empty lists, for  *)
(* positions past the end and for equal sizes, are the operations on       *)
(* sequences and sets that their comments describe; tl_intersect only for  *)
(* lists without duplicates.  The four that are not what their comments    *)
(* say are below; tl_index_of and tl_find have one another's comments and  *)
(* are taken for what their names say.                                     *)
ListsMeetReference == SlicesAgree /\ ZipsAgree /\ SearchesAgree /\ SetsAgree

(* "Creates a new list containing all elements which are equal to `Type`"  *)
FilterTypeKeepsEqual ==
  \A t \in Types : tl_filter_type(ListA, t) = SelectSeq(ListA, LAMBDA s : s = t)

(* "Counts the number of elements in the list which satisfy a predicate."  *)
CountNotCountsSatisfying ==
  \A pred \in Predicates :
    tl_count_not(ListA, pred) = Cardinality({i \in 1..Len(ListA) : ListA[i] \in pred})

(* "Resizes the list to contain `NewSize` elements"                        *)
PadLeftResizes ==
  \A n \in 0..MaxLen, t \in Types : Len(tl_pad_left(ListA, n, t)) = n

(* "Appends `What` to given list."                                         *)
PushFrontAppends ==
  \A t \in Types : tl_push_front(ListA, t) = Append(ListA, t)

(* Of these comments of tl_filter_type, tl_count_not, tl_pad_left and      *)
(* tl_push_front one is right for the list: a list that refutes this       *)
(* refutes all four.                                                       *)
SomeCommentHolds ==
  FilterTypeKeepsEqual \/ CountNotCountsSatisfying \/ PadLeftResizes \/ PushFrontAppends

Spec == Init /\ [][Next]_listVars

=============================================================================
