------------------------------- MODULE FlatSet -------------------------------
(***************************************************************************)
(* FlatSet (flat_set.hpp): a sorted vector of elements, one of each class  *)
(* of equivalent ones.  An element is <<rank, tag>> and Compare looks at   *)
(* the rank only, so equivalent elements can be told apart.                *)
(***************************************************************************)
EXTENDS Integers, Sequences, FiniteSetsExt

CONSTANTS
    Ranks, Tags,
    MaxElements     \* bound: elements passed to a constructor

ConstantsFit == Ranks \subseteq Int

VARIABLES
    data_,      \* the vector
    last        \* the last operation, its argument and its result

vars == <<data_, last>>

Elements == Ranks \X Tags
Lists == UNION {[1 .. n -> Elements] : n \in 0 .. MaxElements}
comp_(a, b) == a[1] < b[1]
Equivalent(a, b) == ~comp_(a, b) /\ ~comp_(b, a)

Did(op, arg, res) == last' = [op |-> op, arg |-> arg, res |-> res]

-----------------------------------------------------------------------------
\* Lookups are positions in the vector; end() is one past the last.
end == Len(data_) + 1

lower_bound(v) == Min({i \in 1 .. end : i = end \/ ~comp_(data_[i], v)})

upper_bound(v) == Min({i \in 1 .. end : i = end \/ comp_(v, data_[i])})

find(v) ==
    LET i == lower_bound(v)
    IN  IF i # end /\ ~comp_(v, data_[i]) THEN i ELSE end

(* std::sort: any ascending arrangement; equivalent elements may change    *)
(* places.                                                                 *)
Sorted(s) ==
    { t \in {[i \in DOMAIN s |-> s[p[i]]] : p \in Bijection(DOMAIN s, DOMAIN s)} :
        \A i, j \in DOMAIN t : i < j => ~comp_(t[j], t[i]) }

\* std::unique: of adjacent equivalent elements, the first
Unique(s) ==
    LET kept == {i \in DOMAIN s : i = 1 \/ ~Equivalent(s[i - 1], s[i])}
        size == Cardinality(kept)
    IN  { [n \in 1 .. size |-> s[q[n]]] :
            q \in {q \in Bijection(1 .. size, kept) : \A m, n \in 1 .. size : m < n => q[m] < q[n]} }

\* vector::insert before position i, and vector::erase: what is behind moves
Inserted(s, i, v) ==
    [j \in 1 .. Len(s) + 1 |-> IF j < i THEN s[j] ELSE IF j = i THEN v ELSE s[j - 1]]

Erased(s, i) == [j \in 1 .. Len(s) - 1 |-> IF j < i THEN s[j] ELSE s[j + 1]]

-----------------------------------------------------------------------------
Init == data_ = <<>> /\ last = [op |-> "none", arg |-> <<>>, res |-> FALSE]

(* The constructors from a list or a range: assign(), then sort_unique(). *)
Construct(list) ==
    /\ last.op = "none"
    /\ \E sorted \in Sorted(list) : data_' \in Unique(sorted)
    /\ Did("construct", list, TRUE)

\* insert_impl()
InsertImpl(v) ==
    LET i == lower_bound(v)
    IN  IF i # end /\ ~comp_(v, data_[i])
        THEN data_' = data_ /\ Did("insert", v, FALSE)
        ELSE data_' = Inserted(data_, i, v) /\ Did("insert", v, TRUE)

Erase(v) ==
    IF find(v) = end THEN data_' = data_ /\ Did("erase", v, FALSE)
    ELSE data_' = Erased(data_, find(v)) /\ Did("erase", v, TRUE)

(* erase(const_iterator) *)
EraseAt(i) == data_' = Erased(data_, i) /\ Did("erase", data_[i], TRUE)

Clear == data_' = <<>> /\ Did("clear", <<>>, TRUE)

Next ==
    \/ \E list \in Lists : Construct(list)
    \/ \E v \in Elements : InsertImpl(v) \/ Erase(v)
    \/ \E i \in DOMAIN data_ : EraseAt(i)
    \/ Clear

Spec == Init /\ [][Next]_vars

-----------------------------------------------------------------------------
Held == Range(data_)
Classes(S) == {v[1] : v \in S}
Has(v) == v[1] \in Classes(Held)

SortedUnique == \A i, j \in DOMAIN data_ : i < j => comp_(data_[i], data_[j])

\* The lookups of every value agree with each other and with what is held.
LookupsAgree ==
    \A v \in Elements :
        /\ upper_bound(v) - lower_bound(v) = IF Has(v) THEN 1 ELSE 0
        /\ find(v) = IF Has(v) THEN lower_bound(v) ELSE end
        /\ \A i \in DOMAIN data_ : i < lower_bound(v) <=> comp_(data_[i], v)

\* What the last operation did to the set.
SetStep ==
    LET v == last'.arg
    IN  CASE last'.op = "construct" ->
                Held' \subseteq Range(v) /\ Classes(Held') = Classes(Range(v))
          [] last'.op = "insert" ->
                /\ last'.res = ~Has(v)
                /\ Held' = IF Has(v) THEN Held ELSE Held \cup {v}
          [] last'.op = "erase" ->
                /\ last'.res = Has(v)
                /\ Held' = {w \in Held : ~Equivalent(v, w)}
          [] OTHER -> Held' = {}

(* The vector acts as a set of classes: however std::sort leaves           *)
(* equivalent elements, one of each class is kept, an insertion never      *)
(* replaces an equivalent element, an erasure removes the class, and       *)
(* lower_bound(), upper_bound() and find() agree after every operation.    *)
ActsAsSet == [][SortedUnique' /\ LookupsAgree' /\ SetStep]_vars

=============================================================================
