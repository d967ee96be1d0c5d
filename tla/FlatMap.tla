------------------------------- MODULE FlatMap -------------------------------
(***************************************************************************)
(* FlatMap (flat_map.hpp): a vector of <<key, value>> entries sorted by    *)
(* key.  Keys are numbers, and Compare is <, as std::less is.              *)
(***************************************************************************)
EXTENDS Integers, Sequences, FiniteSetsExt

CONSTANTS
    Keys, MappedValues,
    MaxEntries      \* bound: entries passed to a constructor

ConstantsFit == Keys \subseteq Int

VARIABLES
    data_,      \* the vector of entries
    pending,    \* what a constructor has still to insert
    constructed,
    last        \* the last operation, its key, its value and its result

vars == <<data_, pending, constructed, last>>

Zero == 0       \* Value{}
Entries == Keys \X MappedValues
Lists == UNION {[1 .. n -> Entries] : n \in 0 .. MaxEntries}
Key(entry) == entry[1]
Did(op, k, v, res) == last' = [op |-> op, key |-> k, value |-> v, res |-> res]

Init ==
    /\ data_ = <<>> /\ pending = <<>> /\ constructed = FALSE
    /\ last = [op |-> "none", key |-> 0, value |-> Zero, res |-> FALSE]

-----------------------------------------------------------------------------
\* std::lower_bound on s: the first entry whose key is not less, Len(s) + 1 if none
LowerBound(s, k) == Min({i \in 1 .. Len(s) + 1 : i > Len(s) \/ ~(Key(s[i]) < k)})

\* locate() and find() on s: the same position if the key there is k, else the end
Locate(s, k) ==
    LET i == LowerBound(s, k)
    IN  IF i <= Len(s) /\ ~(k < Key(s[i])) THEN i ELSE Len(s) + 1

Found(s, k) == Locate(s, k) <= Len(s)

\* vector::insert before position i, and vector::erase: what is behind moves
Inserted(s, i, entry) ==
    [j \in 1 .. Len(s) + 1 |-> IF j < i THEN s[j] ELSE IF j = i THEN entry ELSE s[j - 1]]

Erased(s, i) == [j \in 1 .. Len(s) - 1 |-> IF j < i THEN s[j] ELSE s[j + 1]]

\* Mutant: a key that is there already is inserted again.
InsertAgain(s, entry) == Inserted(s, LowerBound(s, Key(entry)), entry)

\* insert_impl(): s with the entry inserted, unless its key is there
InsertImpl(s, entry) ==
    IF Found(s, Key(entry)) THEN s ELSE Inserted(s, LowerBound(s, Key(entry)), entry)

\* std::stable_sort: by ascending key, the entries of one key in their order
StableSorted(s) ==
    { [i \in DOMAIN s |-> s[p[i]]] :
        p \in {p \in Bijection(DOMAIN s, DOMAIN s) :
                  \A i, j \in DOMAIN s : i < j =>
                      \/ Key(s[p[i]]) < Key(s[p[j]])
                      \/ Key(s[p[i]]) = Key(s[p[j]]) /\ p[i] < p[j]} }

\* std::unique: of adjacent entries with one key, the first
Unique(s) ==
    LET kept == {i \in DOMAIN s : i = 1 \/ Key(s[i - 1]) # Key(s[i])}
        size == Cardinality(kept)
    IN  { [n \in 1 .. size |-> s[q[n]]] :
            q \in {q \in Bijection(1 .. size, kept) : \A m, n \in 1 .. size : m < n => q[m] < q[n]} }

-----------------------------------------------------------------------------
(* The constructors from a list or a range, at run time: assign(), then    *)
(* stable_sort() and unique().                                             *)
ConstructSorting(entries) ==
    /\ ~constructed /\ pending = <<>>
    /\ \E sorted \in StableSorted(entries) : data_' \in Unique(sorted)
    /\ constructed' = TRUE
    /\ last' = [op |-> "construct", key |-> 0, value |-> entries, res |-> TRUE]
    /\ UNCHANGED pending

(* In a constant expression: the entries are inserted one by one. *)
ConstructInserting(entries) ==
    /\ ~constructed /\ pending = <<>>
    /\ pending' = entries /\ constructed' = (entries = <<>>)
    /\ last' = [op |-> "construct", key |-> 0, value |-> <<>>, res |-> TRUE]
    /\ UNCHANGED data_

InsertPending ==
    /\ pending # <<>>
    /\ data_' = InsertImpl(data_, Head(pending))
    /\ pending' = Tail(pending) /\ constructed' = (Tail(pending) = <<>>)
    /\ last' = [op |-> "construct", key |-> 0, value |-> Append(last.value, Head(pending)),
                res |-> TRUE]

Insert(entry) ==
    /\ data_' = InsertImpl(data_, entry)
    /\ Did("insert", Key(entry), entry[2], ~Found(data_, Key(entry)))
    /\ UNCHANGED <<pending, constructed>>

(* map[key] = value: operator[] inserts Value{} if the key is not there,   *)
(* and the caller writes through the reference.                            *)
Assign(k, v) ==
    /\ LET s == InsertImpl(data_, <<k, Zero>>)
       IN  data_' = [s EXCEPT ![LowerBound(s, k)] = <<k, v>>]
    /\ Did("assign", k, v, TRUE)
    /\ UNCHANGED <<pending, constructed>>

(* map.at(key) = value: throws if the key is not there. *)
AtAssign(k, v) ==
    /\ data_' = IF Found(data_, k) THEN [data_ EXCEPT ![Locate(data_, k)][2] = v] ELSE data_
    /\ Did("at", k, v, Found(data_, k))
    /\ UNCHANGED <<pending, constructed>>

Erase(k) ==
    /\ data_' = IF Found(data_, k) THEN Erased(data_, Locate(data_, k)) ELSE data_
    /\ Did("erase", k, Zero, Found(data_, k))
    /\ UNCHANGED <<pending, constructed>>

(* erase(const_iterator) *)
EraseAt(i) ==
    /\ data_' = Erased(data_, i)
    /\ Did("erase", Key(data_[i]), Zero, TRUE)
    /\ UNCHANGED <<pending, constructed>>

Clear ==
    /\ data_' = <<>>
    /\ Did("clear", 0, Zero, TRUE)
    /\ UNCHANGED <<pending, constructed>>

Next ==
    \/ \E entries \in Lists : ConstructSorting(entries) \/ ConstructInserting(entries)
    \/ InsertPending
    \/ constructed /\ \E k \in Keys, v \in MappedValues :
          Insert(<<k, v>>) \/ Assign(k, v) \/ AtAssign(k, v)
    \/ constructed /\ \E k \in Keys : Erase(k)
    \/ constructed /\ \E i \in DOMAIN data_ : EraseAt(i)
    \/ constructed /\ Clear

Spec == Init /\ [][Next]_vars

-----------------------------------------------------------------------------
\* The map the vector stands for.
AsMap == [k \in {Key(e) : e \in Range(data_)} |->
             (CHOOSE e \in Range(data_) : Key(e) = k)[2]]

\* The first entry of each key wins.
FirstOf(entries) ==
    [k \in {Key(e) : e \in Range(entries)} |->
        entries[Min({i \in DOMAIN entries : Key(entries[i]) = k})][2]]

With(map, k, v) == [j \in DOMAIN map \cup {k} |-> IF j = k THEN v ELSE map[j]]

SortedUnique == \A i, j \in DOMAIN data_ : i < j => Key(data_[i]) < Key(data_[j])

\* What the last operation did to the map; a constructor's entries are those
\* it has taken so far.
MapStep ==
    LET k == last'.key
        present == k \in DOMAIN AsMap
    IN  CASE last'.op = "construct" -> AsMap' = FirstOf(last'.value)
          [] last'.op = "insert" ->
                /\ last'.res = ~present
                /\ AsMap' = IF present THEN AsMap ELSE With(AsMap, k, last'.value)
          [] last'.op = "assign" -> AsMap' = With(AsMap, k, last'.value)
          [] last'.op = "at" ->
                /\ last'.res = present
                /\ AsMap' = IF present THEN With(AsMap, k, last'.value) ELSE AsMap
          [] last'.op = "erase" ->
                /\ last'.res = present
                /\ AsMap' = [j \in DOMAIN AsMap \ {k} |-> AsMap[j]]
          [] OTHER -> AsMap' = <<>>

(* Binary search, shifting insertion and the two constructions (stable     *)
(* sort and unique, or insertions) all act on one sorted vector: it stays  *)
(* sorted with one entry per key, and every operation does to it what it   *)
(* would to a map, the first of equal keys winning in both constructions.  *)
ActsAsMap == [][SortedUnique' /\ MapStep]_vars

=============================================================================
