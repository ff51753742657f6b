------------------------------- MODULE Orders -------------------------------
(***************************************************************************)
(* Python's sorted, list comprehensions and dictionaries of lists, as      *)
(* selections of places of a sequence.  Keys of a sort are given as a      *)
(* sequence beside the sorted one, tuples of numbers compared from the     *)
(* left; a sort is stable.                                                 *)
(***************************************************************************)
EXTENDS Integers, Sequences, FiniteSets

LexLess(a, b) == \E i \in DOMAIN a : a[i] < b[i] /\ \A j \in 1..(i - 1) : a[j] = b[j]

(* The elements of S in the order that the pairs of ahead give.               *)
InOrder(S, ahead) ==
    [n \in 1..Cardinality(S) |-> CHOOSE x \in S : Cardinality({y \in S : <<y, x>> \in ahead}) = n - 1]

(* The least place of P, all of them upwards, and the n least.                *)
FirstPlace(P) == CHOOSE i \in P : \A j \in P : i <= j
Upwards(P) == InOrder(P, {pair \in P \X P : pair[1] < pair[2]})
FirstFew(P, n) == {i \in P : Cardinality({j \in P : j < i}) < n}

Elements(s, places) == [n \in DOMAIN places |-> s[places[n]]]
Pick(s, P) == Elements(s, Upwards(P))

KeyedLess(keys) ==
    {pair \in (DOMAIN keys) \X (DOMAIN keys) :
       \/ LexLess(keys[pair[1]], keys[pair[2]])
       \/ keys[pair[1]] = keys[pair[2]] /\ pair[1] < pair[2]}
SortBy(s, keys) == Elements(s, InOrder(DOMAIN keys, KeyedLess(keys)))

(* Of the elements with one key the first, and all of them, the keys in the   *)
(* order of their first appearances.                                          *)
Firsts(keys) == {i \in DOMAIN keys : \A j \in 1..(i - 1) : keys[j] # keys[i]}
Distinct(s, keys) == Pick(s, Firsts(keys))
Grouped(s, keys) ==
    LET firsts == Upwards(Firsts(keys))
    IN  [g \in DOMAIN firsts |-> Pick(s, {i \in DOMAIN keys : keys[i] = keys[firsts[g]]})]

(* Sequences one after the other.                                             *)
Joined(lists) ==
    LET places == UNION {{k} \X (DOMAIN lists[k]) : k \in DOMAIN lists}
        order == InOrder(places, {pair \in places \X places : LexLess(pair[1], pair[2])})
    IN  [n \in DOMAIN order |-> lists[order[n][1]][order[n][2]]]
=============================================================================
