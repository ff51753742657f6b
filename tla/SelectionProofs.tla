--------------------------- MODULE SelectionProofs ---------------------------
(***************************************************************************)
(* Proofs about Selection, for any pool of items with URLs of their own,   *)
(* any quotas, weights, sizes and decay: the order the linker and the      *)
(* scorer are given the items in does not show in the pages, a quota drops *)
(* what it must and no more, and a story left out has a reason on record.  *)
(* First, of any finite set in an order: its elements have ranks.          *)
(***************************************************************************)
EXTENDS Selection, FiniteSetTheorems, SequenceTheorems, TLAPS

(* The pairs of R put the elements of S in a row.                             *)
StrictlyOrders(R, S) ==
    /\ \A x \in S : <<x, x>> \notin R
    /\ \A x, y, z \in S : <<x, y>> \in R /\ <<y, z>> \in R => <<x, z>> \in R
    /\ \A x, y \in S : x = y \/ <<x, y>> \in R \/ <<y, x>> \in R
AheadOf(x, S, R) == {y \in S : <<y, x>> \in R}

(* Fewer than all are ahead of an element, and fewer ahead of an earlier one. *)
LEMMA AheadCounted ==
    ASSUME NEW S, IsFiniteSet(S), NEW R, StrictlyOrders(R, S)
    PROVE  /\ Cardinality(S) \in Nat
           /\ \A x \in S : Cardinality(AheadOf(x, S, R)) \in 0..(Cardinality(S) - 1)
           /\ \A x, y \in S : <<x, y>> \in R =>
                Cardinality(AheadOf(x, S, R)) < Cardinality(AheadOf(y, S, R))
<1>1. Cardinality(S) \in Nat
    BY FS_CardinalityType
<1>2. ASSUME NEW x \in S
      PROVE  Cardinality(AheadOf(x, S, R)) \in 0..(Cardinality(S) - 1)
  <2>1. AheadOf(x, S, R) \in SUBSET S /\ x \notin AheadOf(x, S, R)
      BY DEF AheadOf, StrictlyOrders
  <2>2. /\ IsFiniteSet(AheadOf(x, S, R))
        /\ Cardinality(AheadOf(x, S, R)) <= Cardinality(S)
        /\ Cardinality(S) = Cardinality(AheadOf(x, S, R)) => S = AheadOf(x, S, R)
      BY <2>1, FS_Subset
  <2>3. Cardinality(AheadOf(x, S, R)) \in Nat
      BY <2>2, FS_CardinalityType
  <2>4. Cardinality(S) # Cardinality(AheadOf(x, S, R))
      BY <2>1, <2>2
  <2>5. QED
      BY <1>1, <2>2, <2>3, <2>4
<1>3. ASSUME NEW x \in S, NEW y \in S, <<x, y>> \in R
      PROVE  Cardinality(AheadOf(x, S, R)) < Cardinality(AheadOf(y, S, R))
  <2>1. /\ AheadOf(x, S, R) \in SUBSET AheadOf(y, S, R)
        /\ x \in AheadOf(y, S, R) /\ x \notin AheadOf(x, S, R)
      BY <1>3 DEF AheadOf, StrictlyOrders
  <2>2. IsFiniteSet(AheadOf(y, S, R))
    <3>1. AheadOf(y, S, R) \in SUBSET S
        BY DEF AheadOf
    <3>2. QED
        BY <3>1, FS_Subset
  <2>3. /\ Cardinality(AheadOf(x, S, R)) <= Cardinality(AheadOf(y, S, R))
        /\ Cardinality(AheadOf(y, S, R)) = Cardinality(AheadOf(x, S, R)) =>
             AheadOf(y, S, R) = AheadOf(x, S, R)
      BY <2>1, <2>2, FS_Subset
  <2>4. Cardinality(AheadOf(x, S, R)) # Cardinality(AheadOf(y, S, R))
      BY <2>1, <2>3
  <2>5. QED
      BY <1>2, <1>1, <2>3, <2>4
<1>4. QED
    BY <1>1, <1>2, <1>3

(* An element for every rank.                                                 *)
LEMMA RankTaken ==
    ASSUME NEW S, IsFiniteSet(S), NEW R, StrictlyOrders(R, S), NEW n \in 1..Cardinality(S)
    PROVE  \E x \in S : Cardinality(AheadOf(x, S, R)) = n - 1
<1> DEFINE ranks == 0..(Cardinality(S) - 1)
           rank == [x \in S |-> Cardinality(AheadOf(x, S, R))]
<1>1. Cardinality(S) \in Nat
    BY FS_CardinalityType
<1>2. rank \in [S -> ranks]
    BY AheadCounted
<1>3. \A x, y \in S : rank[x] = rank[y] => x = y
  <2> SUFFICES ASSUME NEW x \in S, NEW y \in S, x # y
               PROVE  Cardinality(AheadOf(x, S, R)) # Cardinality(AheadOf(y, S, R))
      OBVIOUS
  <2>1. /\ Cardinality(AheadOf(x, S, R)) \in Int /\ Cardinality(AheadOf(y, S, R)) \in Int
      BY <1>1, AheadCounted
  <2>2. <<x, y>> \in R \/ <<y, x>> \in R
      BY DEF StrictlyOrders
  <2>3. \/ Cardinality(AheadOf(x, S, R)) < Cardinality(AheadOf(y, S, R))
        \/ Cardinality(AheadOf(y, S, R)) < Cardinality(AheadOf(x, S, R))
      BY <2>2, AheadCounted
  <2>4. QED
      BY <2>1, <2>3
<1>4. rank \in Injection(S, ranks)
    BY <1>2, <1>3 DEF Injection, IsInjective
<1>5. IsFiniteSet(ranks) /\ Cardinality(ranks) = Cardinality(S)
  <2>1. 0 \in Int /\ Cardinality(S) - 1 \in Int
      BY <1>1
  <2>2. IsFiniteSet(ranks) /\ Cardinality(ranks) = IF 0 > Cardinality(S) - 1 THEN 0 ELSE Cardinality(S) - 1 - 0 + 1
      BY <2>1, FS_Interval
  <2>3. QED
      BY <1>1, <2>2
<1>6. rank \in Surjection(S, ranks)
    BY <1>4, <1>5, FS_Injection
<1>7. \E x \in S : rank[x] = n - 1
  <2>1. n - 1 \in ranks
      BY <1>1
  <2>2. QED
      BY <1>6, <2>1 DEF Surjection
<1>8. QED
    BY <1>7

(* InOrder lists every element once, and in that order.                       *)
LEMMA InOrderListed ==
    ASSUME NEW S, IsFiniteSet(S), NEW R, StrictlyOrders(R, S)
    PROVE  /\ InOrder(S, R) \in Seq(S) /\ Len(InOrder(S, R)) = Cardinality(S)
           /\ \A x \in S : \E n \in 1..Cardinality(S) : InOrder(S, R)[n] = x
           /\ \A i, j \in 1..Cardinality(S) : i < j => <<InOrder(S, R)[i], InOrder(S, R)[j]>> \in R
<1> DEFINE list == InOrder(S, R)
           m == Cardinality(S)
<1>1. m \in Nat
    BY FS_CardinalityType
<1>2. list = [n \in 1..m |-> CHOOSE x \in S : Cardinality(AheadOf(x, S, R)) = n - 1]
    BY DEF InOrder, AheadOf
<1>3. ASSUME NEW n \in 1..m
      PROVE  list[n] \in S /\ Cardinality(AheadOf(list[n], S, R)) = n - 1
  <2>1. \E x \in S : Cardinality(AheadOf(x, S, R)) = n - 1
      BY RankTaken
  <2>2. list[n] = CHOOSE x \in S : Cardinality(AheadOf(x, S, R)) = n - 1
      BY <1>2
  <2>3. QED
      BY <2>1, <2>2
<1>4. list \in Seq(S) /\ Len(list) = m
  <2>1. list \in [1..m -> S]
      BY <1>2, <1>3
  <2>2. QED
      BY <1>1, <2>1
<1> HIDE DEF list
<1>5. ASSUME NEW x \in S
      PROVE  \E n \in 1..m : list[n] = x
  <2> DEFINE n == Cardinality(AheadOf(x, S, R)) + 1
  <2>1. n \in 1..m /\ Cardinality(AheadOf(x, S, R)) = n - 1
      BY <1>1, AheadCounted
  <2> HIDE DEF n
  <2>2. list[n] \in S /\ Cardinality(AheadOf(list[n], S, R)) = Cardinality(AheadOf(x, S, R))
      BY <1>3, <2>1
  <2>3. Cardinality(AheadOf(x, S, R)) \in Int
      BY <1>1, AheadCounted
  <2>4. ~(<<list[n], x>> \in R) /\ ~(<<x, list[n]>> \in R)
      BY <2>2, <2>3, AheadCounted
  <2>5. list[n] = x
      BY <2>2, <2>4 DEF StrictlyOrders
  <2>6. QED
      BY <2>1, <2>5
<1>6. ASSUME NEW i \in 1..m, NEW j \in 1..m, i < j
      PROVE  <<list[i], list[j]>> \in R
  <2>1. /\ list[i] \in S /\ Cardinality(AheadOf(list[i], S, R)) = i - 1
        /\ list[j] \in S /\ Cardinality(AheadOf(list[j], S, R)) = j - 1
      BY <1>3
  <2>2. i - 1 < j - 1 /\ ~(j - 1 < i - 1) /\ i - 1 # j - 1
      BY <1>1, <1>6
  <2>3. ~(<<list[j], list[i]>> \in R)
      BY <2>1, <2>2, AheadCounted
  <2>4. list[i] # list[j]
      BY <2>1, <2>2
  <2>5. QED
      BY <2>1, <2>3, <2>4 DEF StrictlyOrders
<1>7. QED
    BY <1>4, <1>5, <1>6 DEF list

(* Something is before everything else.                                       *)
LEMMA FirstExists ==
    ASSUME NEW S, IsFiniteSet(S), S # {}, NEW R, StrictlyOrders(R, S)
    PROVE  \E x \in S : \A y \in S : x = y \/ <<x, y>> \in R
<1>1. Cardinality(S) \in Nat /\ Cardinality(S) # 0
    BY FS_CardinalityType, FS_EmptySet
<1>2. 1 \in 1..Cardinality(S)
    BY <1>1
<1>3. PICK x \in S : Cardinality(AheadOf(x, S, R)) = 1 - 1
    BY <1>2, RankTaken
<1>4. ASSUME NEW y \in S, x # y
      PROVE  <<x, y>> \in R
  <2>1. ~(<<y, x>> \in R)
    <3>1. SUFFICES ASSUME <<y, x>> \in R
                   PROVE  FALSE
        OBVIOUS
    <3>2. /\ Cardinality(AheadOf(y, S, R)) < Cardinality(AheadOf(x, S, R))
          /\ Cardinality(AheadOf(y, S, R)) \in 0..(Cardinality(S) - 1)
        BY <3>1, AheadCounted
    <3>3. QED
        BY <1>1, <1>3, <3>2
  <2>2. QED
      BY <1>4, <2>1 DEF StrictlyOrders
<1>5. QED
    BY <1>4

-----------------------------------------------------------------------------
(* Selection: sequences known by their places.                                *)
Listed(s) == \E n \in Nat : DOMAIN s = 1..n

LEMMA PlacesFinite ==
    ASSUME NEW s, Listed(s), NEW P \in SUBSET DOMAIN s
    PROVE  IsFiniteSet(P) /\ Cardinality(P) \in Nat
<1>1. PICK n \in Nat : DOMAIN s = 1..n
    BY DEF Listed
<1>2. 1 \in Int /\ n \in Int
    BY <1>1
<1>3. IsFiniteSet(DOMAIN s)
    BY <1>1, <1>2, FS_Interval
<1>4. IsFiniteSet(P)
    BY <1>3, FS_Subset
<1>5. QED
    BY <1>4, FS_CardinalityType

LEMMA InOrderIsListed ==
    ASSUME NEW S, Cardinality(S) \in Nat, NEW R
    PROVE  Listed(InOrder(S, R))
<1>1. DOMAIN InOrder(S, R) = 1..Cardinality(S)
    BY DEF InOrder
<1>2. QED
    BY <1>1 DEF Listed

LEMMA PickIsListed ==
    ASSUME NEW s, Listed(s), NEW P \in SUBSET DOMAIN s
    PROVE  Listed(Pick(s, P)) /\ Listed(Upwards(P))
<1>1. Listed(Upwards(P))
    BY PlacesFinite, InOrderIsListed DEF Upwards
<1>2. DOMAIN Pick(s, P) = DOMAIN Upwards(P)
    BY DEF Pick, Elements
<1>3. QED
    BY <1>1, <1>2 DEF Listed

LEMMA SortIsListed ==
    ASSUME NEW s, NEW keys, Listed(keys)
    PROVE  Listed(SortBy(s, keys))
<1>1. DOMAIN keys \in SUBSET DOMAIN keys
    OBVIOUS
<1>2. Cardinality(DOMAIN keys) \in Nat
    BY <1>1, PlacesFinite
<1>3. Listed(InOrder(DOMAIN keys, KeyedLess(keys)))
    BY <1>2, InOrderIsListed
<1>4. DOMAIN SortBy(s, keys) = DOMAIN InOrder(DOMAIN keys, KeyedLess(keys))
    BY DEF SortBy, Elements
<1>5. QED
    BY <1>3, <1>4 DEF Listed

LEMMA GroupedIsListed ==
    ASSUME NEW s, NEW keys, Listed(keys)
    PROVE  Listed(Grouped(s, keys))
<1>1. Firsts(keys) \in SUBSET DOMAIN keys
    BY DEF Firsts
<1>2. Listed(Upwards(Firsts(keys)))
    BY <1>1, PickIsListed
<1>3. DOMAIN Grouped(s, keys) = DOMAIN Upwards(Firsts(keys))
    BY DEF Grouped
<1>4. QED
    BY <1>2, <1>3 DEF Listed

-----------------------------------------------------------------------------
(* The lists of a run, phase after phase.                                     *)
ListsOK ==
    /\ Listed(items) /\ Listed(tagged) /\ Listed(groups) /\ Listed(stories) /\ Listed(scored) /\ Listed(ranked)
    /\ pass \in {"none", "source", "category"}
    /\ IF pass = "none" THEN place = 0 ELSE state \in {"SCORED", "QUOTA_FILTERED", "ORDERED_OUTPUTS"}
    /\ Filtered => pass = "category" /\ place \notin DOMAIN ranked

LEMMA QueryListed ==
    ASSUME NEW stored, NEW list \in Query(stored)
    PROVE  Listed(list)
<1> DEFINE wanted == {i \in DOMAIN Pool : Pool[i].url \in stored /\ InWindow(Pool[i])}
           found == Pick(Pool, wanted)
           keys(way) == [i \in DOMAIN found |-> <<-found[i].day, way * found[i].url>>]
<1>1. DOMAIN Pool = 1..Len(Pool) /\ Len(Pool) \in Nat
    BY SelectionAssumption
<1>2. Listed(Pool)
    BY <1>1 DEF Listed
<1>3. Listed(found)
    BY <1>2, PickIsListed
<1>4. PICK way \in {1, -1} : list = SortBy(found, keys(way))
    BY DEF Query
<1>5. DOMAIN keys(way) = DOMAIN found
    OBVIOUS
<1>6. Listed(keys(way))
    BY <1>3, <1>5 DEF Listed
<1>7. QED
    BY <1>4, <1>6, SortIsListed

LEMMA ListsStart == SelectionInit => ListsOK
<1> SUFFICES ASSUME SelectionInit
             PROVE  ListsOK
    OBVIOUS
<1>1. DOMAIN NotYet = 1..0
    BY DEF NotYet
<1>2. Listed(NotYet)
    BY <1>1 DEF Listed
<1>3. Listed(items)
    BY QueryListed DEF SelectionInit
<1>4. QED
    BY <1>2, <1>3 DEF SelectionInit, ListsOK, Filtered

LEMMA ListsStep ==
    ASSUME ListsOK, [SelectionNext]_selectionVars
    PROVE  ListsOK'
<1> USE DEF ListsOK
<1>1. CASE ToEntityTagged
  <2>1. DOMAIN tagged' = DOMAIN items
      BY <1>1 DEF ToEntityTagged, TagItems
  <2>2. Listed(tagged')
      BY <2>1 DEF Listed
  <2>3. QED
      BY <1>1, <2>2 DEF ToEntityTagged, Become, filterVars, Filtered
<1>2. CASE ToCandidateGrouped
  <2> DEFINE keys == [i \in DOMAIN tagged |-> GroupKey(tagged[i])]
  <2>1. DOMAIN keys = DOMAIN tagged
      OBVIOUS
  <2>2. Listed(keys)
      BY <2>1 DEF Listed
  <2>3. groups' = Grouped(tagged, keys)
      BY <1>2 DEF ToCandidateGrouped, GroupCandidates
  <2>4. Listed(groups')
      BY <2>2, <2>3, GroupedIsListed
  <2>5. QED
      BY <1>2, <2>4 DEF ToCandidateGrouped, Become, filterVars, Filtered
<1>3. CASE ToStoriesMerged
  <2>1. DOMAIN stories' = DOMAIN groups
      BY <1>3 DEF ToStoriesMerged, MergeGroups
  <2>2. Listed(stories')
      BY <2>1 DEF Listed
  <2>3. QED
      BY <1>3, <2>2 DEF ToStoriesMerged, Become, filterVars, Filtered
<1>4. CASE ToStoriesFinal
  <2> DEFINE keys == [k \in DOMAIN stories |-> FinalOrder(stories[k])]
  <2>1. DOMAIN keys = DOMAIN stories
      OBVIOUS
  <2>2. Listed(keys)
      BY <2>1 DEF Listed
  <2>3. stories' = SortBy(stories, keys)
      BY <1>4 DEF ToStoriesFinal, FinalizeStories
  <2>4. Listed(stories')
      BY <2>2, <2>3, SortIsListed
  <2>5. QED
      BY <1>4, <2>4 DEF ToStoriesFinal, Become, filterVars, Filtered
<1>5. CASE ToScored
  <2>1. DOMAIN scored' = DOMAIN stories
      BY <1>5 DEF ToScored, ScoreStories
  <2>2. Listed(scored')
      BY <2>1 DEF Listed
  <2>3. QED
      BY <1>5, <2>2 DEF ToScored, Become, filterVars, Filtered
<1>6. CASE SortAndExclude
  <2> DEFINE keys == [k \in DOMAIN scored |-> ScoreOrder(scored[k])]
  <2>1. DOMAIN keys = DOMAIN scored
      OBVIOUS
  <2>2. Listed(keys)
      BY <2>1 DEF Listed
  <2>3. ranked' = SortBy(scored, keys)
      BY <1>6 DEF SortAndExclude, SortByScore
  <2>4. Listed(ranked')
      BY <2>2, <2>3, SortIsListed
  <2>5. QED
      BY <1>6, <2>4 DEF SortAndExclude, BeginPass, linkedVars, Filtered
<1>7. CASE PassOver \/ Admit \/ Drop
  <2>1. /\ items' = items /\ tagged' = tagged /\ groups' = groups /\ stories' = stories /\ scored' = scored
        /\ ranked' = ranked /\ pass' = pass /\ state' = state /\ state = "SCORED" /\ place \in DOMAIN ranked
      BY <1>7 DEF PassOver, Admit, Drop, Visit, linkedVars
  <2>2. pass # "none"
      BY <2>1 DEF Listed
  <2>3. QED
      BY <2>1, <2>2 DEF Filtered
<1>8. CASE NextPass
    BY <1>8 DEF NextPass, BeginPass, linkedVars, Filtered
<1>9. CASE ToQuotaFiltered
    BY <1>9 DEF ToQuotaFiltered, Become, linkedVars, filterVars, Filtered
<1>10. CASE ToOrderedOutputs
    BY <1>10 DEF ToOrderedOutputs, Become, linkedVars, filterVars, Filtered
<1>11. CASE UNCHANGED selectionVars
    BY <1>11 DEF selectionVars, linkedVars, filterVars, Filtered
<1>12. QED
    BY <1>1, <1>2, <1>3, <1>4, <1>5, <1>6, <1>7, <1>8, <1>9, <1>10, <1>11 DEF SelectionNext

-----------------------------------------------------------------------------
(* The quota filter: the counts of a pass are the stories that passed so far, *)
(* and whatever it has gone through is decided as QuotaExact says.            *)
Exact(i, quota) ==
    Meets(i, quota) =>
        (Passes(i, quota) <=> \/ HasLlmBypass(ranked[i], quotas)
                              \/ Cardinality(PassedAbove(i, quota)) < QuotaMax(quota, quotas))
SlotsTaken(key) == {j \in 1..(place - 1) : Passes(j, pass) /\ QuotaKey(pass, ranked[j]) = key}
Accounts ==
    /\ verdict \in [DOMAIN ranked -> {"kept", "excluded", "source", "category"}]
    /\ place \in Nat \ {0} /\ (place = 1 \/ place - 1 \in DOMAIN ranked)
    /\ \A i \in DOMAIN ranked :
         i >= place => verdict[i] \in {"kept", "excluded"} \/ (pass = "category" /\ verdict[i] = "source")
    /\ pass = "source" => \A i \in DOMAIN ranked : verdict[i] # "category"
    /\ DOMAIN used = {QuotaKey(pass, ranked[i]) : i \in DOMAIN ranked}
    /\ \A key \in DOMAIN used : used[key] = Cardinality(SlotsTaken(key))
    /\ \A i \in DOMAIN ranked : i < place => Exact(i, pass)
    /\ pass = "category" => \A i \in DOMAIN ranked : Exact(i, "source")
AccountsOK == pass # "none" => Accounts

(* One story of a pass, dropped or not.                                       *)
LEMMA VisitAccounts ==
    ASSUME NEW here, NEW p, here = place, p = pass, ListsOK, AccountsOK, Visit,
           verdict' \in [DOMAIN ranked -> {"kept", "excluded", "source", "category"}],
           \A j \in DOMAIN ranked : j # place => verdict'[j] = verdict[j],
           verdict'[here] = verdict[place] \/ (verdict[place] = "kept" /\ verdict'[here] = pass),
           used' = IF Passes(here, p)' THEN [used EXCEPT ![Here] = @ + 1] ELSE used,
           Meets(here, p)' => (Passes(here, p)' <=> Admitted)
    PROVE  AccountsOK'
<1>1. PICK n \in Nat : DOMAIN ranked = 1..n
    BY DEF ListsOK, Listed
<1>2. /\ place \in 1..n /\ place' = place + 1 /\ ranked' = ranked /\ pass' = pass /\ quotas' = quotas
      /\ place - 1 \in Nat /\ place' - 1 = here
    BY <1>1 DEF Visit, linkedVars
<1>3. pass \in {"source", "category"}
    BY <1>2 DEF ListsOK
<1>4. Accounts
    BY <1>3 DEF AccountsOK
<1>5. \A j \in DOMAIN ranked : j # place =>
        \A quota \in {"source", "category"} : /\ Meets(j, quota)' <=> Meets(j, quota)
                                              /\ Passes(j, quota)' <=> Passes(j, quota)
    BY <1>2 DEF Meets, Passes
<1>6. verdict[place] \in {"kept", "excluded"} \/ (pass = "category" /\ verdict[place] = "source")
    BY <1>1, <1>2, <1>4 DEF Accounts
<1>7. pass = "category" => \A j \in DOMAIN ranked : /\ Meets(j, "source")' <=> Meets(j, "source")
                                                    /\ Passes(j, "source")' <=> Passes(j, "source")
  <2>1. ASSUME pass = "category"
        PROVE  (Meets(here, "source")' <=> Meets(here, "source")) /\ (Passes(here, "source")' <=> Passes(here, "source"))
      BY <1>2, <1>6, <2>1 DEF Meets, Passes
  <2>2. QED
      BY <1>5, <2>1
<1>8. ASSUME NEW i \in DOMAIN ranked, i <= place
      PROVE  PassedAbove(i, p)' = PassedAbove(i, pass)
  <2>1. \A j \in 1..(i - 1) : j \in DOMAIN ranked /\ j # place
      BY <1>1, <1>2, <1>8
  <2>2. \A j \in 1..(i - 1) : (Passes(j, pass) <=> Passes(j, p)')
      BY <1>2, <1>3, <1>5, <2>1
  <2>3. QED
      BY <1>2, <2>2 DEF PassedAbove
<1>9. ASSUME pass = "category", NEW i \in DOMAIN ranked
      PROVE  PassedAbove(i, "source")' = PassedAbove(i, "source")
  <2>1. \A j \in 1..(i - 1) : j \in DOMAIN ranked
      BY <1>1
  <2>2. QED
      BY <1>2, <1>7, <1>9, <2>1 DEF PassedAbove
<1>10. PassedAbove(place, pass) = SlotsTaken(Here)
    BY DEF PassedAbove, SlotsTaken, Here
<1>11. Here \in DOMAIN used
    BY <1>1, <1>2, <1>4 DEF Accounts, Here
<1>12. Exact(here, p)'
  <2>1. Admitted <=> HasLlmBypass(ranked[place], quotas) \/ Cardinality(PassedAbove(place, pass)) < QuotaMax(pass, quotas)
      BY <1>4, <1>10, <1>11 DEF Admitted, Accounts
  <2>2. PassedAbove(here, p)' = PassedAbove(place, pass)
      BY <1>1, <1>2, <1>8
  <2>3. QED
      BY <1>2, <2>1, <2>2 DEF Exact
<1>13. ASSUME NEW i \in DOMAIN ranked, i < place
       PROVE  Exact(i, p)'
  <2>1. Exact(i, pass) /\ i # place
      BY <1>1, <1>2, <1>4, <1>13 DEF Accounts
  <2>2. PassedAbove(i, p)' = PassedAbove(i, pass)
      BY <1>1, <1>2, <1>8, <1>13
  <2>3. QED
      BY <1>2, <1>3, <1>5, <2>1, <2>2 DEF Exact
<1>14. ASSUME pass = "category", NEW i \in DOMAIN ranked
       PROVE  Exact(i, "source")'
  <2>1. Exact(i, "source")
      BY <1>4, <1>14 DEF Accounts
  <2>2. QED
      BY <1>2, <1>7, <1>9, <1>14, <2>1 DEF Exact
<1>15. ASSUME NEW key \in DOMAIN used
       PROVE  used'[key] = Cardinality(SlotsTaken(key)')
  <2>1. \A j \in 1..(place - 1) : j \in DOMAIN ranked /\ j # place
      BY <1>1, <1>2
  <2>2. \A j \in 1..(place - 1) : (Passes(j, p)' <=> Passes(j, pass))
      BY <1>3, <1>5, <2>1
  <2>3. SlotsTaken(key)' = {j \in 1..place : Passes(j, p)' /\ QuotaKey(pass, ranked[j]) = key}
      BY <1>2 DEF SlotsTaken
  <2>4. 1..place = 1..(place - 1) \cup {place}
      BY <1>2
  <2>5. SlotsTaken(key)' = IF Passes(here, p)' /\ key = Here THEN SlotsTaken(key) \cup {place} ELSE SlotsTaken(key)
      BY <2>2, <2>3, <2>4 DEF SlotsTaken, Here
  <2>6. SlotsTaken(key) \in SUBSET DOMAIN ranked /\ place \notin SlotsTaken(key)
      BY <2>1 DEF SlotsTaken
  <2>7. IsFiniteSet(SlotsTaken(key)) /\ Cardinality(SlotsTaken(key)) \in Nat
      BY <2>6, PlacesFinite DEF ListsOK
  <2>8. Cardinality(SlotsTaken(key) \cup {place}) = Cardinality(SlotsTaken(key)) + 1
      BY <2>6, <2>7, FS_AddElement
  <2>9. used[key] = Cardinality(SlotsTaken(key))
      BY <1>4 DEF Accounts
  <2>10. CASE Passes(here, p)' /\ key = Here
    <3>1. used'[key] = used[key] + 1
        BY <1>11, <2>10
    <3>2. QED
        BY <2>5, <2>8, <2>9, <2>10, <3>1
  <2>11. CASE ~(Passes(here, p)' /\ key = Here)
    <3>1. used'[key] = used[key]
        BY <2>11
    <3>2. QED
        BY <2>5, <2>9, <2>11, <3>1
  <2>12. QED
      BY <2>10, <2>11
<1>16. DOMAIN used' = DOMAIN used
    OBVIOUS
<1>17. \A i \in DOMAIN ranked : i < place + 1 => i < place \/ i = place
    BY <1>1, <1>2
<1>18. \A i \in DOMAIN ranked : i < place' => Exact(i, p)'
    BY <1>2, <1>12, <1>13, <1>17
<1>19. \A i \in DOMAIN ranked :
         i >= place' => verdict'[i] \in {"kept", "excluded"} \/ (pass = "category" /\ verdict'[i] = "source")
  <2> SUFFICES ASSUME NEW i \in DOMAIN ranked, i >= place'
               PROVE  verdict'[i] \in {"kept", "excluded"} \/ (pass = "category" /\ verdict'[i] = "source")
      OBVIOUS
  <2>1. i >= place /\ i # place
      BY <1>1, <1>2
  <2>2. QED
      BY <1>4, <2>1 DEF Accounts
<1>20. pass = "source" => \A i \in DOMAIN ranked : verdict'[i] # "category"
    BY <1>2, <1>4 DEF Accounts
<1>21. place' \in Nat \ {0} /\ (place' = 1 \/ place' - 1 \in DOMAIN ranked')
    BY <1>1, <1>2
<1>22. QED
    BY <1>2, <1>4, <1>14, <1>15, <1>16, <1>18, <1>19, <1>20, <1>21 DEF AccountsOK, Accounts

LEMMA AccountsStart == SelectionInit => AccountsOK
BY DEF SelectionInit, AccountsOK

LEMMA ExcludeAccounts ==
    ASSUME ListsOK', SortAndExclude
    PROVE  AccountsOK'
<1>1. PICK n \in Nat : DOMAIN ranked' = 1..n
    BY DEF ListsOK, Listed
<1>2. /\ pass' = "source" /\ place' = 1
      /\ used' = [key \in {QuotaKey("source", ranked'[i]) : i \in DOMAIN ranked'} |-> 0]
    BY DEF SortAndExclude, BeginPass
<1>3. /\ verdict' \in [DOMAIN ranked' -> {"kept", "excluded"}]
      /\ DOMAIN verdict' = DOMAIN ranked'
    BY DEF SortAndExclude
<1>4. ASSUME NEW key \in DOMAIN used'
      PROVE  used'[key] = Cardinality(SlotsTaken(key)')
  <2>1. SlotsTaken(key)' = {}
      BY <1>2 DEF SlotsTaken
  <2>2. QED
      BY <1>2, <2>1, FS_EmptySet
<1>5. \A i \in DOMAIN ranked' : ~(i < place')
    BY <1>1, <1>2
<1>6. QED
    BY <1>2, <1>3, <1>4, <1>5 DEF AccountsOK, Accounts

LEMMA NextPassAccounts ==
    ASSUME ListsOK, AccountsOK, NextPass
    PROVE  AccountsOK'
<1>1. PICK n \in Nat : DOMAIN ranked = 1..n
    BY DEF ListsOK, Listed
<1>2. /\ pass = "source" /\ pass' = "category" /\ place' = 1 /\ ranked' = ranked /\ verdict' = verdict
      /\ quotas' = quotas /\ place \notin DOMAIN ranked
      /\ used' = [key \in {QuotaKey("category", ranked[i]) : i \in DOMAIN ranked} |-> 0]
    BY DEF NextPass, BeginPass, linkedVars
<1>3. Accounts
    BY <1>2 DEF AccountsOK
<1>4. \A i \in DOMAIN ranked : i < place
    BY <1>1, <1>2, <1>3 DEF Accounts
<1>5. ASSUME NEW i \in DOMAIN ranked
      PROVE  Exact(i, "source")'
  <2>1. Exact(i, "source")
      BY <1>2, <1>3, <1>4 DEF Accounts
  <2>2. QED
      BY <1>2, <2>1 DEF Exact, Meets, Passes, PassedAbove
<1>6. ASSUME NEW key \in DOMAIN used'
      PROVE  used'[key] = Cardinality(SlotsTaken(key)')
  <2>1. SlotsTaken(key)' = {}
      BY <1>2 DEF SlotsTaken
  <2>2. QED
      BY <1>2, <2>1, FS_EmptySet
<1>7. \A i \in DOMAIN ranked : ~(i < place')
    BY <1>1, <1>2
<1>8. \A i \in DOMAIN ranked : verdict[i] \in {"kept", "excluded", "source"}
    BY <1>2, <1>3 DEF Accounts
<1>9. QED
    BY <1>2, <1>3, <1>5, <1>6, <1>7, <1>8 DEF AccountsOK, Accounts

LEMMA AccountsStep ==
    ASSUME ListsOK, ListsOK', AccountsOK, [SelectionNext]_selectionVars
    PROVE  AccountsOK'
<1>1. CASE PassOver
  <2>0. PICK here, p : here = place /\ p = pass
      OBVIOUS
  <2>1. Visit /\ ~Counted /\ verdict' = verdict /\ used' = used
      BY <1>1 DEF PassOver
  <2>2. place \in DOMAIN ranked /\ ranked' = ranked /\ pass' = pass
      BY <2>1 DEF Visit
  <2>3. pass \in {"source", "category"} /\ Accounts
    <3>1. pass # "none"
        BY <2>2 DEF ListsOK, Listed
    <3>2. QED
        BY <3>1 DEF ListsOK, AccountsOK
  <2>4. verdict[place] \in {"kept", "excluded"} \/ (pass = "category" /\ verdict[place] = "source")
    <3>1. place >= place
        BY <2>3 DEF Accounts
    <3>2. QED
        BY <2>2, <2>3, <3>1 DEF Accounts
  <2>5. ~Meets(place, pass)
      BY <2>1, <2>3, <2>4 DEF Counted, Meets, Here
  <2>6. ~Meets(here, p)' /\ ~Passes(here, p)'
    <3>1. Meets(here, p)' <=> Meets(here, p)
        BY <2>0, <2>1, <2>2 DEF Meets
    <3>2. QED
        BY <2>0, <2>5, <3>1 DEF Passes
  <2>7. QED
      BY <2>0, <2>1, <2>3, <2>6, VisitAccounts DEF Accounts
<1>2. CASE Admit
  <2>0. PICK here, p : here = place /\ p = pass
      OBVIOUS
  <2>1. Visit /\ Counted /\ Admitted /\ verdict' = verdict /\ used' = [used EXCEPT ![Here] = @ + 1]
      BY <1>2 DEF Admit
  <2>2. place \in DOMAIN ranked /\ ranked' = ranked /\ pass' = pass
      BY <2>1 DEF Visit
  <2>3. pass \in {"source", "category"} /\ Accounts
    <3>1. pass # "none"
        BY <2>2 DEF ListsOK, Listed
    <3>2. QED
        BY <3>1 DEF ListsOK, AccountsOK
  <2>4. Passes(place, pass)
      BY <2>1, <2>3 DEF Counted, Meets, Passes, Here
  <2>5. Passes(here, p)'
      BY <2>0, <2>1, <2>2, <2>4 DEF Meets, Passes
  <2>6. QED
      BY <2>0, <2>1, <2>3, <2>5, VisitAccounts DEF Accounts
<1>3. CASE Drop
  <2>0. PICK here, p : here = place /\ p = pass
      OBVIOUS
  <2>1. Visit /\ Counted /\ ~Admitted /\ verdict' = [verdict EXCEPT ![place] = pass] /\ used' = used
      BY <1>3 DEF Drop
  <2>2. place \in DOMAIN ranked /\ ranked' = ranked /\ pass' = pass
      BY <2>1 DEF Visit
  <2>3. pass \in {"source", "category"} /\ Accounts
    <3>1. pass # "none"
        BY <2>2 DEF ListsOK, Listed
    <3>2. QED
        BY <3>1 DEF ListsOK, AccountsOK
  <2>4. /\ verdict \in [DOMAIN ranked -> {"kept", "excluded", "source", "category"}]
        /\ verdict'[here] = pass /\ verdict[place] = "kept"
        /\ \A j \in DOMAIN ranked : j # place => verdict'[j] = verdict[j]
        /\ verdict' \in [DOMAIN ranked -> {"kept", "excluded", "source", "category"}]
      BY <2>0, <2>1, <2>2, <2>3 DEF Accounts, Counted
  <2>5. ~Passes(here, p)'
      BY <2>0, <2>2, <2>4 DEF Passes
  <2>6. QED
      BY <2>0, <2>1, <2>4, <2>5, VisitAccounts
<1>4. CASE SortAndExclude
    BY <1>4, ExcludeAccounts
<1>5. CASE NextPass
    BY <1>5, NextPassAccounts
<1>6. CASE \/ ToEntityTagged \/ ToCandidateGrouped \/ ToStoriesMerged \/ ToStoriesFinal \/ ToScored
           \/ ToQuotaFiltered \/ ToOrderedOutputs \/ UNCHANGED selectionVars
  <2>1. UNCHANGED <<quotas, filterVars>>
      BY <1>6 DEF ToEntityTagged, ToCandidateGrouped, ToStoriesMerged, ToStoriesFinal, ToScored,
                  ToQuotaFiltered, ToOrderedOutputs, selectionVars, linkedVars
  <2>2. quotas' = quotas /\ ranked' = ranked /\ verdict' = verdict /\ pass' = pass /\ place' = place /\ used' = used
      BY <2>1 DEF filterVars
  <2>3. QED
      BY <2>2 DEF AccountsOK, Accounts, Exact, SlotsTaken, PassedAbove, Passes, Meets
<1>7. QED
    BY <1>1, <1>2, <1>3, <1>4, <1>5, <1>6 DEF SelectionNext

(* A quota takes the best ranked of the stories that meet it and leaves no    *)
(* slot unused, whatever sources, categories and scores there are.            *)
THEOREM QuotasExact == SelectionSpec => []QuotaExact
<1>1. SelectionInit => ListsOK /\ AccountsOK
    BY ListsStart, AccountsStart
<1>2. ListsOK /\ AccountsOK /\ [SelectionNext]_selectionVars => (ListsOK /\ AccountsOK)'
    BY ListsStep, AccountsStep
<1>3. ListsOK /\ AccountsOK => QuotaExact
  <2> SUFFICES ASSUME ListsOK, AccountsOK, Filtered
               PROVE  \A quota \in {"source", "category"} : \A i \in DOMAIN ranked : Exact(i, quota)
      BY DEF QuotaExact, Exact
  <2>1. pass = "category" /\ place \notin DOMAIN ranked /\ Accounts
      BY DEF ListsOK, AccountsOK
  <2>2. \A i \in DOMAIN ranked : i < place
      BY <2>1 DEF ListsOK, Listed, Accounts
  <2>3. QED
      BY <2>1, <2>2 DEF Accounts
<1>4. QED
    BY <1>1, <1>2, <1>3, PTL DEF SelectionSpec

-----------------------------------------------------------------------------
(* Arrangements: what a sort, a comprehension or a grouping makes of a list.  *)

(* at lists the elements of P, each once.                                     *)
Arranges(at, P) ==
    /\ Listed(at)
    /\ \A n \in DOMAIN at : at[n] \in P
    /\ \A x \in P : \E n \in DOMAIN at : at[n] = x
    /\ \A i, j \in DOMAIN at : at[i] = at[j] => i = j

LEMMA InOrderArranges ==
    ASSUME NEW S, IsFiniteSet(S), NEW R, StrictlyOrders(R, S)
    PROVE  /\ Arranges(InOrder(S, R), S)
           /\ \A i, j \in DOMAIN InOrder(S, R) : i < j => <<InOrder(S, R)[i], InOrder(S, R)[j]>> \in R
<1> DEFINE at == InOrder(S, R)
           m == Cardinality(S)
<1>1. m \in Nat
    BY FS_CardinalityType
<1>2. DOMAIN at = 1..m
    BY DEF InOrder
<1>3. /\ at \in Seq(S)
      /\ \A x \in S : \E n \in 1..m : at[n] = x
      /\ \A i, j \in 1..m : i < j => <<at[i], at[j]>> \in R
    BY InOrderListed
<1> HIDE DEF at
<1>4. \A n \in DOMAIN at : at[n] \in S
    BY <1>3
<1>5. ASSUME NEW i \in DOMAIN at, NEW j \in DOMAIN at, at[i] = at[j]
      PROVE  i = j
  <2>1. ~(i < j) /\ ~(j < i)
      BY <1>2, <1>3, <1>4, <1>5 DEF StrictlyOrders
  <2>2. QED
      BY <1>1, <1>2, <2>1
<1>6. Listed(at)
    BY <1>1, <1>2 DEF Listed
<1>7. Arranges(at, S)
    BY <1>2, <1>3, <1>4, <1>5, <1>6 DEF Arranges
<1>8. QED
    BY <1>2, <1>3, <1>7 DEF at

UpwardPairs(P) == {pair \in P \X P : pair[1] < pair[2]}

LEMMA UpwardsArranges ==
    ASSUME NEW s, Listed(s), NEW P \in SUBSET DOMAIN s
    PROVE  /\ Arranges(Upwards(P), P)
           /\ \A i, j \in DOMAIN Upwards(P) : i < j => Upwards(P)[i] < Upwards(P)[j]
<1>1. IsFiniteSet(P)
    BY PlacesFinite
<1>2. P \subseteq Int
    BY DEF Listed
<1>3. StrictlyOrders(UpwardPairs(P), P)
    BY <1>2 DEF StrictlyOrders, UpwardPairs
<1>4. Upwards(P) = InOrder(P, UpwardPairs(P))
    BY DEF Upwards, UpwardPairs
<1>5. /\ Arranges(Upwards(P), P)
      /\ \A i, j \in DOMAIN Upwards(P) : i < j => <<Upwards(P)[i], Upwards(P)[j]>> \in UpwardPairs(P)
    BY <1>1, <1>3, <1>4, InOrderArranges
<1>6. QED
    BY <1>5 DEF UpwardPairs

(* There is a first place.                                                    *)
LEMMA FirstPlaceFound ==
    ASSUME NEW s, Listed(s), NEW P \in SUBSET DOMAIN s, P # {}
    PROVE  FirstPlace(P) \in P /\ \A j \in P : FirstPlace(P) <= j
<1>1. IsFiniteSet(P)
    BY PlacesFinite
<1>2. P \subseteq Int
    BY DEF Listed
<1>3. StrictlyOrders(UpwardPairs(P), P)
    BY <1>2 DEF StrictlyOrders, UpwardPairs
<1>4. PICK x \in P : \A y \in P : x = y \/ <<x, y>> \in UpwardPairs(P)
    BY <1>1, <1>3, FirstExists
<1>5. \A y \in P : x <= y
  <2> SUFFICES ASSUME NEW y \in P
               PROVE  x <= y
      OBVIOUS
  <2>1. x \in Int /\ y \in Int
      BY <1>2
  <2>2. <<x, y>> \in UpwardPairs(P) => x < y
      BY DEF UpwardPairs
  <2>3. QED
      BY <1>4, <2>1, <2>2
<1>6. QED
    BY <1>5 DEF FirstPlace

(* All of a list is the list.                                                 *)
LEMMA PickAll ==
    ASSUME NEW s, Listed(s), s = [i \in DOMAIN s |-> s[i]]
    PROVE  Pick(s, DOMAIN s) = s
<1>1. PICK n \in Nat : DOMAIN s = 1..n
    BY DEF Listed
<1> DEFINE P == 1..n
           R == UpwardPairs(P)
<1>2. IsFiniteSet(P) /\ Cardinality(P) = n
  <2>1. 1 \in Int /\ n \in Int
      BY <1>1
  <2>2. IsFiniteSet(P) /\ Cardinality(P) = IF 1 > n THEN 0 ELSE n - 1 + 1
      BY <2>1, FS_Interval
  <2>3. QED
      BY <1>1, <2>2
<1>3. ASSUME NEW x \in P
      PROVE  Cardinality(AheadOf(x, P, R)) = x - 1
  <2>1. AheadOf(x, P, R) = 1..(x - 1)
      BY <1>1 DEF AheadOf, UpwardPairs
  <2>2. 1 \in Int /\ x - 1 \in Int
      BY <1>1
  <2>3. Cardinality(1..(x - 1)) = IF 1 > x - 1 THEN 0 ELSE (x - 1) - 1 + 1
      BY <2>2, FS_Interval
  <2>4. QED
      BY <1>1, <2>1, <2>3
<1>4. Upwards(P) = [k \in 1..n |-> CHOOSE x \in P : Cardinality(AheadOf(x, P, R)) = k - 1]
    BY <1>2 DEF Upwards, InOrder, AheadOf, UpwardPairs
<1>5. ASSUME NEW k \in 1..n
      PROVE  (CHOOSE x \in P : Cardinality(AheadOf(x, P, R)) = k - 1) = k
  <2>1. \A x \in P : (Cardinality(AheadOf(x, P, R)) = k - 1) <=> x = k
      BY <1>1, <1>3
  <2>2. QED
      BY <2>1
<1> HIDE DEF R
<1>6. Upwards(P) = [k \in 1..n |-> k]
    BY <1>4, <1>5
<1>7. Pick(s, P) = [k \in 1..n |-> s[k]]
    BY <1>6 DEF Pick, Elements
<1>8. QED
    BY <1>1, <1>7

LEMMA FirstsOf ==
    ASSUME NEW keys, Listed(keys)
    PROVE  /\ Firsts(keys) \subseteq DOMAIN keys
           /\ \A i \in DOMAIN keys : \E f \in Firsts(keys) : keys[f] = keys[i]
           /\ \A f, g \in Firsts(keys) : keys[f] = keys[g] => f = g
           /\ DOMAIN keys # {} => 1 \in Firsts(keys)
<1>1. PICK n \in Nat : DOMAIN keys = 1..n
    BY DEF Listed
<1>2. ASSUME NEW i \in DOMAIN keys
      PROVE  \E f \in Firsts(keys) : keys[f] = keys[i]
  <2> DEFINE P == {j \in DOMAIN keys : keys[j] = keys[i]}
             f == FirstPlace(P)
  <2>1. P \in SUBSET DOMAIN keys /\ P # {}
      OBVIOUS
  <2>2. f \in P /\ \A j \in P : f <= j
      BY <2>1, FirstPlaceFound
  <2> HIDE DEF f
  <2>3. \A j \in 1..(f - 1) : j \in DOMAIN keys /\ ~(f <= j)
      BY <1>1, <2>2
  <2>4. f \in Firsts(keys)
      BY <2>2, <2>3 DEF Firsts
  <2>5. QED
      BY <2>2, <2>4
<1>3. ASSUME NEW f \in Firsts(keys), NEW g \in Firsts(keys), keys[f] = keys[g]
      PROVE  f = g
  <2>1. f \in 1..n /\ g \in 1..n
      BY <1>1 DEF Firsts
  <2>2. ~(f \in 1..(g - 1)) /\ ~(g \in 1..(f - 1))
      BY <1>3 DEF Firsts
  <2>3. QED
      BY <2>1, <2>2
<1>4. DOMAIN keys # {} => 1 \in Firsts(keys)
    BY <1>1 DEF Firsts
<1>5. QED
    BY <1>2, <1>3, <1>4 DEF Firsts

(* The place of the n-th of group g.                                          *)
Member(keys, g, n) == Upwards({i \in DOMAIN keys : keys[i] = keys[Upwards(Firsts(keys))[g]]})[n]

LEMMA GroupedArranges ==
    ASSUME NEW s, NEW keys, Listed(keys)
    PROVE  LET G == Grouped(s, keys) IN
           /\ Listed(G)
           /\ \A g \in DOMAIN G : Listed(G[g]) /\ DOMAIN G[g] # {}
           /\ \A g \in DOMAIN G : \A n \in DOMAIN G[g] :
                Member(keys, g, n) \in DOMAIN keys /\ G[g][n] = s[Member(keys, g, n)]
           /\ \A g, h \in DOMAIN G : \A n \in DOMAIN G[g], m \in DOMAIN G[h] :
                (keys[Member(keys, g, n)] = keys[Member(keys, h, m)] <=> g = h)
           /\ \A g \in DOMAIN G : \A n, m \in DOMAIN G[g] : Member(keys, g, n) = Member(keys, g, m) => n = m
           /\ \A i \in DOMAIN keys : \E g \in DOMAIN G : \E n \in DOMAIN G[g] : Member(keys, g, n) = i
<1> DEFINE G == Grouped(s, keys)
           firsts == Upwards(Firsts(keys))
           P(g) == {i \in DOMAIN keys : keys[i] = keys[firsts[g]]}
<1>1. Listed(G)
    BY GroupedIsListed
<1>2. Arranges(firsts, Firsts(keys))
    BY FirstsOf, UpwardsArranges
<1>3. DOMAIN G = DOMAIN firsts /\ \A g \in DOMAIN G : G[g] = Pick(s, P(g))
    BY DEF Grouped
<1> HIDE DEF G, firsts
<1>4. ASSUME NEW g \in DOMAIN G
      PROVE  Arranges(Upwards(P(g)), P(g)) /\ P(g) # {}
  <2>1. P(g) \in SUBSET DOMAIN keys
      OBVIOUS
  <2>2. firsts[g] \in P(g)
      BY <1>2, <1>3, FirstsOf DEF Arranges
  <2>3. QED
      BY <2>1, <2>2, UpwardsArranges
<1>5. \A g \in DOMAIN G : \A n : Member(keys, g, n) = Upwards(P(g))[n]
    BY DEF Member, firsts
<1>6. \A g \in DOMAIN G : G[g] = [n \in DOMAIN Upwards(P(g)) |-> s[Upwards(P(g))[n]]]
    BY <1>3 DEF Pick, Elements
<1>7. \A g \in DOMAIN G : DOMAIN G[g] = DOMAIN Upwards(P(g))
    BY <1>6
<1>8. ASSUME NEW g \in DOMAIN G
      PROVE  /\ Listed(G[g]) /\ DOMAIN G[g] # {}
             /\ \A n \in DOMAIN G[g] : /\ Member(keys, g, n) \in P(g)
                                       /\ G[g][n] = s[Member(keys, g, n)]
             /\ \A n, m \in DOMAIN G[g] : Member(keys, g, n) = Member(keys, g, m) => n = m
             /\ \A i \in P(g) : \E n \in DOMAIN G[g] : Member(keys, g, n) = i
  <2>1. Arranges(Upwards(P(g)), P(g)) /\ P(g) # {}
      BY <1>4
  <2>2. DOMAIN G[g] = DOMAIN Upwards(P(g))
      BY <1>7
  <2>3. \A n \in DOMAIN G[g] : G[g][n] = s[Upwards(P(g))[n]]
      BY <1>6, <2>2
  <2> HIDE DEF P
  <2>4. QED
      BY <1>5, <2>1, <2>2, <2>3 DEF Arranges, Listed
<1>9. ASSUME NEW g \in DOMAIN G, NEW h \in DOMAIN G, NEW n \in DOMAIN G[g], NEW m \in DOMAIN G[h]
      PROVE  keys[Member(keys, g, n)] = keys[Member(keys, h, m)] <=> g = h
  <2>1. /\ keys[Member(keys, g, n)] = keys[firsts[g]] /\ keys[Member(keys, h, m)] = keys[firsts[h]]
      BY <1>8
  <2>2. firsts[g] \in Firsts(keys) /\ firsts[h] \in Firsts(keys) /\ (firsts[g] = firsts[h] => g = h)
      BY <1>2, <1>3 DEF Arranges
  <2>3. QED
      BY <2>1, <2>2, FirstsOf
<1>10. ASSUME NEW i \in DOMAIN keys
       PROVE  \E g \in DOMAIN G : \E n \in DOMAIN G[g] : Member(keys, g, n) = i
  <2>1. PICK f \in Firsts(keys) : keys[f] = keys[i]
      BY FirstsOf
  <2>2. PICK g \in DOMAIN G : firsts[g] = f
      BY <1>2, <1>3 DEF Arranges
  <2>3. i \in P(g)
      BY <2>1, <2>2
  <2>4. QED
      BY <1>8, <2>3
<1>11. QED
    BY <1>1, <1>8, <1>9, <1>10 DEF G

-----------------------------------------------------------------------------
(* Tuples of numbers are in the order of LexLess.                             *)
LexPairs(K) == {pair \in K \X K : LexLess(pair[1], pair[2])}

LEMMA LexOrders ==
    ASSUME NEW m \in Nat, NEW K \in SUBSET [1..m -> Int]
    PROVE  StrictlyOrders(LexPairs(K), K)
<1>1. \A a \in K : DOMAIN a = 1..m /\ \A i \in 1..m : a[i] \in Int
    OBVIOUS
<1>2. \A a \in K : ~LexLess(a, a)
    BY <1>1 DEF LexLess
<1>3. ASSUME NEW a \in K, NEW b \in K, NEW c \in K, LexLess(a, b), LexLess(b, c)
      PROVE  LexLess(a, c)
  <2>1. PICK i \in 1..m : a[i] < b[i] /\ \A j \in 1..(i - 1) : a[j] = b[j]
      BY <1>1, <1>3 DEF LexLess
  <2>2. PICK k \in 1..m : b[k] < c[k] /\ \A j \in 1..(k - 1) : b[j] = c[j]
      BY <1>1, <1>3 DEF LexLess
  <2>3. CASE i < k
    <3>1. i \in 1..(k - 1) /\ \A j \in 1..(i - 1) : j \in 1..(k - 1)
        BY <2>3
    <3>2. a[i] < c[i] /\ \A j \in 1..(i - 1) : a[j] = c[j]
        BY <2>1, <2>2, <3>1
    <3>3. QED
        BY <1>1, <3>2 DEF LexLess
  <2>4. CASE k < i
    <3>1. k \in 1..(i - 1) /\ \A j \in 1..(k - 1) : j \in 1..(i - 1)
        BY <2>4
    <3>2. a[k] < c[k] /\ \A j \in 1..(k - 1) : a[j] = c[j]
        BY <2>1, <2>2, <3>1
    <3>3. QED
        BY <1>1, <3>2 DEF LexLess
  <2>5. CASE i = k
    <3>1. a[i] < c[i] /\ \A j \in 1..(i - 1) : a[j] = c[j]
        BY <1>1, <2>1, <2>2, <2>5
    <3>2. QED
        BY <1>1, <3>1 DEF LexLess
  <2>6. QED
      BY <2>3, <2>4, <2>5
<1>4. ASSUME NEW a \in K, NEW b \in K, a # b
      PROVE  LexLess(a, b) \/ LexLess(b, a)
  <2> DEFINE D == {i \in 1..m : a[i] # b[i]}
             f == FirstPlace(D)
  <2>1. D \in SUBSET DOMAIN a /\ D # {} /\ Listed(a)
    <3>1. a = [i \in 1..m |-> a[i]] /\ b = [i \in 1..m |-> b[i]]
        OBVIOUS
    <3>2. D # {}
        BY <1>4, <3>1
    <3>3. QED
        BY <1>1, <3>2 DEF Listed
  <2>2. f \in D /\ \A j \in D : f <= j
      BY <2>1, FirstPlaceFound
  <2> HIDE DEF f
  <2>3. \A j \in 1..(f - 1) : a[j] = b[j]
      BY <2>2
  <2>4. a[f] < b[f] \/ b[f] < a[f]
      BY <1>1, <2>2
  <2>5. QED
      BY <1>1, <2>2, <2>3, <2>4 DEF LexLess
<1>5. \A a, b \in K : <<a, b>> \in LexPairs(K) <=> LexLess(a, b)
    BY DEF LexPairs
<1>6. QED
    BY <1>2, <1>3, <1>4, <1>5 DEF StrictlyOrders

(* Keys that are tuples of m numbers.                                         *)
Keyed(keys, m) == m \in Nat /\ Listed(keys) /\ \A i \in DOMAIN keys : keys[i] \in [1..m -> Int]

LEMMA KeyedOrders ==
    ASSUME NEW m, NEW keys, Keyed(keys, m)
    PROVE  IsFiniteSet(DOMAIN keys) /\ StrictlyOrders(KeyedLess(keys), DOMAIN keys)
<1> DEFINE D == DOMAIN keys
           K == {keys[i] : i \in D}
<1>1. D \subseteq Int /\ IsFiniteSet(D)
    BY PlacesFinite DEF Keyed, Listed
<1>2. K \in SUBSET [1..m -> Int]
    BY DEF Keyed
<1>3. StrictlyOrders(LexPairs(K), K)
    BY <1>2, LexOrders DEF Keyed
<1>4. \A i, j \in D : <<keys[i], keys[j]>> \in LexPairs(K) <=> LexLess(keys[i], keys[j])
    BY DEF LexPairs
<1>5. \A i \in D : ~LexLess(keys[i], keys[i])
    BY <1>3, <1>4 DEF StrictlyOrders
<1>6. \A i, j, k \in D : LexLess(keys[i], keys[j]) /\ LexLess(keys[j], keys[k]) => LexLess(keys[i], keys[k])
  <2> TAKE i, j, k \in D
  <2>1. keys[i] \in K /\ keys[j] \in K /\ keys[k] \in K
      OBVIOUS
  <2> HIDE DEF K, D
  <2>2. <<keys[i], keys[j]>> \in LexPairs(K) /\ <<keys[j], keys[k]>> \in LexPairs(K) => <<keys[i], keys[k]>> \in LexPairs(K)
      BY <1>3, <2>1 DEF StrictlyOrders
  <2>3. QED
      BY <1>4, <2>2
<1>7. \A i, j \in D : keys[i] = keys[j] \/ LexLess(keys[i], keys[j]) \/ LexLess(keys[j], keys[i])
    BY <1>3, <1>4 DEF StrictlyOrders
<1>8. \A i, j \in D : <<i, j>> \in KeyedLess(keys) <=>
                        LexLess(keys[i], keys[j]) \/ (keys[i] = keys[j] /\ i < j)
    BY DEF KeyedLess
<1>9. \A i \in D : <<i, i>> \notin KeyedLess(keys)
    BY <1>1, <1>5, <1>8
<1>10. ASSUME NEW i \in D, NEW j \in D, NEW k \in D, <<i, j>> \in KeyedLess(keys), <<j, k>> \in KeyedLess(keys)
       PROVE  <<i, k>> \in KeyedLess(keys)
  <2>1. /\ LexLess(keys[i], keys[j]) \/ (keys[i] = keys[j] /\ i < j)
        /\ LexLess(keys[j], keys[k]) \/ (keys[j] = keys[k] /\ j < k)
      BY <1>8, <1>10
  <2>2. LexLess(keys[i], keys[k]) \/ (keys[i] = keys[k] /\ i < k)
      BY <1>1, <1>6, <2>1
  <2>3. QED
      BY <1>8, <2>2
<1>11. ASSUME NEW i \in D, NEW j \in D, i # j
       PROVE  <<i, j>> \in KeyedLess(keys) \/ <<j, i>> \in KeyedLess(keys)
  <2>1. i < j \/ j < i
      BY <1>1, <1>11
  <2>2. keys[i] = keys[j] \/ LexLess(keys[i], keys[j]) \/ LexLess(keys[j], keys[i])
      BY <1>7
  <2>3. QED
      BY <1>8, <2>1, <2>2
<1>12. QED
    BY <1>1, <1>9, <1>10, <1>11 DEF StrictlyOrders

(* The order of a sort, and what it makes of a list.                          *)
OrderOf(keys) == InOrder(DOMAIN keys, KeyedLess(keys))

LEMMA SortArranges ==
    ASSUME NEW m, NEW keys, Keyed(keys, m), NEW s
    PROVE  /\ Arranges(OrderOf(keys), DOMAIN keys)
           /\ DOMAIN SortBy(s, keys) = DOMAIN OrderOf(keys)
           /\ \A n \in DOMAIN OrderOf(keys) : SortBy(s, keys)[n] = s[OrderOf(keys)[n]]
           /\ \A i, j \in DOMAIN OrderOf(keys) : i < j => <<OrderOf(keys)[i], OrderOf(keys)[j]>> \in KeyedLess(keys)
<1>1. /\ Arranges(OrderOf(keys), DOMAIN keys)
      /\ \A i, j \in DOMAIN OrderOf(keys) : i < j => <<OrderOf(keys)[i], OrderOf(keys)[j]>> \in KeyedLess(keys)
    BY KeyedOrders, InOrderArranges DEF OrderOf
<1>2. SortBy(s, keys) = [n \in DOMAIN OrderOf(keys) |-> s[OrderOf(keys)[n]]]
    BY DEF SortBy, Elements, OrderOf
<1>3. QED
    BY <1>1, <1>2

(* Lists one after the other: every place of each once.                       *)
PlacesOf(lists) == UNION {{k} \X (DOMAIN lists[k]) : k \in DOMAIN lists}

LEMMA JoinedArranges ==
    ASSUME NEW lists, Listed(lists), \A k \in DOMAIN lists : Listed(lists[k])
    PROVE  \E order :
             /\ Arranges(order, PlacesOf(lists))
             /\ Joined(lists) = [n \in DOMAIN order |-> lists[order[n][1]][order[n][2]]]
             /\ \A i, j \in DOMAIN order : i < j => LexLess(order[i], order[j])
<1> DEFINE P == PlacesOf(lists)
           order == InOrder(P, LexPairs(P))
<1>1. \A p \in P : \E k \in DOMAIN lists : \E n \in DOMAIN lists[k] : p = <<k, n>>
    BY DEF PlacesOf
<1>2. \A k \in DOMAIN lists : k \in Int /\ \A n \in DOMAIN lists[k] : n \in Int
    BY DEF Listed
<1>3. P \in SUBSET [1..2 -> Int]
  <2> SUFFICES ASSUME NEW k \in DOMAIN lists, NEW n \in DOMAIN lists[k]
               PROVE  <<k, n>> \in [1..2 -> Int]
      BY <1>1
  <2>1. k \in Int /\ n \in Int
      BY <1>2
  <2>2. QED
      BY <2>1
<1>4. StrictlyOrders(LexPairs(P), P)
    BY <1>3, LexOrders
<1>5. IsFiniteSet(P)
  <2> DEFINE parts == {{k} \X (DOMAIN lists[k]) : k \in DOMAIN lists}
             part == [k \in DOMAIN lists |-> {k} \X (DOMAIN lists[k])]
  <2>1. IsFiniteSet(DOMAIN lists)
      BY PlacesFinite
  <2>2. part \in Surjection(DOMAIN lists, parts)
      BY DEF Surjection
  <2>3. IsFiniteSet(parts)
      BY <2>1, <2>2, FS_Surjection
  <2>4. ASSUME NEW k \in DOMAIN lists
        PROVE  IsFiniteSet({k} \X (DOMAIN lists[k]))
    <3>1. IsFiniteSet({k})
        BY FS_Singleton
    <3>2. IsFiniteSet(DOMAIN lists[k])
        BY PlacesFinite
    <3>3. QED
        BY <3>1, <3>2, FS_Product
  <2>5. \A T \in parts : IsFiniteSet(T)
      BY <2>4
  <2>6. QED
      BY <2>3, <2>5, FS_UNION DEF PlacesOf
<1>6. /\ Arranges(order, P)
      /\ \A i, j \in DOMAIN order : i < j => <<order[i], order[j]>> \in LexPairs(P)
    BY <1>4, <1>5, InOrderArranges
<1>7. Joined(lists) = [n \in DOMAIN order |-> lists[order[n][1]][order[n][2]]]
    BY DEF Joined, PlacesOf, LexPairs
<1>8. QED
    BY <1>6, <1>7 DEF LexPairs

-----------------------------------------------------------------------------
(* The items of a run: of the window, each URL once.                          *)
WindowItem(x) == x \in StoredItem /\ InWindow(x) /\ \E p \in DOMAIN Pool : x = Pool[p]
ItemsOK(list) ==
    /\ Listed(list)
    /\ \A i \in DOMAIN list : WindowItem(list[i])
    /\ \A i, j \in DOMAIN list : list[i].url = list[j].url => i = j

LEMMA QueryOK ==
    ASSUME NEW stored, NEW list \in Query(stored)
    PROVE  ItemsOK(list)
<1> DEFINE wanted == {i \in DOMAIN Pool : Pool[i].url \in stored /\ InWindow(Pool[i])}
           found == Pick(Pool, wanted)
           up == Upwards(wanted)
           keys(way) == [i \in DOMAIN found |-> <<-found[i].day, way * found[i].url>>]
<1>1. DOMAIN Pool = 1..Len(Pool) /\ Len(Pool) \in Nat /\ \A p \in DOMAIN Pool : Pool[p] \in StoredItem
  <2>1. Pool \in Seq(StoredItem)
      BY SelectionAssumption
  <2>2. QED
      BY <2>1
<1>2. Listed(Pool)
    BY <1>1 DEF Listed
<1>3. Arranges(up, wanted)
    BY <1>2, UpwardsArranges
<1>4. DOMAIN found = DOMAIN up /\ \A n \in DOMAIN up : found[n] = Pool[up[n]]
    BY DEF Pick, Elements
<1>5. PICK way \in {1, -1} : list = SortBy(found, keys(way))
    BY DEF Query
<1> HIDE DEF up, found
<1>6. \A n \in DOMAIN found : up[n] \in DOMAIN Pool /\ InWindow(found[n]) /\ found[n] \in StoredItem /\ found[n] = Pool[up[n]]
    BY <1>1, <1>3, <1>4 DEF Arranges
<1>7. Keyed(keys(way), 2)
  <2>1. Listed(keys(way)) /\ DOMAIN keys(way) = DOMAIN found
      BY <1>3, <1>4 DEF Arranges, Listed
  <2>2. ASSUME NEW i \in DOMAIN found
        PROVE  keys(way)[i] \in [1..2 -> Int]
    <3>1. found[i].day \in Int /\ found[i].url \in Int
        BY <1>6 DEF StoredItem
    <3>2. -found[i].day \in Int /\ way * found[i].url \in Int
        BY <3>1
    <3>3. keys(way)[i] = <<-found[i].day, way * found[i].url>>
        OBVIOUS
    <3>4. QED
        BY <3>2, <3>3
  <2>3. QED
      BY <2>1, <2>2 DEF Keyed
<1>8. DOMAIN keys(way) = DOMAIN found
    OBVIOUS
<1> DEFINE order == OrderOf(keys(way))
<1>9. Arranges(order, DOMAIN found) /\ DOMAIN list = DOMAIN order /\ \A n \in DOMAIN order : list[n] = found[order[n]]
    BY <1>5, <1>7, <1>8, SortArranges
<1> HIDE DEF order, keys
<1>10. \A n \in DOMAIN list : list[n] = Pool[up[order[n]]] /\ WindowItem(list[n])
    BY <1>6, <1>9 DEF Arranges, WindowItem
<1>11. ASSUME NEW i \in DOMAIN list, NEW j \in DOMAIN list, list[i].url = list[j].url
       PROVE  i = j
  <2>1. order[i] \in DOMAIN found /\ order[j] \in DOMAIN found
      BY <1>9 DEF Arranges
  <2>2. up[order[i]] \in DOMAIN Pool /\ up[order[j]] \in DOMAIN Pool
      BY <1>6, <2>1
  <2>3. up[order[i]] = up[order[j]]
      BY <1>10, <1>11, <2>2, SelectionAssumption
  <2>4. order[i] = order[j]
      BY <1>3, <1>4, <2>1, <2>3 DEF Arranges
  <2>5. QED
      BY <1>9, <2>4 DEF Arranges
<1>12. Listed(list)
    BY <1>9 DEF Arranges, Listed
<1>13. QED
    BY <1>10, <1>11, <1>12 DEF ItemsOK

-----------------------------------------------------------------------------
(* Lists as functions.                                                        *)
LEMMA EmptyList ==
    ASSUME NEW s, s = [i \in DOMAIN s |-> s[i]], DOMAIN s = {}
    PROVE  s = <<>>
<1>1. <<>> = [i \in {} |-> s[i]]
    OBVIOUS
<1>2. QED
    BY <1>1

LEMMA ListedIsSeq ==
    ASSUME NEW s, Listed(s), s = [i \in DOMAIN s |-> s[i]], NEW T, \A i \in DOMAIN s : s[i] \in T
    PROVE  s \in Seq(T)
<1>1. PICK n \in Nat : DOMAIN s = 1..n
    BY DEF Listed
<1>2. s \in [1..n -> T]
    BY <1>1
<1>3. QED
    BY <1>1, <1>2

LEMMA DistinctListed ==
    ASSUME NEW s, NEW keys, Listed(keys)
    PROVE  /\ Arranges(Upwards(Firsts(keys)), Firsts(keys))
           /\ Distinct(s, keys) = [n \in DOMAIN Upwards(Firsts(keys)) |-> s[Upwards(Firsts(keys))[n]]]
           /\ Listed(Distinct(s, keys))
           /\ \A n \in DOMAIN Distinct(s, keys) : \E i \in DOMAIN keys : Distinct(s, keys)[n] = s[i]
           /\ DOMAIN keys # {} => 1 \in DOMAIN Distinct(s, keys) /\ Distinct(s, keys)[1] = s[1]
<1> DEFINE up == Upwards(Firsts(keys))
<1>1. Arranges(up, Firsts(keys)) /\ \A i, j \in DOMAIN up : i < j => up[i] < up[j]
    BY FirstsOf, UpwardsArranges
<1>2. Distinct(s, keys) = [n \in DOMAIN up |-> s[up[n]]]
    BY DEF Distinct, Pick, Elements
<1> HIDE DEF up
<1>3. Listed(Distinct(s, keys))
    BY <1>1, <1>2 DEF Arranges, Listed
<1>4. \A n \in DOMAIN Distinct(s, keys) : \E i \in DOMAIN keys : Distinct(s, keys)[n] = s[i]
    BY <1>1, <1>2, FirstsOf DEF Arranges
<1>5. ASSUME DOMAIN keys # {}
      PROVE  1 \in DOMAIN Distinct(s, keys) /\ Distinct(s, keys)[1] = s[1]
  <2>1. 1 \in Firsts(keys)
      BY <1>5, FirstsOf
  <2>2. PICK n \in DOMAIN up : up[n] = 1
      BY <1>1, <2>1 DEF Arranges
  <2>3. PICK m \in Nat : DOMAIN up = 1..m
      BY <1>1 DEF Arranges, Listed
  <2>4. 1 \in DOMAIN up /\ n \in Nat /\ n >= 1
      BY <2>2, <2>3
  <2>5. up[1] \in DOMAIN keys
      BY <1>1, <2>4, FirstsOf DEF Arranges
  <2>6. up[1] \in Nat /\ up[1] >= 1
      BY <2>5 DEF Listed
  <2>7. n = 1
    <3>1. SUFFICES ASSUME 1 < n
                   PROVE  FALSE
        BY <2>4
    <3>2. up[1] < up[n]
        BY <1>1, <2>2, <2>4, <3>1
    <3>3. QED
        BY <2>2, <2>6, <3>2
  <2>8. QED
      BY <1>2, <2>2, <2>4, <2>7
<1>6. QED
    BY <1>1, <1>2, <1>3, <1>4, <1>5 DEF up

(* The first value given is one of the values.                                *)
LEMMA FirstGivenFound ==
    ASSUME NEW values, Listed(values)
    PROVE  /\ FirstGiven(values) = None \/ \E i \in DOMAIN values : FirstGiven(values) = values[i]
           /\ \A v : v # None /\ DOMAIN values # {} /\ (\A i \in DOMAIN values : values[i] = v) => FirstGiven(values) = v
<1> DEFINE given == {i \in DOMAIN values : values[i] # None}
<1>1. given # {} => FirstPlace(given) \in given
    BY FirstPlaceFound
<1>2. FirstGiven(values) = IF given = {} THEN None ELSE values[FirstPlace(given)]
    BY DEF FirstGiven
<1>3. QED
    BY <1>1, <1>2

-----------------------------------------------------------------------------
(* Tagged items and their keys.                                               *)
TaggedOf(x) == [item |-> x, entities |-> MatchItemToEntities(x), id |-> ExtractStableId(x)]
FirstEntity(entities) == IF entities = <<>> THEN None ELSE entities[1]

LEMMA EntitiesListed ==
    ASSUME NEW x \in StoredItem
    PROVE  /\ Listed(MatchItemToEntities(x)) /\ MatchItemToEntities(x) \in Seq(Nat)
           /\ FirstEntity(MatchItemToEntities(x)) \in Nat
<1> DEFINE hits == x.hits
           Hits == [entity : Nat, score : Int]
           keys == [i \in DOMAIN hits |-> <<-hits[i].score>>]
           best == SortBy(hits, keys)
           found == MatchItemToEntities(x)
<1>1. hits \in Seq(Hits)
    BY DEF StoredItem
<1> HIDE DEF hits
<1>0. \A i \in DOMAIN hits : hits[i].score \in Int /\ hits[i].entity \in Nat
  <2>1. \A h \in Hits : h.score \in Int /\ h.entity \in Nat
      OBVIOUS
  <2> HIDE DEF Hits
  <2>2. \A i \in DOMAIN hits : hits[i] \in Hits
      BY <1>1
  <2>3. QED
      BY <2>1, <2>2
<1>2. Keyed(keys, 1)
  <2>1. DOMAIN keys = 1..Len(hits) /\ Len(hits) \in Nat /\ DOMAIN keys = DOMAIN hits
      BY <1>1
  <2>2. ASSUME NEW i \in DOMAIN hits
        PROVE  keys[i] \in [1..1 -> Int]
    <3>1. hits[i].score \in Int
        BY <1>0
    <3>2. -hits[i].score \in Int
        BY <3>1
    <3>3. keys[i] = <<-hits[i].score>>
        OBVIOUS
    <3>4. QED
        BY <3>2, <3>3
  <2>3. QED
      BY <2>1, <2>2 DEF Keyed, Listed
<1>3. DOMAIN keys = DOMAIN hits
    OBVIOUS
<1> HIDE DEF keys
<1>4. /\ Arranges(OrderOf(keys), DOMAIN hits) /\ DOMAIN best = DOMAIN OrderOf(keys)
      /\ \A n \in DOMAIN best : best[n] = hits[OrderOf(keys)[n]]
    BY <1>2, <1>3, SortArranges
<1>5. found = [i \in DOMAIN best |-> best[i].entity]
    BY DEF MatchItemToEntities, keys, hits
<1> HIDE DEF best
<1>6. \A n \in DOMAIN best : OrderOf(keys)[n] \in DOMAIN hits
    BY <1>4 DEF Arranges
<1>7. \A n \in DOMAIN best : best[n].entity \in Nat
    BY <1>0, <1>4, <1>6
<1>8. Listed(found)
    BY <1>4, <1>5 DEF Arranges, Listed
<1>9. found = [i \in DOMAIN found |-> found[i]] /\ \A n \in DOMAIN found : found[n] \in Nat
    BY <1>5, <1>7
<1>10. found \in Seq(Nat)
    BY <1>8, <1>9, ListedIsSeq
<1> HIDE DEF found
<1>11. FirstEntity(found) \in Nat
    BY <1>10 DEF FirstEntity, None
<1>12. QED
    BY <1>8, <1>10, <1>11 DEF found

LEMMA StableIdShape ==
    ASSUME NEW x \in StoredItem
    PROVE  /\ ExtractStableId(x) \in [1..4 -> Int]
           /\ ExtractStableId(x) # NoId => ExtractStableId(x)[1] # 2
<1>1. /\ x.ids.arxiv \in Int /\ x.ids.github \in Int /\ x.ids.hf \in Int /\ x.ids.ms \in Int /\ x.raw \in Int
    BY DEF StoredItem
<1>2. \A a, b \in Int : <<a, b, 0, 0>> \in [1..4 -> Int]
    OBVIOUS
<1>3. NoId \in [1..4 -> Int]
    BY DEF NoId
<1>4. ExtractStableId(x) \in {<<1, x.ids.arxiv, 0, 0>>, <<1, x.raw, 0, 0>>, <<3, x.ids.github, 0, 0>>,
                              <<4, x.ids.hf, 0, 0>>, <<5, x.ids.ms, 0, 0>>, NoId}
    BY DEF ExtractStableId
<1>5. QED
    BY <1>1, <1>2, <1>3, <1>4

LEMMA KeyOf ==
    ASSUME NEW x, WindowItem(x)
    PROVE  /\ GroupKey(TaggedOf(x)) = IF ExtractStableId(x) # NoId THEN ExtractStableId(x)
                                      ELSE <<2, x.title, FirstEntity(MatchItemToEntities(x)), x.day>>
           /\ GroupKey(TaggedOf(x)) \in [1..4 -> Int]
<1> DEFINE t == TaggedOf(x)
           entities == MatchItemToEntities(x)
           one == <<x>>
           days == [i \in DOMAIN one |-> one[i].day]
<1>1. t.item = x /\ t.id = ExtractStableId(x) /\ t.entities = entities
    BY DEF TaggedOf
<1>2. x \in StoredItem /\ x.day # None
    BY DEF WindowItem, InWindow
<1>3. DOMAIN one = {1} /\ one[1] = x
    OBVIOUS
<1>4. GetDateBucket(one) = x.day
  <2>1. GetDateBucket(one) = FirstGiven(days)
      BY DEF GetDateBucket
  <2>2. DOMAIN days = 1..1 /\ \A i \in DOMAIN days : days[i] = x.day
      BY <1>3
  <2>3. Listed(days)
      BY <2>2 DEF Listed
  <2> HIDE DEF days
  <2>4. QED
      BY <1>2, <2>1, <2>2, <2>3, FirstGivenFound
<1>5. FallbackId(one, entities) = <<2, x.title, FirstEntity(entities), x.day>>
    BY <1>3, <1>4 DEF FallbackId, FirstEntity
<1>6. ASSUME ExtractStableId(x) = NoId
      PROVE  GenerateStoryId(one, entities) = FallbackId(one, entities)
  <2>1. {i \in DOMAIN one : ExtractStableId(one[i]) # NoId} = {}
      BY <1>3, <1>6
  <2>2. QED
      BY <2>1 DEF GenerateStoryId
<1>7. GroupKey(t) = IF ExtractStableId(x) # NoId THEN ExtractStableId(x)
                    ELSE <<2, x.title, FirstEntity(entities), x.day>>
    BY <1>1, <1>5, <1>6 DEF GroupKey
<1>8. ExtractStableId(x) \in [1..4 -> Int]
    BY <1>2, StableIdShape
<1>9. x.title \in Int /\ FirstEntity(entities) \in Int /\ x.day \in Int
  <2>1. x.title \in DOMAIN Similar /\ x.day \in Nat
      BY <1>2 DEF StoredItem
  <2>2. DOMAIN Similar \subseteq Nat
      BY SelectionAssumption
  <2>3. FirstEntity(entities) \in Nat
      BY <1>2, EntitiesListed
  <2>4. QED
      BY <2>1, <2>2, <2>3
<1>10. \A a, b, c \in Int : <<2, a, b, c>> \in [1..4 -> Int]
    OBVIOUS
<1>11. <<2, x.title, FirstEntity(entities), x.day>> \in [1..4 -> Int]
    BY <1>9, <1>10
<1>12. QED
    BY <1>7, <1>8, <1>11


-----------------------------------------------------------------------------
(* A group of one key becomes a story with that key.                          *)
LEMMA EntitiesOfLists ==
    ASSUME NEW lists, Listed(lists), DOMAIN lists # {}, \A k \in DOMAIN lists : lists[k] \in Seq(Nat)
    PROVE  LET found == Joined(lists) IN
           /\ Distinct(found, found) \in Seq(Nat)
           /\ \A e : (\A k \in DOMAIN lists : FirstEntity(lists[k]) = e) => FirstEntity(Distinct(found, found)) = e
<1> DEFINE found == Joined(lists)
           kept == Distinct(found, found)
<1>1. \A k \in DOMAIN lists : DOMAIN lists[k] = 1..Len(lists[k]) /\ Len(lists[k]) \in Nat /\ Listed(lists[k])
    BY DEF Listed
<1>2. PICK order :
        /\ Arranges(order, PlacesOf(lists))
        /\ found = [n \in DOMAIN order |-> lists[order[n][1]][order[n][2]]]
        /\ \A i, j \in DOMAIN order : i < j => LexLess(order[i], order[j])
    BY <1>1, JoinedArranges
<1> HIDE DEF found
<1>3. \A at : at \in PlacesOf(lists) <=> \E k \in DOMAIN lists : \E i \in DOMAIN lists[k] : at = <<k, i>>
    BY DEF PlacesOf
<1>4. \A n \in DOMAIN order : order[n] \in PlacesOf(lists)
    BY <1>2 DEF Arranges
<1>5. Listed(found) /\ found = [n \in DOMAIN found |-> found[n]] /\ DOMAIN found = DOMAIN order
    BY <1>2 DEF Arranges, Listed
<1>6. \A n \in DOMAIN found : found[n] \in Nat
  <2> TAKE n \in DOMAIN found
  <2>1. PICK k \in DOMAIN lists : \E i \in DOMAIN lists[k] : order[n] = <<k, i>>
      BY <1>3, <1>4, <1>5
  <2>2. PICK i \in DOMAIN lists[k] : found[n] = lists[k][i]
      BY <1>2, <1>5, <2>1
  <2>3. QED
      BY <2>2
<1>7. /\ Listed(kept) /\ \A n \in DOMAIN kept : \E i \in DOMAIN found : kept[n] = found[i]
      /\ kept = [n \in DOMAIN Upwards(Firsts(found)) |-> found[Upwards(Firsts(found))[n]]]
      /\ DOMAIN found # {} => 1 \in DOMAIN kept /\ kept[1] = found[1]
    BY <1>5, DistinctListed
<1> HIDE DEF kept
<1>8. kept = [n \in DOMAIN kept |-> kept[n]]
    BY <1>7
<1>9. kept \in Seq(Nat)
    BY <1>6, <1>7, <1>8, ListedIsSeq
<1>10. ASSUME NEW e, \A k \in DOMAIN lists : FirstEntity(lists[k]) = e
       PROVE  FirstEntity(kept) = e
  <2>1. CASE DOMAIN found = {}
    <3>1. DOMAIN kept = {}
        BY <1>7, <2>1
    <3>2. kept = <<>>
        BY <1>8, <3>1, EmptyList
    <3>3. PICK k \in DOMAIN lists : TRUE
        OBVIOUS
    <3>4. DOMAIN lists[k] = {}
      <4>1. SUFFICES ASSUME NEW i \in DOMAIN lists[k]
                     PROVE  FALSE
          OBVIOUS
      <4>2. <<k, i>> \in PlacesOf(lists)
          BY <1>3
      <4>3. QED
          BY <1>2, <1>5, <2>1, <4>2 DEF Arranges
    <3>5. lists[k] = <<>>
        BY <3>4
    <3>6. e = None
        BY <1>10, <3>5 DEF FirstEntity
    <3>7. QED
        BY <1>9, <3>2, <3>6 DEF FirstEntity, kept, found
  <2>2. CASE DOMAIN found # {}
    <3>1. 1 \in DOMAIN found /\ \A n \in DOMAIN found : n = 1 \/ 1 < n
        BY <1>5, <2>2 DEF Listed
    <3>p. PICK k \in DOMAIN lists : \E i \in DOMAIN lists[k] : order[1] = <<k, i>>
        BY <1>3, <1>4, <1>5, <3>1
    <3>2. PICK i \in DOMAIN lists[k] : order[1] = <<k, i>>
        BY <3>p
    <3>3. i = 1
      <4>1. i \in Nat /\ 1 <= i /\ 1 \in DOMAIN lists[k]
          BY <1>1, <3>2
      <4>2. PICK n \in DOMAIN order : order[n] = <<k, 1>>
          BY <1>2, <1>3, <4>1 DEF Arranges
      <4>3. CASE n = 1
          BY <3>2, <4>2, <4>3
      <4>4. CASE 1 < n
        <5>0. LexLess(order[1], order[n])
            BY <1>2, <1>5, <3>1, <4>2, <4>4
        <5>1. LexLess(<<k, i>>, <<k, 1>>)
            BY <3>2, <4>2, <5>0
        <5>2. k \in Int
            BY DEF Listed
        <5>3. i < 1
            BY <4>1, <5>1, <5>2 DEF LexLess
        <5>4. QED
            BY <4>1, <5>3
      <4>5. QED
          BY <1>5, <3>1, <4>2, <4>3, <4>4
    <3>4. found[1] = lists[k][1]
        BY <1>2, <1>5, <3>1, <3>2, <3>3
    <3>5. lists[k] # <<>>
        BY <3>2
    <3>6. FirstEntity(lists[k]) = lists[k][1]
        BY <3>5 DEF FirstEntity
    <3>7. kept # <<>> /\ kept[1] = found[1]
        BY <1>7, <2>2
    <3>8. FirstEntity(kept) = e
        BY <1>10, <3>4, <3>6, <3>7 DEF FirstEntity
    <3>9. QED
        BY <1>9, <3>8 DEF kept, found
  <2>3. QED
      BY <2>1, <2>2
<1>11. QED
    BY <1>9, <1>10 DEF kept, found

LEMMA PrimaryIsALink ==
    ASSUME NEW lks, Listed(lks), DOMAIN lks # {}, \A i \in DOMAIN lks : lks[i].tier \in Int
    PROVE  \E i \in DOMAIN lks : SelectPrimaryLink(lks) = lks[i]
<1> DEFINE P == {i \in DOMAIN lks : lks[i].type \in AllowlistedLinkTypes}
           up == Upwards(P)
           allowed == Pick(lks, P)
           keys == [i \in DOMAIN allowed |-> <<TypePriority(allowed[i].type), allowed[i].tier>>]
<1>1. 1 \in DOMAIN lks
    BY DEF Listed
<1>2. Arranges(up, P)
    BY UpwardsArranges
<1>3. allowed = [n \in DOMAIN up |-> lks[up[n]]]
    BY DEF Pick, Elements
<1>4. SelectPrimaryLink(lks) = lks[1] \/ (allowed # <<>> /\ SelectPrimaryLink(lks) = SortBy(allowed, keys)[1])
    BY DEF SelectPrimaryLink
<1> HIDE DEF up, P, allowed
<1>5. ASSUME allowed # <<>>
      PROVE  \E i \in DOMAIN lks : SortBy(allowed, keys)[1] = lks[i]
  <2>1. DOMAIN allowed # {}
      BY <1>3, <1>5, EmptyList
  <2>2. \A n \in DOMAIN allowed : up[n] \in DOMAIN lks /\ allowed[n] = lks[up[n]]
      BY <1>2, <1>3 DEF Arranges, P
  <2>3. \A type : TypePriority(type) \in Int
    <3> TAKE type
    <3> DEFINE at == {i \in DOMAIN PreferOrder : PreferOrder[i] = type}
    <3>1. PreferOrder \in Seq(STRING)
        BY SelectionAssumption
    <3>2. Listed(PreferOrder) /\ DOMAIN PreferOrder \subseteq Int /\ Len(PreferOrder) + 1 \in Int
        BY <3>1 DEF Listed
    <3>3. at # {} => FirstPlace(at) \in Int
        BY <3>2, FirstPlaceFound
    <3>4. QED
        BY <3>2, <3>3 DEF TypePriority
  <2>4. DOMAIN keys = DOMAIN allowed
      OBVIOUS
  <2>5. Keyed(keys, 2)
    <3>1. Listed(keys)
        BY <1>2, <1>3 DEF Arranges, Listed
    <3>2. ASSUME NEW i \in DOMAIN allowed
          PROVE  keys[i] \in [1..2 -> Int]
      <4>1. TypePriority(allowed[i].type) \in Int /\ allowed[i].tier \in Int
          BY <2>2, <2>3
      <4>2. keys[i] = <<TypePriority(allowed[i].type), allowed[i].tier>>
          OBVIOUS
      <4>3. QED
          BY <4>1, <4>2
    <3>3. QED
        BY <3>1, <3>2 DEF Keyed
  <2> HIDE DEF keys
  <2>6. /\ Arranges(OrderOf(keys), DOMAIN allowed)
        /\ \A n \in DOMAIN OrderOf(keys) : SortBy(allowed, keys)[n] = allowed[OrderOf(keys)[n]]
      BY <2>4, <2>5, SortArranges
  <2>7. 1 \in DOMAIN OrderOf(keys)
      BY <2>1, <2>6 DEF Arranges, Listed
  <2>8. OrderOf(keys)[1] \in DOMAIN allowed
      BY <2>6, <2>7 DEF Arranges
  <2>9. QED
      BY <2>2, <2>6, <2>7, <2>8
<1>6. QED
    BY <1>1, <1>4, <1>5

LEMMA BestDay ==
    ASSUME NEW its, Listed(its), \A n \in DOMAIN its : its[n] \in StoredItem
    PROVE  GetBestPublishedAt(its) = None \/ \E n \in DOMAIN its : GetBestPublishedAt(its) = its[n].day
<1> DEFINE keys == [i \in DOMAIN its |-> <<ConfidenceRank[its[i].conf]>>]
           sorted == SortBy(its, keys)
           days == [i \in DOMAIN sorted |-> sorted[i].day]
<1>1. Keyed(keys, 1)
  <2>1. Listed(keys)
      BY DEF Listed
  <2>2. ASSUME NEW i \in DOMAIN its
        PROVE  keys[i] \in [1..1 -> Int]
    <3>1. its[i].conf \in DOMAIN ConfidenceRank
        BY DEF StoredItem
    <3>2. ConfidenceRank[its[i].conf] \in Int
        BY <3>1 DEF ConfidenceRank
    <3>3. keys[i] = <<ConfidenceRank[its[i].conf]>>
        OBVIOUS
    <3>4. QED
        BY <3>2, <3>3
  <2>3. QED
      BY <2>1, <2>2 DEF Keyed
<1>2. DOMAIN keys = DOMAIN its
    OBVIOUS
<1>3. GetBestPublishedAt(its) = FirstGiven(days)
    BY DEF GetBestPublishedAt
<1> HIDE DEF keys
<1>4. /\ Arranges(OrderOf(keys), DOMAIN its) /\ DOMAIN sorted = DOMAIN OrderOf(keys)
      /\ \A n \in DOMAIN sorted : sorted[n] = its[OrderOf(keys)[n]]
    BY <1>1, <1>2, SortArranges
<1> HIDE DEF sorted
<1>5. Listed(days) /\ DOMAIN days = DOMAIN sorted /\ \A n \in DOMAIN days : days[n] = its[OrderOf(keys)[n]].day
    BY <1>4 DEF Arranges, Listed
<1> HIDE DEF days
<1>6. \A n \in DOMAIN days : OrderOf(keys)[n] \in DOMAIN its
    BY <1>4, <1>5 DEF Arranges
<1>7. QED
    BY <1>3, <1>5, <1>6, FirstGivenFound

(* A story of items of the window.                                            *)
StoryOK(st) ==
    /\ st.id \in [1..4 -> Int]
    /\ Listed(st.items) /\ DOMAIN st.items # {} /\ \A n \in DOMAIN st.items : WindowItem(st.items[n])
    /\ \E n \in DOMAIN st.items : st.primary = CreateStoryLink(st.items[n])
    /\ st.day = None \/ \E n \in DOMAIN st.items : st.day = st.items[n].day
    /\ st.entities \in Seq(Nat)

LEMMA StoryOfGroup ==
    ASSUME NEW group, Listed(group), DOMAIN group # {}, NEW K \in [1..4 -> Int],
           \A n \in DOMAIN group : WindowItem(group[n].item) /\ group[n] = TaggedOf(group[n].item) /\ GroupKey(group[n]) = K
    PROVE  LET st == CreateStoryFromGroup(group) IN
           /\ StoryOK(st) /\ st.id = K
           /\ st.items = [n \in DOMAIN group |-> group[n].item]
<1> DEFINE st == CreateStoryFromGroup(group)
           its == [n \in DOMAIN group |-> group[n].item]
           lists == [i \in DOMAIN group |-> group[i].entities]
           ents == CollectEntityIds(group)
           all == [i \in DOMAIN its |-> CreateStoryLink(its[i])]
           lks == DedupeLinks(all)
<1>1. /\ st.items = its /\ st.primary = SelectPrimaryLink(lks) /\ st.entities = ents
      /\ st.id = GenerateStoryId(its, ents) /\ st.day = GetBestPublishedAt(its)
    BY DEF CreateStoryFromGroup
<1>2. DOMAIN its = DOMAIN group /\ Listed(its)
    BY DEF Listed
<1>3. \A n \in DOMAIN its : /\ WindowItem(its[n]) /\ its[n] \in StoredItem
                            /\ GroupKey(TaggedOf(its[n])) = K /\ lists[n] = MatchItemToEntities(its[n])
    BY DEF WindowItem, TaggedOf
<1>4. \A n \in DOMAIN its : lists[n] \in Seq(Nat)
    BY <1>3, EntitiesListed
<1>5. Listed(lists) /\ DOMAIN lists = DOMAIN its
    BY DEF Listed
<1>6. 1 \in DOMAIN its
    BY <1>2 DEF Listed
<1>7. ents = Distinct(Joined(lists), Joined(lists))
    BY DEF CollectEntityIds
<1>8. /\ ents \in Seq(Nat)
      /\ \A e : (\A k \in DOMAIN lists : FirstEntity(lists[k]) = e) => FirstEntity(ents) = e
    BY <1>4, <1>5, <1>6, <1>7, EntitiesOfLists
<1> HIDE DEF ents, lists
<1>9. st.id = K
  <2> DEFINE found == {i \in DOMAIN its : ExtractStableId(its[i]) # NoId}
  <2>1. CASE found # {}
    <3>1. FirstPlace(found) \in found
        BY <1>2, <2>1, FirstPlaceFound
    <3>2. GenerateStoryId(its, ents) = ExtractStableId(its[FirstPlace(found)])
        BY <2>1 DEF GenerateStoryId
    <3>3. QED
        BY <1>1, <1>3, <3>1, <3>2, KeyOf
  <2>2. CASE found = {}
    <3>1. GenerateStoryId(its, ents) = FallbackId(its, ents)
        BY <2>2 DEF GenerateStoryId
    <3>2. \A n \in DOMAIN its : K = <<2, its[n].title, FirstEntity(lists[n]), its[n].day>> /\ its[n].day # None
        BY <1>3, <2>2, KeyOf DEF WindowItem, InWindow
    <3>3. \A n \in DOMAIN its : K[3] = FirstEntity(lists[n]) /\ K[4] = its[n].day /\ its[n].day # None
        BY <3>2
    <3>4. FirstEntity(ents) = K[3]
        BY <1>5, <1>8, <3>3
    <3>5. GetDateBucket(its) = K[4]
      <4> DEFINE days == [i \in DOMAIN its |-> its[i].day]
      <4>1. Listed(days) /\ DOMAIN days # {} /\ \A i \in DOMAIN days : days[i] = K[4]
          BY <1>2, <1>6, <3>3 DEF Listed
      <4>2. K[4] # None
          BY <1>6, <3>3
      <4>3. GetDateBucket(its) = FirstGiven(days)
          BY DEF GetDateBucket
      <4> HIDE DEF days
      <4>4. QED
          BY <4>1, <4>2, <4>3, FirstGivenFound
    <3>6. FallbackId(its, ents) = <<2, its[1].title, FirstEntity(ents), GetDateBucket(its)>>
        BY DEF FallbackId, FirstEntity
    <3>7. QED
        BY <1>1, <1>6, <3>1, <3>2, <3>3, <3>4, <3>5, <3>6
  <2>3. QED
      BY <2>1, <2>2
<1>10. \E n \in DOMAIN its : st.primary = CreateStoryLink(its[n])
  <2> DEFINE keys == [i \in DOMAIN all |-> <<all[i].type, all[i].url>>]
  <2>1. DOMAIN all = DOMAIN its /\ DOMAIN keys = DOMAIN its /\ Listed(keys) /\ \A i \in DOMAIN its : all[i] = CreateStoryLink(its[i])
      BY <1>2 DEF Listed
  <2>a. lks = Distinct(all, keys)
      BY DEF DedupeLinks
  <2> HIDE DEF its, all, keys, lks
  <2>2. /\ Listed(lks) /\ \A n \in DOMAIN lks : \E i \in DOMAIN its : lks[n] = CreateStoryLink(its[i])
        /\ 1 \in DOMAIN lks
      BY <1>6, <2>1, <2>a, DistinctListed
  <2>3. \A n \in DOMAIN lks : lks[n].tier \in Int
    <3> TAKE n \in DOMAIN lks
    <3>1. PICK i \in DOMAIN its : lks[n] = CreateStoryLink(its[i])
        BY <2>2
    <3>2. its[i].tier \in Nat
        BY <1>3 DEF StoredItem
    <3>3. QED
        BY <3>1, <3>2 DEF CreateStoryLink
  <2>4. PICK n \in DOMAIN lks : st.primary = lks[n]
      BY <1>1, <2>2, <2>3, PrimaryIsALink
  <2>5. QED
      BY <2>2, <2>4
<1>11. st.day = None \/ \E n \in DOMAIN its : st.day = its[n].day
  <2> HIDE DEF its
  <2>1. QED
      BY <1>1, <1>2, <1>3, BestDay
<1>12. StoryOK(st)
    BY <1>1, <1>2, <1>3, <1>6, <1>8, <1>9, <1>10, <1>11 DEF StoryOK
<1>13. QED
    BY <1>1, <1>9, <1>12

-----------------------------------------------------------------------------
(* What the linker makes of a run's items: stories of different ids that      *)
(* share out the items.                                                       *)
LinkedOK(list, sts) ==
    /\ Listed(sts)
    /\ \A k \in DOMAIN sts : StoryOK(sts[k])
    /\ \A k, l \in DOMAIN sts : sts[k].id = sts[l].id => k = l
    /\ \A i \in DOMAIN list : \E k \in DOMAIN sts : \E n \in DOMAIN sts[k].items : sts[k].items[n] = list[i]
    /\ \A k, l \in DOMAIN sts : \A n \in DOMAIN sts[k].items, m \in DOMAIN sts[l].items :
         sts[k].items[n].url = sts[l].items[m].url => k = l /\ n = m

LEMMA MergedLinked ==
    ASSUME NEW list, ItemsOK(list)
    PROVE  LinkedOK(list, MergeGroups(GroupCandidates(TagItems(list))))
<1> DEFINE T == TagItems(list)
           keys == [i \in DOMAIN T |-> GroupKey(T[i])]
           G == Grouped(T, keys)
           sts == MergeGroups(G)
           M(g, n) == Member(keys, g, n)
<1>1. DOMAIN T = DOMAIN list /\ \A i \in DOMAIN list : T[i] = TaggedOf(list[i])
    BY DEF TagItems, TaggedOf
<1> HIDE DEF T
<1>2. /\ DOMAIN keys = DOMAIN list /\ Listed(keys)
      /\ \A i \in DOMAIN list : keys[i] = GroupKey(TaggedOf(list[i])) /\ keys[i] \in [1..4 -> Int]
    BY <1>1, KeyOf DEF ItemsOK, Listed
<1>3. GroupCandidates(T) = G
    BY DEF GroupCandidates
<1> HIDE DEF keys
<1>4. /\ Listed(G)
      /\ \A g \in DOMAIN G : Listed(G[g]) /\ DOMAIN G[g] # {}
      /\ \A g \in DOMAIN G : \A n \in DOMAIN G[g] : M(g, n) \in DOMAIN keys /\ G[g][n] = T[M(g, n)]
      /\ \A g, h \in DOMAIN G : \A n \in DOMAIN G[g], m \in DOMAIN G[h] : (keys[M(g, n)] = keys[M(h, m)] <=> g = h)
      /\ \A g \in DOMAIN G : \A n, m \in DOMAIN G[g] : M(g, n) = M(g, m) => n = m
      /\ \A i \in DOMAIN keys : \E g \in DOMAIN G : \E n \in DOMAIN G[g] : M(g, n) = i
    BY <1>2, GroupedArranges
<1> HIDE DEF G, M
<1>5. \A g \in DOMAIN G : \A n \in DOMAIN G[g] : /\ M(g, n) \in DOMAIN list /\ G[g][n] = TaggedOf(list[M(g, n)])
                                                 /\ G[g][n].item = list[M(g, n)] /\ WindowItem(list[M(g, n)])
    BY <1>1, <1>2, <1>4 DEF ItemsOK, TaggedOf
<1>6. DOMAIN sts = DOMAIN G /\ \A g \in DOMAIN G : sts[g] = CreateStoryFromGroup(G[g])
    BY DEF MergeGroups
<1> HIDE DEF sts
<1>7. ASSUME NEW g \in DOMAIN G
      PROVE  /\ StoryOK(sts[g])
             /\ DOMAIN sts[g].items = DOMAIN G[g]
             /\ \A n \in DOMAIN G[g] : sts[g].items[n] = list[M(g, n)] /\ sts[g].id = keys[M(g, n)]
  <2>1. PICK m \in DOMAIN G[g] : TRUE
      BY <1>4
  <2> DEFINE K == keys[M(g, m)]
  <2>2. K \in [1..4 -> Int] /\ \A n \in DOMAIN G[g] : keys[M(g, n)] = K
      BY <1>2, <1>4
  <2> HIDE DEF K
  <2>3. \A n \in DOMAIN G[g] : /\ WindowItem(G[g][n].item) /\ G[g][n] = TaggedOf(G[g][n].item) /\ GroupKey(G[g][n]) = K
      BY <1>2, <1>5, <2>2
  <2>a. Listed(G[g]) /\ DOMAIN G[g] # {} /\ sts[g] = CreateStoryFromGroup(G[g])
      BY <1>4, <1>6
  <2>4. /\ StoryOK(sts[g]) /\ sts[g].id = K
        /\ sts[g].items = [n \in DOMAIN G[g] |-> G[g][n].item]
      BY <2>2, <2>3, <2>a, StoryOfGroup
  <2>5. QED
      BY <1>5, <2>2, <2>4
<1>8. Listed(sts)
    BY <1>4, <1>6 DEF Listed
<1>9. ASSUME NEW g \in DOMAIN G, NEW h \in DOMAIN G, sts[g].id = sts[h].id
      PROVE  g = h
  <2>1. PICK n \in DOMAIN G[g] : TRUE
      BY <1>4
  <2>2. PICK m \in DOMAIN G[h] : TRUE
      BY <1>4
  <2>3. QED
      BY <1>4, <1>7, <1>9, <2>1, <2>2
<1>10. \A i \in DOMAIN list : \E k \in DOMAIN sts : \E n \in DOMAIN sts[k].items : sts[k].items[n] = list[i]
    BY <1>2, <1>4, <1>6, <1>7
<1>11. ASSUME NEW g \in DOMAIN G, NEW h \in DOMAIN G, NEW n \in DOMAIN G[g], NEW m \in DOMAIN G[h],
              sts[g].items[n].url = sts[h].items[m].url
       PROVE  g = h /\ n = m
  <2>1. list[M(g, n)].url = list[M(h, m)].url
      BY <1>7, <1>11
  <2>2. M(g, n) = M(h, m)
      BY <1>5, <2>1 DEF ItemsOK
  <2>3. QED
      BY <1>4, <2>2
<1>12. LinkedOK(list, sts)
    BY <1>6, <1>7, <1>8, <1>9, <1>10, <1>11 DEF LinkedOK
<1>13. QED
    BY <1>3, <1>12 DEF sts, T

LEMMA LinkedRearranged ==
    ASSUME NEW list, NEW sts, LinkedOK(list, sts), NEW order, Arranges(order, DOMAIN sts),
           NEW new, DOMAIN new = DOMAIN order, \A n \in DOMAIN order : new[n] = sts[order[n]]
    PROVE  LinkedOK(list, new)
<1>1. \A n \in DOMAIN new : order[n] \in DOMAIN sts /\ new[n] = sts[order[n]]
    BY DEF Arranges
<1>2. \A k, l \in DOMAIN new : order[k] = order[l] => k = l
    BY DEF Arranges
<1>3. \A k \in DOMAIN sts : \E n \in DOMAIN new : order[n] = k
    BY DEF Arranges
<1>4. Listed(new)
    BY DEF Arranges, Listed
<1>5. \A k \in DOMAIN new : StoryOK(new[k])
    BY <1>1 DEF LinkedOK
<1>6. \A k, l \in DOMAIN new : new[k].id = new[l].id => k = l
    BY <1>1, <1>2 DEF LinkedOK
<1>7. \A i \in DOMAIN list : \E k \in DOMAIN new : \E n \in DOMAIN new[k].items : new[k].items[n] = list[i]
    BY <1>1, <1>3 DEF LinkedOK
<1>8. \A k, l \in DOMAIN new : \A n \in DOMAIN new[k].items, m \in DOMAIN new[l].items :
        new[k].items[n].url = new[l].items[m].url => k = l /\ n = m
    BY <1>1, <1>2 DEF LinkedOK
<1>9. QED
    BY <1>4, <1>5, <1>6, <1>7, <1>8 DEF LinkedOK

LEMMA StoryDay ==
    ASSUME NEW st, StoryOK(st)
    PROVE  st.day \in Nat /\ (st.day # None => \E n \in DOMAIN st.items : st.day = st.items[n].day)
<1>1. \A n \in DOMAIN st.items : st.items[n].day \in Nat
    BY DEF StoryOK, WindowItem, StoredItem
<1>2. QED
    BY <1>1 DEF StoryOK, None

LEMMA FinalLinked ==
    ASSUME NEW list, NEW sts, LinkedOK(list, sts)
    PROVE  LinkedOK(list, FinalizeStories(sts))
<1> DEFINE keys == [k \in DOMAIN sts |-> FinalOrder(sts[k])]
<1>1. Listed(keys) /\ DOMAIN keys = DOMAIN sts
    BY DEF LinkedOK, Listed
<1>2. ASSUME NEW k \in DOMAIN sts
      PROVE  FinalOrder(sts[k]) \in [1..6 -> Int]
  <2>1. StoryOK(sts[k])
      BY DEF LinkedOK
  <2>2. sts[k].day \in Int
      BY <2>1, StoryDay
  <2>3. sts[k].id[1] \in Int /\ sts[k].id[2] \in Int /\ sts[k].id[3] \in Int /\ sts[k].id[4] \in Int
      BY <2>1 DEF StoryOK
  <2>5. <<1, 0, sts[k].id[1], sts[k].id[2], sts[k].id[3], sts[k].id[4]>> \in [1..6 -> Int]
      BY <2>3
  <2>6. <<0, -sts[k].day, -sts[k].id[1], -sts[k].id[2], -sts[k].id[3], -sts[k].id[4]>> \in [1..6 -> Int]
      BY <2>2, <2>3
  <2>7. QED
      BY <2>5, <2>6 DEF FinalOrder
<1>3. Keyed(keys, 6)
    BY <1>1, <1>2 DEF Keyed
<1>4. FinalizeStories(sts) = SortBy(sts, keys)
    BY DEF FinalizeStories
<1> HIDE DEF keys
<1>5. /\ Arranges(OrderOf(keys), DOMAIN sts)
      /\ DOMAIN SortBy(sts, keys) = DOMAIN OrderOf(keys)
      /\ \A n \in DOMAIN OrderOf(keys) : SortBy(sts, keys)[n] = sts[OrderOf(keys)[n]]
    BY <1>1, <1>3, SortArranges
<1>6. QED
    BY <1>4, <1>5, LinkedRearranged

-----------------------------------------------------------------------------
(* A story's score is a number.                                               *)
LEMMA ScoringTyped ==
    /\ Scoring.tier0 \in Int /\ Scoring.tier1 \in Int /\ Scoring.tier2 \in Int
    /\ Scoring.otherKind \in Int /\ \A kind \in DOMAIN Scoring.kinds : Scoring.kinds[kind] \in Int
    /\ Scoring.topicCap \in Int /\ Scoring.undated \in Int /\ \A age \in DOMAIN Scoring.decay : Scoring.decay[age] \in Int
    /\ Scoring.maxRecencyDays \in Int /\ Scoring.entityMatch \in Int
    /\ \A count \in DOMAIN Scoring.logCitations : Scoring.logCitations[count] \in Int
    /\ Scoring.fullCitations \in Int /\ Scoring.citation \in Int
    /\ Scoring.crossSource \in Int /\ Scoring.crossSourceCap \in Int
    /\ Scoring.similarityThreshold \in Int /\ Scoring.semantic \in Int /\ Scoring.llmWeight \in Int
<1>1. Scoring \in
         [tier0 : Int, tier1 : Int, tier2 : Int, kinds : [DOMAIN Scoring.kinds -> Int], otherKind : Int,
          topicMatch : Int, topicCap : Int, undated : Int, decay : [DOMAIN Scoring.decay -> Int],
          maxRecencyDays : Int, entityMatch : Int, logCitations : [DOMAIN Scoring.logCitations -> Int],
          fullCitations : Int, citation : Int, crossSource : Int, crossSourceCap : Int,
          similarityThreshold : Int, semantic : Int, llmWeight : Int, llmFull : Int]
    BY SelectionAssumption
<1> DEFINE kinds == [DOMAIN Scoring.kinds -> Int]
           decays == [DOMAIN Scoring.decay -> Int]
           logs == [DOMAIN Scoring.logCitations -> Int]
<1>2. /\ Scoring.tier0 \in Int /\ Scoring.tier1 \in Int /\ Scoring.tier2 \in Int
      /\ Scoring.otherKind \in Int /\ Scoring.kinds \in kinds
      /\ Scoring.topicCap \in Int /\ Scoring.undated \in Int /\ Scoring.decay \in decays
      /\ Scoring.maxRecencyDays \in Int /\ Scoring.entityMatch \in Int
      /\ Scoring.logCitations \in logs
      /\ Scoring.fullCitations \in Int /\ Scoring.citation \in Int
      /\ Scoring.crossSource \in Int /\ Scoring.crossSourceCap \in Int
      /\ Scoring.similarityThreshold \in Int /\ Scoring.semantic \in Int /\ Scoring.llmWeight \in Int
    BY <1>1
<1>3. /\ \A kind \in DOMAIN Scoring.kinds : Scoring.kinds[kind] \in Int
      /\ \A age \in DOMAIN Scoring.decay : Scoring.decay[age] \in Int
      /\ \A count \in DOMAIN Scoring.logCitations : Scoring.logCitations[count] \in Int
    BY <1>2
<1>4. QED
    BY <1>2, <1>3

LEMMA LeastTyped ==
    ASSUME NEW a \in Int, NEW b \in Int
    PROVE  Least(a, b) \in Int
BY DEF Least

LEMMA ProductTyped ==
    ASSUME NEW a \in Int, NEW b \in Int
    PROVE  a * b \in Int
OBVIOUS

LEMMA ItemsOfStory ==
    ASSUME NEW st, StoryOK(st)
    PROVE  /\ 1 \in DOMAIN st.items /\ IsFiniteSet(DOMAIN st.items)
           /\ \A n \in DOMAIN st.items : /\ st.items[n].topics \subseteq DOMAIN Topics
                                         /\ st.items[n].citations \in DOMAIN Scoring.logCitations
                                         /\ st.items[n].signals \subseteq QualitySignals
           /\ st.primary.tier \in Int /\ st.primary.title \in DOMAIN Similar /\ st.primary.url \in Int
<1>1. 1 \in DOMAIN st.items
    BY DEF StoryOK, Listed
<1>2. IsFiniteSet(DOMAIN st.items)
    BY PlacesFinite DEF StoryOK
<1>3. \A n \in DOMAIN st.items : st.items[n] \in StoredItem
    BY DEF StoryOK, WindowItem
<1>4. \A n \in DOMAIN st.items : /\ st.items[n].topics \subseteq DOMAIN Topics
                                 /\ st.items[n].citations \in DOMAIN Scoring.logCitations
                                 /\ st.items[n].signals \subseteq QualitySignals
    BY <1>3 DEF StoredItem
<1>5. PICK n \in DOMAIN st.items : st.primary = CreateStoryLink(st.items[n])
    BY DEF StoryOK
<1>6. st.items[n].tier \in Nat /\ st.items[n].title \in DOMAIN Similar /\ st.items[n].url \in Nat
    BY <1>3 DEF StoredItem
<1>7. st.primary.tier \in Int /\ st.primary.title \in DOMAIN Similar /\ st.primary.url \in Int
    BY <1>5, <1>6 DEF CreateStoryLink
<1>8. QED
    BY <1>1, <1>2, <1>4, <1>7

LEMMA RecencyTyped ==
    ASSUME NEW st, StoryOK(st)
    PROVE  ComputeRecencyScore(st) \in Int
<1>1. ASSUME st.day # None
      PROVE  Scoring.decay[Least(Today - st.day, Scoring.maxRecencyDays)] \in Int
  <2>1. PICK n \in DOMAIN st.items : st.day = st.items[n].day
      BY <1>1, StoryDay
  <2>2. WindowItem(st.items[n])
      BY DEF StoryOK
  <2>3. PICK p \in DOMAIN Pool : st.items[n] = Pool[p] /\ InWindow(Pool[p])
      BY <2>2 DEF WindowItem
  <2>4. Least(Today - st.day, Scoring.maxRecencyDays) \in DOMAIN Scoring.decay
      BY <2>1, <2>3, SelectionAssumption
  <2>5. QED
      BY <2>4, ScoringTyped
<1>2. QED
    BY <1>1, ScoringTyped DEF ComputeRecencyScore

LEMMA CitationTyped ==
    ASSUME NEW st, StoryOK(st)
    PROVE  ComputeCitationScore(st) \in Int
<1> DEFINE its == st.items
           counts == {0} \cup {its[i].citations : i \in DOMAIN its}
           best == CHOOSE c \in counts : \A d \in counts : d <= c
           down == {pair \in counts \X counts : pair[2] < pair[1]}
           f == [i \in DOMAIN its |-> its[i].citations]
           told == {its[i].citations : i \in DOMAIN its}
<1>1. IsFiniteSet(counts)
  <2>1. IsFiniteSet(DOMAIN its)
      BY ItemsOfStory
  <2>2. f \in Surjection(DOMAIN its, told)
      BY DEF Surjection
  <2>3. IsFiniteSet(told)
      BY <2>1, <2>2, FS_Surjection
  <2>4. IsFiniteSet({0})
      BY FS_Singleton
  <2>5. QED
      BY <2>3, <2>4, FS_Union
<1>2. counts \subseteq DOMAIN Scoring.logCitations /\ counts # {}
  <2>1. 0 \in DOMAIN Scoring.logCitations
      BY SelectionAssumption
  <2>2. QED
      BY <2>1, ItemsOfStory
<1>3. counts \subseteq Int
  <2>1. DOMAIN Scoring.logCitations \subseteq Nat
      BY SelectionAssumption
  <2>2. QED
      BY <1>2, <2>1
<1>4. ComputeCitationScore(st) = Least(Scoring.logCitations[best], Scoring.fullCitations) * Scoring.citation
    BY DEF ComputeCitationScore
<1> HIDE DEF counts
<1>5. StrictlyOrders(down, counts)
    BY <1>3 DEF StrictlyOrders
<1>6. PICK c \in counts : \A d \in counts : c = d \/ <<c, d>> \in down
    BY <1>1, <1>2, <1>5, FirstExists
<1>7. \A d \in counts : d <= c
  <2> TAKE d \in counts
  <2>1. c \in Int /\ d \in Int
      BY <1>3
  <2>2. <<c, d>> \in down => d < c
      OBVIOUS
  <2> HIDE DEF down
  <2>3. c = d \/ d < c
      BY <1>6, <2>2
  <2>4. QED
      BY <2>1, <2>3
<1>8. best \in counts
    BY <1>7
<1> HIDE DEF best
<1>9. Scoring.logCitations[best] \in Int
    BY <1>2, <1>8, ScoringTyped
<1>10. Least(Scoring.logCitations[best], Scoring.fullCitations) \in Int
    BY <1>9, LeastTyped, ScoringTyped
<1>11. QED
    BY <1>4, <1>10, ProductTyped, ScoringTyped

LEMMA CrossSourceTyped ==
    ASSUME NEW st, StoryOK(st)
    PROVE  ComputeCrossSourceScore(st) \in Int
<1> DEFINE told == UNION {MatchedSources(st.items[i]) : i \in DOMAIN st.items}
<1>1. told \subseteq QualitySignals
    BY ItemsOfStory DEF MatchedSources
<1>2. IsFiniteSet(QualitySignals)
    BY SelectionAssumption
<1>3. Cardinality(told) \in Int
    BY <1>1, <1>2, FS_Subset, FS_CardinalityType
<1>4. ComputeCrossSourceScore(st) = Least(Scoring.crossSource * Cardinality(told), Scoring.crossSourceCap)
    BY DEF ComputeCrossSourceScore
<1> HIDE DEF told
<1>5. Scoring.crossSource * Cardinality(told) \in Int
    BY <1>3, ProductTyped, ScoringTyped
<1>6. QED
    BY <1>4, <1>5, LeastTyped, ScoringTyped

LEMMA SemanticTyped ==
    ASSUME NEW st, StoryOK(st)
    PROVE  ComputeSemanticScore(st) \in Int
<1> DEFINE matches == Similar[st.primary.title]
           P == {i \in DOMAIN matches : matches[i][1] >= Scoring.similarityThreshold}
           up == Upwards(P)
           above == Pick(matches, P)
           keys == [i \in DOMAIN above |-> <<-above[i][1]>>]
           best == SortBy(above, keys)
           Part(n) == IF n \in DOMAIN best THEN best[n][1] * best[n][2] ELSE 0
<1>1. matches \in Seq(Int \X Int)
  <2>1. st.primary.title \in DOMAIN Similar
      BY ItemsOfStory
  <2>2. \A title \in DOMAIN Similar : Similar[title] \in Seq(Int \X Int)
      BY SelectionAssumption
  <2>3. QED
      BY <2>1, <2>2
<1>2. ComputeSemanticScore(st) = Scoring.semantic * (Part(1) + Part(2) + Part(3))
    BY DEF ComputeSemanticScore
<1> HIDE DEF matches
<1>3. \A i \in DOMAIN matches : matches[i][1] \in Int /\ matches[i][2] \in Int
  <2> DEFINE pairs == Int \X Int
  <2>1. \A pair \in pairs : pair[1] \in Int /\ pair[2] \in Int
      OBVIOUS
  <2>2. matches \in Seq(pairs)
      BY <1>1
  <2> HIDE DEF pairs
  <2>3. \A i \in DOMAIN matches : matches[i] \in pairs
      BY <2>2
  <2>4. QED
      BY <2>1, <2>3
<1>4. Listed(matches)
    BY <1>1 DEF Listed
<1>5. Arranges(up, P)
    BY <1>4, UpwardsArranges
<1>6. above = [n \in DOMAIN up |-> matches[up[n]]]
    BY DEF Pick, Elements
<1>7. \A n \in DOMAIN up : up[n] \in DOMAIN matches
    BY <1>5 DEF Arranges
<1> HIDE DEF up, P, above
<1>8. \A n \in DOMAIN above : above[n][1] \in Int /\ above[n][2] \in Int
    BY <1>3, <1>6, <1>7
<1>9. Keyed(keys, 1) /\ DOMAIN keys = DOMAIN above
  <2>1. Listed(keys) /\ DOMAIN keys = DOMAIN above
      BY <1>5, <1>6 DEF Arranges, Listed
  <2>2. ASSUME NEW i \in DOMAIN above
        PROVE  keys[i] \in [1..1 -> Int]
    <3>1. -above[i][1] \in Int
        BY <1>8
    <3>2. keys[i] = <<-above[i][1]>>
        OBVIOUS
    <3>3. QED
        BY <3>1, <3>2
  <2>3. QED
      BY <2>1, <2>2 DEF Keyed
<1> HIDE DEF keys
<1>10. /\ Arranges(OrderOf(keys), DOMAIN above)
       /\ DOMAIN best = DOMAIN OrderOf(keys)
       /\ \A n \in DOMAIN OrderOf(keys) : best[n] = above[OrderOf(keys)[n]]
    BY <1>9, SortArranges
<1>11. \A n \in DOMAIN OrderOf(keys) : OrderOf(keys)[n] \in DOMAIN above
    BY <1>10 DEF Arranges
<1> HIDE DEF best
<1>12. \A n \in DOMAIN best : best[n][1] \in Int /\ best[n][2] \in Int
    BY <1>8, <1>10, <1>11
<1>13. \A n \in DOMAIN best : best[n][1] * best[n][2] \in Int
    BY <1>12, ProductTyped
<1>14. \A n \in 1..3 : Part(n) \in Int
    BY <1>13
<1>15. Part(1) \in Int /\ Part(2) \in Int /\ Part(3) \in Int
    BY <1>14
<1> HIDE DEF Part
<1>16. Part(1) + Part(2) + Part(3) \in Int
    BY <1>15
<1>17. QED
    BY <1>2, <1>16, ProductTyped, ScoringTyped

LEMMA TotalTyped ==
    ASSUME NEW st, StoryOK(st), NEW scores \in LlmScores
    PROVE  ScoreStory(st, scores).total \in Int
<1>1. ComputeTierScore(st) \in Int
    BY ScoringTyped DEF ComputeTierScore
<1>2. ComputeKindScore(st) \in Int
    BY ScoringTyped DEF ComputeKindScore
<1>3. ComputeTopicScore(st) \in Int
  <2>1. MatchText(st) \in SUBSET DOMAIN Topics
      BY ItemsOfStory DEF MatchText
  <2>2. BoostOf(MatchText(st)) \in Int
      BY <2>1, SelectionAssumption
  <2>3. QED
      BY <2>2, LeastTyped, ScoringTyped DEF ComputeTopicScore
<1>4. ComputeEntityScore(st) \in Int
  <2>1. Len(st.entities) \in Int
      BY DEF StoryOK
  <2>2. QED
      BY <2>1, ProductTyped, ScoringTyped DEF ComputeEntityScore
<1>5. ComputeLlmRelevanceScore(st, scores) \in Int
  <2> DEFINE told == IF st.id \in DOMAIN scores THEN scores[st.id] ELSE 0
  <2>1. told \in Int
    <3>1. \A id \in DOMAIN scores : scores[id] \in Int
        BY SelectionAssumption
    <3>2. QED
        BY <3>1
  <2>2. ComputeLlmRelevanceScore(st, scores) = told * Scoring.llmWeight
      BY DEF ComputeLlmRelevanceScore
  <2> HIDE DEF told
  <2>3. QED
      BY <2>1, <2>2, ProductTyped, ScoringTyped
<1>6. /\ ComputeRecencyScore(st) \in Int /\ ComputeCitationScore(st) \in Int
      /\ ComputeCrossSourceScore(st) \in Int /\ ComputeSemanticScore(st) \in Int
    BY RecencyTyped, CitationTyped, CrossSourceTyped, SemanticTyped
<1>7. QED
    BY <1>1, <1>2, <1>3, <1>4, <1>5, <1>6 DEF ScoreStory

-----------------------------------------------------------------------------
(* Only one list has the elements of S in the order of R.                     *)
LEMMA InOrderOnly ==
    ASSUME NEW S, IsFiniteSet(S), NEW R, StrictlyOrders(R, S),
           NEW at, Arranges(at, S), at = [n \in DOMAIN at |-> at[n]],
           \A i, j \in DOMAIN at : i < j => <<at[i], at[j]>> \in R
    PROVE  at = InOrder(S, R)
<1>1. PICK m \in Nat : DOMAIN at = 1..m
    BY DEF Arranges, Listed
<1>3. at \in Bijection(1..m, S)
    BY <1>1 DEF Arranges, Bijection, Injection, Surjection, IsInjective
<1>4. Cardinality(S) = m
    BY <1>1, <1>3, FS_CountingElements DEF ExistsBijection
<1>5. ASSUME NEW n \in 1..m
      PROVE  at[n] \in S /\ Cardinality({y \in S : <<y, at[n]>> \in R}) = n - 1
  <2> DEFINE ahead == {y \in S : <<y, at[n]>> \in R}
             before == [k \in 1..(n - 1) |-> at[k]]
  <2>1. at[n] \in S
      BY <1>1 DEF Arranges
  <2>2. \A k \in 1..(n - 1) : k \in 1..m /\ k < n /\ at[k] \in ahead
      BY <1>1 DEF Arranges
  <2>3. ASSUME NEW y \in ahead
        PROVE  \E k \in 1..(n - 1) : at[k] = y
    <3>1. PICK k \in 1..m : at[k] = y
        BY <1>1 DEF Arranges
    <3>2. k # n
        BY <2>1, <3>1 DEF StrictlyOrders
    <3>3. ~(n < k)
      <4>1. SUFFICES ASSUME n < k
                     PROVE  FALSE
          OBVIOUS
      <4>2. <<at[n], y>> \in R /\ <<y, at[n]>> \in R
          BY <1>1, <3>1, <4>1
      <4>3. QED
          BY <2>1, <4>2 DEF StrictlyOrders
    <3>4. k \in 1..(n - 1)
        BY <3>2, <3>3
    <3>5. QED
        BY <3>1, <3>4
  <2>4. \A k, l \in 1..(n - 1) : at[k] = at[l] => k = l
      BY <1>1, <2>2 DEF Arranges
  <2> HIDE DEF ahead
  <2>5. before \in Bijection(1..(n - 1), ahead)
      BY <2>2, <2>3, <2>4 DEF Bijection, Injection, Surjection, IsInjective
  <2>6. n - 1 \in Nat
      OBVIOUS
  <2>7. Cardinality(ahead) = n - 1
      BY <2>5, <2>6, FS_CountingElements DEF ExistsBijection
  <2>8. QED
      BY <2>1, <2>7 DEF ahead
<1>6. ASSUME NEW x \in S, NEW y \in S, Cardinality({z \in S : <<z, x>> \in R}) = Cardinality({z \in S : <<z, y>> \in R})
      PROVE  x = y
  <2>1. /\ Cardinality(AheadOf(x, S, R)) = Cardinality(AheadOf(y, S, R))
        /\ Cardinality(AheadOf(x, S, R)) \in Int /\ Cardinality(AheadOf(y, S, R)) \in Int
      BY <1>6, AheadCounted DEF AheadOf
  <2>2. <<x, y>> \in R => Cardinality(AheadOf(x, S, R)) < Cardinality(AheadOf(y, S, R))
      BY AheadCounted
  <2>3. <<y, x>> \in R => Cardinality(AheadOf(y, S, R)) < Cardinality(AheadOf(x, S, R))
      BY AheadCounted
  <2>4. <<x, y>> \notin R /\ <<y, x>> \notin R
      BY <2>1, <2>2, <2>3
  <2>5. QED
      BY <2>4 DEF StrictlyOrders
<1>7. \A n \in 1..m : (CHOOSE x \in S : Cardinality({y \in S : <<y, x>> \in R}) = n - 1) = at[n]
  <2> TAKE n \in 1..m
  <2> DEFINE Fits(x) == Cardinality({y \in S : <<y, x>> \in R}) = n - 1
  <2>1. at[n] \in S /\ Fits(at[n])
      BY <1>5
  <2>2. \A x \in S : Fits(x) => x = at[n]
      BY <1>6, <2>1
  <2> HIDE DEF Fits
  <2>3. (CHOOSE x \in S : Fits(x)) = at[n]
      BY <2>1, <2>2
  <2>4. QED
      BY <2>3 DEF Fits
<1>8. InOrder(S, R) = [n \in 1..m |-> at[n]]
    BY <1>4, <1>7 DEF InOrder
<1>9. QED
    BY <1>1, <1>8

(* Lists of the same elements with keys of their own are sorted alike.        *)
LEMMA SortedAlike ==
    ASSUME NEW m, NEW a, Keyed(a, m), \A i, j \in DOMAIN a : a[i] = a[j] => i = j,
           NEW p, Arranges(p, DOMAIN a),
           NEW b, DOMAIN b = DOMAIN p, \A n \in DOMAIN p : b[n] = a[p[n]],
           NEW s, NEW t, \A n \in DOMAIN p : t[n] = s[p[n]]
    PROVE  SortBy(s, a) = SortBy(t, b)
<1>1. \A n \in DOMAIN p : p[n] \in DOMAIN a
    BY DEF Arranges
<1>2. Keyed(b, m)
    BY <1>1 DEF Keyed, Arranges, Listed
<1> DEFINE u == OrderOf(b)
           v == [n \in DOMAIN u |-> p[u[n]]]
<1>3. /\ Arranges(u, DOMAIN p) /\ DOMAIN SortBy(t, b) = DOMAIN u
      /\ \A i, j \in DOMAIN u : i < j => <<u[i], u[j]>> \in KeyedLess(b)
    BY <1>2, SortArranges
<1>4. SortBy(t, b) = [n \in DOMAIN u |-> t[u[n]]]
    BY DEF SortBy, Elements, OrderOf
<1> HIDE DEF u
<1>5. \A n \in DOMAIN u : u[n] \in DOMAIN p
    BY <1>3 DEF Arranges
<1>6. Arranges(v, DOMAIN a)
  <2>1. Listed(v) /\ \A n \in DOMAIN v : v[n] \in DOMAIN a
      BY <1>1, <1>3, <1>5 DEF Arranges, Listed
  <2>2. ASSUME NEW x \in DOMAIN a
        PROVE  \E n \in DOMAIN v : v[n] = x
    <3>1. PICK k \in DOMAIN p : p[k] = x
        BY DEF Arranges
    <3>2. PICK n \in DOMAIN u : u[n] = k
        BY <1>3, <3>1 DEF Arranges
    <3>3. QED
        BY <3>1, <3>2
  <2>3. \A i, j \in DOMAIN v : v[i] = v[j] => i = j
    <3> TAKE i, j \in DOMAIN v
    <3> HAVE v[i] = v[j]
    <3>1. u[i] = u[j]
        BY <1>5 DEF Arranges
    <3>2. QED
        BY <1>3, <3>1 DEF Arranges
  <2>4. QED
      BY <2>1, <2>2, <2>3 DEF Arranges
<1>7. ASSUME NEW i \in DOMAIN v, NEW j \in DOMAIN v, i < j
      PROVE  <<v[i], v[j]>> \in KeyedLess(a)
  <2>1. <<u[i], u[j]>> \in KeyedLess(b)
      BY <1>3, <1>7
  <2>2. LexLess(b[u[i]], b[u[j]]) \/ (b[u[i]] = b[u[j]] /\ u[i] < u[j])
      BY <2>1 DEF KeyedLess
  <2>3. u[i] \in DOMAIN p /\ u[j] \in DOMAIN p /\ v[i] = p[u[i]] /\ v[j] = p[u[j]] /\ v[i] \in DOMAIN a /\ v[j] \in DOMAIN a
      BY <1>1, <1>5
  <2>4. ~(b[u[i]] = b[u[j]] /\ u[i] < u[j])
    <3>1. SUFFICES ASSUME b[u[i]] = b[u[j]], u[i] < u[j]
                   PROVE  FALSE
        OBVIOUS
    <3>2. u[i] = u[j]
        BY <2>3, <3>1 DEF Arranges
    <3>3. u[i] \in Int
        BY <2>3 DEF Arranges, Listed
    <3>4. QED
        BY <3>1, <3>2, <3>3
  <2>5. LexLess(a[v[i]], a[v[j]])
      BY <2>2, <2>3, <2>4
  <2> HIDE DEF v
  <2>6. QED
      BY <2>3, <2>5 DEF KeyedLess
<1>8. v = InOrder(DOMAIN a, KeyedLess(a))
  <2>1. IsFiniteSet(DOMAIN a) /\ StrictlyOrders(KeyedLess(a), DOMAIN a)
      BY KeyedOrders
  <2>2. v = [n \in DOMAIN v |-> v[n]]
      OBVIOUS
  <2> HIDE DEF v
  <2>3. QED
      BY <1>6, <1>7, <2>1, <2>2, InOrderOnly
<1>9. SortBy(s, a) = [n \in DOMAIN v |-> s[v[n]]]
    BY <1>8 DEF SortBy, Elements
<1>10. \A n \in DOMAIN u : t[u[n]] = s[v[n]]
    BY <1>5
<1>11. DOMAIN v = DOMAIN u
    OBVIOUS
<1> HIDE DEF v
<1>12. QED
    BY <1>4, <1>9, <1>10, <1>11

(* What the ranker sorts by: never the same for two stories.                  *)
ScoreKeys(scs) == [k \in DOMAIN scs |-> ScoreOrder(scs[k])]

LEMMA ScoresKeyed ==
    ASSUME NEW list, NEW sts, LinkedOK(list, sts), NEW scores \in LlmScores
    PROVE  LET scs == ScoreStories(sts, scores) IN
           /\ DOMAIN scs = DOMAIN sts /\ \A k \in DOMAIN sts : scs[k] = ScoreStory(sts[k], scores) /\ scs[k].story = sts[k]
           /\ Keyed(ScoreKeys(scs), 3) /\ DOMAIN ScoreKeys(scs) = DOMAIN sts
           /\ \A i, j \in DOMAIN sts : ScoreKeys(scs)[i] = ScoreKeys(scs)[j] => i = j
           /\ SortByScore(scs) = SortBy(scs, ScoreKeys(scs))
<1> DEFINE scs == ScoreStories(sts, scores)
           keys == ScoreKeys(scs)
<1>1. DOMAIN scs = DOMAIN sts /\ \A k \in DOMAIN sts : scs[k] = ScoreStory(sts[k], scores) /\ scs[k].story = sts[k]
    BY DEF ScoreStories, ScoreStory
<1> HIDE DEF scs
<1>2. DOMAIN keys = DOMAIN sts /\ \A k \in DOMAIN sts : keys[k] = ScoreOrder(scs[k])
    BY <1>1 DEF ScoreKeys
<1>3. Listed(keys)
    BY <1>2 DEF LinkedOK, Listed
<1>4. \A k \in DOMAIN sts : StoryOK(sts[k])
    BY DEF LinkedOK
<1>5. ASSUME NEW k \in DOMAIN sts
      PROVE  ScoreOrder(scs[k]) \in [1..3 -> Int] /\ ScoreOrder(scs[k])[3] = sts[k].primary.url
  <2> DEFINE late == IF sts[k].day = None THEN 1 ELSE -sts[k].day
  <2>1. ScoreOrder(scs[k]) = <<-scs[k].total, late, sts[k].primary.url>>
      BY <1>1 DEF ScoreOrder
  <2>2. scs[k].total \in Int /\ sts[k].day \in Int /\ sts[k].primary.url \in Int
      BY <1>1, <1>4, TotalTyped, StoryDay, ItemsOfStory
  <2>3. late \in Int /\ -scs[k].total \in Int
      BY <2>2
  <2> HIDE DEF late
  <2>4. QED
      BY <2>1, <2>2, <2>3
<1>6. Keyed(keys, 3)
    BY <1>2, <1>3, <1>5 DEF Keyed
<1>7. ASSUME NEW i \in DOMAIN sts, NEW j \in DOMAIN sts, keys[i] = keys[j]
      PROVE  i = j
  <2>1. sts[i].primary.url = sts[j].primary.url
      BY <1>2, <1>5, <1>7
  <2>2. PICK n \in DOMAIN sts[i].items : sts[i].primary = CreateStoryLink(sts[i].items[n])
      BY <1>4 DEF StoryOK
  <2>3. PICK l \in DOMAIN sts[j].items : sts[j].primary = CreateStoryLink(sts[j].items[l])
      BY <1>4 DEF StoryOK
  <2>4. sts[i].items[n].url = sts[j].items[l].url
      BY <2>1, <2>2, <2>3 DEF CreateStoryLink
  <2>5. QED
      BY <2>2, <2>3, <2>4 DEF LinkedOK
<1>8. SortByScore(scs) = SortBy(scs, keys)
    BY DEF SortByScore, ScoreKeys
<1>9. QED
    BY <1>1, <1>2, <1>6, <1>7, <1>8 DEF scs

LEMMA RearrangedRankedAlike ==
    ASSUME NEW list, NEW sts, LinkedOK(list, sts), NEW scores \in LlmScores,
           NEW p, Arranges(p, DOMAIN sts), NEW other, DOMAIN other = DOMAIN p, \A n \in DOMAIN p : other[n] = sts[p[n]]
    PROVE  SortByScore(ScoreStories(other, scores)) = SortByScore(ScoreStories(sts, scores))
<1> DEFINE A == ScoreStories(sts, scores)
           B == ScoreStories(other, scores)
<1>1. LinkedOK(list, other)
    BY LinkedRearranged
<1>2. /\ DOMAIN A = DOMAIN sts /\ \A k \in DOMAIN sts : A[k] = ScoreStory(sts[k], scores)
      /\ Keyed(ScoreKeys(A), 3) /\ DOMAIN ScoreKeys(A) = DOMAIN sts
      /\ \A i, j \in DOMAIN sts : ScoreKeys(A)[i] = ScoreKeys(A)[j] => i = j
      /\ SortByScore(A) = SortBy(A, ScoreKeys(A))
    BY ScoresKeyed
<1>3. /\ DOMAIN B = DOMAIN other /\ \A k \in DOMAIN other : B[k] = ScoreStory(other[k], scores)
      /\ DOMAIN ScoreKeys(B) = DOMAIN other
      /\ SortByScore(B) = SortBy(B, ScoreKeys(B))
    BY <1>1, ScoresKeyed
<1> HIDE DEF A, B
<1>4. \A n \in DOMAIN p : p[n] \in DOMAIN sts /\ B[n] = A[p[n]]
    BY <1>2, <1>3 DEF Arranges
<1>5. \A n \in DOMAIN p : ScoreKeys(B)[n] = ScoreKeys(A)[p[n]]
    BY <1>2, <1>3, <1>4 DEF ScoreKeys
<1>6. SortBy(A, ScoreKeys(A)) = SortBy(B, ScoreKeys(B))
    BY <1>2, <1>3, <1>4, <1>5, SortedAlike
<1>7. QED
    BY <1>2, <1>3, <1>6 DEF A, B

-----------------------------------------------------------------------------
(* What the variables hold, step by step.                                     *)
Merged == {"STORIES_MERGED", "STORIES_FINAL", "SCORED", "QUOTA_FILTERED", "ORDERED_OUTPUTS"}
Scored == {"SCORED", "QUOTA_FILTERED", "ORDERED_OUTPUTS"}
LinkState ==
    /\ state \in Merged \cup {"ITEMS_READY", "ENTITY_TAGGED", "CANDIDATE_GROUPED"}
    /\ ItemsOK(items) /\ llm \in LlmScores
    /\ state = "ENTITY_TAGGED" => tagged = TagItems(items)
    /\ state = "CANDIDATE_GROUPED" => groups = GroupCandidates(TagItems(items))
    /\ state \in Merged => LinkedOK(items, stories)
    /\ state \in Scored => scored = ScoreStories(stories, llm)
    /\ pass # "none" => state \in Scored /\ ranked = SortByScore(scored)
    /\ Filtered => pass # "none"

LEMMA LinkStart == SelectionInit => LinkState
<1> SUFFICES ASSUME SelectionInit
             PROVE  LinkState
    OBVIOUS
<1>1. ItemsOK(items)
    BY QueryOK DEF SelectionInit
<1>2. QED
    BY <1>1 DEF SelectionInit, LinkState, Merged, Scored, Filtered

LEMMA LinkStep ==
    ASSUME LinkState, [SelectionNext]_selectionVars
    PROVE  LinkState'
<1> USE DEF Merged, Scored, Filtered
<1>1. CASE ToEntityTagged
    BY <1>1 DEF LinkState, ToEntityTagged, Become, filterVars
<1>2. CASE ToCandidateGrouped
    BY <1>2 DEF LinkState, ToCandidateGrouped, Become, filterVars
<1>3. CASE ToStoriesMerged
  <2>1. LinkedOK(items, MergeGroups(groups))
      BY <1>3, MergedLinked DEF LinkState, ToStoriesMerged, Become
  <2>2. QED
      BY <1>3, <2>1 DEF LinkState, ToStoriesMerged, Become, filterVars
<1>4. CASE ToStoriesFinal
  <2>1. LinkedOK(items, FinalizeStories(stories))
      BY <1>4, FinalLinked DEF LinkState, ToStoriesFinal, Become
  <2>2. QED
      BY <1>4, <2>1 DEF LinkState, ToStoriesFinal, Become, filterVars
<1>5. CASE ToScored
    BY <1>5 DEF LinkState, ToScored, Become, filterVars
<1>6. CASE SortAndExclude
    BY <1>6 DEF LinkState, SortAndExclude, BeginPass, linkedVars
<1>7. CASE PassOver \/ Admit \/ Drop
    BY <1>7 DEF LinkState, PassOver, Admit, Drop, Visit, linkedVars
<1>8. CASE NextPass
    BY <1>8 DEF LinkState, NextPass, BeginPass, linkedVars
<1>9. CASE ToQuotaFiltered
    BY <1>9 DEF LinkState, ToQuotaFiltered, Become, linkedVars, filterVars
<1>10. CASE ToOrderedOutputs
    BY <1>10 DEF LinkState, ToOrderedOutputs, Become, linkedVars, filterVars
<1>11. CASE UNCHANGED selectionVars
    BY <1>11 DEF LinkState, selectionVars, linkedVars, filterVars
<1>12. QED
    BY <1>1, <1>2, <1>3, <1>4, <1>5, <1>6, <1>7, <1>8, <1>9, <1>10, <1>11 DEF SelectionNext

(* However the linker orders the stories, the ranker ranks them alike:        *)
(* whatever items, scores and order of the store's answers there are.         *)
THEOREM RankingOrderIrrelevant == SelectionSpec => []OrderIrrelevant
<1>1. LinkState => OrderIrrelevant
  <2> SUFFICES ASSUME LinkState, Filtered, NEW i \in DOMAIN stories, NEW j \in DOMAIN stories
               PROVE  SortByScore(ScoreStories([stories EXCEPT ![i] = stories[j], ![j] = stories[i]], llm)) = ranked
      BY DEF OrderIrrelevant
  <2> DEFINE other == [stories EXCEPT ![i] = stories[j], ![j] = stories[i]]
             p == [k \in DOMAIN stories |-> IF k = j THEN i ELSE IF k = i THEN j ELSE k]
  <2>1. /\ LinkedOK(items, stories) /\ llm \in LlmScores
        /\ ranked = SortByScore(ScoreStories(stories, llm))
      BY DEF LinkState, Filtered, Merged, Scored
  <2>2. Arranges(p, DOMAIN stories)
    <3>1. Listed(p)
        BY <2>1 DEF LinkedOK, Listed
    <3>2. \A n \in DOMAIN p : p[n] \in DOMAIN stories
        OBVIOUS
    <3>3. ASSUME NEW x \in DOMAIN stories
          PROVE  \E n \in DOMAIN p : p[n] = x
        OBVIOUS
    <3>4. \A n, m \in DOMAIN p : p[n] = p[m] => n = m
        OBVIOUS
    <3>5. QED
        BY <3>1, <3>2, <3>3, <3>4 DEF Arranges
  <2>3. DOMAIN other = DOMAIN p /\ \A n \in DOMAIN p : other[n] = stories[p[n]]
      OBVIOUS
  <2> HIDE DEF other, p
  <2>4. SortByScore(ScoreStories(other, llm)) = SortByScore(ScoreStories(stories, llm))
      BY <2>1, <2>2, <2>3, RearrangedRankedAlike
  <2>5. QED
      BY <2>1, <2>4 DEF other
<1>2. QED
    BY <1>1, LinkStart, LinkStep, PTL DEF SelectionSpec

-----------------------------------------------------------------------------
(* Lists of scored stories with ids of their own, and what is taken of them.  *)
RankedList(scs) ==
    /\ Listed(scs)
    /\ \A k \in DOMAIN scs : ScoreOrder(scs[k]) \in [1..3 -> Int] /\ scs[k].story.id \in [1..4 -> Int]
    /\ \A k, l \in DOMAIN scs : scs[k].story.id = scs[l].story.id => k = l

LEMMA PickedList ==
    ASSUME NEW r, RankedList(r), NEW P \in SUBSET DOMAIN r
    PROVE  /\ RankedList(Pick(r, P)) /\ Pick(r, P) = [n \in DOMAIN Pick(r, P) |-> Pick(r, P)[n]]
           /\ \A n \in DOMAIN Pick(r, P) : \E i \in P : Pick(r, P)[n] = r[i]
           /\ \A i \in P : \E n \in DOMAIN Pick(r, P) : Pick(r, P)[n] = r[i]
<1> DEFINE up == Upwards(P)
           taken == Pick(r, P)
<1>1. Arranges(up, P)
    BY UpwardsArranges DEF RankedList
<1>2. taken = [n \in DOMAIN up |-> r[up[n]]]
    BY DEF Pick, Elements
<1> HIDE DEF up, taken
<1>3. Listed(taken) /\ taken = [n \in DOMAIN taken |-> taken[n]] /\ DOMAIN taken = DOMAIN up
    BY <1>1, <1>2 DEF Arranges, Listed
<1>4. \A n \in DOMAIN taken : up[n] \in P /\ taken[n] = r[up[n]]
    BY <1>1, <1>2 DEF Arranges
<1>5. \A i \in P : \E n \in DOMAIN taken : taken[n] = r[i]
    BY <1>1, <1>3, <1>4 DEF Arranges
<1>6. \A k, l \in DOMAIN taken : taken[k].story.id = taken[l].story.id => k = l
  <2> TAKE k, l \in DOMAIN taken
  <2> HAVE taken[k].story.id = taken[l].story.id
  <2>1. up[k] = up[l]
      BY <1>4 DEF RankedList
  <2>2. QED
      BY <1>1, <1>3, <2>1 DEF Arranges
<1>7. RankedList(taken)
    BY <1>3, <1>4, <1>6 DEF RankedList
<1>8. QED
    BY <1>3, <1>4, <1>5, <1>7 DEF taken

LEMMA SortedList ==
    ASSUME NEW r, RankedList(r)
    PROVE  /\ RankedList(SortByScore(r))
           /\ \A n \in DOMAIN SortByScore(r) : \E i \in DOMAIN r : SortByScore(r)[n] = r[i]
           /\ \A i \in DOMAIN r : \E n \in DOMAIN SortByScore(r) : SortByScore(r)[n] = r[i]
<1> DEFINE keys == ScoreKeys(r)
           sorted == SortByScore(r)
           order == OrderOf(keys)
<1>1. DOMAIN keys = DOMAIN r /\ Keyed(keys, 3)
    BY DEF RankedList, Keyed, Listed, ScoreKeys
<1>2. sorted = SortBy(r, keys)
    BY DEF SortByScore, ScoreKeys
<1> HIDE DEF keys
<1>3. /\ Arranges(order, DOMAIN r) /\ DOMAIN sorted = DOMAIN order
      /\ \A n \in DOMAIN order : sorted[n] = r[order[n]]
    BY <1>1, <1>2, SortArranges
<1> HIDE DEF order, sorted
<1>4. \A n \in DOMAIN sorted : order[n] \in DOMAIN r /\ sorted[n] = r[order[n]]
    BY <1>3 DEF Arranges
<1>5. \A i \in DOMAIN r : \E n \in DOMAIN sorted : sorted[n] = r[i]
    BY <1>3 DEF Arranges
<1>6. \A k, l \in DOMAIN sorted : sorted[k].story.id = sorted[l].story.id => k = l
  <2> TAKE k, l \in DOMAIN sorted
  <2> HAVE sorted[k].story.id = sorted[l].story.id
  <2>1. order[k] = order[l]
      BY <1>4 DEF RankedList
  <2>2. QED
      BY <1>3, <2>1 DEF Arranges
<1>7. Listed(sorted)
    BY <1>3 DEF Arranges, Listed
<1>8. RankedList(sorted)
    BY <1>4, <1>6, <1>7 DEF RankedList
<1>9. QED
    BY <1>4, <1>5, <1>8 DEF sorted

LEMMA RankedIs ==
    ASSUME NEW list, NEW sts, LinkedOK(list, sts), NEW scores \in LlmScores
    PROVE  LET r == SortByScore(ScoreStories(sts, scores)) IN
           /\ RankedList(r)
           /\ \A n \in DOMAIN r : \E k \in DOMAIN sts : r[n].story = sts[k]
           /\ \A k \in DOMAIN sts : \E n \in DOMAIN r : r[n].story = sts[k]
<1> DEFINE scs == ScoreStories(sts, scores)
<1>1. /\ DOMAIN scs = DOMAIN sts /\ \A k \in DOMAIN sts : scs[k].story = sts[k]
      /\ Keyed(ScoreKeys(scs), 3) /\ DOMAIN ScoreKeys(scs) = DOMAIN sts
    BY ScoresKeyed
<1> HIDE DEF scs
<1>2. \A k \in DOMAIN sts : ScoreOrder(scs[k]) \in [1..3 -> Int]
    BY <1>1 DEF Keyed, ScoreKeys
<1>3. RankedList(scs)
  <2>1. Listed(scs)
      BY <1>1 DEF LinkedOK, Listed
  <2>2. \A k \in DOMAIN sts : sts[k].id \in [1..4 -> Int]
      BY DEF LinkedOK, StoryOK
  <2>3. \A k, l \in DOMAIN sts : sts[k].id = sts[l].id => k = l
      BY DEF LinkedOK
  <2>4. QED
      BY <1>1, <1>2, <2>1, <2>2, <2>3 DEF RankedList
<1>4. /\ RankedList(SortByScore(scs))
      /\ \A n \in DOMAIN SortByScore(scs) : \E i \in DOMAIN scs : SortByScore(scs)[n] = scs[i]
      /\ \A i \in DOMAIN scs : \E n \in DOMAIN SortByScore(scs) : SortByScore(scs)[n] = scs[i]
    BY <1>3, SortedList
<1>5. \A n \in DOMAIN SortByScore(scs) : \E k \in DOMAIN sts : SortByScore(scs)[n].story = sts[k]
  <2> TAKE n \in DOMAIN SortByScore(scs)
  <2>1. PICK i \in DOMAIN scs : SortByScore(scs)[n] = scs[i]
      BY <1>4
  <2>2. QED
      BY <1>1, <2>1
<1>6. \A k \in DOMAIN sts : \E n \in DOMAIN SortByScore(scs) : SortByScore(scs)[n].story = sts[k]
  <2> TAKE k \in DOMAIN sts
  <2>1. PICK n \in DOMAIN SortByScore(scs) : SortByScore(scs)[n] = scs[k]
      BY <1>1, <1>4
  <2>2. QED
      BY <1>1, <2>1
<1>7. QED
    BY <1>4, <1>5, <1>6 DEF scs

(* The sections and what is left share out the stories that were kept.        *)
Parts(secs) == <<secs.top5, secs.papers, secs.radar, secs.releases, secs.left>>
Shares(lists, r) ==
    /\ \A l \in DOMAIN lists : RankedList(lists[l]) /\ lists[l] = [n \in DOMAIN lists[l] |-> lists[l][n]]
    /\ \A l \in DOMAIN lists : \A n \in DOMAIN lists[l] : \E i \in DOMAIN r : lists[l][n] = r[i]
    /\ \A i \in DOMAIN r : \E l \in DOMAIN lists : \E n \in DOMAIN lists[l] : lists[l][n] = r[i]
    /\ \A l, k \in DOMAIN lists : \A n \in DOMAIN lists[l], m \in DOMAIN lists[k] :
         lists[l][n].story.id = lists[k][m].story.id => l = k /\ n = m

LEMMA SectionsShare ==
    ASSUME NEW kept, RankedList(kept), NEW q
    PROVE  Shares(Parts(AssignSections(kept, q)), kept)
<1> DEFINE sorted == SortByScore(kept)
           D == DOMAIN sorted
           top5 == FirstFew(D, q.top5)
           releases == {i \in Unassigned(sorted, top5) : IsModelRelease(sorted[i].story)}
           papers == FirstFew({i \in Unassigned(sorted, top5 \cup releases) : IsPaper(sorted[i].story)}, q.papers)
           rest == Unassigned(sorted, top5 \cup releases \cup papers)
           radar == FirstFew(rest, q.radar)
           P == <<top5, papers, radar, releases, rest \ radar>>
           parts == Parts(AssignSections(kept, q))
<1>1. /\ RankedList(sorted)
      /\ \A n \in D : \E i \in DOMAIN kept : sorted[n] = kept[i]
      /\ \A i \in DOMAIN kept : \E n \in D : sorted[n] = kept[i]
    BY SortedList
<1>2. parts = <<Pick(sorted, top5), Pick(sorted, papers), Pick(sorted, radar), Pick(sorted, releases), Pick(sorted, rest \ radar)>>
    BY DEF AssignSections, Parts
<1> HIDE DEF sorted
<1>3. \A T : T \subseteq D => Unassigned(sorted, T) = D \ T
  <2> TAKE T
  <2> HAVE T \subseteq D
  <2>1. \A i \in D : (\A j \in T : sorted[i].story.id # sorted[j].story.id) <=> i \notin T
      BY <1>1 DEF RankedList
  <2>2. QED
      BY <2>1 DEF Unassigned
<1>4. \A S, n : FirstFew(S, n) \subseteq S
    BY DEF FirstFew
<1>5. top5 \subseteq D
    BY <1>4
<1> HIDE DEF top5
<1>6. releases \subseteq D \ top5
    BY <1>3, <1>5
<1> HIDE DEF releases
<1>7. papers \subseteq D \ (top5 \cup releases)
  <2>1. top5 \cup releases \subseteq D
      BY <1>5, <1>6
  <2>2. papers \subseteq Unassigned(sorted, top5 \cup releases)
      BY <1>4
  <2>3. QED
      BY <1>3, <2>1, <2>2
<1> HIDE DEF papers
<1>8. rest = D \ (top5 \cup releases \cup papers)
    BY <1>3, <1>5, <1>6, <1>7
<1> HIDE DEF rest
<1>9. radar \subseteq rest
    BY <1>4
<1> HIDE DEF radar, parts
<1>10. DOMAIN P = 1..5 /\ DOMAIN parts = 1..5 /\ \A l \in 1..5 : parts[l] = Pick(sorted, P[l])
  <2>1. \A l \in 1..5 : l = 1 \/ l = 2 \/ l = 3 \/ l = 4 \/ l = 5
      OBVIOUS
  <2>2. QED
      BY <1>2, <2>1
<1>11. \A l \in 1..5 : P[l] \subseteq D
    BY <1>5, <1>6, <1>7, <1>8, <1>9
<1>12. D = P[1] \cup P[2] \cup P[3] \cup P[4] \cup P[5]
    BY <1>5, <1>6, <1>7, <1>8, <1>9
<1>13. \A l, k \in 1..5 : \A i \in D : i \in P[l] /\ i \in P[k] => l = k
    BY <1>5, <1>6, <1>7, <1>8, <1>9
<1> HIDE DEF P, D
<1>14. ASSUME NEW l \in 1..5
       PROVE  /\ RankedList(parts[l]) /\ parts[l] = [n \in DOMAIN parts[l] |-> parts[l][n]]
              /\ \A n \in DOMAIN parts[l] : \E i \in P[l] : parts[l][n] = sorted[i]
              /\ \A i \in P[l] : \E n \in DOMAIN parts[l] : parts[l][n] = sorted[i]
    BY <1>1, <1>10, <1>11, PickedList DEF D
<1>15. ASSUME NEW l \in 1..5, NEW n \in DOMAIN parts[l]
       PROVE  \E i \in DOMAIN kept : parts[l][n] = kept[i]
  <2>1. PICK i \in P[l] : parts[l][n] = sorted[i]
      BY <1>14
  <2>2. QED
      BY <1>1, <1>11, <2>1
<1>16. ASSUME NEW i \in DOMAIN kept
       PROVE  \E l \in 1..5 : \E n \in DOMAIN parts[l] : parts[l][n] = kept[i]
  <2>1. PICK n \in D : sorted[n] = kept[i]
      BY <1>1
  <2>2. PICK l \in 1..5 : n \in P[l]
      BY <1>12
  <2>3. QED
      BY <1>14, <2>1, <2>2
<1>17. ASSUME NEW l \in 1..5, NEW k \in 1..5, NEW n \in DOMAIN parts[l], NEW m \in DOMAIN parts[k],
              parts[l][n].story.id = parts[k][m].story.id
       PROVE  l = k /\ n = m
  <2>1. PICK i \in P[l] : parts[l][n] = sorted[i]
      BY <1>14
  <2>2. PICK j \in P[k] : parts[k][m] = sorted[j]
      BY <1>14
  <2>3. i \in D /\ j \in D
      BY <1>11
  <2>4. i = j
      BY <1>1, <1>17, <2>1, <2>2, <2>3 DEF RankedList, D
  <2>5. l = k
      BY <1>13, <2>3, <2>4
  <2>6. RankedList(parts[l])
      BY <1>14
  <2>7. n = m
      BY <1>17, <2>5, <2>6 DEF RankedList
  <2>8. QED
      BY <2>5, <2>7
<1>18. Shares(parts, kept)
  <2>1. DOMAIN parts = 1..5
      BY <1>10
  <2>2. \A l \in DOMAIN parts : RankedList(parts[l]) /\ parts[l] = [n \in DOMAIN parts[l] |-> parts[l][n]]
      BY <1>14, <2>1
  <2>3. \A i \in DOMAIN kept : \E l \in DOMAIN parts : \E n \in DOMAIN parts[l] : parts[l][n] = kept[i]
      BY <1>16, <2>1
  <2>4. \A l \in DOMAIN parts : \A n \in DOMAIN parts[l] : \E i \in DOMAIN kept : parts[l][n] = kept[i]
      BY <1>15, <2>1
  <2>5. \A l, k \in DOMAIN parts : \A n \in DOMAIN parts[l], m \in DOMAIN parts[k] :
          parts[l][n].story.id = parts[k][m].story.id => l = k /\ n = m
      BY <1>17, <2>1
  <2>6. QED
      BY <2>2, <2>3, <2>4, <2>5 DEF Shares
<1>19. QED
    BY <1>18 DEF parts

-----------------------------------------------------------------------------
(* The report shows each story of its sections once.                          *)
IdOnce(lists) ==
    \A k, l \in DOMAIN lists : \A i \in DOMAIN lists[k], j \in DOMAIN lists[l] :
        lists[k][i].id = lists[l][j].id => k = l /\ i = j

LEMMA JoinedOnce ==
    ASSUME NEW lists, Listed(lists), \A k \in DOMAIN lists : Listed(lists[k]), IdOnce(lists)
    PROVE  /\ Listed(Joined(lists)) /\ Joined(lists) = [n \in DOMAIN Joined(lists) |-> Joined(lists)[n]]
           /\ \A n \in DOMAIN Joined(lists) : \E k \in DOMAIN lists : \E i \in DOMAIN lists[k] : Joined(lists)[n] = lists[k][i]
           /\ \A k \in DOMAIN lists : \A i \in DOMAIN lists[k] : \E n \in DOMAIN Joined(lists) : Joined(lists)[n] = lists[k][i]
           /\ \A n, m \in DOMAIN Joined(lists) : Joined(lists)[n].id = Joined(lists)[m].id => n = m
<1> DEFINE all == Joined(lists)
<1>1. PICK order :
        /\ Arranges(order, PlacesOf(lists))
        /\ all = [n \in DOMAIN order |-> lists[order[n][1]][order[n][2]]]
    BY JoinedArranges
<1> HIDE DEF all
<1>2. Listed(all) /\ all = [n \in DOMAIN all |-> all[n]] /\ DOMAIN all = DOMAIN order
    BY <1>1 DEF Arranges, Listed
<1>3. \A at : at \in PlacesOf(lists) <=> \E k \in DOMAIN lists : \E i \in DOMAIN lists[k] : at = <<k, i>>
    BY DEF PlacesOf
<1>4. ASSUME NEW n \in DOMAIN all
      PROVE  \E k \in DOMAIN lists : \E i \in DOMAIN lists[k] : order[n] = <<k, i>> /\ all[n] = lists[k][i]
  <2>1. order[n] \in PlacesOf(lists)
      BY <1>1, <1>2 DEF Arranges
  <2>2. PICK k \in DOMAIN lists : \E i \in DOMAIN lists[k] : order[n] = <<k, i>>
      BY <1>3, <2>1
  <2>3. PICK i \in DOMAIN lists[k] : order[n] = <<k, i>>
      BY <2>2
  <2>4. QED
      BY <1>1, <1>2, <2>3
<1>5. ASSUME NEW k \in DOMAIN lists, NEW i \in DOMAIN lists[k]
      PROVE  \E n \in DOMAIN all : all[n] = lists[k][i]
  <2>1. PICK n \in DOMAIN order : order[n] = <<k, i>>
      BY <1>1, <1>3 DEF Arranges
  <2>2. QED
      BY <1>1, <1>2, <2>1
<1>6. ASSUME NEW n \in DOMAIN all, NEW m \in DOMAIN all, all[n].id = all[m].id
      PROVE  n = m
  <2>1. PICK k \in DOMAIN lists : \E i \in DOMAIN lists[k] : order[n] = <<k, i>> /\ all[n] = lists[k][i]
      BY <1>4
  <2>2. PICK i \in DOMAIN lists[k] : order[n] = <<k, i>> /\ all[n] = lists[k][i]
      BY <2>1
  <2>3. PICK l \in DOMAIN lists : \E j \in DOMAIN lists[l] : order[m] = <<l, j>> /\ all[m] = lists[l][j]
      BY <1>4
  <2>4. PICK j \in DOMAIN lists[l] : order[m] = <<l, j>> /\ all[m] = lists[l][j]
      BY <2>3
  <2>5. k = l /\ i = j
      BY <1>6, <2>2, <2>4 DEF IdOnce
  <2>6. QED
      BY <1>1, <1>2, <2>2, <2>4, <2>5 DEF Arranges
<1>7. QED
    BY <1>2, <1>4, <1>5, <1>6 DEF all

LEMMA GroupedOnce ==
    ASSUME NEW keys, Listed(keys), NEW s, DOMAIN s = DOMAIN keys, \A i, j \in DOMAIN s : s[i].id = s[j].id => i = j
    PROVE  LET G == Grouped(s, keys) IN
           /\ Listed(G) /\ \A g \in DOMAIN G : Listed(G[g])
           /\ \A g \in DOMAIN G : \A n \in DOMAIN G[g] : \E i \in DOMAIN s : G[g][n] = s[i]
           /\ \A i \in DOMAIN s : \E g \in DOMAIN G : \E n \in DOMAIN G[g] : G[g][n] = s[i]
           /\ IdOnce(G)
<1> DEFINE G == Grouped(s, keys)
           M(g, n) == Member(keys, g, n)
<1>1. /\ Listed(G)
      /\ \A g \in DOMAIN G : Listed(G[g]) /\ DOMAIN G[g] # {}
      /\ \A g \in DOMAIN G : \A n \in DOMAIN G[g] : M(g, n) \in DOMAIN keys /\ G[g][n] = s[M(g, n)]
      /\ \A g, h \in DOMAIN G : \A n \in DOMAIN G[g], m \in DOMAIN G[h] : (keys[M(g, n)] = keys[M(h, m)] <=> g = h)
      /\ \A g \in DOMAIN G : \A n, m \in DOMAIN G[g] : M(g, n) = M(g, m) => n = m
      /\ \A i \in DOMAIN keys : \E g \in DOMAIN G : \E n \in DOMAIN G[g] : M(g, n) = i
    BY GroupedArranges
<1> HIDE DEF G, M
<1>2. \A i \in DOMAIN s : \E g \in DOMAIN G : \E n \in DOMAIN G[g] : G[g][n] = s[i]
  <2> TAKE i \in DOMAIN s
  <2>1. PICK g \in DOMAIN G : \E n \in DOMAIN G[g] : M(g, n) = i
      BY <1>1
  <2>2. QED
      BY <1>1, <2>1
<1>3. IdOnce(G)
  <2> SUFFICES ASSUME NEW g \in DOMAIN G, NEW h \in DOMAIN G, NEW n \in DOMAIN G[g], NEW m \in DOMAIN G[h],
                      G[g][n].id = G[h][m].id
               PROVE  g = h /\ n = m
      BY DEF IdOnce
  <2>1. M(g, n) = M(h, m)
      BY <1>1
  <2>2. g = h
      BY <1>1, <2>1
  <2>3. QED
      BY <1>1, <2>1, <2>2
<1>4. QED
    BY <1>1, <1>2, <1>3 DEF G

LEMMA ShownOnce ==
    ASSUME NEW secs, NEW kept, Shares(Parts(secs), kept)
    PROVE  LET shown == Displayed(BuildOutput(secs)) IN
           /\ Listed(shown) /\ shown = [n \in DOMAIN shown |-> shown[n]]
           /\ \A n \in DOMAIN shown : \E l \in 1..4 : \E m \in DOMAIN Parts(secs)[l] : shown[n] = Parts(secs)[l][m].story
           /\ \A l \in 1..4 : \A m \in DOMAIN Parts(secs)[l] : \E n \in DOMAIN shown : shown[n] = Parts(secs)[l][m].story
           /\ \A n, m \in DOMAIN shown : shown[n].id = shown[m].id => n = m
<1> DEFINE parts == Parts(secs)
           told == StoriesOf(secs.releases)
           keys == [i \in DOMAIN told |-> ReleaseGroup(told[i])]
           G == Grouped(told, keys)
           J == Joined(G)
           lists == <<StoriesOf(secs.top5), StoriesOf(secs.papers), StoriesOf(secs.radar), J>>
           shown == Displayed(BuildOutput(secs))
<1>1. shown = Joined(lists)
    BY DEF Displayed, BuildOutput
<1>2. /\ DOMAIN parts = 1..5 /\ parts[1] = secs.top5 /\ parts[2] = secs.papers /\ parts[3] = secs.radar
      /\ parts[4] = secs.releases
    BY DEF Parts
<1> HIDE DEF parts
<1>3. \A l \in 1..5 : Listed(parts[l])
    BY <1>2 DEF Shares, RankedList, parts
<1>4. \A l, k \in 1..5 : \A n \in DOMAIN parts[l], m \in DOMAIN parts[k] :
        parts[l][n].story.id = parts[k][m].story.id => l = k /\ n = m
    BY <1>2 DEF Shares, parts
<1>5. DOMAIN told = DOMAIN parts[4] /\ \A i \in DOMAIN told : told[i] = parts[4][i].story
    BY <1>2 DEF StoriesOf
<1> HIDE DEF told
<1>6. Listed(keys) /\ DOMAIN keys = DOMAIN told
    BY <1>3, <1>5 DEF Listed
<1>7. \A i, j \in DOMAIN told : told[i].id = told[j].id => i = j
    BY <1>4, <1>5
<1> HIDE DEF keys
<1>8. /\ Listed(G) /\ \A g \in DOMAIN G : Listed(G[g])
      /\ \A g \in DOMAIN G : \A n \in DOMAIN G[g] : \E i \in DOMAIN told : G[g][n] = told[i]
      /\ \A i \in DOMAIN told : \E g \in DOMAIN G : \E n \in DOMAIN G[g] : G[g][n] = told[i]
      /\ IdOnce(G)
    BY <1>6, <1>7, GroupedOnce
<1> HIDE DEF G
<1>9. /\ Listed(J)
      /\ \A n \in DOMAIN J : \E k \in DOMAIN G : \E i \in DOMAIN G[k] : J[n] = G[k][i]
      /\ \A k \in DOMAIN G : \A i \in DOMAIN G[k] : \E n \in DOMAIN J : J[n] = G[k][i]
      /\ \A n, m \in DOMAIN J : J[n].id = J[m].id => n = m
    BY <1>8, JoinedOnce
<1> HIDE DEF J
<1>10. ASSUME NEW n \in DOMAIN J
       PROVE  \E i \in DOMAIN told : J[n] = told[i]
  <2>1. PICK k \in DOMAIN G : \E i \in DOMAIN G[k] : J[n] = G[k][i]
      BY <1>9
  <2>2. QED
      BY <1>8, <2>1
<1>11. ASSUME NEW i \in DOMAIN told
       PROVE  \E n \in DOMAIN J : J[n] = told[i]
  <2>1. PICK g \in DOMAIN G : \E n \in DOMAIN G[g] : G[g][n] = told[i]
      BY <1>8
  <2>2. PICK n \in DOMAIN G[g] : G[g][n] = told[i]
      BY <2>1
  <2>3. PICK m \in DOMAIN J : J[m] = G[g][n]
      BY <1>9
  <2>4. QED
      BY <2>2, <2>3
<1>12. DOMAIN lists = 1..4
    OBVIOUS
<1>13. /\ \A l \in 1..3 : DOMAIN lists[l] = DOMAIN parts[l] /\ \A i \in DOMAIN lists[l] : lists[l][i] = parts[l][i].story
       /\ lists[4] = J
  <2>1. \A l \in 1..3 : l = 1 \/ l = 2 \/ l = 3
      OBVIOUS
  <2>2. QED
      BY <1>2, <2>1 DEF StoriesOf
<1> HIDE DEF lists
<1>14. \A l \in 1..4 : l \in 1..3 \/ l = 4
    OBVIOUS
<1>15. ASSUME NEW l \in 1..4
       PROVE  /\ Listed(lists[l])
              /\ \A i \in DOMAIN lists[l] : \E m \in DOMAIN parts[l] : lists[l][i] = parts[l][m].story
              /\ \A m \in DOMAIN parts[l] : \E i \in DOMAIN lists[l] : lists[l][i] = parts[l][m].story
              /\ \A i, j \in DOMAIN lists[l] : lists[l][i].id = lists[l][j].id => i = j
  <2>1. CASE l \in 1..3
    <3>1. Listed(lists[l])
        BY <1>3, <1>13, <2>1 DEF Listed
    <3>2. QED
        BY <1>4, <1>13, <2>1, <3>1
  <2>2. CASE l = 4
      BY <1>5, <1>9, <1>10, <1>11, <1>13, <2>2
  <2>3. QED
      BY <1>14, <2>1, <2>2
<1>16. IdOnce(lists)
  <2> SUFFICES ASSUME NEW l \in 1..4, NEW k \in 1..4, NEW i \in DOMAIN lists[l], NEW j \in DOMAIN lists[k],
                      lists[l][i].id = lists[k][j].id
               PROVE  l = k /\ i = j
      BY <1>12 DEF IdOnce
  <2>1. PICK n \in DOMAIN parts[l] : lists[l][i] = parts[l][n].story
      BY <1>15
  <2>2. PICK m \in DOMAIN parts[k] : lists[k][j] = parts[k][m].story
      BY <1>15
  <2>3. l = k
      BY <1>4, <2>1, <2>2
  <2>4. QED
      BY <1>15, <2>3
<1>17. Listed(lists)
    BY <1>12 DEF Listed
<1>18. /\ Listed(shown) /\ shown = [n \in DOMAIN shown |-> shown[n]]
       /\ \A n \in DOMAIN shown : \E l \in 1..4 : \E i \in DOMAIN lists[l] : shown[n] = lists[l][i]
       /\ \A l \in 1..4 : \A i \in DOMAIN lists[l] : \E n \in DOMAIN shown : shown[n] = lists[l][i]
       /\ \A n, m \in DOMAIN shown : shown[n].id = shown[m].id => n = m
    BY <1>1, <1>12, <1>15, <1>16, <1>17, JoinedOnce
<1> HIDE DEF shown
<1>19. ASSUME NEW n \in DOMAIN shown
       PROVE  \E l \in 1..4 : \E m \in DOMAIN parts[l] : shown[n] = parts[l][m].story
  <2>1. PICK l \in 1..4 : \E i \in DOMAIN lists[l] : shown[n] = lists[l][i]
      BY <1>18
  <2>2. PICK i \in DOMAIN lists[l] : shown[n] = lists[l][i]
      BY <2>1
  <2>3. QED
      BY <1>15, <2>2
<1>20. ASSUME NEW l \in 1..4, NEW m \in DOMAIN parts[l]
       PROVE  \E n \in DOMAIN shown : shown[n] = parts[l][m].story
  <2>1. PICK i \in DOMAIN lists[l] : lists[l][i] = parts[l][m].story
      BY <1>15
  <2>2. QED
      BY <1>18, <2>1
<1>21. QED
    BY <1>18, <1>19, <1>20 DEF shown, parts

LEMMA CollectedAreShown ==
    ASSUME NEW out, Listed(Displayed(out)), Displayed(out) = [n \in DOMAIN Displayed(out) |-> Displayed(out)[n]],
           \A n, m \in DOMAIN Displayed(out) : Displayed(out)[n].id = Displayed(out)[m].id => n = m
    PROVE  CollectRankerStories(out) = Displayed(out)
<1> DEFINE shown == Displayed(out)
           keys == [n \in DOMAIN shown |-> shown[n].id]
<1>1. CollectRankerStories(out) = Pick(shown, Firsts(keys))
    BY DEF CollectRankerStories, Distinct
<1>2. Firsts(keys) = DOMAIN shown
  <2>1. ASSUME NEW i \in DOMAIN shown, NEW j \in 1..(i - 1)
        PROVE  j \in DOMAIN shown /\ j # i
      BY DEF Listed
  <2> HIDE DEF shown
  <2>2. \A i \in DOMAIN shown : \A j \in 1..(i - 1) : keys[j] # keys[i]
      BY <2>1 DEF shown
  <2>3. QED
      BY <2>2 DEF Firsts
<1>3. QED
    BY <1>1, <1>2, PickAll

-----------------------------------------------------------------------------
(* The record of the drops names each story of ids once.                      *)
Reasons == {"excluded", "source", "category", "radar"}
DropRecords == [id : [1..4 -> Int], reason : Reasons]
RecordsOnce(drops, ids) ==
    /\ drops \in Seq(DropRecords)
    /\ \A n \in DOMAIN drops : drops[n].id \in ids
    /\ \A x \in ids : \E n \in DOMAIN drops : drops[n].id = x
    /\ \A n, m \in DOMAIN drops : drops[n].id = drops[m].id => n = m

IdsOf(scs, P) == {scs[i].story.id : i \in P}
RecordOf(scs, reason) == [n \in DOMAIN scs |-> RecordDrop(scs[n], reason)]

LEMMA RecordedList ==
    ASSUME NEW scs, RankedList(scs), NEW reason \in Reasons
    PROVE  RecordsOnce(RecordOf(scs, reason), IdsOf(scs, DOMAIN scs))
<1> DEFINE drops == RecordOf(scs, reason)
<1>1. DOMAIN drops = DOMAIN scs /\ drops = [n \in DOMAIN drops |-> drops[n]]
    BY DEF RecordOf
<1>2. \A n \in DOMAIN scs : drops[n].id = scs[n].story.id /\ drops[n] = [id |-> scs[n].story.id, reason |-> reason]
    BY DEF RecordOf, RecordDrop
<1> HIDE DEF drops
<1>3. Listed(drops)
    BY <1>1 DEF RankedList, Listed
<1>4. \A n \in DOMAIN drops : drops[n] \in DropRecords
    BY <1>1, <1>2 DEF RankedList, DropRecords
<1>5. drops \in Seq(DropRecords)
    BY <1>1, <1>3, <1>4, ListedIsSeq
<1>6. QED
    BY <1>1, <1>2, <1>5 DEF RecordsOnce, IdsOf, RankedList, drops

LEMMA RecordsJoined ==
    ASSUME NEW a, NEW A, RecordsOnce(a, A), NEW b, NEW B, RecordsOnce(b, B), A \cap B = {}
    PROVE  RecordsOnce(a \o b, A \cup B)
<1> DEFINE c == a \o b
           m == Len(a)
           k == Len(b)
<1>1. a \in Seq(DropRecords) /\ b \in Seq(DropRecords)
    BY DEF RecordsOnce
<1>2. /\ c \in Seq(DropRecords) /\ m \in Nat /\ k \in Nat /\ Len(c) = m + k
      /\ DOMAIN a = 1..m /\ DOMAIN b = 1..k /\ DOMAIN c = 1..(m + k)
    BY <1>1
<1>3. \A n \in 1..(m + k) : c[n] = IF n <= m THEN a[n] ELSE b[n - m]
    BY <1>1
<1> HIDE DEF c, m, k
<1>4. \A n \in DOMAIN c : \/ n \in DOMAIN a /\ c[n] = a[n]
                          \/ n - m \in DOMAIN b /\ c[n] = b[n - m] /\ n \in Int
  <2> TAKE n \in DOMAIN c
  <2>1. CASE n <= m
      BY <1>2, <1>3, <2>1
  <2>2. CASE ~(n <= m)
      BY <1>2, <1>3, <2>2
  <2>3. QED
      BY <2>1, <2>2
<1>5. \A n \in DOMAIN a : n \in DOMAIN c /\ c[n] = a[n]
    BY <1>2, <1>3
<1>6. \A n \in DOMAIN b : n + m \in DOMAIN c /\ c[n + m] = b[n]
  <2> TAKE n \in DOMAIN b
  <2>1. n + m \in 1..(m + k) /\ ~(n + m <= m) /\ n + m - m = n
      BY <1>2
  <2>2. QED
      BY <1>2, <1>3, <2>1
<1>7. \A n \in DOMAIN c : c[n].id \in A \cup B
    BY <1>4 DEF RecordsOnce
<1>8. \A x \in A \cup B : \E n \in DOMAIN c : c[n].id = x
  <2> TAKE x \in A \cup B
  <2>1. CASE x \in A
    <3>1. PICK n \in DOMAIN a : a[n].id = x
        BY <2>1 DEF RecordsOnce
    <3>2. QED
        BY <1>5, <3>1
  <2>2. CASE x \in B
    <3>1. PICK n \in DOMAIN b : b[n].id = x
        BY <2>2 DEF RecordsOnce
    <3>2. QED
        BY <1>6, <3>1
  <2>3. QED
      BY <2>1, <2>2
<1>9. ASSUME NEW n \in DOMAIN c, NEW l \in DOMAIN c, c[n].id = c[l].id
      PROVE  n = l
  <2>1. CASE n \in DOMAIN a /\ c[n] = a[n] /\ l \in DOMAIN a /\ c[l] = a[l]
      BY <1>9, <2>1 DEF RecordsOnce
  <2>2. CASE n \in DOMAIN a /\ c[n] = a[n] /\ l - m \in DOMAIN b /\ c[l] = b[l - m]
      BY <1>9, <2>2 DEF RecordsOnce
  <2>3. CASE l \in DOMAIN a /\ c[l] = a[l] /\ n - m \in DOMAIN b /\ c[n] = b[n - m]
      BY <1>9, <2>3 DEF RecordsOnce
  <2>4. CASE n - m \in DOMAIN b /\ c[n] = b[n - m] /\ n \in Int /\ l - m \in DOMAIN b /\ c[l] = b[l - m] /\ l \in Int
    <3>1. n - m = l - m
        BY <1>9, <2>4 DEF RecordsOnce
    <3>2. QED
        BY <1>2, <2>4, <3>1
  <2>5. QED
      BY <1>4, <2>1, <2>2, <2>3, <2>4
<1>10. QED
    BY <1>2, <1>7, <1>8, <1>9 DEF RecordsOnce, c

LEMMA RecordsAppended ==
    ASSUME NEW a, NEW A, RecordsOnce(a, A), NEW record \in DropRecords, record.id \notin A
    PROVE  RecordsOnce(Append(a, record), A \cup {record.id})
<1> DEFINE c == Append(a, record)
           m == Len(a)
<1>1. a \in Seq(DropRecords)
    BY DEF RecordsOnce
<1>2. c \in Seq(DropRecords) /\ m \in Nat /\ DOMAIN a = 1..m /\ DOMAIN c = 1..(m + 1)
    BY <1>1
<1>3. c[m + 1] = record /\ \A n \in 1..m : c[n] = a[n]
    BY <1>1
<1> HIDE DEF c, m
<1>4. \A n \in DOMAIN c : (n \in DOMAIN a /\ c[n] = a[n]) \/ (n = m + 1 /\ c[n] = record)
    BY <1>2, <1>3
<1>5. (m + 1) \in DOMAIN c /\ \A n \in DOMAIN a : n \in DOMAIN c /\ c[n] = a[n]
    BY <1>2, <1>3
<1>6. \A n \in DOMAIN c : c[n].id \in A \cup {record.id}
    BY <1>4 DEF RecordsOnce
<1>7. \A x \in A \cup {record.id} : \E n \in DOMAIN c : c[n].id = x
    BY <1>3, <1>5 DEF RecordsOnce
<1>8. \A n, l \in DOMAIN c : c[n].id = c[l].id => n = l
    BY <1>4 DEF RecordsOnce
<1>9. QED
    BY <1>2, <1>6, <1>7, <1>8 DEF RecordsOnce, c

-----------------------------------------------------------------------------
(* Every story ranked is kept or in the record of the drops.                  *)
KeptPlaces == {i \in DOMAIN ranked : verdict[i] = "kept"}
RefusedPlaces == {i \in DOMAIN ranked : verdict[i] # "kept"}
SectionsOf == AssignSections(Pick(ranked, KeptPlaces), quotas)
DropsOK ==
    /\ state = "SCORED" /\ pass # "none" => RecordsOnce(dropped, IdsOf(ranked, RefusedPlaces))
    /\ Filtered => /\ sections = SectionsOf
                   /\ RecordsOnce(dropped, IdsOf(ranked, RefusedPlaces) \cup IdsOf(sections.left, DOMAIN sections.left))
    /\ state = "ORDERED_OUTPUTS" => output = BuildOutput(sections)

LEMMA DropsStart == SelectionInit => DropsOK
BY DEF SelectionInit, DropsOK, Filtered

LEMMA ExcludeDrops ==
    ASSUME LinkState, SortAndExclude
    PROVE  DropsOK'
<1>1. /\ ranked' = SortByScore(scored) /\ state = "SCORED" /\ state' = state /\ pass' = "source"
    BY DEF SortAndExclude, BeginPass
<1> DEFINE excluded == {i \in DOMAIN ranked' : GetPaperExclusionKeyword(ranked'[i].story)}
           out == Pick(ranked', excluded)
<1>2. /\ verdict' = [i \in DOMAIN ranked' |-> IF i \in excluded THEN "excluded" ELSE "kept"]
      /\ dropped' = RecordOf(out, "excluded")
    BY DEF SortAndExclude, RecordOf
<1>3. RankedList(ranked')
  <2>1. LinkedOK(items, stories) /\ llm \in LlmScores /\ scored = ScoreStories(stories, llm)
      BY <1>1 DEF LinkState, Merged, Scored
  <2>2. QED
      BY <1>1, <2>1, RankedIs
<1>4. RefusedPlaces' = excluded
    BY <1>2 DEF RefusedPlaces
<1>5. excluded \subseteq DOMAIN ranked'
    OBVIOUS
<1> HIDE DEF excluded
<1>6. /\ RankedList(out)
      /\ \A n \in DOMAIN out : \E i \in excluded : out[n] = ranked'[i]
      /\ \A i \in excluded : \E n \in DOMAIN out : out[n] = ranked'[i]
    BY <1>3, <1>5, PickedList
<1> HIDE DEF out
<1>7. IdsOf(out, DOMAIN out) = IdsOf(ranked', excluded)
  <2>1. ASSUME NEW n \in DOMAIN out
        PROVE  \E i \in excluded : out[n].story.id = ranked'[i].story.id
      BY <1>6
  <2>2. ASSUME NEW i \in excluded
        PROVE  \E n \in DOMAIN out : out[n].story.id = ranked'[i].story.id
      BY <1>6
  <2>3. QED
      BY <2>1, <2>2 DEF IdsOf
<1>8. RecordsOnce(dropped', IdsOf(ranked', excluded))
  <2>1. "excluded" \in Reasons
      BY DEF Reasons
  <2>2. RecordsOnce(RecordOf(out, "excluded"), IdsOf(out, DOMAIN out))
      BY <1>6, <2>1, RecordedList
  <2>3. QED
      BY <1>2, <1>7, <2>2
<1>9. QED
    BY <1>1, <1>4, <1>8 DEF DropsOK, Filtered

LEMMA DropDrops ==
    ASSUME ListsOK, AccountsOK, LinkState, DropsOK, Drop
    PROVE  DropsOK'
<1>0. PICK here : here = place
    OBVIOUS
<1>1. /\ state = "SCORED" /\ state' = state /\ here \in DOMAIN ranked /\ ranked' = ranked /\ pass' = pass
      /\ verdict[here] = "kept" /\ verdict' = [verdict EXCEPT ![here] = pass]
      /\ dropped' = Append(dropped, RecordDrop(ranked[here], pass))
    BY <1>0 DEF Drop, Visit, Counted
<1>2. pass \in {"source", "category"} /\ Accounts
  <2>1. pass # "none"
      BY <1>0, <1>1 DEF ListsOK, Listed
  <2>2. QED
      BY <2>1 DEF ListsOK, AccountsOK
<1>3. RankedList(ranked)
  <2>1. LinkedOK(items, stories) /\ llm \in LlmScores /\ ranked = SortByScore(ScoreStories(stories, llm))
      BY <1>1, <1>2 DEF LinkState, Merged, Scored
  <2>2. QED
      BY <2>1, RankedIs
<1>4. RefusedPlaces' = RefusedPlaces \cup {here}
  <2>1. DOMAIN verdict = DOMAIN ranked
      BY <1>2 DEF Accounts
  <2>2. \A i \in DOMAIN ranked : verdict'[i] # "kept" <=> verdict[i] # "kept" \/ i = here
      BY <1>1, <1>2, <2>1
  <2>3. QED
      BY <1>1, <2>2 DEF RefusedPlaces
<1>5. RecordDrop(ranked[here], pass) \in DropRecords /\ RecordDrop(ranked[here], pass).id = ranked[here].story.id
  <2>1. ranked[here].story.id \in [1..4 -> Int] /\ pass \in Reasons
      BY <1>1, <1>2, <1>3 DEF RankedList, Reasons
  <2>2. QED
      BY <2>1 DEF RecordDrop, DropRecords
<1>6. ranked[here].story.id \notin IdsOf(ranked, RefusedPlaces)
    BY <1>1, <1>3 DEF IdsOf, RefusedPlaces, RankedList
<1>7. RecordsOnce(dropped, IdsOf(ranked, RefusedPlaces))
    BY <1>1, <1>2 DEF DropsOK
<1>8. RecordsOnce(dropped', IdsOf(ranked, RefusedPlaces) \cup {ranked[here].story.id})
    BY <1>1, <1>5, <1>6, <1>7, RecordsAppended
<1>9. IdsOf(ranked, RefusedPlaces) \cup {ranked[here].story.id} = IdsOf(ranked, RefusedPlaces \cup {here})
    BY DEF IdsOf
<1>10. RecordsOnce(dropped', IdsOf(ranked', RefusedPlaces'))
    BY <1>1, <1>4, <1>8, <1>9
<1>11. QED
    BY <1>1, <1>10 DEF DropsOK, Filtered

LEMMA FilterDrops ==
    ASSUME LinkState, DropsOK, ToQuotaFiltered
    PROVE  DropsOK'
<1>1. /\ state = "SCORED" /\ state' = "QUOTA_FILTERED" /\ pass = "category"
      /\ ranked' = ranked /\ verdict' = verdict /\ quotas' = quotas
      /\ sections' = SectionsOf /\ dropped' = dropped \o RecordOf(sections'.left, "radar")
    BY DEF ToQuotaFiltered, Become, filterVars, linkedVars, SectionsOf, KeptPlaces, RecordOf
<1> DEFINE kept == Pick(ranked, KeptPlaces)
           left == sections'.left
<1>2. RankedList(ranked)
  <2>1. LinkedOK(items, stories) /\ llm \in LlmScores /\ ranked = SortByScore(ScoreStories(stories, llm))
      BY <1>1 DEF LinkState, Merged, Scored
  <2>2. QED
      BY <2>1, RankedIs
<1>3. RankedList(kept) /\ \A n \in DOMAIN kept : \E i \in KeptPlaces : kept[n] = ranked[i]
  <2>1. KeptPlaces \subseteq DOMAIN ranked
      BY DEF KeptPlaces
  <2>2. QED
      BY <1>2, <2>1, PickedList
<1> HIDE DEF kept
<1>4. Shares(Parts(sections'), kept)
    BY <1>1, <1>3, SectionsShare DEF SectionsOf, kept
<1>5. DOMAIN Parts(sections') = 1..5 /\ Parts(sections')[5] = left
    BY DEF Parts
<1>6. RankedList(left) /\ \A n \in DOMAIN left : \E i \in DOMAIN kept : left[n] = kept[i]
    BY <1>4, <1>5 DEF Shares
<1> HIDE DEF left
<1>7. RecordsOnce(RecordOf(left, "radar"), IdsOf(left, DOMAIN left))
  <2>1. "radar" \in Reasons
      BY DEF Reasons
  <2>2. QED
      BY <1>6, <2>1, RecordedList
<1>8. IdsOf(ranked, RefusedPlaces) \cap IdsOf(left, DOMAIN left) = {}
  <2>1. ASSUME NEW i \in RefusedPlaces, NEW n \in DOMAIN left
        PROVE  ranked[i].story.id # left[n].story.id
    <3>1. PICK m \in DOMAIN kept : left[n] = kept[m]
        BY <1>6
    <3>2. PICK j \in KeptPlaces : kept[m] = ranked[j]
        BY <1>3
    <3>3. i \in DOMAIN ranked /\ j \in DOMAIN ranked /\ i # j
        BY DEF RefusedPlaces, KeptPlaces
    <3>4. QED
        BY <1>2, <3>1, <3>2, <3>3 DEF RankedList
  <2>2. QED
      BY <2>1 DEF IdsOf
<1>9. RecordsOnce(dropped, IdsOf(ranked, RefusedPlaces))
    BY <1>1 DEF DropsOK
<1>10. RecordsOnce(dropped', IdsOf(ranked, RefusedPlaces) \cup IdsOf(left, DOMAIN left))
    BY <1>1, <1>7, <1>8, <1>9, RecordsJoined DEF left
<1>11. RefusedPlaces' = RefusedPlaces /\ SectionsOf' = SectionsOf
    BY <1>1 DEF RefusedPlaces, SectionsOf, KeptPlaces
<1>12. QED
    BY <1>1, <1>10, <1>11 DEF DropsOK, Filtered, left

LEMMA DropsStep ==
    ASSUME ListsOK, AccountsOK, LinkState, DropsOK, [SelectionNext]_selectionVars
    PROVE  DropsOK'
<1>1. CASE SortAndExclude
    BY <1>1, ExcludeDrops
<1>2. CASE Drop
    BY <1>2, DropDrops
<1>3. CASE ToQuotaFiltered
    BY <1>3, FilterDrops
<1>4. CASE PassOver \/ Admit
  <2>1. /\ state = "SCORED" /\ state' = state /\ ranked' = ranked /\ pass' = pass /\ verdict' = verdict /\ dropped' = dropped
      BY <1>4 DEF PassOver, Admit, Visit
  <2>2. RefusedPlaces' = RefusedPlaces
      BY <2>1 DEF RefusedPlaces
  <2>3. QED
      BY <2>1, <2>2 DEF DropsOK, Filtered
<1>5. CASE NextPass
  <2>1. /\ state = "SCORED" /\ state' = state /\ ranked' = ranked /\ pass = "source" /\ verdict' = verdict /\ dropped' = dropped
      BY <1>5 DEF NextPass
  <2>2. RefusedPlaces' = RefusedPlaces
      BY <2>1 DEF RefusedPlaces
  <2>3. QED
      BY <2>1, <2>2 DEF DropsOK, Filtered
<1>6. CASE ToEntityTagged \/ ToCandidateGrouped \/ ToStoriesMerged \/ ToStoriesFinal \/ ToScored
  <2>1. /\ state' \notin {"QUOTA_FILTERED", "ORDERED_OUTPUTS"} /\ state # "SCORED" /\ pass' = pass /\ ~(state \in Scored)
      BY <1>6 DEF ToEntityTagged, ToCandidateGrouped, ToStoriesMerged, ToStoriesFinal, ToScored, Become, filterVars, Scored
  <2>2. pass' = "none"
      BY <2>1 DEF LinkState
  <2>3. QED
      BY <2>1, <2>2 DEF DropsOK, Filtered
<1>7. CASE ToOrderedOutputs
  <2>1. /\ state = "QUOTA_FILTERED" /\ state' = "ORDERED_OUTPUTS" /\ ranked' = ranked /\ verdict' = verdict
        /\ quotas' = quotas /\ dropped' = dropped /\ sections' = sections /\ output' = BuildOutput(sections)
      BY <1>7 DEF ToOrderedOutputs, Become, linkedVars, filterVars
  <2>2. RefusedPlaces' = RefusedPlaces /\ SectionsOf' = SectionsOf
      BY <2>1 DEF RefusedPlaces, SectionsOf, KeptPlaces
  <2>3. QED
      BY <2>1, <2>2 DEF DropsOK, Filtered
<1>8. CASE UNCHANGED selectionVars
  <2>1. /\ state' = state /\ ranked' = ranked /\ verdict' = verdict /\ pass' = pass
        /\ quotas' = quotas /\ dropped' = dropped /\ sections' = sections /\ output' = output
      BY <1>8 DEF selectionVars, linkedVars, filterVars
  <2>2. RefusedPlaces' = RefusedPlaces /\ SectionsOf' = SectionsOf
      BY <2>1 DEF RefusedPlaces, SectionsOf, KeptPlaces
  <2>3. QED
      BY <2>1, <2>2 DEF DropsOK, Filtered
<1>9. QED
    BY <1>1, <1>2, <1>3, <1>4, <1>5, <1>6, <1>7, <1>8 DEF SelectionNext

-----------------------------------------------------------------------------
(* What a reader is shown and what the record says, at the end.               *)
LEMMA ItemsAreOnce ==
    ASSUME NEW list, NEW sts, LinkedOK(list, sts), NEW i \in DOMAIN list, ItemsOK(list)
    PROVE  Cardinality({at \in UNION {{k} \X (DOMAIN sts[k].items) : k \in DOMAIN sts} :
                          sts[at[1]].items[at[2]] = list[i]}) = 1
<1> DEFINE has == {at \in UNION {{k} \X (DOMAIN sts[k].items) : k \in DOMAIN sts} : sts[at[1]].items[at[2]] = list[i]}
<1>1. PICK k \in DOMAIN sts : \E n \in DOMAIN sts[k].items : sts[k].items[n] = list[i]
    BY DEF LinkedOK
<1>2. PICK n \in DOMAIN sts[k].items : sts[k].items[n] = list[i]
    BY <1>1
<1>3. <<k, n>> \in has
    BY <1>2
<1>4. ASSUME NEW at \in has
      PROVE  at = <<k, n>>
  <2>1. PICK l \in DOMAIN sts : \E m \in DOMAIN sts[l].items : at = <<l, m>>
      OBVIOUS
  <2>2. PICK m \in DOMAIN sts[l].items : at = <<l, m>>
      BY <2>1
  <2>3. sts[l].items[m] = list[i]
      BY <2>2
  <2>4. k = l /\ n = m
      BY <1>2, <2>3 DEF LinkedOK
  <2>5. QED
      BY <2>2, <2>4
<1> HIDE DEF has
<1>5. has = {<<k, n>>}
    BY <1>3, <1>4
<1>6. Cardinality(has) = 1
    BY <1>5, FS_Singleton
<1>7. QED
    BY <1>6 DEF has

CountOf(s, x) == Cardinality({n \in DOMAIN s : s[n].id = x})

LEMMA OneOrNone ==
    ASSUME NEW s, NEW x, \A n, m \in DOMAIN s : s[n].id = s[m].id => n = m
    PROVE  /\ (\E n \in DOMAIN s : s[n].id = x) => CountOf(s, x) = 1
           /\ ~(\E n \in DOMAIN s : s[n].id = x) => CountOf(s, x) = 0
<1> DEFINE found == {n \in DOMAIN s : s[n].id = x}
<1>1. ASSUME NEW n \in DOMAIN s, s[n].id = x
      PROVE  Cardinality(found) = 1
  <2>1. found = {n}
      BY <1>1
  <2>2. QED
      BY <2>1, FS_Singleton
<1>2. ASSUME ~(\E n \in DOMAIN s : s[n].id = x)
      PROVE  Cardinality(found) = 0
  <2>1. found = {}
      BY <1>2
  <2>2. QED
      BY <2>1, FS_EmptySet
<1>3. QED
    BY <1>1, <1>2 DEF CountOf

LEMMA NothingLostHolds ==
    ASSUME LinkState, DropsOK
    PROVE  NothingLost
<1> SUFFICES ASSUME state = "ORDERED_OUTPUTS"
             PROVE  NothingLost
    BY DEF NothingLost
<1> DEFINE kept == Pick(ranked, KeptPlaces)
           parts == Parts(sections)
           shown == Displayed(output)
           leftIds == IdsOf(sections.left, DOMAIN sections.left)
           refusedIds == IdsOf(ranked, RefusedPlaces)
<1>1. /\ ItemsOK(items) /\ LinkedOK(items, stories) /\ llm \in LlmScores
      /\ ranked = SortByScore(ScoreStories(stories, llm))
    BY DEF LinkState, Merged, Scored, Filtered
<1>2. sections = SectionsOf /\ output = BuildOutput(sections) /\ RecordsOnce(dropped, refusedIds \cup leftIds)
    BY DEF DropsOK, Filtered
<1>3. /\ RankedList(ranked)
      /\ \A n \in DOMAIN ranked : \E k \in DOMAIN stories : ranked[n].story = stories[k]
      /\ \A k \in DOMAIN stories : \E n \in DOMAIN ranked : ranked[n].story = stories[k]
    BY <1>1, RankedIs
<1>4. KeptPlaces \subseteq DOMAIN ranked
    BY DEF KeptPlaces
<1>5. /\ RankedList(kept)
      /\ \A n \in DOMAIN kept : \E i \in KeptPlaces : kept[n] = ranked[i]
      /\ \A i \in KeptPlaces : \E n \in DOMAIN kept : kept[n] = ranked[i]
    BY <1>3, <1>4, PickedList
<1>6. Shares(parts, kept)
    BY <1>2, <1>5, SectionsShare DEF SectionsOf
<1> HIDE DEF kept
<1>7. DOMAIN parts = 1..5 /\ parts[5] = sections.left
    BY DEF Parts
<1>8. /\ Listed(shown) /\ shown = [n \in DOMAIN shown |-> shown[n]]
      /\ \A n \in DOMAIN shown : \E l \in 1..4 : \E m \in DOMAIN parts[l] : shown[n] = parts[l][m].story
      /\ \A l \in 1..4 : \A m \in DOMAIN parts[l] : \E n \in DOMAIN shown : shown[n] = parts[l][m].story
      /\ \A n, m \in DOMAIN shown : shown[n].id = shown[m].id => n = m
    BY <1>2, <1>6, ShownOnce
<1> HIDE DEF parts, shown
<1>9. ASSUME NEW l \in 1..5, NEW m \in DOMAIN parts[l]
      PROVE  \E i \in KeptPlaces : parts[l][m] = ranked[i]
  <2>1. PICK n \in DOMAIN kept : parts[l][m] = kept[n]
      BY <1>6, <1>7 DEF Shares
  <2>2. QED
      BY <1>5, <2>1
<1>10. \A l, k \in 1..5 : \A n \in DOMAIN parts[l], m \in DOMAIN parts[k] :
         parts[l][n].story.id = parts[k][m].story.id => l = k /\ n = m
    BY <1>6, <1>7 DEF Shares
<1>11. leftIds = {parts[5][m].story.id : m \in DOMAIN parts[5]}
    BY <1>7 DEF IdsOf
<1>12. refusedIds = {ranked[i].story.id : i \in RefusedPlaces}
    BY DEF IdsOf
<1>13. KeptPlaces \cap RefusedPlaces = {} /\ DOMAIN ranked = KeptPlaces \cup RefusedPlaces
    BY DEF KeptPlaces, RefusedPlaces
<1> HIDE DEF leftIds, refusedIds
(* The three ways of a place: refused, left over, shown.                      *)
<1>14. ASSUME NEW n \in DOMAIN shown
       PROVE  shown[n].id \notin refusedIds \cup leftIds
  <2>1. PICK l \in 1..4 : \E m \in DOMAIN parts[l] : shown[n] = parts[l][m].story
      BY <1>8
  <2>2. PICK m \in DOMAIN parts[l] : shown[n] = parts[l][m].story
      BY <2>1
  <2>3. l \in 1..5 /\ l # 5
      OBVIOUS
  <2>4. shown[n].id \notin leftIds
      BY <1>10, <1>11, <2>2, <2>3
  <2>5. PICK i \in KeptPlaces : parts[l][m] = ranked[i]
      BY <1>9, <2>3
  <2>6. shown[n].id \notin refusedIds
      BY <1>3, <1>12, <1>13, <2>2, <2>5 DEF RankedList
  <2>7. QED
      BY <2>4, <2>6
<1>15. ASSUME NEW i \in DOMAIN ranked
       PROVE  \/ ranked[i].story.id \in refusedIds \cup leftIds
              \/ \E n \in DOMAIN shown : shown[n] = ranked[i].story
  <2>1. CASE i \in RefusedPlaces
      BY <1>12, <2>1
  <2>2. CASE i \in KeptPlaces
    <3>1. PICK n \in DOMAIN kept : kept[n] = ranked[i]
        BY <1>5, <2>2
    <3>2. PICK l \in 1..5 : \E m \in DOMAIN parts[l] : parts[l][m] = ranked[i]
        BY <1>6, <1>7, <3>1 DEF Shares
    <3>3. PICK m \in DOMAIN parts[l] : parts[l][m] = ranked[i]
        BY <3>2
    <3>4. CASE l = 5
        BY <1>11, <3>3, <3>4
    <3>5. CASE l \in 1..4
        BY <1>8, <3>3, <3>5
    <3>6. QED
        BY <3>4, <3>5
  <2>3. QED
      BY <1>13, <2>1, <2>2
<1>16. ASSUME NEW x \in refusedIds \cup leftIds
       PROVE  \E k \in DOMAIN stories : stories[k].id = x
  <2>1. PICK i \in DOMAIN ranked : ranked[i].story.id = x
    <3>1. CASE x \in refusedIds
        BY <1>12, <1>13, <3>1
    <3>2. CASE x \in leftIds
      <4>1. PICK m \in DOMAIN parts[5] : parts[5][m].story.id = x
          BY <1>11, <3>2
      <4>2. 5 \in 1..5
          OBVIOUS
      <4>3. PICK i \in KeptPlaces : parts[5][m] = ranked[i]
          BY <1>9, <4>1, <4>2
      <4>4. QED
          BY <1>13, <4>1, <4>3
    <3>3. QED
        BY <3>1, <3>2
  <2>2. QED
      BY <1>3, <2>1
<1>17. \A i \in DOMAIN items :
         Cardinality({at \in UNION {{k} \X (DOMAIN stories[k].items) : k \in DOMAIN stories} :
                        stories[at[1]].items[at[2]] = items[i]}) = 1
    BY <1>1, ItemsAreOnce
<1>18. \A k, l \in DOMAIN stories : stories[k].id = stories[l].id => k = l
    BY <1>1 DEF LinkedOK
<1>19. ASSUME NEW k \in DOMAIN stories
       PROVE  CountOf(shown, stories[k].id) + CountOf(dropped, stories[k].id) = 1
  <2> DEFINE id == stories[k].id
  <2>1. PICK i \in DOMAIN ranked : ranked[i].story = stories[k]
      BY <1>3
  <2>2. \A n, m \in DOMAIN dropped : dropped[n].id = dropped[m].id => n = m
      BY <1>2 DEF RecordsOnce
  <2>3. id \in refusedIds \cup leftIds <=> \E n \in DOMAIN dropped : dropped[n].id = id
      BY <1>2 DEF RecordsOnce
  <2>4. CASE id \in refusedIds \cup leftIds
    <3>1. ~(\E n \in DOMAIN shown : shown[n].id = id)
        BY <1>14, <2>4
    <3>2. CountOf(shown, id) = 0
        BY <1>8, <3>1, OneOrNone
    <3>3. CountOf(dropped, id) = 1
        BY <2>2, <2>3, <2>4, OneOrNone
    <3>4. QED
        BY <3>2, <3>3
  <2>5. CASE id \notin refusedIds \cup leftIds
    <3>1. \E n \in DOMAIN shown : shown[n].id = id
        BY <1>15, <2>1, <2>5
    <3>2. CountOf(shown, id) = 1
        BY <1>8, <3>1, OneOrNone
    <3>3. CountOf(dropped, id) = 0
        BY <2>2, <2>3, <2>5, OneOrNone
    <3>4. QED
        BY <3>2, <3>3
  <2>6. QED
      BY <2>4, <2>5
<1>20. \A n \in DOMAIN shown : \E k \in DOMAIN stories : shown[n] = stories[k]
  <2> TAKE n \in DOMAIN shown
  <2>1. PICK l \in 1..4 : \E m \in DOMAIN parts[l] : shown[n] = parts[l][m].story
      BY <1>8
  <2>2. PICK m \in DOMAIN parts[l] : shown[n] = parts[l][m].story
      BY <2>1
  <2>3. l \in 1..5
      OBVIOUS
  <2>4. PICK i \in KeptPlaces : parts[l][m] = ranked[i]
      BY <1>9, <2>3
  <2>5. QED
      BY <1>3, <1>13, <2>2, <2>4
<1>21. \A n \in DOMAIN dropped : \E k \in DOMAIN stories : stories[k].id = dropped[n].id
    BY <1>2, <1>16 DEF RecordsOnce
<1>22. CollectRankerStories(output) = Displayed(output)
    BY <1>8, CollectedAreShown DEF shown
<1>23. /\ \A k \in DOMAIN stories :
             Cardinality({n \in DOMAIN Displayed(output) : Displayed(output)[n].id = stories[k].id})
             + Cardinality({n \in DOMAIN dropped : dropped[n].id = stories[k].id}) = 1
       /\ {Displayed(output)[n] : n \in DOMAIN Displayed(output)} \subseteq {stories[k] : k \in DOMAIN stories}
       /\ {dropped[n].id : n \in DOMAIN dropped} \subseteq {stories[k].id : k \in DOMAIN stories}
    BY <1>19, <1>20, <1>21 DEF shown, CountOf
<1>24. QED
    BY <1>17, <1>18, <1>22, <1>23 DEF NothingLost

(* No item, story or drop is lost or told twice: whatever a store holds,      *)
(* however its query breaks ties, and whatever scores and quotas there are.   *)
THEOREM NothingIsLost == SelectionSpec => []NothingLost
<1>1. SelectionInit => ListsOK /\ AccountsOK /\ LinkState /\ DropsOK
    BY ListsStart, AccountsStart, LinkStart, DropsStart
<1>2. /\ ListsOK /\ AccountsOK /\ LinkState /\ DropsOK /\ [SelectionNext]_selectionVars
      => (ListsOK /\ AccountsOK /\ LinkState /\ DropsOK)'
    BY ListsStep, AccountsStep, LinkStep, DropsStep
<1>3. LinkState /\ DropsOK => NothingLost
    BY NothingLostHolds
<1>4. QED
    BY <1>1, <1>2, <1>3, PTL DEF SelectionSpec
=============================================================================
