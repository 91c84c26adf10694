------------------------- MODULE LinearClientProofs -------------------------
(***************************************************************************)
(* A listing of any number of issues, in pages of any size: what each page *)
(* holds, and why an issue that stays in the states asked for is read.     *)
(***************************************************************************)
EXTENDS LinearClient, FiniteSetTheorems, SequenceTheorems, TLAPS

\* What was in the states asked for since the first request is read up to the cursor,
\* nothing behind it has been read, and nothing twice.
ListingInv ==
    Listing =>
        /\ stayed \subseteq Matching(asked, open)
        /\ \A i \in stayed : i <= cursor => i \in ToSet(all)
        /\ \A i \in ToSet(all) : i <= cursor
        /\ IsInjective(all)

ClientInv == ClientTypeOK /\ ListingInv

LEMMA MinOfTwo ==
    ASSUME NEW m \in Int, NEW n \in Int
    PROVE  Min({m, n}) = IF m <= n THEN m ELSE n
<1>1. \E x \in {m, n} : \A y \in {m, n} : x <= y
  OBVIOUS
<1>2. Min({m, n}) \in {m, n} /\ \A y \in {m, n} : Min({m, n}) <= y
  BY <1>1 DEF Min
<1> QED
  BY <1>2

-----------------------------------------------------------------------------
(* Ranks in a finite set of numbers *)

LEMMA RankType ==
    ASSUME NEW S \in SUBSET Int, IsFiniteSet(S), NEW i \in S
    PROVE  Cardinality({j \in S : j <= i}) \in 1..Cardinality(S)
<1> DEFINE below == {j \in S : j <= i}
<1>1. below \in SUBSET S /\ i \in below
  OBVIOUS
<1> HIDE DEF below
<1>2. IsFiniteSet(below) /\ Cardinality(below) <= Cardinality(S)
  BY <1>1, FS_Subset
<1>3. Cardinality(below) \in Nat /\ Cardinality(S) \in Nat
  BY <1>2, FS_CardinalityType
<1>4. Cardinality(below) # 0
  BY <1>1, <1>2, FS_EmptySet
<1>5. Cardinality(below) \in 1..Cardinality(S)
  BY <1>2, <1>3, <1>4
<1> QED
  BY <1>5 DEF below

LEMMA RankGrows ==
    ASSUME NEW S \in SUBSET Int, IsFiniteSet(S), NEW i \in S, NEW k \in S, i < k
    PROVE  Cardinality({j \in S : j <= i}) < Cardinality({j \in S : j <= k})
<1> DEFINE A == {j \in S : j <= i}
           B == {j \in S : j <= k}
<1>0. i \in Int /\ k \in Int /\ \A j \in S : j \in Int
  OBVIOUS
<1>1. A \in SUBSET B /\ k \in B /\ k \notin A /\ B \in SUBSET S
  <2>1. \A j \in S : j <= i => j <= k
    BY <1>0
  <2>2. A \in SUBSET B
    BY <2>1
  <2>3. k <= k /\ ~(k <= i)
    BY <1>0
  <2> QED
    BY <2>2, <2>3
<1> HIDE DEF A, B
<1>2. IsFiniteSet(B)
  BY <1>1, FS_Subset
<1>3. IsFiniteSet(A) /\ Cardinality(A) <= Cardinality(B) /\ Cardinality(A) # Cardinality(B)
  BY <1>1, <1>2, FS_Subset
<1>4. Cardinality(A) \in Nat /\ Cardinality(B) \in Nat
  BY <1>2, <1>3, FS_CardinalityType
<1>5. Cardinality(A) < Cardinality(B)
  BY <1>3, <1>4
<1> QED
  BY <1>5 DEF A, B

\* Every rank up to the cardinality is taken: ranks are an injection into as many
\* numbers as there are elements.
LEMMA RankTaken ==
    ASSUME NEW S \in SUBSET Int, IsFiniteSet(S), NEW k \in 1..Cardinality(S)
    PROVE  \E i \in S : Cardinality({j \in S : j <= i}) = k
<1> DEFINE n == Cardinality(S)
           r == [i \in S |-> Cardinality({j \in S : j <= i})]
<1>1. n \in Nat
  BY FS_CardinalityType
<1>2. r \in [S -> 1..n]
  BY RankType
<1>3. \A i, l \in S : i # l => r[i] # r[l]
  <2> SUFFICES ASSUME NEW i \in S, NEW l \in S, i < l PROVE r[i] # r[l]
    OBVIOUS
  <2>1. r[i] < r[l] /\ r[i] \in Int /\ r[l] \in Int
    BY RankGrows, <1>2
  <2> QED
    BY <2>1
<1>4. r \in Injection(S, 1..n)
  BY <1>2, <1>3 DEF Injection, IsInjective
<1>5. IsFiniteSet(1..n) /\ Cardinality(1..n) = n
  BY <1>1, FS_Interval
<1>6. r \in Surjection(S, 1..n)
  BY <1>4, <1>5, FS_Injection
<1>7. \E i \in S : r[i] = k
  BY <1>6 DEF Surjection
<1> QED
  BY <1>7

-----------------------------------------------------------------------------
(* The page *)

LEMMA RestType ==
    ASSUME ClientTypeOK
    PROVE  /\ Rest \in SUBSET Issues /\ Rest \in SUBSET Int /\ IsFiniteSet(Rest)
           /\ cursor \in Int /\ \A i \in Issues : i \in Int
<1>1. Rest \in SUBSET Issues
  BY DEF ClientTypeOK, Rest, Matching
<1>2. \A i \in Issues : i \in Int
  BY IssuesAssumption
<1>3. IsFiniteSet(Rest)
  BY <1>1, IssuesAssumption, FS_Subset
<1> QED
  BY <1>1, <1>2, <1>3 DEF ClientTypeOK

LEMMA PageLength ==
    ASSUME ClientTypeOK
    PROVE  /\ Page \in Seq(Rest) /\ Len(Page) \in 0..Cardinality(Rest)
           /\ \A k \in 1..Len(Page) : Page[k] \in Rest /\ Rank(Page[k]) = k
           /\ HasNextPage => Len(Page) = PageSize
           /\ ~HasNextPage => Len(Page) = Cardinality(Rest)
<1> DEFINE n == Min({Cardinality(Rest), PageSize})
<1>1. Cardinality(Rest) \in Nat
  BY RestType, FS_CardinalityType
<1>2. n = IF Cardinality(Rest) <= PageSize THEN Cardinality(Rest) ELSE PageSize
  BY <1>1, PageAssumption, MinOfTwo
<1>3. n \in 0..Cardinality(Rest)
  BY <1>1, <1>2, PageAssumption
<1>4. Page = [k \in 1..n |-> CHOOSE i \in Rest : Rank(i) = k]
  BY DEF Page
<1> HIDE DEF n
<1>5. ASSUME NEW k \in 1..n PROVE Page[k] \in Rest /\ Rank(Page[k]) = k
  <2>1. k \in 1..Cardinality(Rest)
    BY <1>1, <1>3
  <2>2. \E i \in Rest : Rank(i) = k
    BY <2>1, RestType, RankTaken DEF Rank
  <2> QED
    BY <1>4, <2>2
<1>6. Page \in [1..n -> Rest]
  BY <1>4, <1>5
<1>7. n \in Nat
  BY <1>1, <1>3
<1>8. Page \in Seq(Rest) /\ Len(Page) = n
  BY <1>6, <1>7
<1>9. /\ HasNextPage => Len(Page) = PageSize
      /\ ~HasNextPage => Len(Page) = Cardinality(Rest)
  BY <1>1, <1>2, <1>8, PageAssumption DEF HasNextPage
<1> QED
  BY <1>3, <1>5, <1>8, <1>9

\* A page is in order; it has every issue up to its last one, and all of them when there
\* is no next page.
LEMMA PageIsFirst ==
    ASSUME ClientTypeOK
    PROVE  /\ IsInjective(Page)
           /\ ToSet(Page) \subseteq Rest
           /\ HasNextPage => Len(Page) > 0 /\ Page[Len(Page)] \in Rest
                             /\ \A i \in ToSet(Page) : i <= Page[Len(Page)]
           /\ \A i \in Rest :
                  ~HasNextPage \/ i <= Page[Len(Page)] => i \in ToSet(Page)
<1>1. /\ Page \in Seq(Rest) /\ Len(Page) \in Nat /\ DOMAIN Page = 1..Len(Page)
      /\ Len(Page) \in 0..Cardinality(Rest) /\ Cardinality(Rest) \in Nat
      /\ \A k \in 1..Len(Page) : Page[k] \in Rest /\ Rank(Page[k]) = k
      /\ HasNextPage => Len(Page) > 0
      /\ ~HasNextPage => Len(Page) = Cardinality(Rest)
  BY PageLength, RestType, FS_CardinalityType, PageAssumption, LenProperties
<1>2. \A i, k \in Rest : i < k => Rank(i) < Rank(k)
  BY RestType, RankGrows DEF Rank
<1>3. \A i \in Rest : Rank(i) \in 1..Cardinality(Rest)
  BY RestType, RankType DEF Rank
<1>4. ASSUME NEW i \in Rest, NEW k \in Rest, Rank(i) <= Rank(k) PROVE i <= k
  <2>1. i \in Int /\ k \in Int /\ Rank(i) \in Int /\ Rank(k) \in Int
    BY <1>3, RestType
  <2>2. ~(k < i)
    BY <1>2, <1>4, <2>1
  <2> QED
    BY <2>1, <2>2
<1>5. IsInjective(Page)
  BY <1>1 DEF IsInjective
<1>6. ToSet(Page) \subseteq Rest
  BY <1>1 DEF ToSet
<1>7. ASSUME HasNextPage
      PROVE  Page[Len(Page)] \in Rest /\ \A i \in ToSet(Page) : i <= Page[Len(Page)]
  BY <1>1, <1>4, <1>7 DEF ToSet
<1>8. ASSUME NEW i \in Rest, ~HasNextPage \/ i <= Page[Len(Page)] PROVE i \in ToSet(Page)
  <2>1. Rank(i) \in 1..Len(Page)
    <3>1. CASE ~HasNextPage
      BY <1>1, <1>3, <3>1
    <3>2. CASE HasNextPage
      <4>1. i <= Page[Len(Page)] /\ Page[Len(Page)] \in Rest /\ Rank(Page[Len(Page)]) = Len(Page)
        BY <1>1, <1>8, <3>2
      <4>2. i = Page[Len(Page)] \/ i < Page[Len(Page)]
        BY <4>1, RestType
      <4> QED
        BY <1>1, <1>2, <1>3, <4>1, <4>2
    <3> QED
      BY <3>1, <3>2
  <2>2. Page[Rank(i)] \in Rest /\ Rank(Page[Rank(i)]) = Rank(i)
    BY <1>1, <2>1
  <2>3. Page[Rank(i)] = i
    <3> DEFINE k == Page[Rank(i)]
    <3>1. k \in Rest /\ Rank(k) = Rank(i) /\ Rank(i) \in Int
      BY <1>3, <2>2
    <3>2. ~(k < i) /\ ~(i < k)
      BY <1>2, <3>1
    <3>3. k \in Int /\ i \in Int
      BY <3>1, RestType
    <3> HIDE DEF k
    <3>4. k = i
      BY <3>2, <3>3
    <3> QED
      BY <3>4 DEF k
  <2> QED
    BY <1>1, <2>1, <2>3 DEF ToSet
<1> QED
  BY <1>1, <1>5, <1>6, <1>7, <1>8

-----------------------------------------------------------------------------
(* The listing *)

\* What has been read together with the page.
LEMMA AnswerFacts ==
    ASSUME ClientInv, Listing
    PROVE  /\ Answer \in Seq(Issues)
           /\ ToSet(Answer) = ToSet(all) \cup ToSet(Page)
           /\ IsInjective(Answer)
<1>1. /\ all \in Seq(Issues) /\ Page \in Seq(Issues)
      /\ Len(all) \in Nat /\ DOMAIN all = 1..Len(all)
      /\ Len(Page) \in Nat /\ DOMAIN Page = 1..Len(Page)
  BY RestType, PageLength, SeqMonotonic, LenProperties DEF ClientInv, ClientTypeOK
<1>2. /\ Answer \in Seq(Issues) /\ Len(Answer) = Len(all) + Len(Page)
      /\ \A k \in 1..(Len(all) + Len(Page)) :
             Answer[k] = IF k <= Len(all) THEN all[k] ELSE Page[k - Len(all)]
  BY <1>1, ConcatProperties DEF Answer
<1>3. DOMAIN Answer = 1..(Len(all) + Len(Page))
  BY <1>2, LenProperties
<1>4. ToSet(Answer) = ToSet(all) \cup ToSet(Page)
  <2>1. \A k \in 1..Len(all) : k \in 1..(Len(all) + Len(Page)) /\ Answer[k] = all[k]
    BY <1>1, <1>2
  <2>2. \A k \in 1..Len(Page) : Len(all) + k \in 1..(Len(all) + Len(Page)) /\ Answer[Len(all) + k] = Page[k]
    BY <1>1, <1>2
  <2>3. \A k \in 1..(Len(all) + Len(Page)) :
            \/ k \in 1..Len(all) /\ Answer[k] = all[k]
            \/ k - Len(all) \in 1..Len(Page) /\ Answer[k] = Page[k - Len(all)]
    BY <1>1, <1>2
  <2>4. ASSUME NEW i \in ToSet(Answer) PROVE i \in ToSet(all) \cup ToSet(Page)
    BY <1>1, <1>3, <2>3 DEF ToSet
  <2>5. ASSUME NEW i \in ToSet(all) PROVE i \in ToSet(Answer)
    BY <1>1, <1>3, <2>1 DEF ToSet
  <2>6. ASSUME NEW i \in ToSet(Page) PROVE i \in ToSet(Answer)
    BY <1>1, <1>3, <2>2 DEF ToSet
  <2> QED
    BY <2>4, <2>5, <2>6
<1>5. \A k \in 1..Len(all), l \in 1..Len(Page) : all[k] <= cursor /\ Page[l] > cursor /\ all[k] # Page[l]
  <2> SUFFICES ASSUME NEW k \in 1..Len(all), NEW l \in 1..Len(Page)
               PROVE  all[k] <= cursor /\ Page[l] > cursor /\ all[k] # Page[l]
    OBVIOUS
  <2>1. all[k] \in ToSet(all) /\ all[k] \in Int /\ cursor \in Int
    <3>1. all[k] \in Issues
      BY <1>1, ElementOfSeq
    <3> QED
      BY <1>1, <3>1, RestType DEF ToSet, ClientInv
  <2>2. all[k] <= cursor
    BY <2>1 DEF ClientInv, ListingInv
  <2>3. Page[l] \in Rest /\ Page[l] \in Int
    BY PageLength, RestType DEF ClientInv
  <2> QED
    BY <2>1, <2>2, <2>3 DEF Rest
<1>6. IsInjective(all) /\ IsInjective(Page)
  BY PageIsFirst DEF ClientInv, ListingInv
<1>7. IsInjective(Answer)
  <2> SUFFICES ASSUME NEW k \in 1..(Len(all) + Len(Page)), NEW l \in 1..(Len(all) + Len(Page)),
                      Answer[k] = Answer[l]
               PROVE  k = l
    BY <1>3 DEF IsInjective
  <2>1. CASE k <= Len(all) /\ l <= Len(all)
    BY <1>1, <1>2, <1>6, <2>1 DEF IsInjective
  <2>2. CASE k > Len(all) /\ l > Len(all)
    <3>1. k - Len(all) \in 1..Len(Page) /\ l - Len(all) \in 1..Len(Page)
      BY <1>1, <2>2
    <3>2. Page[k - Len(all)] = Page[l - Len(all)]
      BY <1>1, <1>2, <2>2
    <3>3. k - Len(all) = l - Len(all)
      BY <1>1, <1>6, <3>1, <3>2 DEF IsInjective
    <3> QED
      BY <1>1, <3>3
  <2>3. CASE k <= Len(all) /\ l > Len(all)
    <3>1. k \in 1..Len(all) /\ l - Len(all) \in 1..Len(Page)
      BY <1>1, <2>3
    <3> QED
      BY <1>1, <1>2, <1>5, <2>3, <3>1
  <2>4. CASE k > Len(all) /\ l <= Len(all)
    <3>1. l \in 1..Len(all) /\ k - Len(all) \in 1..Len(Page)
      BY <1>1, <2>4
    <3> QED
      BY <1>1, <1>2, <1>5, <2>4, <3>1
  <2> QED
    BY <1>1, <2>1, <2>2, <2>3, <2>4
<1> QED
  BY <1>2, <1>4, <1>7

\* The last page completes the answer: an issue that stayed is in it.
LEMMA NoneMissed ==
    ASSUME ClientInv, Listing, ~HasNextPage
    PROVE  stayed \subseteq ToSet(Answer)
<1> SUFFICES ASSUME NEW i \in stayed PROVE i \in ToSet(Answer)
  OBVIOUS
<1>1. i \in Matching(asked, open) /\ i \in Int /\ cursor \in Int
  BY IssuesAssumption DEF ClientInv, ClientTypeOK, ListingInv
<1>2. CASE i <= cursor
  BY <1>2, AnswerFacts DEF ClientInv, ListingInv
<1>3. CASE i > cursor
  BY <1>1, <1>3, PageIsFirst, AnswerFacts DEF ClientInv, Rest
<1> QED
  BY <1>1, <1>2, <1>3

LEMMA BeginInv ==
    ASSUME ClientInv, NEW states \in {"active", "terminal"}, BeginListing(states), open' = open
    PROVE  ClientInv'
<1>1. ClientTypeOK'
  BY EmptySeq DEF ClientInv, ClientTypeOK, BeginListing, Matching
<1>2. stayed' = Matching(asked, open)'
  BY DEF BeginListing, Matching
<1>3. \A i \in stayed' : ~(i <= cursor')
  BY <1>1, IssuesAssumption DEF ClientTypeOK, BeginListing
<1>4. ToSet(all') = {} /\ IsInjective(all')
  BY EmptySeq DEF BeginListing, ToSet, IsInjective
<1> QED
  BY <1>1, <1>2, <1>3, <1>4 DEF ClientInv, ListingInv

LEMMA NextPageInv == ASSUME ClientInv, NextPage, open' = open PROVE ClientInv'
<1>1. Listing /\ HasNextPage /\ all' = Answer /\ cursor' = Page[Len(Page)]
      /\ UNCHANGED <<asked, stayed>>
  BY DEF NextPage, Answer
<1>2. /\ cursor' \in Rest
      /\ \A i \in ToSet(Page) : i \in Rest /\ i <= cursor'
      /\ \A i \in Rest : i <= cursor' => i \in ToSet(Page)
  BY <1>1, PageIsFirst DEF ClientInv
<1>3. Rest \in SUBSET Issues /\ cursor \in Int /\ \A i \in Issues : i \in Int
  BY RestType DEF ClientInv
<1>4. ClientTypeOK'
  BY <1>1, <1>2, <1>3, AnswerFacts DEF ClientInv, ClientTypeOK
<1>5. /\ cursor' \in Int /\ cursor' > cursor /\ \A i \in stayed : i \in Int
      /\ \A i \in ToSet(all) : i \in Int
  <2>1. ToSet(all) \subseteq Issues
    BY LenProperties DEF ToSet, ClientInv, ClientTypeOK
  <2>2. cursor' > cursor
    BY <1>2 DEF Rest
  <2> QED
    BY <1>2, <1>3, <2>1, <2>2 DEF ClientInv, ClientTypeOK
<1>6. /\ stayed \subseteq Matching(asked, open)
      /\ \A i \in stayed : i <= cursor => i \in ToSet(all)
      /\ \A i \in ToSet(all) : i <= cursor
  BY <1>1 DEF ClientInv, ListingInv
<1>7. ToSet(all') = ToSet(all) \cup ToSet(Page) /\ IsInjective(all')
  BY <1>1, AnswerFacts
<1>8. \A i \in stayed : i <= cursor' => i \in ToSet(all')
  <2> SUFFICES ASSUME NEW i \in stayed, i <= cursor', ~(i <= cursor) PROVE i \in ToSet(Page)
    BY <1>6, <1>7
  <2>1. i \in Rest
    BY <1>3, <1>5, <1>6 DEF Rest
  <2> QED
    BY <1>2, <2>1
<1>9. ASSUME NEW i \in ToSet(all') PROVE i <= cursor'
  <2>1. CASE i \in ToSet(all)
    <3>1. i \in Int /\ i <= cursor
      BY <1>5, <1>6, <2>1
    <3> QED
      BY <1>3, <1>5, <3>1
  <2>2. CASE i \in ToSet(Page)
    BY <1>2, <2>2
  <2> QED
    BY <1>7, <2>1, <2>2
<1> QED
  BY <1>1, <1>4, <1>6, <1>7, <1>8, <1>9 DEF ClientInv, ListingInv, Matching

LEMMA OverInv ==
    ASSUME ClientInv, NEW how \in {"none", "failed"}, Over(how), open' = open
    PROVE  ClientInv'
BY EmptySeq DEF ClientInv, ClientTypeOK, ListingInv, Listing, Over

LEMMA ChangeInv == ASSUME ClientInv, NEW i \in Issues, Change(i) PROVE ClientInv'
<1>1. ClientTypeOK'
  BY DEF ClientInv, ClientTypeOK, Change, Matching
<1> QED
  BY <1>1 DEF ClientInv, ClientTypeOK, ListingInv, Listing, Change, Matching

LEMMA RestsClientInv == ASSUME ClientInv, UNCHANGED <<open, listing>> PROVE ClientInv'
BY DEF ClientInv, ClientTypeOK, ListingInv, Listing, Matching, listing
=============================================================================
