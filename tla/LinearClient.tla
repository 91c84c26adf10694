---------------------------- MODULE LinearClient ----------------------------
(***************************************************************************)
(* LinearClient, the tracker it asks, and one listing of issues at a time. *)
(*                                                                         *)
(* A listing is read page by page, each page a request of its own, while   *)
(* issues come into the states asked for and leave them.                   *)
(***************************************************************************)
EXTENDS Integers, FiniteSets, SequencesExt

CONSTANTS
    Issues,  \* issues, numbered in the tracker's order (orderBy: createdAt)
    PageSize \* issues in one answer: `first: 50`, also the tracker's default

ASSUME IssuesAssumption == Issues \subseteq Nat \ {0} /\ IsFiniteSet(Issues)
ASSUME PageAssumption == PageSize \in Nat \ {0}

VARIABLES
    open,   \* the tracker: issues in an active state, the others being closed
    asked,  \* the states the listing asks for, "active" or "terminal"; "none" after it,
            \* "failed" if it threw
    cursor, \* the last issue of the last page, 0 before the first
    all,    \* the issues read so far
    stayed  \* issues that were in the states asked for since its first request

listing == <<asked, cursor, all, stayed>>

ClientTypeOK ==
    /\ open \subseteq Issues
    /\ asked \in {"none", "failed", "active", "terminal"}
    /\ cursor \in Issues \cup {0}
    /\ all \in Seq(Issues)
    /\ stayed \subseteq Issues

Listing == asked \in {"active", "terminal"}

Matching(states, now) == IF states = "active" THEN now ELSE Issues \ now

\* The first request of fetchCandidateIssues ("active") or fetchIssuesByStates
\* ("terminal") is sent.
BeginListing(states) ==
    /\ asked' = states /\ cursor' = 0 /\ all' = << >>
    /\ stayed' = Matching(states, open)

\* Issues after the cursor, and the page the tracker answers with: the first of them.
Rest == {i \in Matching(asked, open) : i > cursor}
Rank(i) == Cardinality({j \in Rest : j <= i})
Page == [k \in 1..Min({Cardinality(Rest), PageSize}) |-> CHOOSE i \in Rest : Rank(i) = k]
HasNextPage == Cardinality(Rest) > PageSize

\* MUTANT: a page without a cursor for the next one is not refused.
NextPage_NoCursor ==
    /\ Listing /\ HasNextPage
    /\ all' = all \o Page /\ cursor' \in {Page[Len(Page)], -1}
    /\ UNCHANGED <<asked, stayed>>

\* There are more: the next request carries the cursor of this page.
NextPage ==
    /\ Listing /\ HasNextPage
    /\ all' = all \o Page /\ cursor' = Page[Len(Page)]
    /\ UNCHANGED <<asked, stayed>>

\* MUTANT: the last page is taken for the answer.
Answer_LastPage == Page

\* What the listing returns after its last page.
Answer == all \o Page

Over(how) == asked' = how /\ cursor' = 0 /\ all' = << >> /\ stayed' = {}

LastPage == Listing /\ ~HasNextPage /\ Over("none")

\* The request fails or times out, the answer is no JSON, has errors, no nodes, or no
\* cursor for its next page: an exception, and what was read is lost.
ListingFails == Listing /\ Over("failed")

\* fetchIssueStatesByIds: one page, whatever the number of ids.
StateAnswers(ids) ==
    {A \in SUBSET ids : Cardinality(A) <= PageSize /\ (Cardinality(ids) <= PageSize => A = ids)}

\* In the tracker an issue is opened or closed.
Change(i) ==
    /\ open' = IF i \in open THEN open \ {i} ELSE open \cup {i}
    /\ stayed' = stayed \cap Matching(asked, open')
    /\ UNCHANGED <<asked, cursor, all>>
=============================================================================
