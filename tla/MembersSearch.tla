----------------------------- MODULE MembersSearch -----------------------------
(***************************************************************************)
(* The search box of the members tab (components/rhs/members_tab.tsx).     *)
(*                                                                         *)
(* What is typed is looked up a quarter of a second after the last change. *)
(* The effect that does so starts again whenever the term, the channel or  *)
(* the list of members changes: it clears the timer it set, and a lookup   *)
(* that it has sent no longer counts.  An empty term shows the list.       *)
(***************************************************************************)
EXTENDS Naturals, FiniteSets

CONSTANTS
    Terms,      \* what may be typed
    NoTerm,     \* the empty box
    Channels,   \* the channels the viewer administers
    MaxVersion, \* bound: changes of the members
    MaxLookups, \* bound: lookups under way at once
    NoResults   \* null: nothing has been looked up

ASSUME SearchAssumption == NoTerm \in Terms /\ MaxVersion \in Nat /\ MaxLookups \in Nat

VARIABLES
    channel,   \* the channel in view
    term,      \* the trimmed term
    results,   \* what the last lookup found
    searching, \* whether "Searching…" is shown
    timer,     \* whether the timer of the effect is running
    lookups,   \* lookups under way
    version,   \* the version of the members on the server
    refetches, \* fetches of the list of members under way
    lost       \* whether a call has been lost

box == <<channel, term, results, searching, timer>>
net == <<version, refetches, lost>>
searchVars == <<box, lookups, net>>

\* A lookup finds the members as they are when the server answers.
Queries == [channel : Channels, term : Terms \ {NoTerm}]
Results == [query : Queries, complete : BOOLEAN, version : 0..MaxVersion]

\* own says that the effect that sent the lookup is still there.  Two that are
\* alike are one: neither counts any more.
Lookups == [own : BOOLEAN, query : Queries,
            stage : {"sent", "answered", "lost"}, version : 0..MaxVersion]

ASSUME NoResultsAssumption == NoResults \notin Results

SearchTypeOK ==
    /\ channel \in Channels
    /\ term \in Terms
    /\ results \in Results \cup {NoResults}
    /\ searching \in BOOLEAN /\ timer \in BOOLEAN
    /\ lookups \subseteq Lookups
    /\ version \in 0..MaxVersion
    /\ refetches \in 0..MaxVersion /\ lost \in BOOLEAN

SearchInit ==
    /\ channel \in Channels
    /\ term = NoTerm /\ results = NoResults
    /\ searching = FALSE /\ timer = FALSE
    /\ lookups = {}
    /\ version = 0 /\ refetches = 0 /\ lost = FALSE

Query == [channel |-> channel, term |-> term]

\* The rows below the box: the members, or what the last lookup found.  The latter
\* stay where they are, under "Searching…", until the next lookup has an answer.
Rows == IF term = NoTerm THEN "members" ELSE results

------------------------------------------------------------------------------

\* Slip: the effect leaves what it sent before in force.
LeaveLookups == lookups

\* The clean-up of the effect.
Cancelled == {[l EXCEPT !.own = FALSE] : l \in lookups}

\* The effect, for the next term: the clean-up of the last one, then its body.
Effect ==
    /\ lookups' = Cancelled
    /\ IF term' = NoTerm THEN results' = NoResults ELSE UNCHANGED results
    /\ searching' = (term' # NoTerm)
    /\ timer' = (term' # NoTerm)

TypeTerm(t) ==
    /\ t # term
    /\ term' = t
    /\ Effect
    /\ UNCHANGED <<channel, net>>

SwitchTo(c) ==
    /\ c # channel
    /\ channel' = c
    /\ UNCHANGED <<term, net>>
    /\ Effect

\* Another tab, and back: the component starts afresh.
Remount ==
    /\ term # NoTerm
    /\ term' = NoTerm /\ results' = NoResults
    /\ searching' = FALSE /\ timer' = FALSE
    /\ lookups' = Cancelled
    /\ UNCHANGED <<channel, net>>

\* The timer fires: client.fetchMembers is called.
Fire ==
    /\ timer /\ Cardinality(lookups) < MaxLookups
    /\ timer' = FALSE
    /\ lookups' = lookups \cup
         {[own |-> TRUE, query |-> Query, stage |-> "sent", version |-> 0]}
    /\ UNCHANGED <<channel, term, results, searching, net>>

AnswerLookup(l) ==
    /\ l.stage = "sent"
    /\ lookups' = (lookups \ {l}) \cup {[l EXCEPT !.stage = "answered", !.version = version]}
    /\ UNCHANGED <<box, net>>

LoseLookup(l) ==
    /\ l.stage = "sent"
    /\ lookups' = (lookups \ {l}) \cup {[l EXCEPT !.stage = "lost"]}
    /\ lost' = TRUE
    /\ UNCHANGED <<box, version, refetches>>

\* Only the effect that is still there takes its answer.
ArriveLookup(l) ==
    /\ l.stage # "sent"
    /\ lookups' = lookups \ {l}
    /\ IF l.own
         THEN /\ results' = [query |-> l.query, complete |-> l.stage = "answered",
                            version |-> l.version]
              /\ searching' = FALSE
         ELSE UNCHANGED <<results, searching>>
    /\ UNCHANGED <<channel, term, timer, net>>

\* The members change, by the viewer's action or another's; the app fetches the
\* list again (refreshModerationData).
ChangeMembers ==
    /\ version < MaxVersion
    /\ version' = version + 1
    /\ refetches' = refetches + 1
    /\ UNCHANGED <<box, lookups, lost>>

\* Slip: the list of members is not among what the effect depends on.
IgnoreRefetch ==
    /\ refetches > 0
    /\ refetches' = refetches - 1
    /\ UNCHANGED <<box, lookups, version, lost>>

\* The list arrives, a new one even if it says the same.
ArriveRefetch ==
    /\ refetches > 0
    /\ refetches' = refetches - 1
    /\ UNCHANGED <<channel, term, version, lost>>
    /\ Effect

LoseRefetch ==
    /\ refetches > 0
    /\ refetches' = refetches - 1
    /\ lost' = TRUE
    /\ UNCHANGED <<box, lookups, version>>

Searcher ==
    \/ \E t \in Terms : TypeTerm(t)
    \/ \E c \in Channels : SwitchTo(c)
    \/ Remount
    \/ ChangeMembers

Lose == LoseRefetch \/ \E l \in lookups : LoseLookup(l)

SearchNext ==
    \/ Searcher
    \/ Fire
    \/ \E l \in lookups : AnswerLookup(l) \/ ArriveLookup(l)
    \/ ArriveRefetch
    \/ Lose

\* The timer fires, calls are answered or given up, and answers arrive.
SearchFairness ==
    /\ WF_searchVars(Fire)
    /\ WF_searchVars(\E l \in lookups : AnswerLookup(l) \/ LoseLookup(l))
    /\ WF_searchVars(\E l \in lookups : ArriveLookup(l))
    /\ WF_searchVars(ArriveRefetch \/ LoseRefetch)

------------------------------------------------------------------------------
(* What is expected of the search.                                         *)

\* "Searching…" is shown exactly while the timer runs or the effect's own lookup
\* is under way, one or the other; and rows of another term or channel, which stay
\* there meanwhile, never stay without it: once it is gone, the rows are those of
\* the term and the channel in view, whatever lookups were overtaken.
ResultsMatchTerm ==
    LET own == {l \in lookups : l.own}
    IN  /\ SearchTypeOK
        /\ Cardinality(own) <= 1
        /\ searching <=> (timer \/ own # {})
        /\ ~(timer /\ own # {})
        /\ term # NoTerm /\ ~searching => Rows # NoResults /\ Rows.query = Query

\* "search results refresh after an action (e.g. making a moderator) triggers a
\* members refetch" (the comment on the effect): when nobody does anything more
\* and no call is lost, the rows come to show the members as they are.
SearchRests == <>[][~Searcher]_searchVars
SearchFollows ==
    []~lost /\ SearchRests =>
        <>[](term # NoTerm =>
               /\ ~searching
               /\ Rows = [query |-> Query, complete |-> TRUE, version |-> version])
==============================================================================
