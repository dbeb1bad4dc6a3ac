----------------------------- MODULE MemoryPage -----------------------------
(***************************************************************************)
(* The Memory page (pages/v2/Memory.tsx): the facts the assistant keeps,   *)
(* the forgotten ones, the banner that offers to undo the last forgetting, *)
(* and the filters that decide which facts have a card to act on.          *)
(*                                                                         *)
(* A fact is [id, subject, hours, words]: words is the set of search words *)
(* that match it.                                                          *)
(***************************************************************************)
EXTENDS WebShell, SequencesExt, Arrays

CONSTANTS
    MemorySeed,      \* the mock's facts
    MemoryWords      \* the words searched for

MemorySubjects == {"people", "accounts", "preferences", "patterns"}
MemoryBuckets == {"hours", "days", "weeks", "months"}

MemoryItem == [id : STRING, subject : MemorySubjects, hours : Nat, words : SUBSET STRING]

\* The mock numbers its facts: no two have the same id.
ASSUME MemoryInputs ==
    /\ MemorySeed \in Seq(MemoryItem)
    /\ \A i, j \in DOMAIN MemorySeed : MemorySeed[i].id = MemorySeed[j].id => i = j

freshnessOf(hours) ==
    CASE hours < 24 -> "hours"
      [] hours >= 24 /\ hours < 24 * 7 -> "days"
      [] hours >= 24 * 7 /\ hours < 24 * 30 -> "weeks"
      [] OTHER -> "months"

MemoryMounted ==
    [allItems |-> MemorySeed, forgotten |-> <<>>, lastForgotten |-> <<>>,
     subject |-> "all", freshness |-> "all", query |-> "", view |-> "list",
     expandedId |-> "none"]

\* The facts on screen as cards: none in the graph view.
filtered ==
    {it \in ToSet(page.allItems) :
        /\ page.subject \in {"all", it.subject}
        /\ page.freshness \in {"all", freshnessOf(it.hours)}
        /\ page.query = "" \/ page.query \in it.words}
MemoryCards == IF page.view = "graph" THEN {} ELSE filtered

\* A card explains, corrects, forgets and tags its fact; correct and tag only
\* show a message.
MemoryCard(it) == {"expand", "forget"}

Drop(items, it) == Filter(items, {i \in DOMAIN items : items[i].id # it.id})

handleForget ==
    \E it \in MemoryCards :
        /\ "forget" \in MemoryCard(it)
        /\ PageStep("memory", [page EXCEPT !.allItems = Drop(@, it),
                                           !.forgotten = <<it>> \o @,
                                           !.lastForgotten = <<it>>])

\* Mutated form: the fact stays among the forgotten ones.
handleUndoKeepsForgotten ==
    /\ page.lastForgotten # <<>>
    /\ PageStep("memory", [page EXCEPT !.allItems = page.lastForgotten \o @,
                                       !.lastForgotten = <<>>])

handleUndoForget ==
    /\ page.lastForgotten # <<>>
    /\ PageStep("memory", [page EXCEPT !.allItems = page.lastForgotten \o @,
                                       !.forgotten = Drop(@, page.lastForgotten[1]),
                                       !.lastForgotten = <<>>])

\* The banner's other button.
ForgetBanner ==
    /\ page.lastForgotten # <<>>
    /\ PageStep("memory", [page EXCEPT !.lastForgotten = <<>>])

onToggleExpand ==
    \E it \in MemoryCards :
        /\ "expand" \in MemoryCard(it)
        /\ PageStep("memory", [page EXCEPT !.expandedId = IF @ = it.id THEN "none" ELSE it.id])

\* The facets, the search bar and the view toggle.
setMemoryFacet ==
    \/ \E s \in MemorySubjects \cup {"all"} : PageStep("memory", [page EXCEPT !.subject = s])
    \/ \E f \in MemoryBuckets \cup {"all"} : PageStep("memory", [page EXCEPT !.freshness = f])
    \/ \E q \in MemoryWords \cup {""} : PageStep("memory", [page EXCEPT !.query = q])
    \/ \E v \in {"list", "graph"} : PageStep("memory", [page EXCEPT !.view = v])

MemoryNext ==
    /\ route = "memory"
    /\ \/ handleForget \/ handleUndoForget \/ ForgetBanner
       \/ onToggleExpand \/ setMemoryFacet

-----------------------------------------------------------------------------
MemoryTypeOK ==
    /\ page.subject \in MemorySubjects \cup {"all"}
    /\ page.freshness \in MemoryBuckets \cup {"all"}
    /\ page.view \in {"list", "graph"}

\* "Forgetting is non-destructive": through any sequence of forgetting,
\* undoing and dismissing the banner, every fact is exactly once either among
\* the facts or among the forgotten ones, and what Undo offers to restore is
\* forgotten (handleForget, handleUndoForget).
MemoryNothingLost ==
    route = "memory" =>
        LET kept == page.allItems \o page.forgotten
        IN  /\ ToSet(kept) = ToSet(MemorySeed) /\ Len(kept) = Len(MemorySeed)
            /\ ToSet(page.lastForgotten) \subseteq ToSet(page.forgotten)
=============================================================================
