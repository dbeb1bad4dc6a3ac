---------------------------- MODULE ResearchPage ----------------------------
(***************************************************************************)
(* The Research page (pages/v2/Research.tsx): findings of which one is     *)
(* featured, a topic chip, a sort order, a switch that hides uncertain     *)
(* findings, and the drawer of one finding.                                *)
(***************************************************************************)
EXTENDS WebShell

CONSTANT ResearchFindings   \* the mock's findings: id -> [topic, impact, freshness, confidence]

\* "none" stands for null, and is no finding's id.
ASSUME ResearchInputs == "none" \notin DOMAIN ResearchFindings

ResearchTopics == {"all", "pricing", "api", "supplier", "industry", "internal"}
SortKeys == {"recent", "impact", "confidence"}

ResearchMounted == [sort |-> "recent", topic |-> "all", hideLow |-> FALSE, openId |-> "none"]

impactRank(impact) == CASE impact = "low" -> 1 [] impact = "medium" -> 2 [] impact = "high" -> 3

\* featured: the highest impact, then the freshest; the set of its id.
featured ==
    LET Before(a, b) == \/ impactRank(a.impact) > impactRank(b.impact)
                        \/ a.impact = b.impact /\ a.freshness < b.freshness
    IN  {id \in DOMAIN ResearchFindings :
            \A other \in DOMAIN ResearchFindings \ {id} :
                Before(ResearchFindings[id], ResearchFindings[other])}

ASSUME OneFeatured == \E id \in DOMAIN ResearchFindings : featured = {id}

rest ==
    {id \in DOMAIN ResearchFindings \ featured : page.topic \in {"all", ResearchFindings[id].topic}}

Confident(id) == ~page.hideLow \/ ResearchFindings[id].confidence >= 70

\* The cards in the grid, and the featured card above it.
researchFiltered == {id \in rest : Confident(id)}
showFeatured == {id \in featured : page.topic = "all" /\ Confident(id)}

\* Why? opens the drawer; acting on a finding only shows a message.
ResearchCard ==
    \E id \in researchFiltered \cup showFeatured :
        DrawerStep("research", [page EXCEPT !.openId = id], TRUE)

onCloseFinding ==
    /\ page.openId # "none"
    /\ DrawerStep("research", [page EXCEPT !.openId = "none"], FALSE)

FilterBar ==
    \/ \E k \in SortKeys : PageStep("research", [page EXCEPT !.sort = k])
    \/ \E t \in ResearchTopics : PageStep("research", [page EXCEPT !.topic = t])
    \/ PageStep("research", [page EXCEPT !.hideLow = ~@])

ResearchNext ==
    /\ route = "research"
    /\ ResearchCard \/ onCloseFinding \/ FilterBar

-----------------------------------------------------------------------------
ResearchTypeOK ==
    /\ page.topic \in ResearchTopics /\ page.sort \in SortKeys /\ page.hideLow \in BOOLEAN
    /\ page.openId \in DOMAIN ResearchFindings \cup {"none"}
=============================================================================
