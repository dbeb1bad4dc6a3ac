----------------------------- MODULE AuditPage -----------------------------
(***************************************************************************)
(* The Audit findings page (pages/v2/Audit.tsx): a list loaded with        *)
(* useRouteData, a severity filter and one expanded finding.               *)
(***************************************************************************)
EXTENDS WebShell

CONSTANTS
    AuditSeed,    \* the mock's findings: id -> [severity, evidence]
    AuditLists    \* the findings the gateway may answer with

AuditSeverities == {"info", "warning", "critical"}
AuditSeedData == [live |-> FALSE, findings |-> AuditSeed]
AuditAnswers == {[live |-> TRUE, findings |-> list] : list \in AuditLists}

AuditMounted == [filter |-> "all", expanded |-> "none"]

\* A card offers to show or hide the evidence when there is any.
FindingCard(finding) == IF finding.evidence THEN {"toggle"} ELSE {}

setAuditFilter ==
    \E f \in AuditSeverities \cup {"all"} : PageStep("audit", [page EXCEPT !.filter = f])

\* The list of the findings the filter lets through, and the toggle of one.
Audit ==
    LET items == load.data.findings
        visible == {id \in DOMAIN items : page.filter \in {"all", items[id].severity}}
    IN  \E id \in visible :
            /\ "toggle" \in FindingCard(items[id])
            /\ PageStep("audit", [page EXCEPT !.expanded = IF @ = id THEN "none" ELSE id])

AuditLoad == Read("audit", AuditAnswers) \/ Resolves("audit", LAMBDA data : page)

AuditNext ==
    /\ route = "audit"
    /\ setAuditFilter \/ Audit \/ RouteError("audit", page)
=============================================================================
