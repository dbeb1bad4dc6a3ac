---------------------------- MODULE SecurityPage ----------------------------
(***************************************************************************)
(* The Security page (pages/v2/Security.tsx): the audit log with its       *)
(* filter, the policies that are paused and resumed, and the drawer of one *)
(* policy with its tab and the rule text being edited.                     *)
(***************************************************************************)
EXTENDS WebShell

CONSTANTS
    SecurityPolicies,   \* the mock's policies: id -> state
    SecurityAudit       \* the mock's audit log: id -> [kind, deniedBy, hours, ruleId]

\* Every audit entry names a policy of the library, else its link would lock
\* the page's scroll without a drawer to close.
ASSUME AuditRulesExist ==
    \A a \in DOMAIN SecurityAudit : SecurityAudit[a].ruleId \in DOMAIN SecurityPolicies

ASSUME PoliciesHaveStates ==
    SecurityPolicies \in [DOMAIN SecurityPolicies -> {"active", "paused", "under-review"}]

SecurityFilters == {"all", "blocked", "quarantined", "by-me", "24h", "7d"}

\* openPolicy is empty or <<[id, focus]>>; tab and text are the drawer's own:
\* text is the policy whose rule it started from, and whether it was edited.
SecurityMounted ==
    [policies |-> SecurityPolicies, filter |-> "all", openPolicy |-> <<>>,
     tab |-> "none", text |-> [of |-> "none", edited |-> FALSE]]

\* The entries the filter lets through; hours is hoursAgo of the entry's label.
securityFiltered ==
    {a \in DOMAIN SecurityAudit :
        LET e == SecurityAudit[a]
        IN  CASE page.filter \in {"blocked", "quarantined"} -> e.kind = page.filter
              [] page.filter = "by-me" -> e.deniedBy = "you"
              [] page.filter = "24h" -> e.hours <= 24
              [] page.filter = "7d" -> e.hours <= 24 * 7
              [] OTHER -> TRUE}

\* Mutated form: the text stays when the drawer changes policy.
openPolicyKeepsText(id, focus) ==
    [page EXCEPT !.openPolicy = <<[id |-> id, focus |-> focus]>>,
                 !.tab = IF page.openPolicy = <<>> THEN focus ELSE @,
                 !.text = IF page.openPolicy # <<>> THEN @ ELSE [of |-> id, edited |-> FALSE]]

\* setOpenPolicy.  The drawer takes the tab from focus when it is mounted and
\* keeps it when it only changes policy; the text follows the policy.
openPolicyAt(id, focus) ==
    [page EXCEPT !.openPolicy = <<[id |-> id, focus |-> focus]>>,
                 !.tab = IF page.openPolicy = <<>> THEN focus ELSE @,
                 !.text = IF @.of = id THEN @ ELSE [of |-> id, edited |-> FALSE]]

\* A row's link to the rule that caught it.
AuditRow(a) == DrawerStep("security", openPolicyAt(SecurityAudit[a].ruleId, "editor"), TRUE)
AuditLog == \E a \in securityFiltered : AuditRow(a)

togglePause(policies, id) ==
    [policies EXCEPT ![id] = IF @ = "paused" THEN "active" ELSE "paused"]
handlePause(id) == PageStep("security", [page EXCEPT !.policies = togglePause(@, id)])

\* A policy's card: Edit, Test, Pause or Resume.
PolicyCardItem(id) ==
    \/ \E focus \in {"editor", "test"} : DrawerStep("security", openPolicyAt(id, focus), TRUE)
    \/ handlePause(id)
PolicyLibrary == \E id \in DOMAIN page.policies : PolicyCardItem(id)

\* The drawer: its tabs, the rule text, Pause, and closing it, which loses the
\* text; Save and Reword have no effect.
PolicyDrawer ==
    /\ page.openPolicy # <<>>
    /\ \/ \E t \in {"editor", "history", "test"} : PageStep("security", [page EXCEPT !.tab = t])
       \/ /\ page.tab = "editor"
          /\ \/ PageStep("security", [page EXCEPT !.text.edited = TRUE])
             \/ handlePause(page.openPolicy[1].id)
       \/ DrawerStep("security", [page EXCEPT !.openPolicy = <<>>, !.tab = "none",
                                              !.text = [of |-> "none", edited |-> FALSE]], FALSE)

AuditFilterChips == \E f \in SecurityFilters : PageStep("security", [page EXCEPT !.filter = f])

SecurityNext ==
    /\ route = "security"
    /\ AuditLog \/ PolicyLibrary \/ PolicyDrawer \/ AuditFilterChips

-----------------------------------------------------------------------------
SecurityTypeOK ==
    /\ page.filter \in SecurityFilters
    /\ \A id \in DOMAIN page.policies : page.policies[id] \in {"active", "paused", "under-review"}
    /\ page.text.of = IF page.openPolicy = <<>> THEN "none" ELSE page.openPolicy[1].id
=============================================================================
