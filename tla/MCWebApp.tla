------------------------------ MODULE MCWebApp ------------------------------
(***************************************************************************)
(* A small instance of WebApp.  The seeds keep one or two entries of every *)
(* kind the mocks have.                                                    *)
(***************************************************************************)
EXTENDS WebApp

Unset == [r \in Routes |-> "unset"]

\* The four builds: everything mocked; everything real against /api/v1 under
\* StrictMode; commitments and audit real against /api in production; the same
\* under StrictMode with no token.
MockEnv == [mode |-> "mock", perRoute |-> Unset, baseUrl |-> "/api/v1",
            token |-> FALSE, strict |-> FALSE]
RealEnv == [mode |-> "real", perRoute |-> [Unset EXCEPT !["audit"] = "mock"],
            baseUrl |-> "/api/v1", token |-> TRUE, strict |-> TRUE]
PartEnv == [mode |-> "mock",
            perRoute |-> [Unset EXCEPT !["commitments"] = "real", !["audit"] = "real"],
            baseUrl |-> "/api", token |-> TRUE, strict |-> FALSE]
DarkEnv == [PartEnv EXCEPT !.token = FALSE, !.strict = TRUE]

MCEnvironments == {MockEnv, RealEnv, PartEnv, DarkEnv}

\* Pages that never load behave alike everywhere: they are visited in MockEnv.
\* Every page is left for one with little state of its own; the commitments
\* page, whose calls outlive it, is also come back to.
MCMayVisit(e, n) ==
    CASE n = 1 /\ e = MockEnv -> Routes
      [] n = 1 /\ e = RealEnv -> LoadingRoutes
      [] n = 1 /\ e \in {PartEnv, DarkEnv} -> {"commitments", "audit"}
      [] n = 2 /\ e \in {MockEnv, RealEnv} -> {"audit"}
      [] n = 2 /\ e = PartEnv -> {"commitments", "health"}
      [] n = 3 /\ e = PartEnv -> {"commitments"}
      [] OTHER -> {}

MCCommitmentsSeed == [s1 |-> "pending", s2 |-> "sent"]

MCAuditSeed == [f1 |-> [severity |-> "info", evidence |-> TRUE],
                f2 |-> [severity |-> "warning", evidence |-> FALSE]]
MCAuditLists == {[g1 |-> [severity |-> "critical", evidence |-> TRUE]]}

Draft(id) == <<[of |-> id, edited |-> FALSE]>>
MCInboxSeed == <<[id |-> "i1", status |-> "awaiting", unread |-> TRUE, draft |-> Draft("i1")],
                 [id |-> "i2", status |-> "held", unread |-> TRUE, draft |-> Draft("i2")]>>
Live(id) == [id |-> id, status |-> "awaiting", unread |-> TRUE, draft |-> <<>>]
MCInboxLists == {<<>>, <<Live("l1")>>}

MCHomeSeed == <<[id |-> "e1", status |-> "proposed", cause |-> FALSE],
                [id |-> "e2", status |-> "quarantined", cause |-> TRUE]>>
MCHomeLists == {<<>>, <<[id |-> "h1", status |-> "proposed", cause |-> FALSE],
                        [id |-> "h2", status |-> "blocked", cause |-> FALSE]>>}

MCHealthSeed == [components |-> [gateway |-> "healthy", telegram |-> "quarantined"],
                 healEvents |-> <<"heal1", "heal2">>, predictive |-> {"w1", "w2"}]
MCHealthLists ==
    {[components |-> [gateway |-> "healthy", email |-> s], healEvents |-> <<>>,
      predictive |-> {}] : s \in {"healthy", "attention", "recovering", "paused"}}

MCMemorySeed == <<[id |-> "m1", subject |-> "people", hours |-> 5, words |-> {"ann"}],
                  [id |-> "m2", subject |-> "accounts", hours |-> 800, words |-> {}]>>
MCMemoryWords == {"ann"}

MCSettingsConnectors == [email |-> "connected", slack |-> "deferred"]
MCSettingsRequests == <<[id |-> "r1", votes |-> 41, mine |-> TRUE, status |-> "in-review"],
                        [id |-> "r4", votes |-> 22, mine |-> TRUE, status |-> "shipped"]>>

MCRecipesSeed == [rc1 |-> [category |-> "inbox", status |-> "active", words |-> {"mail"}],
                  rc2 |-> [category |-> "calendar", status |-> "new", words |-> {}]]
MCRecipeWords == {"mail"}

MCSecurityPolicies == [p1 |-> "active", p2 |-> "under-review"]
MCSecurityAudit ==
    [a1 |-> [kind |-> "blocked", deniedBy |-> "you", hours |-> 3, ruleId |-> "p1"],
     a2 |-> [kind |-> "quarantined", deniedBy |-> "system", hours |-> 72, ruleId |-> "p2"]]

MCResearchFindings ==
    [x1 |-> [topic |-> "pricing", impact |-> "high", freshness |-> 40, confidence |-> 92],
     x2 |-> [topic |-> "api", impact |-> "high", freshness |-> 90, confidence |-> 61],
     x3 |-> [topic |-> "pricing", impact |-> "low", freshness |-> 5, confidence |-> 75]]
=============================================================================
