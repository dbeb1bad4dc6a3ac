--------------------------- MODULE WebPagesProofs ---------------------------
(***************************************************************************)
(* Theorems about the pages of WebApp, for any seeds, answers of the       *)
(* gateway and bounds that meet the pages' assumptions.  Every page has an *)
(* invariant of its own state, which its handlers and the effect of its    *)
(* load keep and which is established when it is mounted.                  *)
(***************************************************************************)
EXTENDS WebShellProofs, ArraysProofs, SequenceTheorems

-----------------------------------------------------------------------------
(* Recipes. *)

Recipe == [category : STRING, status : {"active", "paused", "new"}, words : SUBSET STRING]

RecipesOK(p) ==
    p \in [recipes : [DOMAIN RecipesSeed -> Recipe], tab : RecipeTabs, q : {p.q},
           openId : DOMAIN RecipesSeed \cup {"none"}]

LEMMA RecipesMount == RecipesOK(RecipesMounted) /\ RecipesMounted.openId = "none"
<1>1. RecipesSeed \in [DOMAIN RecipesSeed -> Recipe]
  BY RecipeInputs DEF Recipe
<1> QED
  BY <1>1 DEF RecipesOK, RecipesMounted, RecipeTabs

(* The handlers keep the page's type, and the scroll is locked after a step  *)
(* exactly when it was or has come to be with the drawer open.               *)
LEMMA RecipesSteps ==
    ASSUME RecipesOK(page), RecipesNext
    PROVE  /\ RecipesOK(page')
           /\ \/ overflow' = overflow /\ page'.openId = page.openId
              \/ overflow' = "hidden" /\ page'.openId # "none"
              \/ overflow' = "" /\ page'.openId = "none"
<1> DEFINE Good == /\ RecipesOK(page')
                   /\ \/ overflow' = overflow /\ page'.openId = page.openId
                      \/ overflow' = "hidden" /\ page'.openId # "none"
                      \/ overflow' = "" /\ page'.openId = "none"
<1>0. /\ page \in [recipes : [DOMAIN RecipesSeed -> Recipe], tab : RecipeTabs, q : {page.q},
                   openId : DOMAIN RecipesSeed \cup {"none"}]
      /\ \A id \in DOMAIN RecipesSeed : id # "none"
  BY RecipeInputs DEF RecipesOK
<1>1. onToggleRecipe => Good
  <2> SUFFICES ASSUME onToggleRecipe PROVE Good
    OBVIOUS
  <2>1. PICK id \in DOMAIN page.recipes :
           page' = [page EXCEPT !.recipes = toggleRecipe(page.recipes, id)] /\ overflow' = overflow
    BY DEF onToggleRecipe, PageStep, applyFilters
  <2>2. toggleRecipe(page.recipes, id) \in [DOMAIN RecipesSeed -> Recipe]
    BY <1>0, <2>1 DEF toggleRecipe, Recipe
  <2> QED
    BY <1>0, <2>1, <2>2 DEF RecipesOK
<1>2. onInspect => Good
  <2> SUFFICES ASSUME onInspect PROVE Good
    OBVIOUS
  <2>1. PICK id \in DOMAIN page.recipes :
           page' = [page EXCEPT !.openId = id] /\ overflow' = "hidden"
    BY DEF onInspect, DrawerStep, applyFilters
  <2> QED
    BY <1>0, <2>1 DEF RecipesOK
<1>3. onCloseRecipe => Good
  BY <1>0 DEF onCloseRecipe, DrawerStep, RecipesOK
<1>4. CategoryTabs => Good
  BY <1>0 DEF CategoryTabs, PageStep, RecipesOK
<1> QED
  BY <1>1, <1>2, <1>3, <1>4 DEF RecipesNext

-----------------------------------------------------------------------------
(* Research. *)

ResearchOK(p) ==
    p \in [sort : SortKeys, topic : ResearchTopics, hideLow : BOOLEAN,
           openId : DOMAIN ResearchFindings \cup {"none"}]

LEMMA ResearchMount == ResearchOK(ResearchMounted) /\ ResearchMounted.openId = "none"
BY DEF ResearchOK, ResearchMounted, SortKeys, ResearchTopics

LEMMA ResearchSteps ==
    ASSUME ResearchOK(page), ResearchNext
    PROVE  /\ ResearchOK(page')
           /\ \/ overflow' = overflow /\ page'.openId = page.openId
              \/ overflow' = "hidden" /\ page'.openId # "none"
              \/ overflow' = "" /\ page'.openId = "none"
<1> DEFINE Good == /\ ResearchOK(page')
                   /\ \/ overflow' = overflow /\ page'.openId = page.openId
                      \/ overflow' = "hidden" /\ page'.openId # "none"
                      \/ overflow' = "" /\ page'.openId = "none"
<1>0. \A id \in DOMAIN ResearchFindings : id # "none"
  BY ResearchInputs
<1>1. ResearchCard => Good
  <2> SUFFICES ASSUME ResearchCard PROVE Good
    OBVIOUS
  <2>1. PICK id \in DOMAIN ResearchFindings :
           page' = [page EXCEPT !.openId = id] /\ overflow' = "hidden"
    BY DEF ResearchCard, DrawerStep, researchFiltered, showFeatured, rest, featured
  <2> QED
    BY <1>0, <2>1 DEF ResearchOK
<1>2. onCloseFinding => Good
  BY DEF onCloseFinding, DrawerStep, ResearchOK
<1>3. FilterBar => Good
  BY DEF FilterBar, PageStep, ResearchOK
<1> QED
  BY <1>1, <1>2, <1>3 DEF ResearchNext

-----------------------------------------------------------------------------
(* Security. *)

PolicyStates == {"active", "paused", "under-review"}

SecurityOK(p) ==
    /\ p \in [policies : [DOMAIN SecurityPolicies -> PolicyStates], filter : SecurityFilters,
              openPolicy : {p.openPolicy}, tab : {p.tab},
              text : [of : {p.text.of}, edited : BOOLEAN]]
    /\ p.text.of = IF p.openPolicy = <<>> THEN "none" ELSE p.openPolicy[1].id

LEMMA SecurityMount == SecurityOK(SecurityMounted) /\ SecurityMounted.openPolicy = <<>>
BY PoliciesHaveStates DEF SecurityOK, SecurityMounted, SecurityFilters, PolicyStates

LEMMA SecuritySteps ==
    ASSUME SecurityOK(page), SecurityNext
    PROVE  /\ SecurityOK(page')
           /\ \/ overflow' = overflow /\ page'.openPolicy = page.openPolicy
              \/ overflow' = "hidden" /\ page'.openPolicy # <<>>
              \/ overflow' = "" /\ page'.openPolicy = <<>>
<1> DEFINE Good == /\ SecurityOK(page')
                   /\ \/ overflow' = overflow /\ page'.openPolicy = page.openPolicy
                      \/ overflow' = "hidden" /\ page'.openPolicy # <<>>
                      \/ overflow' = "" /\ page'.openPolicy = <<>>
<1>1. ASSUME NEW id, NEW focus, DrawerStep("security", openPolicyAt(id, focus), TRUE)
      PROVE  Good
  <2>1. /\ page' = openPolicyAt(id, focus) /\ overflow' = "hidden"
    BY <1>1 DEF DrawerStep
  <2> DEFINE op == <<[id |-> id, focus |-> focus]>>
             tb == IF page.openPolicy = <<>> THEN focus ELSE page.tab
             tx == IF page.text.of = id THEN page.text ELSE [of |-> id, edited |-> FALSE]
  <2>2. page' = [page EXCEPT !.openPolicy = op, !.tab = tb, !.text = tx]
    BY <2>1 DEF openPolicyAt
  <2>3. op # <<>> /\ op[1].id = id
    OBVIOUS
  <2>4. tx \in [of : {tx.of}, edited : BOOLEAN] /\ tx.of = id
    BY DEF SecurityOK
  <2> HIDE DEF op, tb, tx
  <2> QED
    BY <2>1, <2>2, <2>3, <2>4 DEF SecurityOK
<1>2. ASSUME NEW id, handlePause(id) PROVE Good
  <2>1. /\ page' = [page EXCEPT !.policies = togglePause(page.policies, id)]
        /\ overflow' = overflow
    BY <1>2 DEF handlePause, PageStep
  <2>2. togglePause(page.policies, id) \in [DOMAIN SecurityPolicies -> PolicyStates]
    BY DEF SecurityOK, togglePause, PolicyStates
  <2> QED
    BY <2>1, <2>2 DEF SecurityOK
<1>3. AuditLog => Good
  BY <1>1 DEF AuditLog, AuditRow
<1>4. PolicyLibrary => Good
  BY <1>1, <1>2 DEF PolicyLibrary, PolicyCardItem
<1>5. ASSUME NEW t, PageStep("security", [page EXCEPT !.tab = t]) PROVE Good
  BY <1>5 DEF PageStep, SecurityOK
<1>6. PageStep("security", [page EXCEPT !.text.edited = TRUE]) => Good
  BY DEF PageStep, SecurityOK
<1>7. DrawerStep("security", [page EXCEPT !.openPolicy = <<>>, !.tab = "none",
                                          !.text = [of |-> "none", edited |-> FALSE]], FALSE) => Good
  <2> DEFINE tx == [of |-> "none", edited |-> FALSE]
  <2>1. tx \in [of : {tx.of}, edited : BOOLEAN] /\ tx.of = "none"
    OBVIOUS
  <2> HIDE DEF tx
  <2>2. ASSUME DrawerStep("security", [page EXCEPT !.openPolicy = <<>>, !.tab = "none",
                                                   !.text = tx], FALSE)
        PROVE  Good
    BY <2>1, <2>2 DEF DrawerStep, SecurityOK
  <2> QED
    BY <2>2 DEF tx
<1>8. PolicyDrawer => Good
  BY <1>2, <1>5, <1>6, <1>7 DEF PolicyDrawer
<1>9. AuditFilterChips => Good
  BY DEF AuditFilterChips, PageStep, SecurityOK
<1> HIDE DEF Good
<1> QED
  BY <1>3, <1>4, <1>8, <1>9 DEF SecurityNext, Good

-----------------------------------------------------------------------------
(* Settings. *)

(* At most one banner is on screen, and only its own timer runs. *)
BannerOK(p) ==
    \/ p.undo = <<>> /\ p.intervals = {}
    \/ \E e \in Nat : p.undo = <<e>> /\ p.intervals = {e}

SettingsOK(p) ==
    /\ p \in [notif : {p.notif}, requests : {p.requests}, formValid : {p.formValid},
              telemetry : {p.telemetry}, debug : {p.debug}, edits : 0..MaxEdits,
              deployment : DeploymentModes, pending : DeploymentModes \cup {"none"},
              open : {p.open}, confirming : {p.confirming}, confirmText : {"", "name"},
              undo : {p.undo}, intervals : {p.intervals}, clock : 0..MaxClock,
              closedBy : {p.closedBy}]
    /\ p.confirmText # "" => p.confirming = TRUE
    /\ BannerOK(p)

LEMMA SettingsMount == SettingsOK(SettingsMounted)
BY SettingsBounds DEF SettingsOK, SettingsMounted, BannerOK, DeploymentModes

(* What a change that has nothing to do with the banner leaves. *)
BannerKept(p) == SettingsOK(p) /\ p.undo = page.undo

(* What any change leaves: a banner goes away by the user's hand, after its  *)
(* own end, or for another banner.                                           *)
BannerTimely(p) ==
    /\ SettingsOK(p)
    /\ page.undo # <<>> /\ p.undo = <<>> /\ p.closedBy = "timer" => page.clock > page.undo[1]

LEMMA SettingsEdits ==
    ASSUME SettingsOK(page), NEW x, NEW m \in DeploymentModes \cup {"none"}
    PROVE  /\ BannerKept([page EXCEPT !.notif = x])
           /\ BannerKept([page EXCEPT !.requests = x])
           /\ BannerKept([page EXCEPT !.formValid = x])
           /\ BannerKept([page EXCEPT !.telemetry = x])
           /\ BannerKept([page EXCEPT !.debug = x])
           /\ BannerKept([page EXCEPT !.open = x])
           /\ BannerKept([page EXCEPT !.pending = m])
BY DEF SettingsOK, BannerOK, BannerKept

LEMMA BannerKeptTimely ==
    ASSUME NEW p, BannerKept(p) PROVE BannerTimely(p)
BY DEF BannerKept, BannerTimely

(* setUndo and its effect: the new banner has a timer of its own. *)
LEMMA ShowUndoFacts ==
    ASSUME NEW p, SettingsOK(p), NEW days \in Nat
    PROVE  BannerTimely(showUndo(p, days))
<1> DEFINE e == p.clock + days
           p1 == [p EXCEPT !.closedBy = "none"]
           p2 == [p1 EXCEPT !.undo = <<e>>, !.intervals = {e}]
<1>1. e \in Nat
  <2>1. p.clock \in 0..MaxClock
    BY DEF SettingsOK
  <2> QED
    BY <2>1, SettingsBounds
<1>2. showUndo(p, days) = p2
  <2>1. {<<e>>[i] : i \in DOMAIN <<e>>} = {e}
    OBVIOUS
  <2>2. showUndo(p, days) = [p1 EXCEPT !.undo = <<e>>, !.intervals = {<<e>>[i] : i \in DOMAIN <<e>>}]
    BY DEF showUndo, undoEffect
  <2> QED
    BY <2>1, <2>2, Zenon
<1> HIDE DEF e
<1>3. SettingsOK(p1)
  BY DEF SettingsOK, BannerOK
<1> HIDE DEF p1
<1>4. p2.undo = <<e>> /\ p2.intervals = {e}
  BY <1>3 DEF SettingsOK
<1>5. SettingsOK(p2)
  <2>1. BannerOK(p2)
    BY <1>1, <1>4 DEF BannerOK
  <2> QED
    BY <1>3, <2>1 DEF SettingsOK
<1> HIDE DEF p2
<1>6. <<e>> # <<>>
  OBVIOUS
<1> QED
  BY <1>2, <1>4, <1>5, <1>6 DEF BannerTimely

(* A preference: the counter of edits aside, a change like the others. *)
LEMMA PreferFacts ==
    ASSUME NEW next, BannerKept(next), next.edits = page.edits, Prefer(next)
    PROVE  BannerTimely(page')
<1>1. page' = [next EXCEPT !.edits = @ + 1] /\ next.edits < MaxEdits
  BY DEF Prefer, PageStep
<1> DEFINE n == next.edits + 1
<1>2. n \in 0..MaxEdits
  <2>1. next.edits \in 0..MaxEdits
    BY DEF BannerKept, SettingsOK
  <2> QED
    BY <1>1, <2>1, SettingsBounds
<1> HIDE DEF n
<1>3. BannerKept([next EXCEPT !.edits = n])
  BY <1>2 DEF BannerKept, SettingsOK, BannerOK
<1>4. BannerKept(page')
  BY <1>1, <1>3 DEF n
<1> QED
  BY <1>4, BannerKeptTimely

LEMMA SettingsSteps ==
    ASSUME SettingsOK(page), SettingsNext
    PROVE  BannerTimely(page')
<1> DEFINE Good == BannerTimely(page')
<1>0. SwitchDays \in Nat /\ DefaultDays \in Nat
  BY SettingsBounds
<1>1. ASSUME NEW p, PageStep("settings", p), BannerTimely(p) PROVE Good
  BY <1>1 DEF PageStep
<1>2. ASSUME NEW p, PageStep("settings", p), BannerKept(p) PROVE Good
  BY <1>1, <1>2, BannerKeptTimely
<1>3. ConnectorsSection => Good
  BY <1>0, <1>1, ShowUndoFacts DEF ConnectorsSection
<1>4. ModeOption => Good
  BY <1>2, SettingsEdits DEF ModeOption
<1>5. DeploymentSection => Good
  <2> SUFFICES ASSUME DeploymentSection PROVE Good
    OBVIOUS
  <2>1. CASE PageStep("settings", [page EXCEPT !.pending = "none"])
    BY <1>2, <2>1, SettingsEdits
  <2> DEFINE p == [page EXCEPT !.deployment = page.pending, !.pending = "none"]
  <2>2. CASE PageStep("settings", showUndo(p, SwitchDays))
    <3>1. page.pending \in DeploymentModes
      BY DEF DeploymentSection, SettingsOK
    <3>2. SettingsOK(p)
      BY <3>1 DEF SettingsOK, BannerOK
    <3> QED
      BY <1>0, <1>1, <2>2, <3>2, ShowUndoFacts
  <2> QED
    BY <2>1, <2>2 DEF DeploymentSection
<1>6. NotificationsSection => Good
  <2> SUFFICES ASSUME NotificationsSection PROVE Good
    OBVIOUS
  <2>1. PICK x : Prefer([page EXCEPT !.notif = x])
    BY DEF NotificationsSection
  <2>2. [page EXCEPT !.notif = x].edits = page.edits
    BY DEF SettingsOK
  <2> QED
    BY <2>1, <2>2, PreferFacts, SettingsEdits
<1>7. onVote => Good
  <2> SUFFICES ASSUME onVote PROVE Good
    OBVIOUS
  <2>1. PICK x : Prefer([page EXCEPT !.requests = x])
    BY DEF onVote
  <2>2. [page EXCEPT !.requests = x].edits = page.edits
    BY DEF SettingsOK
  <2> QED
    BY <2>1, <2>2, PreferFacts, SettingsEdits
<1>8. RecipesSection => Good
  <2> SUFFICES ASSUME RecipesSection PROVE Good
    OBVIOUS
  <2>1. CASE PageStep("settings", [page EXCEPT !.formValid = ~@])
    BY <1>2, <2>1, SettingsEdits
  <2>2. ASSUME NEW x, Prefer([page EXCEPT !.formValid = FALSE, !.requests = x]) PROVE Good
    <3>1. BannerKept([page EXCEPT !.formValid = FALSE, !.requests = x])
      BY DEF BannerKept, SettingsOK, BannerOK
    <3>2. [page EXCEPT !.formValid = FALSE, !.requests = x].edits = page.edits
      BY DEF SettingsOK
    <3> QED
      BY <2>2, <3>1, <3>2, PreferFacts
  <2> QED
    BY <2>1, <2>2 DEF RecipesSection
<1>9. AdvancedSection => Good
  <2> SUFFICES ASSUME AdvancedSection PROVE Good
    OBVIOUS
  <2>1. CASE PageStep("settings", [page EXCEPT !.open = ~@])
    BY <1>2, <2>1, SettingsEdits
  <2>2. ASSUME NEW x, Prefer([page EXCEPT !.telemetry = x]) PROVE Good
    <3>1. [page EXCEPT !.telemetry = x].edits = page.edits
      BY DEF SettingsOK
    <3> QED
      BY <2>2, <3>1, PreferFacts, SettingsEdits
  <2>3. ASSUME NEW x, Prefer([page EXCEPT !.debug = x]) PROVE Good
    <3>1. [page EXCEPT !.debug = x].edits = page.edits
      BY DEF SettingsOK
    <3> QED
      BY <2>3, <3>1, PreferFacts, SettingsEdits
  <2>4. CASE PageStep("settings", [page EXCEPT !.confirming = TRUE])
    <3>1. BannerKept([page EXCEPT !.confirming = TRUE])
      BY DEF BannerKept, SettingsOK, BannerOK
    <3> QED
      BY <1>2, <2>4, <3>1
  <2>5. ASSUME NEW t \in {"", "name"}, page.confirming,
               PageStep("settings", [page EXCEPT !.confirmText = t])
        PROVE  Good
    <3>1. page.confirming = TRUE
      BY <2>5
    <3>2. BannerKept([page EXCEPT !.confirmText = t])
      BY <3>1 DEF BannerKept, SettingsOK, BannerOK
    <3> QED
      BY <1>2, <2>5, <3>2
  <2> DEFINE p == [page EXCEPT !.confirming = FALSE, !.confirmText = ""]
  <2>6. BannerKept(p)
    BY DEF BannerKept, SettingsOK, BannerOK
  <2>7. CASE PageStep("settings", p)
    BY <1>2, <2>6, <2>7
  <2>8. CASE PageStep("settings", showUndo(p, DefaultDays))
    BY <1>0, <1>1, <2>6, <2>8, ShowUndoFacts DEF BannerKept
  <2> QED
    BY <2>1, <2>2, <2>3, <2>4, <2>5, <2>7, <2>8 DEF AdvancedSection
<1> DEFINE closed(by) == [undoEffect(page, <<>>) EXCEPT !.closedBy = by]
<1>10. ASSUME NEW by
       PROVE  SettingsOK(closed(by)) /\ closed(by).closedBy = by
  <2> DEFINE p == [page EXCEPT !.undo = <<>>, !.intervals = {}]
  <2>1. undoEffect(page, <<>>) = p
    <3>1. {<<>>[i] : i \in DOMAIN <<>>} = {}
      OBVIOUS
    <3>2. undoEffect(page, <<>>) = [page EXCEPT !.undo = <<>>, !.intervals = {<<>>[i] : i \in DOMAIN <<>>}]
      BY DEF undoEffect
    <3> QED
      BY <3>1, <3>2, Zenon
  <2>2. p.undo = <<>> /\ p.intervals = {}
    BY DEF SettingsOK
  <2>3. SettingsOK(p)
    BY <2>2 DEF SettingsOK, BannerOK
  <2> HIDE DEF p
  <2>4. SettingsOK([p EXCEPT !.closedBy = by]) /\ [p EXCEPT !.closedBy = by].closedBy = by
    BY <2>3 DEF SettingsOK, BannerOK
  <2> QED
    BY <2>1, <2>4
<1>11. onUndo => Good
  BY <1>1, <1>10 DEF onUndo, BannerTimely
<1>12. intervalFires => Good
  <2> SUFFICES ASSUME intervalFires PROVE Good
    OBVIOUS
  <2>1. PICK e \in page.intervals : page.clock > e /\ PageStep("settings", closed("timer"))
    BY DEF intervalFires
  <2>2. page.clock > page.undo[1]
    <3>1. PICK k : page.undo = <<k>> /\ page.intervals = {k}
      BY <2>1 DEF SettingsOK, BannerOK
    <3> QED
      BY <2>1, <3>1
  <2> QED
    BY <1>1, <1>10, <2>1, <2>2 DEF BannerTimely
<1>13. Passes => Good
  <2> SUFFICES ASSUME Passes PROVE Good
    OBVIOUS
  <2>1. page.clock < MaxClock /\ PageStep("settings", [page EXCEPT !.clock = @ + 1])
    BY DEF Passes
  <2> DEFINE n == page.clock + 1
  <2>2. n \in 0..MaxClock
    <3>1. page.clock \in 0..MaxClock
      BY DEF SettingsOK
    <3> QED
      BY <2>1, <3>1, SettingsBounds
  <2> HIDE DEF n
  <2>3. BannerKept([page EXCEPT !.clock = n])
    BY <2>2 DEF BannerKept, SettingsOK, BannerOK
  <2> QED
    BY <1>2, <2>1, <2>3 DEF n
<1> HIDE DEF Good
<1> QED
  BY <1>3, <1>4, <1>5, <1>6, <1>7, <1>8, <1>9, <1>11, <1>12, <1>13 DEF SettingsNext, Good

-----------------------------------------------------------------------------
(* Lists of items with an id. *)

UniqueIds(s) == \A i, j \in DOMAIN s : s[i].id = s[j].id => i = j

(* A list put before another. *)
LEMMA ConcatFacts ==
    ASSUME NEW S, NEW s \in Seq(S), NEW t \in Seq(S)
    PROVE  /\ s \o t \in Seq(S) /\ Len(s \o t) = Len(s) + Len(t)
           /\ ToSet(s \o t) = ToSet(s) \cup ToSet(t)
<1> DEFINE u == s \o t
<1>1. /\ u \in Seq(S) /\ Len(u) = Len(s) + Len(t)
      /\ \A i \in 1..(Len(s) + Len(t)) : u[i] = IF i <= Len(s) THEN s[i] ELSE t[i - Len(s)]
  BY ConcatProperties
<1>2. Len(s) \in Nat /\ Len(t) \in Nat
  BY LenProperties
<1> HIDE DEF u
<1>3. DOMAIN s = 1..Len(s) /\ DOMAIN t = 1..Len(t) /\ DOMAIN u = 1..(Len(s) + Len(t))
  BY <1>1, LenProperties
<1>4. ASSUME NEW i \in DOMAIN u PROVE u[i] \in ToSet(s) \cup ToSet(t)
  <2>1. CASE i <= Len(s)
    <3>1. i \in DOMAIN s /\ u[i] = s[i]
      BY <1>1, <1>2, <1>3, <1>4, <2>1
    <3> QED
      BY <3>1 DEF ToSet
  <2>2. CASE ~(i <= Len(s))
    <3>1. i - Len(s) \in DOMAIN t /\ u[i] = t[i - Len(s)]
      BY <1>1, <1>2, <1>3, <1>4, <2>2
    <3> QED
      BY <3>1 DEF ToSet
  <2> QED
    BY <2>1, <2>2
<1>5. ASSUME NEW i \in DOMAIN s PROVE s[i] \in ToSet(u)
  <2>1. i \in DOMAIN u /\ u[i] = s[i]
    BY <1>1, <1>2, <1>3, <1>5
  <2> QED
    BY <2>1 DEF ToSet
<1>6. ASSUME NEW i \in DOMAIN t PROVE t[i] \in ToSet(u)
  <2>1. Len(s) + i \in DOMAIN u
    BY <1>2, <1>3, <1>6
  <2>2. u[Len(s) + i] = t[i]
    <3>1. ~(Len(s) + i <= Len(s)) /\ (Len(s) + i) - Len(s) = i
      BY <1>2, <1>3, <1>6
    <3> QED
      BY <1>1, <1>3, <2>1, <3>1
  <2> QED
    BY <2>1, <2>2 DEF ToSet
<1>7. ToSet(u) = ToSet(s) \cup ToSet(t)
  <2>1. ToSet(u) = {u[i] : i \in DOMAIN u} /\ ToSet(s) = {s[i] : i \in DOMAIN s}
        /\ ToSet(t) = {t[i] : i \in DOMAIN t}
    BY DEF ToSet
  <2> QED
    BY <1>4, <1>5, <1>6, <2>1
<1> QED
  BY <1>1, <1>7 DEF u

(* Array.filter keeps the entries at the kept indices and no others, and     *)
(* keeps ids unique.                                                         *)
LEMMA FilterSet ==
    ASSUME NEW S, NEW s \in Seq(S), NEW kept \in SUBSET DOMAIN s
    PROVE  /\ Filter(s, kept) \in Seq(S) /\ Len(Filter(s, kept)) = Cardinality(kept)
           /\ ToSet(Filter(s, kept)) = {s[i] : i \in kept}
           /\ UniqueIds(s) => UniqueIds(Filter(s, kept))
<1> DEFINE f == Filter(s, kept)
<1>1. DOMAIN s = 1..Len(s) /\ Len(s) \in Nat
  BY LenProperties
<1>2. f \in Seq(S) /\ Len(f) = Cardinality(kept) /\ \E g : OrderedPick(f, s, kept, g)
  BY <1>1, FilterFacts
<1> HIDE DEF f
<1>3. PICK g : OrderedPick(f, s, kept, g)
  BY <1>2
<1>4. /\ DOMAIN f = 1..Len(f) /\ Len(f) \in Nat
      /\ \A i \in DOMAIN f : g[i] \in kept /\ f[i] = s[g[i]]
      /\ \A i, j \in DOMAIN f : i < j => g[i] < g[j]
      /\ \A k \in kept : \E i \in DOMAIN f : g[i] = k
  <2>1. DOMAIN f = 1..Len(f) /\ Len(f) \in Nat
    BY <1>2, LenProperties
  <2> QED
    BY <1>3, <2>1 DEF OrderedPick
<1>5. ToSet(f) = {s[i] : i \in kept}
  BY <1>4 DEF ToSet
<1>6. ASSUME UniqueIds(s), NEW i \in DOMAIN f, NEW j \in DOMAIN f, f[i].id = f[j].id
      PROVE  i = j
  <2>1. g[i] = g[j]
    BY <1>4, <1>6 DEF UniqueIds
  <2>2. g[i] \in Nat /\ g[j] \in Nat /\ i \in Nat /\ j \in Nat
    BY <1>1, <1>4
  <2> QED
    BY <1>4, <2>1, <2>2
<1> QED
  BY <1>2, <1>5, <1>6 DEF f, UniqueIds

-----------------------------------------------------------------------------
(* Memory. *)

Facts == ToSet(MemorySeed)

(* The inductive form of MemoryNothingLost: the two lists share no id, have  *)
(* none twice, and hold the seed's facts between them.                       *)
MemoryOK(p) ==
    /\ p \in [allItems : Seq(MemoryItem), forgotten : Seq(MemoryItem),
              lastForgotten : {p.lastForgotten}, subject : MemorySubjects \cup {"all"},
              freshness : MemoryBuckets \cup {"all"}, query : {p.query},
              view : {"list", "graph"}, expandedId : {p.expandedId}]
    /\ UniqueIds(p.allItems) /\ UniqueIds(p.forgotten)
    /\ \A a \in ToSet(p.allItems), b \in ToSet(p.forgotten) : a.id # b.id
    /\ ToSet(p.allItems) \cup ToSet(p.forgotten) = Facts
    /\ Len(p.allItems) + Len(p.forgotten) = Len(MemorySeed)
    /\ p.lastForgotten = <<>> \/ \E it \in ToSet(p.forgotten) : p.lastForgotten = <<it>>

LEMMA MemoryMount == MemoryOK(MemoryMounted)
<1>1. /\ MemoryMounted.allItems = MemorySeed /\ MemoryMounted.forgotten = <<>>
      /\ MemoryMounted.lastForgotten = <<>>
  BY DEF MemoryMounted
<1>2. ToSet(<<>>) = {} /\ Len(<<>>) = 0 /\ UniqueIds(<<>>)
  BY DEF ToSet, UniqueIds
<1>3. MemorySeed \in Seq(MemoryItem) /\ UniqueIds(MemorySeed) /\ Len(MemorySeed) \in Nat
  BY MemoryInputs, LenProperties DEF UniqueIds
<1>4. /\ MemoryMounted.subject = "all" /\ MemoryMounted.freshness = "all"
      /\ MemoryMounted.view = "list"
  BY DEF MemoryMounted
<1>5. MemoryMounted \in [allItems : Seq(MemoryItem), forgotten : Seq(MemoryItem),
              lastForgotten : {MemoryMounted.lastForgotten}, subject : MemorySubjects \cup {"all"},
              freshness : MemoryBuckets \cup {"all"}, query : {MemoryMounted.query},
              view : {"list", "graph"}, expandedId : {MemoryMounted.expandedId}]
  BY <1>3 DEF MemoryMounted
<1> QED
  BY <1>1, <1>2, <1>3, <1>5 DEF MemoryOK, Facts

(* The filter that drops a fact drops that one and no other. *)
LEMMA DropFacts ==
    ASSUME NEW s \in Seq(MemoryItem), UniqueIds(s), NEW it \in ToSet(s)
    PROVE  /\ Drop(s, it) \in Seq(MemoryItem) /\ UniqueIds(Drop(s, it))
           /\ ToSet(Drop(s, it)) = ToSet(s) \ {it} /\ Len(Drop(s, it)) = Len(s) - 1
           /\ \A x \in ToSet(Drop(s, it)) : x.id # it.id
<1> DEFINE kept == {i \in DOMAIN s : s[i].id # it.id}
<1>1. PICK k \in DOMAIN s : s[k] = it
  BY DEF ToSet
<1>2. DOMAIN s = 1..Len(s) /\ Len(s) \in Nat
  BY LenProperties
<1>3. kept = DOMAIN s \ {k}
  BY <1>1 DEF UniqueIds
<1>4. Cardinality(kept) = Len(s) - 1
  <2>1. IsFiniteSet(1..Len(s)) /\ Cardinality(1..Len(s)) = Len(s)
    BY <1>2, CountTo
  <2>2. k \in 1..Len(s) /\ kept = (1..Len(s)) \ {k}
    BY <1>1, <1>2, <1>3
  <2> HIDE DEF kept
  <2>3. Cardinality((1..Len(s)) \ {k}) =
          IF k \in 1..Len(s) THEN Cardinality(1..Len(s)) - 1 ELSE Cardinality(1..Len(s))
    BY <2>1, FS_RemoveElement
  <2> QED
    BY <2>1, <2>2, <2>3
<1>5. Drop(s, it) = Filter(s, kept) /\ kept \in SUBSET DOMAIN s
  BY DEF Drop
<1>6. /\ Drop(s, it) \in Seq(MemoryItem) /\ Len(Drop(s, it)) = Cardinality(kept)
      /\ ToSet(Drop(s, it)) = {s[i] : i \in kept} /\ UniqueIds(Drop(s, it))
  <2> HIDE DEF kept
  <2> QED
    BY <1>5, FilterSet
<1>7. ToSet(s) = {s[i] : i \in DOMAIN s}
  BY DEF ToSet
<1>8. {s[i] : i \in kept} = ToSet(s) \ {it}
  BY <1>1, <1>3, <1>7 DEF UniqueIds
<1>9. \A x \in {s[i] : i \in kept} : x.id # it.id
  OBVIOUS
<1> HIDE DEF kept
<1> QED
  BY <1>4, <1>6, <1>8, <1>9

(* A fact put in front of a list it is not in. *)
LEMMA PrependFacts ==
    ASSUME NEW s \in Seq(MemoryItem), UniqueIds(s), NEW it \in MemoryItem,
           \A x \in ToSet(s) : x.id # it.id
    PROVE  /\ <<it>> \o s \in Seq(MemoryItem) /\ UniqueIds(<<it>> \o s)
           /\ ToSet(<<it>> \o s) = ToSet(s) \cup {it} /\ Len(<<it>> \o s) = Len(s) + 1
<1> DEFINE u == <<it>> \o s
<1>1. <<it>> \in Seq(MemoryItem) /\ Len(<<it>>) = 1 /\ <<it>>[1] = it
  OBVIOUS
<1>2. ToSet(<<it>>) = {it}
  BY DEF ToSet
<1>3. DOMAIN s = 1..Len(s) /\ Len(s) \in Nat
  BY LenProperties
<1>4. u \in Seq(MemoryItem) /\ Len(u) = Len(s) + 1 /\ ToSet(u) = ToSet(s) \cup {it}
  <2>1. /\ u \in Seq(MemoryItem) /\ Len(u) = Len(<<it>>) + Len(s)
        /\ ToSet(u) = ToSet(<<it>>) \cup ToSet(s)
    <3> DEFINE h == <<it>>
    <3>1. h \in Seq(MemoryItem)
      BY <1>1
    <3> HIDE DEF h
    <3>2. /\ h \o s \in Seq(MemoryItem) /\ Len(h \o s) = Len(h) + Len(s)
          /\ ToSet(h \o s) = ToSet(h) \cup ToSet(s)
      BY <3>1, ConcatFacts
    <3> QED
      BY <3>2, Zenon DEF h
  <2>2. Len(<<it>>) + Len(s) = Len(s) + 1
    BY <1>1, <1>3
  <2> HIDE DEF u
  <2> QED
    BY <1>2, <2>1, <2>2
<1>5. \A i \in 1..(Len(s) + 1) : u[i] = IF i = 1 THEN it ELSE s[i - 1]
  <2>1. \A i \in 1..(Len(<<it>>) + Len(s)) : u[i] = IF i <= Len(<<it>>) THEN <<it>>[i] ELSE s[i - Len(<<it>>)]
    BY <1>1, ConcatProperties
  <2> HIDE DEF u
  <2> QED
    BY <1>1, <1>3, <2>1
<1>6. DOMAIN u = 1..(Len(s) + 1)
  BY <1>4, LenProperties
<1> HIDE DEF u
<1>7. \A i \in DOMAIN u : i # 1 => i - 1 \in DOMAIN s /\ u[i] = s[i - 1] /\ s[i - 1] \in ToSet(s)
  <2>1. \A i \in DOMAIN u : i # 1 => i - 1 \in DOMAIN s /\ u[i] = s[i - 1]
    BY <1>3, <1>5, <1>6
  <2> QED
    BY <2>1 DEF ToSet
<1>8. ASSUME NEW i \in DOMAIN u, NEW j \in DOMAIN u, u[i].id = u[j].id PROVE i = j
  <2>1. i \in Nat /\ j \in Nat /\ 1 \in DOMAIN u /\ u[1] = it
    BY <1>3, <1>5, <1>6
  <2>2. CASE i # 1 /\ j # 1
    <3>1. i - 1 = j - 1
      BY <1>7, <1>8, <2>2 DEF UniqueIds
    <3> QED
      BY <2>1, <3>1
  <2>3. CASE i = 1 /\ j # 1
    BY <1>7, <1>8, <2>1, <2>3
  <2>4. CASE i # 1 /\ j = 1
    BY <1>7, <1>8, <2>1, <2>4
  <2> QED
    BY <2>2, <2>3, <2>4
<1> QED
  BY <1>4, <1>8 DEF u, UniqueIds

LEMMA MemorySteps ==
    ASSUME MemoryOK(page), MemoryNext
    PROVE  MemoryOK(page')
<1> DEFINE all == page.allItems
           gone == page.forgotten
<1>0. /\ page \in [allItems : Seq(MemoryItem), forgotten : Seq(MemoryItem),
              lastForgotten : {page.lastForgotten}, subject : MemorySubjects \cup {"all"},
              freshness : MemoryBuckets \cup {"all"}, query : {page.query},
              view : {"list", "graph"}, expandedId : {page.expandedId}]
      /\ all \in Seq(MemoryItem) /\ gone \in Seq(MemoryItem)
      /\ Len(all) \in Nat /\ Len(gone) \in Nat
  <2>1. all \in Seq(MemoryItem) /\ gone \in Seq(MemoryItem)
    BY DEF MemoryOK
  <2> QED
    BY <2>1, LenProperties DEF MemoryOK
<1>1. /\ UniqueIds(all) /\ UniqueIds(gone)
      /\ \A a \in ToSet(all), b \in ToSet(gone) : a.id # b.id
      /\ ToSet(all) \cup ToSet(gone) = Facts
      /\ Len(all) + Len(gone) = Len(MemorySeed)
      /\ page.lastForgotten = <<>> \/ \E it \in ToSet(gone) : page.lastForgotten = <<it>>
  BY DEF MemoryOK
<1>2. ASSUME NEW p, MemoryOK(p), PageStep("memory", p) PROVE MemoryOK(page')
  BY <1>2 DEF PageStep
<1>3. \A it \in ToSet(all) \cup ToSet(gone) : it \in MemoryItem
  BY <1>0 DEF ToSet
<1>4. handleForget => MemoryOK(page')
  <2> SUFFICES ASSUME handleForget PROVE MemoryOK(page')
    OBVIOUS
  <2>1. PICK it \in ToSet(all) :
           PageStep("memory", [page EXCEPT !.allItems = Drop(all, it),
                                           !.forgotten = <<it>> \o gone,
                                           !.lastForgotten = <<it>>])
    BY DEF handleForget, MemoryCards, filtered
  <2> DEFINE a == Drop(all, it)
             b == <<it>> \o gone
             p == [page EXCEPT !.allItems = a, !.forgotten = b, !.lastForgotten = <<it>>]
  <2>2. /\ a \in Seq(MemoryItem) /\ UniqueIds(a) /\ ToSet(a) = ToSet(all) \ {it}
        /\ Len(a) = Len(all) - 1 /\ \A x \in ToSet(a) : x.id # it.id
    BY <1>0, <1>1, <2>1, DropFacts
  <2>3. it \in MemoryItem /\ \A x \in ToSet(gone) : x.id # it.id
    BY <1>1, <1>3, <2>1
  <2>4. /\ b \in Seq(MemoryItem) /\ UniqueIds(b) /\ ToSet(b) = ToSet(gone) \cup {it}
        /\ Len(b) = Len(gone) + 1
    BY <1>0, <1>1, <2>3, PrependFacts
  <2> HIDE DEF a, b
  <2>5. /\ p \in [allItems : Seq(MemoryItem), forgotten : Seq(MemoryItem),
              lastForgotten : {p.lastForgotten}, subject : MemorySubjects \cup {"all"},
              freshness : MemoryBuckets \cup {"all"}, query : {p.query},
              view : {"list", "graph"}, expandedId : {p.expandedId}]
        /\ p.allItems = a /\ p.forgotten = b /\ p.lastForgotten = <<it>>
    BY <1>0, <2>2, <2>4
  <2> HIDE DEF p
  <2>6. ToSet(a) \cup ToSet(b) = Facts /\ it \in ToSet(b)
    BY <1>1, <2>1, <2>2, <2>4
  <2>7. \A x \in ToSet(a), y \in ToSet(b) : x.id # y.id
    BY <1>1, <2>2, <2>4
  <2>8. Len(a) + Len(b) = Len(MemorySeed)
    <3>1. \A m, n \in Nat : (m - 1) + (n + 1) = m + n
      OBVIOUS
    <3>2. Len(a) + Len(b) = (Len(all) - 1) + (Len(gone) + 1)
      BY <2>2, <2>4, Zenon
    <3> QED
      BY <1>0, <1>1, <3>1, <3>2, Zenon
  <2>9. MemoryOK(p)
    BY <2>2, <2>4, <2>5, <2>6, <2>7, <2>8 DEF MemoryOK
  <2> QED
    BY <1>2, <2>1, <2>9 DEF p, a, b
<1>5. handleUndoForget => MemoryOK(page')
  <2> SUFFICES ASSUME handleUndoForget PROVE MemoryOK(page')
    OBVIOUS
  <2>1. PICK it \in ToSet(gone) : page.lastForgotten = <<it>>
    BY <1>1 DEF handleUndoForget
  <2> DEFINE a == <<it>> \o all
             b == Drop(gone, it)
             p == [page EXCEPT !.allItems = a, !.forgotten = b, !.lastForgotten = <<>>]
  <2>2. PageStep("memory", p)
    <3>1. page.lastForgotten[1] = it
      BY <2>1
    <3> QED
      BY <2>1, <3>1 DEF handleUndoForget
  <2>3. /\ b \in Seq(MemoryItem) /\ UniqueIds(b) /\ ToSet(b) = ToSet(gone) \ {it}
        /\ Len(b) = Len(gone) - 1 /\ \A x \in ToSet(b) : x.id # it.id
    BY <1>0, <1>1, <2>1, DropFacts
  <2>4. it \in MemoryItem /\ \A x \in ToSet(all) : x.id # it.id
    BY <1>1, <1>3, <2>1
  <2>5. /\ a \in Seq(MemoryItem) /\ UniqueIds(a) /\ ToSet(a) = ToSet(all) \cup {it}
        /\ Len(a) = Len(all) + 1
    BY <1>0, <1>1, <2>4, PrependFacts
  <2> HIDE DEF a, b
  <2>6. /\ p \in [allItems : Seq(MemoryItem), forgotten : Seq(MemoryItem),
              lastForgotten : {p.lastForgotten}, subject : MemorySubjects \cup {"all"},
              freshness : MemoryBuckets \cup {"all"}, query : {p.query},
              view : {"list", "graph"}, expandedId : {p.expandedId}]
        /\ p.allItems = a /\ p.forgotten = b /\ p.lastForgotten = <<>>
    BY <1>0, <2>3, <2>5
  <2> HIDE DEF p
  <2>7. ToSet(a) \cup ToSet(b) = Facts
    BY <1>1, <2>1, <2>3, <2>5
  <2>8. \A x \in ToSet(a), y \in ToSet(b) : x.id # y.id
    BY <1>1, <2>3, <2>5
  <2>9. Len(a) + Len(b) = Len(MemorySeed)
    <3>1. \A m, n \in Nat : (m + 1) + (n - 1) = m + n
      OBVIOUS
    <3>2. Len(a) + Len(b) = (Len(all) + 1) + (Len(gone) - 1)
      BY <2>3, <2>5, Zenon
    <3> QED
      BY <1>0, <1>1, <3>1, <3>2, Zenon
  <2>10. MemoryOK(p)
    BY <2>3, <2>5, <2>6, <2>7, <2>8, <2>9 DEF MemoryOK
  <2> QED
    BY <1>2, <2>2, <2>10
<1> HIDE DEF all, gone
<1>6. ForgetBanner => MemoryOK(page')
  <2>1. MemoryOK([page EXCEPT !.lastForgotten = <<>>])
    BY DEF MemoryOK
  <2> QED
    BY <1>2, <2>1 DEF ForgetBanner
<1>7. onToggleExpand => MemoryOK(page')
  <2>1. \A x : MemoryOK([page EXCEPT !.expandedId = x])
    BY DEF MemoryOK
  <2> QED
    BY <1>2, <2>1 DEF onToggleExpand
<1>8. setMemoryFacet => MemoryOK(page')
  <2>1. \A x \in MemorySubjects \cup {"all"} : MemoryOK([page EXCEPT !.subject = x])
    BY DEF MemoryOK
  <2>2. \A x \in MemoryBuckets \cup {"all"} : MemoryOK([page EXCEPT !.freshness = x])
    BY DEF MemoryOK
  <2>3. \A x : MemoryOK([page EXCEPT !.query = x])
    BY DEF MemoryOK
  <2>4. \A x \in {"list", "graph"} : MemoryOK([page EXCEPT !.view = x])
    BY DEF MemoryOK
  <2> QED
    BY <1>2, <2>1, <2>2, <2>3, <2>4 DEF setMemoryFacet
<1> QED
  BY <1>4, <1>5, <1>6, <1>7, <1>8 DEF MemoryNext

-----------------------------------------------------------------------------
(* The loads of the pages that copy what they load into state of their own.  *)

CopyingRoutes == {"inbox", "home", "health"}

(* An answer is one the page expects.  Once the gateway's data has arrived   *)
(* no load is listened to any more: the next one would need a reload, which  *)
(* these pages offer only after an error.                                    *)
CopyAnswers(r) ==
    CASE r = "inbox" -> InboxAnswers [] r = "home" -> HomeAnswers [] r = "health" -> HealthAnswers

LoadOK(r, h) ==
    /\ \A f \in h.flights : f.answer # <<>> => f.answer[1] \in CopyAnswers(r)
    /\ \/ h.data.live = FALSE
       \/ h.data.live = TRUE /\ h.status = "ok" /\ Idle(h)

LoadsInv == route \in CopyingRoutes => LoadOK(route, load)

LEMMA AnswersLive ==
    ASSUME NEW r \in CopyingRoutes
    PROVE  /\ Seed(r).live = FALSE /\ Answers(r) = CopyAnswers(r)
           /\ \A a \in CopyAnswers(r) : a.live = TRUE
BY DEF CopyingRoutes, Seed, Answers, CopyAnswers, InboxSeedData, HomeSeedData, HealthSeedData,
       InboxAnswers, HomeAnswers, HealthAnswers

LEMMA LoadsMounted ==
    ASSUME env \in Environments, NEW r \in CopyingRoutes
    PROVE  LoadOK(r, MountedLoad(r, Seed(r)))
<1> DEFINE d == Seed(r)
           h == MountedLoad(r, d)
<1>1. d.live = FALSE
  BY AnswersLive
<1> HIDE DEF d
<1>2. h.data = d /\ \A f \in h.flights : f.answer = <<>>
  BY MountedLoadFacts
<1> HIDE DEF h
<1>3. LoadOK(r, h)
  <2>1. h.data.live = FALSE
    BY <1>1, <1>2, Zenon
  <2> QED
    BY <1>2, <2>1, Zenon DEF LoadOK
<1> QED
  BY <1>3 DEF h, d

LEMMA LoadsInit == WebInit => LoadsInv
BY LoadsMounted DEF WebInit, LoadsInv

LEMMA LoadsStep == HookInv /\ LoadsInv /\ [App]_shellVars => LoadsInv'
<1> SUFFICES ASSUME HookInv, LoadsInv, [App]_shellVars PROVE LoadsInv'
  OBVIOUS
<1> DEFINE Ok(h) == LoadOK(route, h)
<1>0. env \in Environments /\ HookOK(load) /\ (route \in CopyingRoutes => Ok(load))
  BY DEF HookInv, LoadsInv
<1>1. ASSUME route' = route, route \in CopyingRoutes => Ok(load') PROVE LoadsInv'
  BY <1>1 DEF LoadsInv
<1>2. ASSUME route' = route, load' = load PROVE LoadsInv'
  BY <1>0, <1>1, <1>2
<1>3. Navigate => LoadsInv'
  <2> SUFFICES ASSUME Navigate, route' \in CopyingRoutes PROVE LoadsInv'
    BY DEF LoadsInv
  <2> QED
    BY <1>0, LoadsMounted DEF Navigate, LoadsInv
<1>4. LoadServed => LoadsInv'
  <2> SUFFICES ASSUME LoadServed, route \in CopyingRoutes => Ok(load') PROVE LoadsInv'
    <3> SUFFICES ASSUME LoadServed, route \in CopyingRoutes PROVE Ok(load')
      OBVIOUS
    <3>1. PICK f \in load.flights, a \in Answers(route) : load' = Served(load, f, a)
      BY DEF LoadServed
    <3> DEFINE g == [invocation |-> f.invocation, answer |-> <<a>>]
    <3>2. /\ load'.status = load.status /\ load'.data = load.data
          /\ load'.flights = (load.flights \ {f}) \cup {g} /\ (Idle(load') <=> Idle(load))
      BY <1>0, <3>1, ServedFacts
    <3>3. g.answer[1] = a
      OBVIOUS
    <3> HIDE DEF g
    <3>4. a \in CopyAnswers(route)
      BY <3>1, AnswersLive
    <3> QED
      BY <1>0, <3>2, <3>3, <3>4 DEF LoadOK
  <2> QED
    BY <1>1 DEF LoadServed
<1>5. LoadSettles => LoadsInv'
  <2> SUFFICES ASSUME LoadSettles, route \in CopyingRoutes => Ok(load') PROVE LoadsInv'
    <3> SUFFICES ASSUME LoadSettles, route \in CopyingRoutes PROVE Ok(load')
      OBVIOUS
    <3>1. PICK f \in load.flights : f.answer # <<>> /\ load' = resolve(load, f)
      BY DEF LoadSettles
    <3>2. load'.flights = load.flights \ {f}
      BY <1>0, <3>1, ResolveFacts
    <3>3. CASE IsCurrent(load, f)
      <4>1. load'.data = f.answer[1] /\ load'.status = "ok" /\ Idle(load')
        BY <1>0, <3>1, <3>3, ResolveFacts
      <4>2. load'.data.live = TRUE
        BY <1>0, <3>1, <4>1, AnswersLive DEF LoadOK
      <4> QED
        BY <1>0, <3>2, <4>1, <4>2 DEF LoadOK
    <3>4. CASE ~IsCurrent(load, f)
      <4>1. load'.data = load.data /\ load'.status = load.status /\ (Idle(load') <=> Idle(load))
        BY <1>0, <3>1, <3>4, ResolveFacts
      <4> QED
        BY <1>0, <3>2, <4>1 DEF LoadOK
    <3> QED
      BY <3>3, <3>4
  <2> QED
    BY <1>1 DEF LoadSettles
<1>6. LoadFails => LoadsInv'
  <2> SUFFICES ASSUME LoadFails, route \in CopyingRoutes => Ok(load') PROVE LoadsInv'
    <3> SUFFICES ASSUME LoadFails, route \in CopyingRoutes PROVE Ok(load')
      OBVIOUS
    <3>1. PICK f \in load.flights : load' = reject(load, f)
      BY DEF LoadFails
    <3>2. load'.flights = load.flights \ {f} /\ load'.data = load.data
      BY <1>0, <3>1, RejectFacts
    <3>3. CASE IsCurrent(load, f)
      <4>1. ~Idle(load)
        BY <3>1, <3>3 DEF Idle, IsCurrent
      <4> QED
        BY <1>0, <3>2, <4>1 DEF LoadOK
    <3>4. CASE ~IsCurrent(load, f)
      <4>1. load'.status = load.status /\ (Idle(load') <=> Idle(load))
        BY <1>0, <3>1, <3>4, RejectFacts
      <4> QED
        BY <1>0, <3>2, <4>1 DEF LoadOK
    <3> QED
      BY <3>3, <3>4
  <2> QED
    BY <1>1 DEF LoadFails
<1>7. ASSUME NEW r, Retried(r) PROVE LoadsInv'
  <2>1. route = r /\ route' = route /\ load.status = "error" /\ load' = Reloaded(r, load)
    BY <1>7 DEF Retried
  <2>2. CASE isRealForRoute(r)
    <3>1. load' = run(load)
      BY <2>1, <2>2 DEF Reloaded
    <3>2. load'.data = load.data /\ \A f \in load'.flights : f.answer # <<>> => f \in load.flights
      BY <1>0, <3>1, RunFacts
    <3>3. route \in CopyingRoutes => Ok(load')
      BY <1>0, <2>1, <3>2 DEF LoadOK
    <3> QED
      BY <1>1, <2>1, <3>3
  <2>3. CASE ~isRealForRoute(r)
    BY <1>2, <2>1, <2>3 DEF Reloaded
  <2> QED
    BY <2>2, <2>3
<1>8. ASSUME NEW r, PageOnly(r) PROVE LoadsInv'
  BY <1>2, <1>8 DEF PageOnly
<1>9. ASSUME NEW op, handleAction(op) PROVE LoadsInv'
  BY <1>2, <1>9 DEF handleAction
<1>10. CallLands => LoadsInv'
  <2> SUFFICES ASSUME CallLands PROVE LoadsInv'
    OBVIOUS
  <2>1. route' = route
    BY DEF CallLands
  <2>2. route = "commitments" \/ load' = load
    BY DEF CallLands, CallSettled
  <2>3. route = "commitments" => route \notin CopyingRoutes
    BY DEF CopyingRoutes
  <2> QED
    BY <1>1, <1>2, <2>1, <2>2, <2>3
<1>11. CommitmentHandled => LoadsInv'
  BY <1>2 DEF CommitmentHandled
<1>12. SchedulerMoves => LoadsInv'
  BY <1>2 DEF SchedulerMoves
<1>13. UNCHANGED shellVars => LoadsInv'
  BY <1>2 DEF shellVars
<1>14. /\ CommitmentsNext => LoadsInv'
       /\ AuditNext => LoadsInv'
       /\ InboxNext => LoadsInv'
       /\ HomeNext => LoadsInv'
       /\ HealthNext => LoadsInv'
  BY <1>7, <1>8, <1>9, LoadingFrames
<1>15. /\ MemoryNext => LoadsInv'
       /\ SettingsNext => LoadsInv'
       /\ RecipesNext => LoadsInv'
       /\ SecurityNext => LoadsInv'
       /\ ResearchNext => LoadsInv'
  BY <1>8, StaticFrames
<1>16. /\ CommitmentsLoad => LoadsInv'
       /\ AuditLoad => LoadsInv'
       /\ InboxLoad => LoadsInv'
       /\ HomeLoad => LoadsInv'
       /\ HealthLoad => LoadsInv'
  BY <1>4, <1>5, LoadFrames
<1> HIDE DEF LoadsInv
<1> QED
  BY <1>3, <1>6, <1>10, <1>11, <1>12, <1>13, <1>14, <1>15, <1>16, AppCases, Zenon

(* What a page that copies its load does when one resolves: the effect runs  *)
(* on an answer, with the seed still in the hook.                            *)
LEMMA EffectFacts ==
    ASSUME HookInv, LoadsInv, route \in CopyingRoutes, NEW f \in load.flights,
           f.answer # <<>>, IsCurrent(load, f)
    PROVE  f.answer[1] \in CopyAnswers(route) /\ load.data.live = FALSE
BY DEF LoadsInv, LoadOK, Idle, IsCurrent

-----------------------------------------------------------------------------
(* Health. *)

HealthOK(p) ==
    /\ p \in [components : {p.components}, healEvents : {p.healEvents},
              predictive : {p.predictive}, openGraphIds : {p.openGraphIds}, openId : {p.openId}]
    /\ \A c \in DOMAIN p.components : p.components[c] \in HealthStates

LEMMA HealthMount == HealthOK(HealthMounted)
<1>1. HealthMounted.components = HealthSeed.components
  BY DEF HealthMounted
<1>2. HealthMounted \in [components : {HealthMounted.components},
              healEvents : {HealthMounted.healEvents}, predictive : {HealthMounted.predictive},
              openGraphIds : {HealthMounted.openGraphIds}, openId : {HealthMounted.openId}]
  BY DEF HealthMounted
<1> QED
  BY <1>1, <1>2, HealthInputs DEF HealthOK

LEMMA HealthSteps ==
    ASSUME HealthOK(page), HealthNext
    PROVE  HealthOK(page')
<1>1. ASSUME NEW x PROVE HealthOK([page EXCEPT !.openGraphIds = x])
  BY DEF HealthOK
<1>2. ASSUME NEW x PROVE HealthOK([page EXCEPT !.openId = x])
  BY DEF HealthOK
<1>3. PredictivePanel => HealthOK(page')
  BY <1>1 DEF PredictivePanel, PageStep
<1>4. HealLog => HealthOK(page')
  BY <1>2 DEF HealLog, PageStep
<1>5. RouteError("health", HealthRetried) => HealthOK(page')
  BY <1>2 DEF RouteError, HealthRetried
<1> QED
  BY <1>3, <1>4, <1>5 DEF HealthNext

LEMMA HealthEffect ==
    ASSUME HealthOK(page), NEW a \in HealthAnswers
    PROVE  HealthOK(HealthLoaded(a))
<1>1. PICK list \in HealthLists : a = [live |-> TRUE, status |-> list]
  BY DEF HealthAnswers
<1>2. \A c \in DOMAIN list.components : list.components[c] \in HealthStates
  BY <1>1, HealthInputs
<1>3. HealthLoaded(a) = [page EXCEPT !.components = list.components,
                                     !.healEvents = list.healEvents,
                                     !.predictive = list.predictive]
  BY <1>1 DEF HealthLoaded
<1> QED
  BY <1>2, <1>3 DEF HealthOK

-----------------------------------------------------------------------------
(* Home. *)

HomeDecision == [id : STRING, status : {"taken", "blocked"}]

(* The inductive form of LiveDecisionsKept on the home page: every event     *)
(* with the id of a decision shows it, so that none of them is offered for a *)
(* decision again.                                                           *)
HomeDecided(events, decided) ==
    \A d \in decided :
        /\ \E i \in DOMAIN events : events[i].id = d.id
        /\ \A i \in DOMAIN events : events[i].id = d.id => events[i].status = d.status

HomeOK(p) ==
    /\ p \in [events : Seq(HomeEvent), filter : HomeFilters, drawerEvent : {p.drawerEvent},
              policyOpen : BOOLEAN, decided : SUBSET HomeDecision]
    /\ HomeDecided(p.events, p.decided)

LEMMA HomeMount == HomeOK(HomeMounted)
BY HomeInputs DEF HomeOK, HomeMounted, HomeDecided, HomeFilters

(* An array that was mapped. *)
LEMMA MapFacts ==
    ASSUME NEW S, NEW s \in Seq(S), NEW t, t \in [DOMAIN s -> S]
    PROVE  t \in Seq(S) /\ DOMAIN t = DOMAIN s /\ Len(t) = Len(s)
<1>1. DOMAIN s = 1..Len(s) /\ Len(s) \in Nat
  BY LenProperties
<1> QED
  BY <1>1

(* The events with the id have the status, the others theirs. *)
HomeRetold(s, t, id, st) ==
    /\ DOMAIN t = DOMAIN s
    /\ \E k \in DOMAIN s : s[k].id = id
    /\ \A i \in DOMAIN s : t[i].id = s[i].id
    /\ \A i \in DOMAIN s : s[i].id = id => t[i].status = st
    /\ \A i \in DOMAIN s : s[i].id # id => t[i].status = s[i].status

(* Decisions are kept, and one is added, when only the events of an id that  *)
(* was not decided before change their status.                               *)
LEMMA HomeDecidedKept ==
    ASSUME NEW s, NEW t, NEW id, NEW st, HomeRetold(s, t, id, st),
           NEW decided, HomeDecided(s, decided), \A d \in decided : d.id # id
    PROVE  HomeDecided(t, decided) /\ HomeDecided(t, decided \cup {[id |-> id, status |-> st]})
<1> DEFINE n == [id |-> id, status |-> st]
<1>0. n.id = id /\ n.status = st
  OBVIOUS
<1> HIDE DEF n
<1>1. ASSUME NEW d \in decided
      PROVE  /\ \E i \in DOMAIN t : t[i].id = d.id
             /\ \A i \in DOMAIN t : t[i].id = d.id => t[i].status = d.status
  BY <1>1 DEF HomeDecided, HomeRetold
<1>2. /\ \E i \in DOMAIN t : t[i].id = n.id
      /\ \A i \in DOMAIN t : t[i].id = n.id => t[i].status = n.status
  BY <1>0 DEF HomeRetold
<1>3. HomeDecided(t, decided)
  BY <1>1 DEF HomeDecided
<1>4. HomeDecided(t, decided \cup {n})
  BY <1>1, <1>2, Zenon DEF HomeDecided
<1> QED
  BY <1>3, <1>4 DEF n

(* approve and deny decide every event with the id. *)
LEMMA HomeDecides ==
    ASSUME NEW s \in Seq(HomeEvent), NEW id \in STRING, NEW st \in {"taken", "blocked"},
           NEW c \in BOOLEAN, NEW k \in DOMAIN s, s[k].id = id,
           NEW t, t = [i \in DOMAIN s |-> IF s[i].id = id
                                          THEN [s[i] EXCEPT !.status = st, !.cause = c] ELSE s[i]]
    PROVE  t \in Seq(HomeEvent) /\ HomeRetold(s, t, id, st)
<1>1. \A i \in DOMAIN s : s[i] \in HomeEvent
  BY LenProperties
<1>2. ASSUME NEW i \in DOMAIN s
      PROVE  /\ t[i] \in HomeEvent /\ t[i].id = s[i].id
             /\ s[i].id = id => t[i].status = st
             /\ s[i].id # id => t[i].status = s[i].status
  <2>1. s[i] \in HomeEvent /\ t[i] = IF s[i].id = id THEN [s[i] EXCEPT !.status = st, !.cause = c] ELSE s[i]
    BY <1>1, <1>2
  <2> QED
    BY <2>1 DEF HomeEvent, HomeStatuses
<1>3. t \in [DOMAIN s -> HomeEvent]
  BY <1>2
<1>4. t \in Seq(HomeEvent) /\ DOMAIN t = DOMAIN s
  BY <1>3, MapFacts
<1> QED
  BY <1>2, <1>4, Zenon DEF HomeRetold

LEMMA HomeSteps ==
    ASSUME HomeOK(page), HomeNext
    PROVE  HomeOK(page')
<1>0. /\ page.events \in Seq(HomeEvent) /\ page.decided \in SUBSET HomeDecision
      /\ HomeDecided(page.events, page.decided)
      /\ page \in [events : Seq(HomeEvent), filter : HomeFilters, drawerEvent : {page.drawerEvent},
                   policyOpen : BOOLEAN, decided : SUBSET HomeDecision]
  BY DEF HomeOK
<1>1. ASSUME NEW e \in Timeline, e.status = "proposed", NEW st \in {"taken", "blocked"},
             NEW c \in BOOLEAN, NEW t,
             t = [i \in DOMAIN page.events |->
                    IF page.events[i].id = e.id
                    THEN [page.events[i] EXCEPT !.status = st, !.cause = c] ELSE page.events[i]],
             page' = [page EXCEPT !.events = t, !.decided = HomeDecide(e.id, st)]
      PROVE  HomeOK(page')
  <2>1. PICK k \in DOMAIN page.events : page.events[k] = e
    BY <1>1 DEF Timeline, ToSet
  <2>2. e \in HomeEvent
    BY <1>0, <2>1, LenProperties
  <2>3. e.id \in STRING
    BY <2>2 DEF HomeEvent
  <2> DEFINE s == page.events
  <2>a. /\ s \in Seq(HomeEvent) /\ k \in DOMAIN s /\ s[k].id = e.id /\ s[k].status = "proposed"
        /\ HomeDecided(s, page.decided)
        /\ t = [i \in DOMAIN s |-> IF s[i].id = e.id
                                     THEN [s[i] EXCEPT !.status = st, !.cause = c] ELSE s[i]]
    BY <1>0, <1>1, <2>1
  <2> HIDE DEF s
  <2>b. t \in Seq(HomeEvent) /\ HomeRetold(s, t, e.id, st)
    BY <1>1, <2>a, <2>3, HomeDecides, Zenon
  <2>c. ASSUME NEW d \in page.decided, d.id = e.id PROVE FALSE
    <3>1. s[k].status = d.status
      BY <2>a, <2>c DEF HomeDecided
    <3>2. d.status # "proposed"
      BY <1>0, <2>c DEF HomeDecision
    <3> QED
      BY <2>a, <3>1, <3>2
  <2>4. /\ t \in Seq(HomeEvent)
        /\ HomeDecided(t, page.decided \cup {[id |-> e.id, status |-> st]})
        /\ HomeDecided(t, page.decided)
    BY <2>a, <2>b, <2>c, HomeDecidedKept
  <2> DEFINE D == HomeDecide(e.id, st)
  <2>5. D \in SUBSET HomeDecision /\ HomeDecided(t, D)
    <3>1. [id |-> e.id, status |-> st] \in HomeDecision
      BY <1>1, <2>3 DEF HomeDecision
    <3>2. D = page.decided \cup {[id |-> e.id, status |-> st]} \/ D = page.decided
      BY DEF HomeDecide
    <3> HIDE DEF D
    <3> QED
      BY <1>0, <2>4, <3>1, <3>2
  <2> HIDE DEF D
  <2>6. page' = [page EXCEPT !.events = t, !.decided = D]
    BY <1>1 DEF D
  <2> QED
    BY <1>0, <2>4, <2>5, <2>6 DEF HomeOK
<1>2. onApproveEvent => HomeOK(page')
  <2> SUFFICES ASSUME onApproveEvent PROVE HomeOK(page')
    OBVIOUS
  <2>1. PICK e \in Timeline :
           /\ "approve" \in EventRow(e)
           /\ page' = [page EXCEPT !.events = approveEvent(page.events, e.id),
                                   !.decided = HomeDecide(e.id, "taken")]
    BY DEF onApproveEvent, PageStep
  <2>2. e.status = "proposed"
    BY <2>1 DEF EventRow
  <2>3. approveEvent(page.events, e.id) =
          [i \in DOMAIN page.events |->
             IF page.events[i].id = e.id
             THEN [page.events[i] EXCEPT !.status = "taken", !.cause = FALSE] ELSE page.events[i]]
    BY DEF approveEvent
  <2> QED
    BY <1>1, <2>1, <2>2, <2>3
<1>3. onDenyEvent => HomeOK(page')
  <2> SUFFICES ASSUME onDenyEvent PROVE HomeOK(page')
    OBVIOUS
  <2>1. PICK e \in Timeline :
           /\ "deny" \in EventRow(e)
           /\ page' = [page EXCEPT !.events = denyEvent(page.events, e.id),
                                   !.decided = HomeDecide(e.id, "blocked")]
    BY DEF onDenyEvent, PageStep
  <2>2. e.status = "proposed"
    BY <2>1 DEF EventRow
  <2>3. denyEvent(page.events, e.id) =
          [i \in DOMAIN page.events |->
             IF page.events[i].id = e.id
             THEN [page.events[i] EXCEPT !.status = "blocked", !.cause = TRUE] ELSE page.events[i]]
    BY DEF denyEvent
  <2> QED
    BY <1>1, <2>1, <2>2, <2>3
<1>4. onResetDemo => HomeOK(page')
  BY HomeInputs DEF onResetDemo, HomeOK, HomeDecided
<1>5. HomeFilterChips => HomeOK(page')
  BY DEF HomeFilterChips, PageStep, HomeOK
<1>6. onOpenDrawer \/ WhyDrawer => HomeOK(page')
  <2>1. \A x : HomeOK([page EXCEPT !.drawerEvent = x])
    BY DEF HomeOK
  <2> QED
    BY <2>1 DEF onOpenDrawer, WhyDrawer, PageStep
<1>7. onOpenRules \/ SafetyDrawer => HomeOK(page')
  BY DEF onOpenRules, SafetyDrawer, PageStep, HomeOK
<1>8. RouteError("home", page) => HomeOK(page')
  BY DEF RouteError
<1> QED
  BY <1>2, <1>3, <1>4, <1>5, <1>6, <1>7, <1>8 DEF HomeNext

LEMMA HomeEffect ==
    ASSUME HomeOK(page), load.data.live = FALSE, NEW a \in HomeAnswers
    PROVE  HomeOK(HomeLoaded(a))
<1>1. PICK list \in HomeLists : a = [live |-> TRUE, events |-> list]
  BY DEF HomeAnswers
<1>2. list \in Seq(HomeEvent)
  BY <1>1, HomeInputs
<1>3. HomeLoaded(a) = [page EXCEPT !.events = list, !.decided = {}]
  BY <1>1 DEF HomeLoaded
<1> QED
  BY <1>2, <1>3 DEF HomeOK, HomeDecided

-----------------------------------------------------------------------------
(* Inbox. *)

InboxDecision == [id : STRING, status : {"done", "held"}]

InboxShape(p) ==
    p \in [items : Seq(InboxItem), chip : InboxChips, selectedId : STRING, editing : BOOLEAN,
           draftBuffer : Seq(InboxDraft), decided : SUBSET InboxDecision]

(* The inductive form of InboxDraftOwn and LiveDecisionsKept on the set X of *)
(* the page's items.  The buffer is the selected item's while it is edited,  *)
(* except after a load that replaced the list: then no item has a draft, and *)
(* nothing can be saved.                                                     *)
OwnDrafts(X) == \A it \in X : \A k \in DOMAIN it.draft : it.draft[k].of = it.id
BufferOwn(X, sel, buf) ==
    \/ \A k \in DOMAIN buf : buf[k].of = sel
    \/ \A it \in X : it.draft = <<>>
DecisionsShown(X, decided) ==
    \A d \in decided : \E it \in X : it.id = d.id /\ it.status = d.status

ItemsOK(X, sel, editing, buf, decided) ==
    /\ OwnDrafts(X)
    /\ X # {} => \E it \in X : it.id = sel
    /\ editing = TRUE => BufferOwn(X, sel, buf)
    /\ DecisionsShown(X, decided)

InboxOK(p) ==
    /\ InboxShape(p)
    /\ ItemsOK(ToSet(p.items), p.selectedId, p.editing, p.draftBuffer, p.decided)

(* The items of Y are those of X, but for what is marked read. *)
Same(x, y) == y.id = x.id /\ y.status = x.status /\ y.draft = x.draft
Carried(X, Y) ==
    /\ \A y \in Y : \E x \in X : Same(x, y)
    /\ \A x \in X : \E y \in Y : Same(x, y)

LEMMA CarriedOK ==
    ASSUME NEW X, NEW Y, Carried(X, Y), NEW sel, NEW editing, NEW buf, NEW decided,
           ItemsOK(X, sel, editing, buf, decided)
    PROVE  ItemsOK(Y, sel, editing, buf, decided)
<1>1. OwnDrafts(Y)
  BY DEF ItemsOK, OwnDrafts, Carried, Same
<1>2. Y # {} => \E it \in Y : it.id = sel
  BY DEF ItemsOK, Carried, Same
<1>3. ASSUME BufferOwn(X, sel, buf) PROVE BufferOwn(Y, sel, buf)
  BY <1>3 DEF BufferOwn, Carried, Same
<1>4. DecisionsShown(Y, decided)
  BY DEF ItemsOK, DecisionsShown, Carried, Same
<1> QED
  BY <1>1, <1>2, <1>3, <1>4 DEF ItemsOK

(* Update, with the change it makes given entry by entry. *)
LEMMA MarkFacts ==
    ASSUME NEW s \in Seq(InboxItem), NEW id, NEW b \in BOOLEAN,
           NEW t, t = [i \in DOMAIN s |-> IF s[i].id = id THEN [s[i] EXCEPT !.unread = b] ELSE s[i]]
    PROVE  t \in Seq(InboxItem) /\ Carried(ToSet(s), ToSet(t))
<1>1. \A i \in DOMAIN s : s[i] \in InboxItem
  BY LenProperties
<1>2. ASSUME NEW i \in DOMAIN s PROVE t[i] \in InboxItem /\ Same(s[i], t[i])
  <2>1. s[i] \in InboxItem /\ t[i] = IF s[i].id = id THEN [s[i] EXCEPT !.unread = b] ELSE s[i]
    BY <1>1, <1>2
  <2> QED
    BY <2>1 DEF InboxItem, Same
<1>3. t \in [DOMAIN s -> InboxItem]
  BY <1>2
<1>4. t \in Seq(InboxItem) /\ DOMAIN t = DOMAIN s
  BY <1>3, MapFacts
<1>5. Carried(ToSet(s), ToSet(t))
  <2>1. ASSUME NEW y \in ToSet(t) PROVE \E x \in ToSet(s) : Same(x, y)
    <3>1. PICK i \in DOMAIN s : y = t[i]
      BY <1>4, <2>1, Zenon DEF ToSet
    <3>2. s[i] \in ToSet(s) /\ Same(s[i], y)
      BY <1>2, <3>1, Zenon DEF ToSet
    <3> QED
      BY <3>2, Zenon
  <2>2. ASSUME NEW x \in ToSet(s) PROVE \E y \in ToSet(t) : Same(x, y)
    <3>1. PICK i \in DOMAIN s : x = s[i]
      BY <2>2, Zenon DEF ToSet
    <3>2. t[i] \in ToSet(t) /\ Same(x, t[i])
      BY <1>2, <1>4, <3>1, Zenon DEF ToSet
    <3> QED
      BY <3>2, Zenon
  <2> QED
    BY <2>1, <2>2, Zenon DEF Carried
<1> QED
  BY <1>4, <1>5

(* The effect that marks the selected item read keeps the page's invariant. *)
LEMMA InboxWithOK ==
    ASSUME NEW p, InboxShape(p), NEW items \in Seq(InboxItem),
           ItemsOK(ToSet(items), p.selectedId, p.editing, p.draftBuffer, p.decided)
    PROVE  InboxOK(InboxWith(p, items)) /\ InboxWith(p, items).decided = p.decided
<1> DEFINE t == markRead(items, p.selectedId)
           q == [p EXCEPT !.items = t]
<1>1. t = [i \in DOMAIN items |->
             IF items[i].id = p.selectedId THEN [items[i] EXCEPT !.unread = FALSE] ELSE items[i]]
  BY DEF markRead, Update
<1> HIDE DEF t
<1>2. t \in Seq(InboxItem) /\ Carried(ToSet(items), ToSet(t))
  BY <1>1, MarkFacts
<1>3. ItemsOK(ToSet(t), p.selectedId, p.editing, p.draftBuffer, p.decided)
  BY <1>2, CarriedOK
<1>4. /\ InboxShape(q) /\ q.items = t /\ q.selectedId = p.selectedId /\ q.editing = p.editing
      /\ q.draftBuffer = p.draftBuffer /\ q.decided = p.decided
  BY <1>2 DEF InboxShape
<1> HIDE DEF q
<1>5. InboxOK(q) /\ q.decided = p.decided
  BY <1>3, <1>4, Zenon DEF InboxOK
<1> QED
  BY <1>5 DEF InboxWith, q, t

LEMMA InboxMount == InboxOK(InboxMounted) /\ InboxMounted.decided = {}
<1> DEFINE p == [items |-> <<>>, chip |-> "awaiting", selectedId |-> InboxSeed[1].id,
                 editing |-> FALSE, draftBuffer |-> <<>>, decided |-> {}]
<1>1. InboxSeed \in Seq(InboxItem) /\ 1 \in DOMAIN InboxSeed
  BY InboxInputs, LenProperties, EmptySeq
<1>2. InboxSeed[1] \in InboxItem /\ InboxSeed[1] \in ToSet(InboxSeed)
  BY <1>1 DEF ToSet
<1>3. InboxSeed[1].id \in STRING
  BY <1>2 DEF InboxItem
<1>4. InboxShape(p) /\ p.selectedId = InboxSeed[1].id /\ p.editing = FALSE /\ p.decided = {}
  BY <1>3 DEF InboxShape, InboxChips
<1>5. OwnDrafts(ToSet(InboxSeed))
  BY InboxInputs DEF OwnDrafts, ToSet
<1> HIDE DEF p
<1>6. ItemsOK(ToSet(InboxSeed), p.selectedId, p.editing, p.draftBuffer, p.decided)
  BY <1>2, <1>4, <1>5 DEF ItemsOK, DecisionsShown
<1>7. InboxOK(InboxWith(p, InboxSeed)) /\ InboxWith(p, InboxSeed).decided = {}
  BY <1>1, <1>4, <1>6, InboxWithOK
<1> QED
  BY <1>7 DEF InboxMounted, p

LEMMA InboxEffect ==
    ASSUME InboxOK(page), load.data.live = FALSE, NEW a \in InboxAnswers
    PROVE  InboxOK(InboxLoaded(a))
<1>1. PICK list \in InboxLists : a = [live |-> TRUE, items |-> list]
  BY DEF InboxAnswers
<1>2. list \in Seq(InboxItem) /\ \A i \in DOMAIN list : list[i].draft = <<>>
  BY <1>1, InboxInputs
<1> DEFINE sel == IF list # <<>> THEN list[1].id ELSE page.selectedId
           p == [page EXCEPT !.selectedId = sel, !.decided = {}]
<1>3. sel \in STRING /\ (ToSet(list) # {} => \E it \in ToSet(list) : it.id = sel)
  <2>1. CASE list = <<>>
    BY <2>1 DEF InboxOK, InboxShape, ToSet
  <2>2. CASE list # <<>>
    <3>1. 1 \in DOMAIN list
      BY <1>2, <2>2, LenProperties, EmptySeq
    <3>2. list[1] \in InboxItem /\ list[1] \in ToSet(list)
      BY <1>2, <3>1 DEF ToSet
    <3> QED
      BY <2>2, <3>2 DEF InboxItem
  <2> QED
    BY <2>1, <2>2
<1> HIDE DEF sel
<1>4. InboxShape(p) /\ p.selectedId = sel /\ p.decided = {}
  BY <1>3 DEF InboxOK, InboxShape
<1>5. InboxLoaded(a) = InboxWith(p, list)
  BY <1>1 DEF InboxLoaded, sel
<1> HIDE DEF p
<1>6. \A it \in ToSet(list) : it.draft = <<>>
  BY <1>2 DEF ToSet
<1>7. OwnDrafts(ToSet(list))
  BY <1>6 DEF OwnDrafts
<1>8. ItemsOK(ToSet(list), p.selectedId, p.editing, p.draftBuffer, p.decided)
  BY <1>3, <1>4, <1>6, <1>7 DEF ItemsOK, BufferOwn, DecisionsShown
<1> QED
  BY <1>2, <1>4, <1>5, <1>8, InboxWithOK

(* approve and deny give every item with the id the status. *)
Redone(X, Y, id, st) ==
    /\ \A y \in Y : \E x \in X : y.id = x.id /\ y.draft = x.draft
    /\ \A x \in X : \E y \in Y : /\ y.id = x.id /\ y.draft = x.draft
                                 /\ x.id = id => y.status = st
                                 /\ x.id # id => y.status = x.status

DecisionAdded(decided, after, id, st) ==
    \A d \in after :
        \/ d \in decided /\ d.id # id
        \/ d.id = id /\ d.status = st

LEMMA RedoneOK ==
    ASSUME NEW X, NEW Y, NEW id, NEW st, Redone(X, Y, id, st), NEW sel, NEW editing, NEW buf,
           NEW decided, ItemsOK(X, sel, editing, buf, decided), NEW it \in X, it.id = id,
           NEW after, DecisionAdded(decided, after, id, st)
    PROVE  /\ ItemsOK(Y, sel, FALSE, buf, after)
           /\ decided = {} => ItemsOK(Y, sel, FALSE, buf, decided)
<1>1. OwnDrafts(Y)
  BY DEF ItemsOK, OwnDrafts, Redone
<1>2. Y # {} => \E y \in Y : y.id = sel
  BY DEF ItemsOK, Redone
<1>5. \E y \in Y : y.id = id /\ y.status = st
  BY DEF Redone
<1>6. ASSUME NEW d \in decided, d.id # id
      PROVE  \E y \in Y : y.id = d.id /\ y.status = d.status
  <2>1. PICK x \in X : x.id = d.id /\ x.status = d.status
    BY <1>6 DEF ItemsOK, DecisionsShown
  <2> QED
    BY <1>6, <2>1 DEF Redone
<1>8. DecisionsShown(Y, after)
  BY <1>5, <1>6, Zenon DEF DecisionsShown, DecisionAdded
<1>9. decided = {} => DecisionsShown(Y, decided)
  BY DEF DecisionsShown
<1> QED
  BY <1>1, <1>2, <1>8, <1>9 DEF ItemsOK

DecidedItems(s, id, st) ==
    [i \in DOMAIN s |-> IF s[i].id = id THEN [s[i] EXCEPT !.status = st, !.unread = FALSE] ELSE s[i]]

LEMMA DecideFacts ==
    ASSUME NEW s \in Seq(InboxItem), NEW id, NEW st \in {"done", "held"},
           NEW t, t = DecidedItems(s, id, st)
    PROVE  t \in Seq(InboxItem) /\ Redone(ToSet(s), ToSet(t), id, st)
<1>1. \A i \in DOMAIN s : s[i] \in InboxItem
  BY LenProperties
<1>2. ASSUME NEW i \in DOMAIN s
      PROVE  /\ t[i] \in InboxItem /\ t[i].id = s[i].id /\ t[i].draft = s[i].draft
             /\ s[i].id = id => t[i].status = st
             /\ s[i].id # id => t[i].status = s[i].status
  <2>1. s[i] \in InboxItem /\ t[i] = IF s[i].id = id THEN [s[i] EXCEPT !.status = st, !.unread = FALSE] ELSE s[i]
    BY <1>1, <1>2 DEF DecidedItems
  <2> QED
    BY <2>1 DEF InboxItem
<1>3. t \in [DOMAIN s -> InboxItem]
  BY <1>2 DEF DecidedItems
<1>4. t \in Seq(InboxItem) /\ DOMAIN t = DOMAIN s
  BY <1>3, MapFacts
<1>5. ASSUME NEW y \in ToSet(t) PROVE \E x \in ToSet(s) : y.id = x.id /\ y.draft = x.draft
  <2>1. PICK i \in DOMAIN s : y = t[i]
    BY <1>4, <1>5, Zenon DEF ToSet
  <2>2. s[i] \in ToSet(s)
    BY Zenon DEF ToSet
  <2> QED
    BY <1>2, <2>1, <2>2, Zenon
<1>6. ASSUME NEW x \in ToSet(s)
      PROVE  \E y \in ToSet(t) : /\ y.id = x.id /\ y.draft = x.draft
                                 /\ x.id = id => y.status = st
                                 /\ x.id # id => y.status = x.status
  <2>1. PICK i \in DOMAIN s : x = s[i]
    BY <1>6, Zenon DEF ToSet
  <2>2. t[i] \in ToSet(t)
    BY <1>4, Zenon DEF ToSet
  <2> QED
    BY <1>2, <2>1, <2>2, Zenon
<1> QED
  BY <1>4, <1>5, <1>6, Zenon DEF Redone

(* Saving an edit gives every item with the id the buffer as its draft. *)
Redrafted(X, Y, id, buf) ==
    /\ \A y \in Y : \E x \in X : /\ y.id = x.id /\ (x.id = id => y.draft = buf)
                                 /\ x.id # id => y.draft = x.draft
    /\ \A x \in X : \E y \in Y : y.id = x.id /\ y.status = x.status

LEMMA RedraftedOK ==
    ASSUME NEW X, NEW Y, NEW sel, NEW buf, Redrafted(X, Y, sel, buf), NEW editing, NEW decided,
           ItemsOK(X, sel, editing, buf, decided), \A k \in DOMAIN buf : buf[k].of = sel
    PROVE  ItemsOK(Y, sel, FALSE, buf, decided)
<1>1. ASSUME NEW y \in Y PROVE \A k \in DOMAIN y.draft : y.draft[k].of = y.id
  <2>1. PICK x \in X : /\ y.id = x.id /\ (x.id = sel => y.draft = buf)
                       /\ x.id # sel => y.draft = x.draft
    BY <1>1 DEF Redrafted
  <2>2. CASE x.id = sel
    BY <2>1, <2>2
  <2>3. CASE x.id # sel
    BY <2>1, <2>3 DEF ItemsOK, OwnDrafts
  <2> QED
    BY <2>2, <2>3
<1>2. OwnDrafts(Y)
  BY <1>1 DEF OwnDrafts
<1>3. Y # {} => \E y \in Y : y.id = sel
  BY DEF ItemsOK, Redrafted
<1>4. DecisionsShown(Y, decided)
  BY DEF ItemsOK, DecisionsShown, Redrafted
<1> QED
  BY <1>2, <1>3, <1>4 DEF ItemsOK

LEMMA CommitFacts ==
    ASSUME NEW s \in Seq(InboxItem), NEW id, NEW buf \in Seq(InboxDraft),
           NEW t, t = [i \in DOMAIN s |-> IF s[i].id = id THEN [s[i] EXCEPT !.draft = buf] ELSE s[i]]
    PROVE  t \in Seq(InboxItem) /\ Redrafted(ToSet(s), ToSet(t), id, buf)
<1>1. \A i \in DOMAIN s : s[i] \in InboxItem
  BY LenProperties
<1>2. ASSUME NEW i \in DOMAIN s
      PROVE  /\ t[i] \in InboxItem /\ t[i].id = s[i].id /\ t[i].status = s[i].status
             /\ s[i].id = id => t[i].draft = buf
             /\ s[i].id # id => t[i].draft = s[i].draft
  <2>1. s[i] \in InboxItem /\ t[i] = IF s[i].id = id THEN [s[i] EXCEPT !.draft = buf] ELSE s[i]
    BY <1>1, <1>2
  <2> QED
    BY <2>1 DEF InboxItem
<1>3. t \in [DOMAIN s -> InboxItem]
  BY <1>2
<1>4. t \in Seq(InboxItem) /\ DOMAIN t = DOMAIN s
  BY <1>3, MapFacts
<1>5. ASSUME NEW y \in ToSet(t)
      PROVE  \E x \in ToSet(s) : /\ y.id = x.id /\ (x.id = id => y.draft = buf)
                                 /\ x.id # id => y.draft = x.draft
  <2>1. PICK i \in DOMAIN s : y = t[i]
    BY <1>4, <1>5, Zenon DEF ToSet
  <2>2. s[i] \in ToSet(s)
    BY Zenon DEF ToSet
  <2> QED
    BY <1>2, <2>1, <2>2, Zenon
<1>6. ASSUME NEW x \in ToSet(s) PROVE \E y \in ToSet(t) : y.id = x.id /\ y.status = x.status
  <2>1. PICK i \in DOMAIN s : x = s[i]
    BY <1>6, Zenon DEF ToSet
  <2>2. t[i] \in ToSet(t)
    BY <1>4, Zenon DEF ToSet
  <2> QED
    BY <1>2, <2>1, <2>2, Zenon
<1> QED
  BY <1>4, <1>5, <1>6, Zenon DEF Redrafted

(* Snoozing moves the item to the end, unread: the items are the same. *)
LEMMA SnoozeFacts ==
    ASSUME NEW s \in Seq(InboxItem), NEW id
    PROVE  snoozeItem(s, id) \in Seq(InboxItem) /\ Carried(ToSet(s), ToSet(snoozeItem(s, id)))
<1> DEFINE others == {i \in DOMAIN s : s[i].id # id}
           own == {i \in DOMAIN s : s[i].id = id}
           f == Filter(s, others)
           g == Filter(s, own)
           h == [i \in DOMAIN g |-> IF g[i].id = id THEN [g[i] EXCEPT !.unread = TRUE] ELSE g[i]]
<1>1. snoozeItem(s, id) = f \o h
  BY DEF snoozeItem, Update
<1>2. f \in Seq(InboxItem) /\ ToSet(f) = {s[i] : i \in others}
  BY FilterSet
<1>3. g \in Seq(InboxItem) /\ ToSet(g) = {s[i] : i \in own}
  BY FilterSet
<1>4. ToSet(s) = {s[i] : i \in others} \cup {s[i] : i \in own}
  BY DEF ToSet
<1> HIDE DEF f, g, others, own
<1>5. h \in Seq(InboxItem) /\ Carried(ToSet(g), ToSet(h))
  BY <1>3, MarkFacts
<1> HIDE DEF h
<1>6. f \o h \in Seq(InboxItem) /\ ToSet(f \o h) = ToSet(f) \cup ToSet(h)
  BY <1>2, <1>5, ConcatFacts
<1>7. ToSet(s) = ToSet(f) \cup ToSet(g)
  BY <1>2, <1>3, <1>4
<1>8. Carried(ToSet(s), ToSet(f \o h))
  BY <1>5, <1>6, <1>7 DEF Carried, Same
<1> QED
  BY <1>1, <1>6, <1>8

(* No decision is recorded before the gateway's list is there. *)
LEMMA InboxSteps ==
    ASSUME InboxOK(page), load.data.live \in BOOLEAN,
           load.data.live = FALSE => page.decided = {}, InboxNext
    PROVE  InboxOK(page') /\ (load.data.live = FALSE => page'.decided = {})
<1> DEFINE s == page.items
           sel == page.selectedId
           Good(p) == InboxOK(p) /\ (load.data.live = FALSE => p.decided = {})
<1>0. /\ InboxShape(page) /\ s \in Seq(InboxItem) /\ sel \in STRING
      /\ page.draftBuffer \in Seq(InboxDraft)
      /\ ItemsOK(ToSet(s), sel, page.editing, page.draftBuffer, page.decided)
  BY DEF InboxOK, InboxShape
<1>1. \A it \in ToSet(s) : it \in InboxItem
  BY <1>0 DEF ToSet
<1>2. \A it \in selected : it \in ToSet(s) /\ it.id = sel
  BY DEF selected
<1>3. onSelect => Good(page')
  <2> SUFFICES ASSUME onSelect PROVE Good(page')
    OBVIOUS
  <2>1. PICK it \in applyChip(page.items, page.chip) :
           page' = InboxWith([page EXCEPT !.selectedId = it.id, !.editing = FALSE,
                                          !.draftBuffer = <<>>], page.items)
    BY DEF onSelect, PageStep
  <2>2. it \in ToSet(s) /\ it.id \in STRING
    BY <1>1, <2>1 DEF applyChip, InboxItem
  <2> DEFINE p == [page EXCEPT !.selectedId = it.id, !.editing = FALSE, !.draftBuffer = <<>>]
  <2>3. InboxShape(p) /\ p.selectedId = it.id /\ p.editing = FALSE /\ p.decided = page.decided
    <3> DEFINE none == <<>>
    <3>1. none \in Seq(InboxDraft) /\ p = [page EXCEPT !.selectedId = it.id, !.editing = FALSE, !.draftBuffer = none]
      OBVIOUS
    <3> HIDE DEF none, p
    <3> QED
      BY <1>0, <2>2, <3>1 DEF InboxShape
  <2>4. page' = InboxWith(p, s)
    BY <2>1
  <2> HIDE DEF p, s
  <2>5. ItemsOK(ToSet(s), p.selectedId, p.editing, p.draftBuffer, p.decided)
    BY <1>0, <2>2, <2>3 DEF ItemsOK
  <2>6. InboxOK(InboxWith(p, s)) /\ InboxWith(p, s).decided = page.decided
    BY <1>0, <2>3, <2>5, InboxWithOK
  <2> QED
    BY <2>4, <2>6
<1>4. setInboxChip => Good(page')
  <2> SUFFICES ASSUME setInboxChip PROVE Good(page')
    OBVIOUS
  <2>1. PICK c \in InboxChips : page' = [page EXCEPT !.chip = c]
    BY InboxInputs DEF setInboxChip, PageStep
  <2> QED
    BY <1>0, <2>1 DEF InboxOK, InboxShape
<1>5. ASSUME NEW it \in selected, NEW st \in {"done", "held"}, NEW t,
             t = DecidedItems(s, it.id, st),
             page' = InboxWith([page EXCEPT !.editing = FALSE, !.decided = Decide(it.id, st)], t)
      PROVE  Good(page')
  <2>1. it \in ToSet(s) /\ it.id = sel
    BY <1>2, <1>5
  <2>2. t \in Seq(InboxItem) /\ Redone(ToSet(s), ToSet(t), it.id, st)
    <3> HIDE DEF s
    <3> QED
      BY <1>0, <1>5, DecideFacts
  <2> DEFINE after == {d \in page.decided : d.id # it.id} \cup {[id |-> it.id, status |-> st]}
             D == Decide(it.id, st)
             p == [page EXCEPT !.editing = FALSE, !.decided = D]
  <2>3. [id |-> it.id, status |-> st] \in InboxDecision
    BY <1>0, <1>5, <2>1 DEF InboxDecision
  <2>4. page.decided \in SUBSET InboxDecision
    BY <1>0 DEF InboxShape
  <2>5. after \in SUBSET InboxDecision
    BY <2>3, <2>4
  <2> HIDE DEF s, sel
  <2>6. /\ ItemsOK(ToSet(t), sel, FALSE, page.draftBuffer, after)
        /\ page.decided = {} => ItemsOK(ToSet(t), sel, FALSE, page.draftBuffer, page.decided)
    <3>1. DecisionAdded(page.decided, after, it.id, st)
      BY DEF DecisionAdded
    <3> HIDE DEF after
    <3> QED
      BY <1>0, <2>1, <2>2, <3>1, RedoneOK
  <2>7. \/ load.data.live = TRUE /\ D = after
        \/ load.data.live = FALSE /\ D = page.decided
    BY DEF Decide
  <2> HIDE DEF after, D
  <2>8. /\ D \in SUBSET InboxDecision /\ ItemsOK(ToSet(t), sel, FALSE, page.draftBuffer, D)
        /\ load.data.live = FALSE => D = {}
    BY <2>4, <2>5, <2>6, <2>7, Zenon
  <2>9. /\ InboxShape(p) /\ p.selectedId = sel /\ p.editing = FALSE
        /\ p.draftBuffer = page.draftBuffer /\ p.decided = D
    BY <1>0, <2>8 DEF InboxShape, sel
  <2>10. page' = InboxWith(p, t)
    BY <1>5 DEF D
  <2> HIDE DEF p
  <2>11. ItemsOK(ToSet(t), p.selectedId, p.editing, p.draftBuffer, p.decided)
    BY <2>8, <2>9, Zenon
  <2>12. InboxOK(InboxWith(p, t)) /\ InboxWith(p, t).decided = p.decided
    BY <2>2, <2>9, <2>11, InboxWithOK
  <2> QED
    BY <2>8, <2>9, <2>10, <2>12, Zenon
<1>6. onApproveItem => Good(page')
  <2> SUFFICES ASSUME onApproveItem PROVE Good(page')
    OBVIOUS
  <2>1. PICK it \in selected :
           page' = InboxWith([page EXCEPT !.editing = FALSE, !.decided = Decide(it.id, "done")],
                             approveItem(s, it.id))
    BY DEF onApproveItem, PageStep
  <2>2. approveItem(s, it.id) = DecidedItems(s, it.id, "done")
    BY DEF approveItem, Update, DecidedItems
  <2> HIDE DEF s, Good
  <2> QED
    BY <1>5, <2>1, <2>2
<1>7. onDenyItem => Good(page')
  <2> SUFFICES ASSUME onDenyItem PROVE Good(page')
    OBVIOUS
  <2>1. PICK it \in selected :
           page' = InboxWith([page EXCEPT !.editing = FALSE, !.decided = Decide(it.id, "held")],
                             denyItem(s, it.id))
    BY DEF onDenyItem, PageStep
  <2>2. denyItem(s, it.id) = DecidedItems(s, it.id, "held")
    BY DEF denyItem, Update, DecidedItems
  <2> HIDE DEF s, Good
  <2> QED
    BY <1>5, <2>1, <2>2
<1>8. onSnoozeItem => Good(page')
  <2> SUFFICES ASSUME onSnoozeItem PROVE Good(page')
    OBVIOUS
  <2>1. PICK it \in selected : page' = InboxWith(page, snoozeItem(s, it.id))
    BY DEF onSnoozeItem, PageStep
  <2> DEFINE t == snoozeItem(s, it.id)
  <2> HIDE DEF s
  <2>2. t \in Seq(InboxItem) /\ Carried(ToSet(s), ToSet(t))
    BY <1>0, SnoozeFacts
  <2>3. page' = InboxWith(page, t)
    BY <2>1
  <2> HIDE DEF t
  <2>4. ItemsOK(ToSet(t), page.selectedId, page.editing, page.draftBuffer, page.decided)
    BY <1>0, <2>2, CarriedOK
  <2>5. InboxOK(InboxWith(page, t)) /\ InboxWith(page, t).decided = page.decided
    BY <1>0, <2>2, <2>4, InboxWithOK
  <2> QED
    BY <2>3, <2>5
<1>9. onEdit => Good(page')
  <2> SUFFICES ASSUME onEdit PROVE Good(page')
    OBVIOUS
  <2>1. PICK it \in selected : page' = [page EXCEPT !.draftBuffer = it.draft, !.editing = TRUE]
    BY DEF onEdit, PageStep
  <2>2. it.draft \in Seq(InboxDraft) /\ \A k \in DOMAIN it.draft : it.draft[k].of = sel
    BY <1>0, <1>1, <1>2, <2>1 DEF ItemsOK, OwnDrafts, InboxItem
  <2>3. /\ InboxShape(page') /\ page'.items = s /\ page'.selectedId = sel /\ page'.editing = TRUE
        /\ page'.draftBuffer = it.draft /\ page'.decided = page.decided
    BY <1>0, <2>1, <2>2 DEF InboxShape
  <2> HIDE DEF s, sel
  <2>4. ItemsOK(ToSet(s), sel, TRUE, it.draft, page.decided)
    BY <1>0, <2>2 DEF ItemsOK, BufferOwn
  <2> QED
    BY <2>3, <2>4, Zenon DEF InboxOK
<1>10. onChangeBuffer => Good(page')
  <2> SUFFICES ASSUME onChangeBuffer PROVE Good(page')
    OBVIOUS
  <2> DEFINE shown(it) == IF page.draftBuffer # <<>> THEN page.draftBuffer ELSE it.draft
  <2>1. PICK it \in selected :
           /\ Offered("type", it)
           /\ page' = [page EXCEPT !.draftBuffer = <<[shown(it)[1] EXCEPT !.edited = TRUE]>>]
    BY DEF onChangeBuffer, PageStep
  <2>2. it \in ToSet(s) /\ it.id = sel /\ it.draft # <<>> /\ page.editing = TRUE
        /\ it.draft \in Seq(InboxDraft)
    <3>1. it.draft # <<>> /\ page.editing = TRUE
      BY <1>0, <2>1 DEF Offered, DetailDrawer, DraftedBlock, InboxShape
    <3> QED
      BY <1>1, <1>2, <2>1, <3>1 DEF InboxItem
  <2> DEFINE d == shown(it)
             e == [d[1] EXCEPT !.edited = TRUE]
  <2>3. d \in Seq(InboxDraft) /\ d # <<>>
    BY <1>0, <2>2
  <2>4. \A k \in DOMAIN d : d[k].of = sel
    <3>1. \A k \in DOMAIN it.draft : it.draft[k].of = sel
      BY <1>0, <2>2 DEF ItemsOK, OwnDrafts
    <3>2. BufferOwn(ToSet(s), sel, page.draftBuffer)
      BY <1>0, <2>2 DEF ItemsOK
    <3>3. \A k \in DOMAIN page.draftBuffer : page.draftBuffer[k].of = sel
      BY <2>2, <3>2 DEF BufferOwn
    <3> QED
      BY <3>1, <3>3
  <2>5. page' = [page EXCEPT !.draftBuffer = <<e>>]
    BY <2>1
  <2> HIDE DEF d
  <2>6. 1 \in DOMAIN d
    BY <2>3, LenProperties, EmptySeq
  <2>7. d[1] \in InboxDraft /\ d[1].of = sel
    BY <2>3, <2>4, <2>6
  <2>8. e \in InboxDraft /\ e.of = sel
    BY <2>7 DEF InboxDraft
  <2> HIDE DEF e
  <2> DEFINE b == <<e>>
  <2>9. b \in Seq(InboxDraft) /\ \A k \in DOMAIN b : b[k].of = sel
    BY <2>8
  <2>10. page' = [page EXCEPT !.draftBuffer = b]
    BY <2>5
  <2> HIDE DEF b
  <2>11. /\ InboxShape(page') /\ page'.items = s /\ page'.selectedId = sel
         /\ page'.editing = page.editing /\ page'.draftBuffer = b /\ page'.decided = page.decided
    BY <1>0, <2>9, <2>10 DEF InboxShape
  <2> HIDE DEF s, sel
  <2>12. ItemsOK(ToSet(s), sel, page.editing, b, page.decided)
    BY <1>0, <2>9 DEF ItemsOK, BufferOwn
  <2> QED
    BY <2>11, <2>12, Zenon DEF InboxOK
<1>11. onCancelEdit => Good(page')
  <2> SUFFICES ASSUME onCancelEdit PROVE Good(page')
    OBVIOUS
  <2>1. page' = [page EXCEPT !.editing = FALSE, !.draftBuffer = <<>>]
    BY DEF onCancelEdit, PageStep
  <2>2. /\ InboxShape(page') /\ page'.items = s /\ page'.selectedId = sel /\ page'.editing = FALSE
        /\ page'.decided = page.decided
    <3> DEFINE none == <<>>
    <3>1. none \in Seq(InboxDraft) /\ page' = [page EXCEPT !.editing = FALSE, !.draftBuffer = none]
      BY <2>1
    <3> HIDE DEF none
    <3> QED
      BY <1>0, <3>1 DEF InboxShape
  <2> HIDE DEF s, sel
  <2>3. ItemsOK(ToSet(s), sel, FALSE, page'.draftBuffer, page.decided)
    BY <1>0 DEF ItemsOK
  <2> QED
    BY <2>2, <2>3, Zenon DEF InboxOK
<1>12. onCommitEdit => Good(page')
  <2> SUFFICES ASSUME onCommitEdit PROVE Good(page')
    OBVIOUS
  <2>1. PICK it \in selected :
           /\ Offered("save", it)
           /\ page' = InboxWith([page EXCEPT !.editing = FALSE],
                                commitEdit(s, it.id, page.draftBuffer))
    BY DEF onCommitEdit, PageStep
  <2>2. it \in ToSet(s) /\ it.id = sel /\ it.draft # <<>> /\ page.editing = TRUE
    <3>1. it.draft # <<>> /\ page.editing = TRUE
      BY <1>0, <2>1 DEF Offered, DetailDrawer, DraftedBlock, InboxShape
    <3> QED
      BY <1>2, <2>1, <3>1
  <2> DEFINE buf == page.draftBuffer
             t == commitEdit(s, sel, buf)
             p == [page EXCEPT !.editing = FALSE]
  <2>3. t = [i \in DOMAIN s |-> IF s[i].id = sel THEN [s[i] EXCEPT !.draft = buf] ELSE s[i]]
    BY DEF commitEdit, Update
  <2>4. page' = InboxWith(p, t)
    BY <2>1, <2>2
  <2>5. \A k \in DOMAIN buf : buf[k].of = sel
    BY <1>0, <2>2 DEF ItemsOK, BufferOwn
  <2>6. /\ InboxShape(p) /\ p.selectedId = sel /\ p.editing = FALSE
        /\ p.draftBuffer = buf /\ p.decided = page.decided
    BY <1>0 DEF InboxShape
  <2> HIDE DEF s, sel, buf, t, p
  <2>7. t \in Seq(InboxItem) /\ Redrafted(ToSet(s), ToSet(t), sel, buf)
    BY <1>0, <2>3, CommitFacts DEF buf
  <2>8. ItemsOK(ToSet(t), sel, FALSE, buf, page.decided)
    BY <1>0, <2>5, <2>7, RedraftedOK DEF buf
  <2>9. ItemsOK(ToSet(t), p.selectedId, p.editing, p.draftBuffer, p.decided)
    BY <2>6, <2>8, Zenon
  <2>10. InboxOK(InboxWith(p, t)) /\ InboxWith(p, t).decided = p.decided
    BY <2>6, <2>7, <2>9, InboxWithOK
  <2> QED
    BY <2>4, <2>6, <2>10, Zenon
<1>13. RouteError("inbox", page) => Good(page')
  BY DEF RouteError
<1> QED
  BY <1>3, <1>4, <1>6, <1>7, <1>8, <1>9, <1>10, <1>11, <1>12, <1>13 DEF InboxNext

-----------------------------------------------------------------------------
(* All the pages. *)

PageOK(r, p) ==
    /\ r = "inbox" => InboxOK(p)
    /\ r = "home" => HomeOK(p)
    /\ r = "health" => HealthOK(p)
    /\ r = "memory" => MemoryOK(p)
    /\ r = "settings" => SettingsOK(p)
    /\ r = "recipes" => RecipesOK(p)
    /\ r = "security" => SecurityOK(p)
    /\ r = "research" => ResearchOK(p)

(* The inbox records no decision before the gateway's list is there. *)
NoneEarly(r, h, p) == r = "inbox" /\ h.data.live = FALSE => p.decided = {}

(* The scroll is locked by the drawer of the mounted page. *)
DrawerOpen(r, p) ==
    \/ r \in {"recipes", "research"} /\ p.openId # "none"
    \/ r = "security" /\ p.openPolicy # <<>>
ScrollOK(r, p, o) == o \in {"", "hidden"} /\ (o = "hidden" <=> DrawerOpen(r, p))

PagesInv ==
    PageOK(route, page) /\ NoneEarly(route, load, page) /\ ScrollOK(route, page, overflow)

LEMMA PagesMounted ==
    ASSUME NEW r \in Routes, NEW h
    PROVE  PageOK(r, Mounted(r)) /\ NoneEarly(r, h, Mounted(r)) /\ ScrollOK(r, Mounted(r), "")
<1>1. CASE r \in {"commitments", "audit"}
  BY <1>1 DEF PageOK, NoneEarly, ScrollOK, DrawerOpen
<1>2. CASE r = "inbox"
  BY <1>2, InboxMount DEF PageOK, NoneEarly, ScrollOK, DrawerOpen, Mounted
<1>3. CASE r = "home"
  BY <1>3, HomeMount DEF PageOK, NoneEarly, ScrollOK, DrawerOpen, Mounted
<1>4. CASE r = "health"
  BY <1>4, HealthMount DEF PageOK, NoneEarly, ScrollOK, DrawerOpen, Mounted
<1>5. CASE r = "memory"
  BY <1>5, MemoryMount DEF PageOK, NoneEarly, ScrollOK, DrawerOpen, Mounted
<1>6. CASE r = "settings"
  BY <1>6, SettingsMount DEF PageOK, NoneEarly, ScrollOK, DrawerOpen, Mounted
<1>7. CASE r = "recipes"
  BY <1>7, RecipesMount DEF PageOK, NoneEarly, ScrollOK, DrawerOpen, Mounted
<1>8. CASE r = "security"
  BY <1>8, SecurityMount DEF PageOK, NoneEarly, ScrollOK, DrawerOpen, Mounted
<1>9. CASE r = "research"
  BY <1>9, ResearchMount DEF PageOK, NoneEarly, ScrollOK, DrawerOpen, Mounted
<1> QED
  BY <1>1, <1>2, <1>3, <1>4, <1>5, <1>6, <1>7, <1>8, <1>9 DEF Routes

LEMMA PagesInit == WebInit => PagesInv
<1> SUFFICES ASSUME WebInit PROVE PagesInv
  OBVIOUS
<1>1. route \in Routes /\ page = Mounted(route) /\ overflow = ""
  BY DEF WebInit
<1> QED
  BY <1>1, PagesMounted DEF PagesInv

(* What a load does to the state of a page that copies it. *)
LEMMA CopyFrames ==
    ASSUME HookInv
    PROVE  /\ InboxLoad => \/ page' = page /\ load'.data = load.data
                          \/ \E f \in load.flights :
                                /\ f.answer # <<>> /\ IsCurrent(load, f)
                                /\ load'.data = f.answer[1] /\ page' = InboxLoaded(f.answer[1])
           /\ HomeLoad => \/ page' = page /\ load'.data = load.data
                         \/ \E f \in load.flights :
                               /\ f.answer # <<>> /\ IsCurrent(load, f)
                               /\ page' = HomeLoaded(f.answer[1])
           /\ HealthLoad => \/ page' = page /\ load'.data = load.data
                           \/ \E f \in load.flights :
                                 /\ f.answer # <<>> /\ IsCurrent(load, f)
                                 /\ page' = HealthLoaded(f.answer[1])
<1>0. HookOK(load)
  BY DEF HookInv
<1>1. ASSUME NEW r, NEW A, Read(r, A) PROVE page' = page /\ load'.data = load.data
  BY <1>0, <1>1, ServedFacts DEF Read
<1>2. ASSUME NEW f \in load.flights, load' = resolve(load, f)
      PROVE  /\ IsCurrent(load, f) => load'.data = f.answer[1]
             /\ ~IsCurrent(load, f) => load'.data = load.data
  BY <1>0, <1>2, ResolveFacts
<1>3. Resolves("inbox", InboxLoaded) =>
        \/ page' = page /\ load'.data = load.data
        \/ \E f \in load.flights :
              /\ f.answer # <<>> /\ IsCurrent(load, f)
              /\ load'.data = f.answer[1] /\ page' = InboxLoaded(f.answer[1])
  BY <1>2, Zenon DEF Resolves
<1>4. Resolves("home", HomeLoaded) =>
        \/ page' = page /\ load'.data = load.data
        \/ \E f \in load.flights :
              f.answer # <<>> /\ IsCurrent(load, f) /\ page' = HomeLoaded(f.answer[1])
  BY <1>2, Zenon DEF Resolves
<1>5. Resolves("health", HealthLoaded) =>
        \/ page' = page /\ load'.data = load.data
        \/ \E f \in load.flights :
              f.answer # <<>> /\ IsCurrent(load, f) /\ page' = HealthLoaded(f.answer[1])
  BY <1>2, Zenon DEF Resolves
<1> QED
  BY <1>1, <1>3, <1>4, <1>5, Zenon DEF InboxLoad, HomeLoad, HealthLoad

(* A handler of a page that loads leaves the route, the scroll and, for the  *)
(* pages that copy it, the data.                                             *)
LEMMA LoadingSteps ==
    ASSUME HookInv
    PROVE  /\ AuditNext => route = "audit" /\ route' = route /\ overflow' = overflow
           /\ CommitmentsNext => route = "commitments" /\ route' = route /\ overflow' = overflow
           /\ InboxNext => route = "inbox" /\ route' = route /\ overflow' = overflow /\ load'.data = load.data
           /\ HomeNext => route = "home" /\ route' = route /\ overflow' = overflow
           /\ HealthNext => route = "health" /\ route' = route /\ overflow' = overflow
<1>1. ASSUME NEW r, Retried(r)
      PROVE  route = r /\ route' = route /\ overflow' = overflow /\ load'.data = load.data
  BY <1>1, RunFacts DEF Retried, Reloaded, HookInv
<1>2. ASSUME NEW r, PageOnly(r)
      PROVE  route = r /\ route' = route /\ load'.data = load.data
  BY <1>2 DEF PageOnly
<1>3. ASSUME NEW op, handleAction(op)
      PROVE  route = "commitments" /\ route' = route /\ overflow' = overflow
  BY <1>3 DEF handleAction, Shown
<1> QED
  BY <1>1, <1>2, <1>3, LoadingFrames, Zenon

LEMMA PagesStep == HookInv /\ LoadsInv /\ PagesInv /\ [App]_shellVars => PagesInv'
<1> SUFFICES ASSUME HookInv, LoadsInv, PagesInv, [App]_shellVars PROVE PagesInv'
  OBVIOUS
<1>0. PageOK(route, page) /\ NoneEarly(route, load, page) /\ ScrollOK(route, page, overflow)
  BY DEF PagesInv
<1>1. ASSUME PageOK(route', page'), NoneEarly(route', load', page'),
             ScrollOK(route', page', overflow')
      PROVE  PagesInv'
  BY <1>1 DEF PagesInv
<1>2. ASSUME route' = route, page' = page, overflow' = overflow, load'.data = load.data
      PROVE  PagesInv'
  BY <1>0, <1>1, <1>2 DEF NoneEarly
<1>3. ASSUME route \in {"commitments", "audit"}, route' = route, overflow' = overflow
      PROVE  PagesInv'
  BY <1>0, <1>1, <1>3 DEF PageOK, NoneEarly, ScrollOK, DrawerOpen
<1>4. ASSUME route' = route, overflow' = overflow, PageOK(route, page'),
             route \notin {"inbox", "recipes", "research", "security"}
      PROVE  PagesInv'
  BY <1>0, <1>1, <1>4 DEF NoneEarly, ScrollOK, DrawerOpen
<1>5. Navigate => PagesInv'
  <2> SUFFICES ASSUME Navigate PROVE PagesInv'
    OBVIOUS
  <2>1. route' \in Routes /\ page' = Mounted(route') /\ overflow' = scrollReleased
    BY DEF Navigate
  <2>2. scrollReleased = ""
    BY <1>0 DEF scrollReleased, ScrollOK, DrawerOpen
  <2> QED
    BY <1>1, <2>1, <2>2, PagesMounted
<1>6. LoadFails => PagesInv'
  <2> SUFFICES ASSUME LoadFails PROVE PagesInv'
    OBVIOUS
  <2>1. load'.data = load.data
    BY RejectFacts DEF LoadFails, HookInv
  <2> QED
    BY <1>2, <2>1 DEF LoadFails
<1>7. CommitmentsLoad => PagesInv'
  BY <1>3, LoadFrames DEF LoadServed, LoadSettles
<1>8. AuditLoad => PagesInv'
  BY <1>3, LoadFrames DEF LoadServed, LoadSettles
<1>9. InboxLoad => PagesInv'
  <2> SUFFICES ASSUME InboxLoad PROVE PagesInv'
    OBVIOUS
  <2>1. route = "inbox" /\ route' = route /\ overflow' = overflow
    BY LoadFrames DEF LoadServed, LoadSettles
  <2>2. CASE page' = page /\ load'.data = load.data
    BY <1>2, <2>1, <2>2
  <2>3. ASSUME NEW f \in load.flights, f.answer # <<>>, IsCurrent(load, f),
               load'.data = f.answer[1], page' = InboxLoaded(f.answer[1])
        PROVE  PagesInv'
    <3>1. f.answer[1] \in InboxAnswers /\ load.data.live = FALSE
      BY <2>1, <2>3, EffectFacts DEF CopyingRoutes, CopyAnswers
    <3>2. f.answer[1].live = TRUE
      BY <3>1 DEF InboxAnswers
    <3>3. InboxOK(page')
      BY <1>0, <2>1, <2>3, <3>1, InboxEffect DEF PageOK
    <3> QED
      BY <1>0, <1>1, <2>1, <2>3, <3>2, <3>3 DEF PageOK, NoneEarly, ScrollOK, DrawerOpen
  <2> QED
    BY <2>2, <2>3, CopyFrames, Zenon
<1>10. HomeLoad => PagesInv'
  <2> SUFFICES ASSUME HomeLoad PROVE PagesInv'
    OBVIOUS
  <2>1. route = "home" /\ route' = route /\ overflow' = overflow
    BY LoadFrames DEF LoadServed, LoadSettles
  <2>2. CASE page' = page /\ load'.data = load.data
    BY <1>2, <2>1, <2>2
  <2>3. ASSUME NEW f \in load.flights, f.answer # <<>>, IsCurrent(load, f),
               page' = HomeLoaded(f.answer[1])
        PROVE  PagesInv'
    <3>1. f.answer[1] \in HomeAnswers /\ load.data.live = FALSE
      BY <2>1, <2>3, EffectFacts DEF CopyingRoutes, CopyAnswers
    <3>2. HomeOK(page')
      BY <1>0, <2>1, <2>3, <3>1, HomeEffect DEF PageOK
    <3> QED
      BY <1>4, <2>1, <3>2 DEF PageOK
  <2> QED
    BY <2>2, <2>3, CopyFrames, Zenon
<1>11. HealthLoad => PagesInv'
  <2> SUFFICES ASSUME HealthLoad PROVE PagesInv'
    OBVIOUS
  <2>1. route = "health" /\ route' = route /\ overflow' = overflow
    BY LoadFrames DEF LoadServed, LoadSettles
  <2>2. CASE page' = page /\ load'.data = load.data
    BY <1>2, <2>1, <2>2
  <2>3. ASSUME NEW f \in load.flights, f.answer # <<>>, IsCurrent(load, f),
               page' = HealthLoaded(f.answer[1])
        PROVE  PagesInv'
    <3>1. f.answer[1] \in HealthAnswers
      BY <2>1, <2>3, EffectFacts DEF CopyingRoutes, CopyAnswers
    <3>2. HealthOK(page')
      BY <1>0, <2>1, <2>3, <3>1, HealthEffect DEF PageOK
    <3> QED
      BY <1>4, <2>1, <3>2 DEF PageOK
  <2> QED
    BY <2>2, <2>3, CopyFrames, Zenon
<1>12. CallLands => PagesInv'
  <2> SUFFICES ASSUME CallLands PROVE PagesInv'
    OBVIOUS
  <2>1. route' = route /\ overflow' = overflow
    BY DEF CallLands
  <2>2. route = "commitments" \/ (page' = page /\ load' = load)
    BY DEF CallLands, CallSettled
  <2> QED
    BY <1>2, <1>3, <2>1, <2>2
<1>13. CommitmentHandled => PagesInv'
  BY <1>2 DEF CommitmentHandled
<1>14. SchedulerMoves => PagesInv'
  BY <1>2 DEF SchedulerMoves
<1>15. UNCHANGED shellVars => PagesInv'
  BY <1>2 DEF shellVars
<1>16. CommitmentsNext => PagesInv'
  BY <1>3, LoadingSteps
<1>17. AuditNext => PagesInv'
  BY <1>3, LoadingSteps
<1>18. InboxNext => PagesInv'
  <2> SUFFICES ASSUME InboxNext PROVE PagesInv'
    OBVIOUS
  <2>1. route = "inbox" /\ route' = route /\ overflow' = overflow /\ load'.data = load.data
    BY LoadingSteps
  <2>2. load.data.live \in BOOLEAN
    BY <2>1 DEF LoadsInv, LoadOK, CopyingRoutes
  <2>3. InboxOK(page') /\ (load.data.live = FALSE => page'.decided = {})
    BY <1>0, <2>1, <2>2, InboxSteps DEF PageOK, NoneEarly
  <2> QED
    BY <1>0, <1>1, <2>1, <2>3 DEF PageOK, NoneEarly, ScrollOK, DrawerOpen
<1>19. HomeNext => PagesInv'
  <2> SUFFICES ASSUME HomeNext PROVE PagesInv'
    OBVIOUS
  <2>1. route = "home" /\ route' = route /\ overflow' = overflow
    BY LoadingSteps
  <2>2. HomeOK(page')
    BY <1>0, <2>1, HomeSteps DEF PageOK
  <2> QED
    BY <1>4, <2>1, <2>2 DEF PageOK
<1>20. HealthNext => PagesInv'
  <2> SUFFICES ASSUME HealthNext PROVE PagesInv'
    OBVIOUS
  <2>1. route = "health" /\ route' = route /\ overflow' = overflow
    BY LoadingSteps
  <2>2. HealthOK(page')
    BY <1>0, <2>1, HealthSteps DEF PageOK
  <2> QED
    BY <1>4, <2>1, <2>2 DEF PageOK
<1>21. MemoryNext => PagesInv'
  <2> SUFFICES ASSUME MemoryNext PROVE PagesInv'
    OBVIOUS
  <2>1. route = "memory" /\ route' = route /\ overflow' = overflow
    BY StaticFrames DEF PageOnly
  <2>2. MemoryOK(page')
    BY <1>0, <2>1, MemorySteps DEF PageOK
  <2> QED
    BY <1>4, <2>1, <2>2 DEF PageOK
<1>22. SettingsNext => PagesInv'
  <2> SUFFICES ASSUME SettingsNext PROVE PagesInv'
    OBVIOUS
  <2>1. route = "settings" /\ route' = route /\ overflow' = overflow
    BY StaticFrames DEF PageOnly
  <2>2. SettingsOK(page')
    BY <1>0, <2>1, SettingsSteps DEF PageOK, BannerTimely
  <2> QED
    BY <1>4, <2>1, <2>2 DEF PageOK
<1>23. RecipesNext => PagesInv'
  <2> SUFFICES ASSUME RecipesNext PROVE PagesInv'
    OBVIOUS
  <2>1. route = "recipes" /\ route' = route
    BY StaticFrames DEF PageOnly
  <2>2. /\ RecipesOK(page')
        /\ \/ overflow' = overflow /\ page'.openId = page.openId
           \/ overflow' = "hidden" /\ page'.openId # "none"
           \/ overflow' = "" /\ page'.openId = "none"
    BY <1>0, <2>1, RecipesSteps DEF PageOK
  <2> QED
    BY <1>0, <1>1, <2>1, <2>2 DEF PageOK, NoneEarly, ScrollOK, DrawerOpen
<1>24. SecurityNext => PagesInv'
  <2> SUFFICES ASSUME SecurityNext PROVE PagesInv'
    OBVIOUS
  <2>1. route = "security" /\ route' = route
    BY StaticFrames DEF PageOnly
  <2>2. /\ SecurityOK(page')
        /\ \/ overflow' = overflow /\ page'.openPolicy = page.openPolicy
           \/ overflow' = "hidden" /\ page'.openPolicy # <<>>
           \/ overflow' = "" /\ page'.openPolicy = <<>>
    BY <1>0, <2>1, SecuritySteps DEF PageOK
  <2> QED
    BY <1>0, <1>1, <2>1, <2>2 DEF PageOK, NoneEarly, ScrollOK, DrawerOpen
<1>25. ResearchNext => PagesInv'
  <2> SUFFICES ASSUME ResearchNext PROVE PagesInv'
    OBVIOUS
  <2>1. route = "research" /\ route' = route
    BY StaticFrames DEF PageOnly
  <2>2. /\ ResearchOK(page')
        /\ \/ overflow' = overflow /\ page'.openId = page.openId
           \/ overflow' = "hidden" /\ page'.openId # "none"
           \/ overflow' = "" /\ page'.openId = "none"
    BY <1>0, <2>1, ResearchSteps DEF PageOK
  <2> QED
    BY <1>0, <1>1, <2>1, <2>2 DEF PageOK, NoneEarly, ScrollOK, DrawerOpen
<1> HIDE DEF PagesInv
<1> QED
  BY <1>5, <1>6, <1>7, <1>8, <1>9, <1>10, <1>11, <1>12, <1>13, <1>14, <1>15, <1>16, <1>17,
     <1>18, <1>19, <1>20, <1>21, <1>22, <1>23, <1>24, <1>25, AppCases, Zenon

LEMMA Pages == WebSpec => [](HookInv /\ CallsInv /\ LoadsInv /\ PagesInv)
<1>1. WebSpec => [](HookInv /\ CallsInv)
  BY Shell
<1>2. WebInit => LoadsInv /\ PagesInv
  BY LoadsInit, PagesInit
<1>3. HookInv /\ LoadsInv /\ PagesInv /\ [App]_shellVars => LoadsInv' /\ PagesInv'
  BY LoadsStep, PagesStep
<1> QED
  BY <1>1, <1>2, <1>3, PTL DEF WebSpec

-----------------------------------------------------------------------------
(* The document can be scrolled exactly when the mounted page has no drawer  *)
(* open, whatever the user opened and whichever way the page was left (the   *)
(* overflow effects of Recipes, Security and Research and their cleanups).   *)
THEOREM ScrollLockFollows == WebSpec => []ScrollLockFollowsDrawer
<1>1. PagesInv => ScrollLockFollowsDrawer
  BY DEF PagesInv, ScrollOK, DrawerOpen, ScrollLockFollowsDrawer
<1> QED
  BY <1>1, Pages, PTL

(* Every fact of the memory page is kept or forgotten, once, and the one the *)
(* banner offers to bring back is among the forgotten, after any sequence of *)
(* forgetting, undoing and filtering (handleForget and handleUndoForget).    *)
THEOREM MemoryKeepsAll == WebSpec => []MemoryNothingLost
<1>1. PagesInv => MemoryNothingLost
  <2> SUFFICES ASSUME PagesInv, route = "memory" PROVE MemoryNothingLost
    BY DEF MemoryNothingLost
  <2> DEFINE a == page.allItems
             b == page.forgotten
  <2>1. MemoryOK(page)
    BY DEF PagesInv, PageOK
  <2>2. /\ a \in Seq(MemoryItem) /\ b \in Seq(MemoryItem)
        /\ ToSet(a) \cup ToSet(b) = ToSet(MemorySeed) /\ Len(a) + Len(b) = Len(MemorySeed)
        /\ page.lastForgotten = <<>> \/ \E it \in ToSet(b) : page.lastForgotten = <<it>>
    BY <2>1 DEF MemoryOK, Facts
  <2> HIDE DEF a, b
  <2>3. ToSet(a \o b) = ToSet(MemorySeed) /\ Len(a \o b) = Len(MemorySeed)
    <3>1. Len(a \o b) = Len(a) + Len(b) /\ ToSet(a \o b) = ToSet(a) \cup ToSet(b)
      BY <2>2, ConcatFacts
    <3> QED
      BY <2>2, <3>1, Zenon
  <2>4. ToSet(page.lastForgotten) \subseteq ToSet(b)
    <3>1. ToSet(<<>>) = {} /\ \A it : ToSet(<<it>>) = {it}
      BY DEF ToSet
    <3> QED
      BY <2>2, <3>1, Zenon
  <2> QED
    BY <2>3, <2>4 DEF MemoryNothingLost, a, b
<1> QED
  BY <1>1, Pages, PTL

(* The draft an item of the inbox carries was written for that item, after   *)
(* any sequence of selecting, editing, snoozing, loading and retrying        *)
(* (onSelect drops the buffer; the gateway's items carry no drafts).         *)
THEOREM InboxDraftsOwn == WebSpec => []InboxDraftOwn
<1>1. PagesInv => InboxDraftOwn
  BY DEF PagesInv, PageOK, InboxOK, ItemsOK, OwnDrafts, InboxDraftOwn
<1> QED
  BY <1>1, Pages, PTL

(* A decision on the gateway's items and events stays on screen while the    *)
(* page does: no load started earlier replaces the list it was taken on      *)
(* (run's invocation check, and the reload that only an error offers).       *)
THEOREM DecisionsKept == WebSpec => []LiveDecisionsKept
<1>1. PagesInv => LiveDecisionsKept
  <2> SUFFICES ASSUME PagesInv PROVE LiveDecisionsKept
    OBVIOUS
  <2>1. ASSUME route = "inbox", NEW d \in page.decided
        PROVE  \E it \in ToSet(page.items) : it.id = d.id /\ it.status = d.status
    BY <2>1 DEF PagesInv, PageOK, InboxOK, ItemsOK, DecisionsShown
  <2>2. ASSUME route = "home", NEW d \in page.decided
        PROVE  \E e \in ToSet(page.events) : e.id = d.id /\ e.status = d.status
    <3>1. HomeDecided(page.events, page.decided)
      BY <2>2 DEF PagesInv, PageOK, HomeOK
    <3>2. PICK i \in DOMAIN page.events : page.events[i].id = d.id /\ page.events[i].status = d.status
      BY <2>2, <3>1, Zenon DEF HomeDecided
    <3>3. page.events[i] \in ToSet(page.events)
      BY <3>2, Zenon DEF ToSet
    <3> QED
      BY <3>2, <3>3, Zenon
  <2> QED
    BY <2>1, <2>2, Zenon DEF LiveDecisionsKept
<1> QED
  BY <1>1, Pages, PTL

(* A banner of the settings page is closed by a timer only after its own     *)
(* end: no timer of an earlier banner closes it (the cleanup of the effect   *)
(* on the undo state).                                                       *)
THEOREM UndoTimely == WebSpec => SettingsUndoTimely
<1> DEFINE Closed == /\ route = "settings" /\ route' = "settings"
                     /\ page.undo # <<>> /\ page'.undo = <<>> /\ page'.closedBy = "timer"
           Timely == Closed => page.clock > page.undo[1]
<1>1. HookInv /\ PagesInv /\ [App]_shellVars => [Timely]_shellVars
  <2> SUFFICES ASSUME HookInv, PagesInv, [App]_shellVars PROVE Timely
    OBVIOUS
  <2>1. ASSUME page' = page PROVE Timely
    BY <2>1
  <2>2. ASSUME route # "settings" PROVE Timely
    BY <2>2
  <2>3. SettingsNext => Timely
    <3> SUFFICES ASSUME SettingsNext PROVE Timely
      OBVIOUS
    <3>1. BannerTimely(page')
      BY SettingsSteps DEF SettingsNext, PagesInv, PageOK
    <3> QED
      BY <3>1 DEF BannerTimely
  <2>4. Navigate => Timely
    BY DEF Navigate
  <2>5. CallLands => Timely
    BY <2>1, <2>2 DEF CallLands, CallSettled
  <2>6. LoadFails => Timely
    BY <2>1 DEF LoadFails
  <2>7. CommitmentHandled => Timely
    BY <2>1 DEF CommitmentHandled
  <2>8. SchedulerMoves => Timely
    BY <2>1 DEF SchedulerMoves
  <2>9. UNCHANGED shellVars => Timely
    BY <2>1 DEF shellVars
  <2>10. /\ CommitmentsLoad => route # "settings"
         /\ AuditLoad => route # "settings"
         /\ InboxLoad => route # "settings"
         /\ HomeLoad => route # "settings"
         /\ HealthLoad => route # "settings"
    BY LoadFrames
  <2>11. /\ CommitmentsNext => route # "settings"
         /\ AuditNext => route # "settings"
         /\ InboxNext => route # "settings"
         /\ HomeNext => route # "settings"
         /\ HealthNext => route # "settings"
    BY LoadingSteps
  <2>12. /\ MemoryNext => route # "settings"
         /\ RecipesNext => route # "settings"
         /\ SecurityNext => route # "settings"
         /\ ResearchNext => route # "settings"
    BY StaticFrames DEF PageOnly
  <2> HIDE DEF Timely
  <2> QED
    BY <2>2, <2>3, <2>4, <2>5, <2>6, <2>7, <2>8, <2>9, <2>10, <2>11, <2>12, AppCases, Zenon
<1> QED
  BY <1>1, Pages, PTL DEF WebSpec, SettingsUndoTimely

-----------------------------------------------------------------------------
(* The type invariant. *)

(* countByTab: no tab counts more recipes than "all". *)
LEMMA TabCounts ==
    ASSUME RecipesOK(page), NEW t \in RecipeTabs
    PROVE  countByTab(page.recipes)[t] <= countByTab(page.recipes)["all"]
<1> DEFINE A(x) == applyFilters(page.recipes, x, "")
<1>1. A(t) \subseteq A("all") /\ A("all") \subseteq DOMAIN RecipesSeed
  BY DEF applyFilters, RecipesOK
<1>2. /\ countByTab(page.recipes)[t] = Cardinality(A(t))
      /\ countByTab(page.recipes)["all"] = Cardinality(A("all"))
  BY DEF countByTab, RecipeTabs
<1> HIDE DEF A
<1>3. IsFiniteSet(A("all"))
  BY <1>1, RecipeInputs, FS_Subset
<1>4. Cardinality(A(t)) <= Cardinality(A("all"))
  BY <1>1, <1>3, FS_Subset
<1> QED
  BY <1>2, <1>4

(* overall: "healthy" leaves no state that asks for attention. *)
LEMMA OverallHealthy ==
    ASSUME NEW components, \A c \in DOMAIN components : components[c] \in HealthStates,
           overall(components) = "healthy", NEW c \in HeartbeatGrid(components)
    PROVE  components[c] = "paused"
<1> DEFINE some(state) == \E x \in DOMAIN components : components[x] = state
<1>1. ~some("quarantined") /\ ~some("attention") /\ ~some("recovering")
  BY DEF overall
<1>2. c \in DOMAIN components /\ components[c] # "healthy" /\ components[c] \in HealthStates
  BY DEF HeartbeatGrid
<1> QED
  BY <1>1, <1>2 DEF HealthStates

(* The application's type invariant: the hook, the gateway and its calls,    *)
(* and the state of whichever page is mounted.                               *)
THEOREM WebTypes == WebSpec => []WebTypeOK
<1>1. HookInv /\ CallsInv /\ PagesInv => WebTypeOK
  <2> SUFFICES ASSUME HookInv, CallsInv, PagesInv PROVE WebTypeOK
    OBVIOUS
  <2>0. PageOK(route, page)
    BY DEF PagesInv
  <2>1. env \in Environments /\ route \in Routes /\ visits \in Nat \ {0} /\ HookOK(load)
    BY DEF HookInv
  <2>2. /\ load.status \in {"loading", "ok", "error"}
        /\ \A f \in load.flights : f.invocation \in 1..load.invocation
        /\ load.status = "loading" => \E f \in load.flights : IsCurrent(load, f)
    BY <2>1 DEF HookOK, IsCurrent
  <2>3. overflow \in {"", "hidden"}
    BY DEF PagesInv, ScrollOK
  <2>4. DOMAIN gateway.rows = CommitmentIds /\ gateway.version \in 1..(1 + MaxCalls + MaxMoves)
    <3> DEFINE n == Cardinality(Sent(calls))
    <3>1. /\ gateway.version \in Nat \ {0} /\ gateway.version + n <= 1 + made.calls + made.moves
          /\ made.calls \in 0..MaxCalls /\ made.moves \in 0..MaxMoves
      BY DEF CallsInv
    <3>2. n \in Nat
      BY FS_Subset, FS_CardinalityType DEF CallsInv, Sent
    <3> HIDE DEF n
    <3>3. MaxCalls \in Nat /\ MaxMoves \in Nat
      BY WebBounds
    <3>4. gateway.version <= 1 + MaxCalls + MaxMoves
      BY <3>1, <3>2, <3>3
    <3> QED
      BY <3>1, <3>3, <3>4 DEF CallsInv
  <2>5. \A c \in calls : c.mount \in 1..visits /\ c.op \in {"dismiss", "snooze"}
    BY <2>1 DEF CallsInv, CallOK
  <2>6. route = "inbox" => InboxTypeOK
    <3> SUFFICES ASSUME route = "inbox" PROVE InboxTypeOK
      OBVIOUS
    <3>1. InboxShape(page) /\ page.items \in Seq(InboxItem)
          /\ (ToSet(page.items) # {} => \E it \in ToSet(page.items) : it.id = page.selectedId)
      BY <2>0 DEF PageOK, InboxOK, InboxShape, ItemsOK
    <3>2. page.chip \in InboxChips /\ page.editing \in BOOLEAN
      BY <3>1 DEF InboxShape
    <3>3. page.items # <<>> => selected # {}
      <4> SUFFICES ASSUME page.items # <<>> PROVE selected # {}
        OBVIOUS
      <4>1. 1 \in DOMAIN page.items
        BY <3>1, LenProperties, EmptySeq
      <4>2. ToSet(page.items) # {}
        BY <4>1 DEF ToSet
      <4> QED
        BY <3>1, <4>2 DEF selected
    <3>4. \A it \in ToSet(page.items) : it.status \in {"awaiting", "draft", "held", "done"}
      <4>1. \A it \in ToSet(page.items) : it \in InboxItem
        BY <3>1 DEF ToSet
      <4> QED
        BY <4>1 DEF InboxItem
    <3> QED
      BY <3>2, <3>3, <3>4 DEF InboxTypeOK
  <2>7. route = "home" => HomeTypeOK
    <3> SUFFICES ASSUME route = "home" PROVE HomeTypeOK
      OBVIOUS
    <3>1. page.events \in Seq(HomeEvent) /\ page.filter \in HomeFilters /\ page.policyOpen \in BOOLEAN
      BY <2>0 DEF PageOK, HomeOK
    <3>2. \A e \in ToSet(page.events) : e.status \in HomeStatuses /\ e.cause \in BOOLEAN
      <4>1. \A e \in ToSet(page.events) : e \in HomeEvent
        BY <3>1 DEF ToSet
      <4> QED
        BY <4>1 DEF HomeEvent
    <3> QED
      BY <3>1, <3>2 DEF HomeTypeOK
  <2>8. route = "health" => HealthTypeOK
    BY <2>0, OverallHealthy DEF PageOK, HealthOK, HealthTypeOK
  <2>9. route = "memory" => MemoryTypeOK
    BY <2>0 DEF PageOK, MemoryOK, MemoryTypeOK
  <2>10. route = "settings" => SettingsTypeOK
    BY <2>0 DEF PageOK, SettingsOK, SettingsTypeOK
  <2>11. route = "recipes" => RecipesTypeOK
    <3> SUFFICES ASSUME RecipesOK(page) PROVE RecipesTypeOK
      BY <2>0 DEF PageOK
    <3>1. \A id \in DOMAIN page.recipes : page.recipes[id].status \in {"active", "paused", "new"}
      BY DEF RecipesOK, Recipe
    <3>2. page.openId \in DOMAIN RecipesSeed \cup {"none"} /\ page.tab \in RecipeTabs
      BY DEF RecipesOK
    <3> QED
      BY <3>1, <3>2, TabCounts DEF RecipesTypeOK
  <2>12. route = "security" => SecurityTypeOK
    BY <2>0 DEF PageOK, SecurityOK, SecurityTypeOK, PolicyStates
  <2>13. route = "research" => ResearchTypeOK
    BY <2>0 DEF PageOK, ResearchOK, ResearchTypeOK
  <2> QED
    BY <2>1, <2>2, <2>3, <2>4, <2>5, <2>6, <2>7, <2>8, <2>9, <2>10, <2>11, <2>12, <2>13
    DEF WebTypeOK
<1> QED
  BY <1>1, Pages, PTL
=============================================================================
