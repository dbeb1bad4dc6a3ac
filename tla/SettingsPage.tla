---------------------------- MODULE SettingsPage ----------------------------
(***************************************************************************)
(* The Settings page (pages/v2/Settings.tsx): preferences, the switch of   *)
(* the deployment mode, the deletion of the workspace, the recipe requests *)
(* and the banner that offers to undo, closed by a timer of its own.       *)
(*                                                                         *)
(* Everything here is the page's own state: nothing is sent anywhere.      *)
(***************************************************************************)
EXTENDS WebShell, SequencesExt

CONSTANTS
    SettingsConnectors,   \* the mock's connectors: id -> state
    SettingsRequests,     \* the mock's recipe requests: <<[id, votes, mine, status]>>
    NotifEvents,          \* the event types with a notification channel
    NotifChannels,        \* the channels to choose from
    SwitchDays,           \* how long a switch of deployment mode can be undone (7)
    DefaultDays,          \* how long anything else can be undone (30)
    MaxClock,             \* bound on the time spent on the page
    MaxEdits              \* bound on the changes to preferences on one visit

ASSUME SettingsBounds ==
    /\ {SwitchDays, DefaultDays, MaxClock, MaxEdits} \subseteq Nat
    /\ SwitchDays < DefaultDays

DeploymentModes == {"solo", "household", "team"}
OneOf(S) == CHOOSE x \in S : TRUE

\* intervals holds the expiry each running timer compares the clock with.
\* closedBy is a history variable: what closed the last banner.
SettingsMounted ==
    [notif |-> [quietHours |-> TRUE, event |-> [e \in NotifEvents |-> OneOf(NotifChannels)]],
     requests |-> SettingsRequests, formValid |-> FALSE,
     telemetry |-> FALSE, debug |-> FALSE, edits |-> 0,
     deployment |-> "solo", pending |-> "none",
     open |-> FALSE, confirming |-> FALSE, confirmText |-> "",
     undo |-> <<>>, intervals |-> {}, clock |-> 0, closedBy |-> "none"]

\* Mutated form: the timer of the banner before is left running.
undoEffectLeaks(p, undo) ==
    [p EXCEPT !.undo = undo,
              !.intervals = @ \cup {undo[i] : i \in DOMAIN undo}]

\* setUndo with its effect: the timer of the old value is cleared, a timer for
\* the new one is started.
undoEffect(p, undo) ==
    [p EXCEPT !.undo = undo, !.intervals = {undo[i] : i \in DOMAIN undo}]

\* A banner is the moment its offer ends.
showUndo(p, days) == undoEffect([p EXCEPT !.closedBy = "none"], <<p.clock + days>>)

-----------------------------------------------------------------------------
\* A connector's buttons; those of a deferred one are disabled.
ConnectorCard(state) ==
    IF state = "deferred" THEN {} ELSE {"reconnect", "disconnect", "customize"}

\* Disconnect shows the banner; the other buttons only show a message.
ConnectorsSection ==
    \E c \in DOMAIN SettingsConnectors :
        /\ "disconnect" \in ConnectorCard(SettingsConnectors[c])
        /\ PageStep("settings", showUndo(page, DefaultDays))

ModeOption == \E m \in DeploymentModes : PageStep("settings", [page EXCEPT !.pending = m])

\* The question asked while a mode other than the active one is picked:
\* Cancel, or Switch.
DeploymentSection ==
    /\ page.pending \notin {"none", page.deployment}
    /\ \/ PageStep("settings", [page EXCEPT !.pending = "none"])
       \/ PageStep("settings", showUndo([page EXCEPT !.deployment = page.pending,
                                                     !.pending = "none"], SwitchDays))

\* Preferences, each a change the rest of the page does not read.
Prefer(next) ==
    /\ page.edits < MaxEdits
    /\ PageStep("settings", [next EXCEPT !.edits = @ + 1])

NotificationsSection ==
    \/ Prefer([page EXCEPT !.notif.quietHours = ~@])
    \/ \E e \in NotifEvents, ch \in NotifChannels : Prefer([page EXCEPT !.notif.event[e] = ch])

\* A vote is given or taken back; a shipped request takes none.
onVote ==
    \E i \in DOMAIN page.requests :
        /\ page.requests[i].status # "shipped"
        /\ Prefer([page EXCEPT !.requests[i] =
                      [@ EXCEPT !.votes = IF page.requests[i].mine THEN @ - 1 ELSE @ + 1,
                                !.mine = ~@]])

\* The form: typing makes it long enough or not, a valid one is submitted with
\* the user's own vote and emptied.
RecipesSection ==
    \/ PageStep("settings", [page EXCEPT !.formValid = ~@])
    \/ /\ page.formValid
       /\ Prefer([page EXCEPT !.formValid = FALSE,
                              !.requests = <<[id |-> "rr", votes |-> 1, mine |-> TRUE,
                                              status |-> "open"]>> \o @])

\* The advanced section: collapsed by default, its confirmation kept while it
\* is collapsed; the deletion wants the workspace's name.
AdvancedSection ==
    \/ PageStep("settings", [page EXCEPT !.open = ~@])
    \/ page.open /\ Prefer([page EXCEPT !.telemetry = ~@])
    \/ page.open /\ Prefer([page EXCEPT !.debug = ~@])
    \/ /\ page.open /\ ~page.confirming
       /\ PageStep("settings", [page EXCEPT !.confirming = TRUE])
    \/ /\ page.open /\ page.confirming
       /\ \/ \E t \in {"", "name"} : PageStep("settings", [page EXCEPT !.confirmText = t])
          \/ PageStep("settings", [page EXCEPT !.confirming = FALSE, !.confirmText = ""])
          \/ /\ page.confirmText = "name"
             /\ PageStep("settings", showUndo([page EXCEPT !.confirming = FALSE,
                                                           !.confirmText = ""], DefaultDays))

\* The banner's Undo: it closes the banner and nothing else.
onUndo ==
    /\ page.undo # <<>>
    /\ PageStep("settings", [undoEffect(page, <<>>) EXCEPT !.closedBy = "user"])

\* A timer finds that its offer has ended and closes the banner on screen.
intervalFires ==
    \E expiresAt \in page.intervals :
        /\ page.clock > expiresAt
        /\ PageStep("settings", [undoEffect(page, <<>>) EXCEPT !.closedBy = "timer"])

Passes == page.clock < MaxClock /\ PageStep("settings", [page EXCEPT !.clock = @ + 1])

SettingsNext ==
    /\ route = "settings"
    /\ \/ ConnectorsSection \/ ModeOption \/ DeploymentSection \/ NotificationsSection
       \/ onVote \/ RecipesSection \/ AdvancedSection
       \/ onUndo \/ intervalFires \/ Passes

-----------------------------------------------------------------------------
SettingsTypeOK ==
    /\ page.deployment \in DeploymentModes /\ page.pending \in DeploymentModes \cup {"none"}
    /\ page.confirmText # "" => page.confirming
    /\ page.clock \in 0..MaxClock /\ page.edits \in 0..MaxEdits

\* A banner offering to undo is closed by the timer only after its own offer
\* has ended: the timer of a banner it replaced, with an earlier end, never
\* closes it (the cleanup of the effect on undo clears that timer).
SettingsUndoTimely ==
    [][ (/\ route = "settings" /\ route' = "settings"
         /\ page.undo # <<>> /\ page'.undo = <<>> /\ page'.closedBy = "timer")
        => page.clock > page.undo[1] ]_shellVars
=============================================================================
