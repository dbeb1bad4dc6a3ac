----------------------------- MODULE InboxPage -----------------------------
(***************************************************************************)
(* The Inbox page (pages/v2/Inbox.tsx): a list of items copied from the    *)
(* load into the page's reducer, one selected item with its draft, and the *)
(* buffer of the draft being edited.                                       *)
(*                                                                         *)
(* An item is [id, status, unread, draft]; a draft is a sequence, empty    *)
(* when the item has none, else <<[of, edited]>>: the item it was written  *)
(* for, and whether the user has changed it.                               *)
(***************************************************************************)
EXTENDS WebShell, SequencesExt, Arrays

CONSTANTS
    InboxSeed,          \* the mock's items
    InboxLists,         \* the lists the gateway may answer with
    InboxChipsPicked    \* bound: the chips the user picks

InboxChips == {"awaiting", "draft", "held", "done", "all"}

InboxDraft == [of : STRING, edited : BOOLEAN]
InboxItem == [id : STRING, status : {"awaiting", "draft", "held", "done"}, unread : BOOLEAN,
              draft : Seq(InboxDraft)]

\* The mock's drafts are their items' own.  The gateway sends items that await
\* approval, unread and without a draft.
ASSUME InboxInputs ==
    /\ InboxChipsPicked \subseteq InboxChips
    /\ InboxSeed \in Seq(InboxItem) /\ InboxSeed # <<>>
    /\ \A i \in DOMAIN InboxSeed : \A d \in ToSet(InboxSeed[i].draft) : d.of = InboxSeed[i].id
    /\ \A list \in InboxLists :
          /\ list \in Seq(InboxItem)
          /\ \A i \in DOMAIN list :
                list[i].status = "awaiting" /\ list[i].unread /\ list[i].draft = <<>>

InboxSeedData == [live |-> FALSE, items |-> InboxSeed]
InboxAnswers == {[live |-> TRUE, items |-> list] : list \in InboxLists}

applyChip(items, chip) ==
    {it \in ToSet(items) : chip \in {"all", it.status}}

\* itemsReducer, one operator per action type.
Update(items, id, New(_)) ==
    [i \in DOMAIN items |-> IF items[i].id = id THEN New(items[i]) ELSE items[i]]
approveItem(items, id) ==
    Update(items, id, LAMBDA it : [it EXCEPT !.status = "done", !.unread = FALSE])
denyItem(items, id) ==
    Update(items, id, LAMBDA it : [it EXCEPT !.status = "held", !.unread = FALSE])
snoozeItem(items, id) ==
    Filter(items, {i \in DOMAIN items : items[i].id # id})
        \o Update(Filter(items, {i \in DOMAIN items : items[i].id = id}), id,
                  LAMBDA it : [it EXCEPT !.unread = TRUE])
commitEdit(items, id, draft) ==
    Update(items, id, LAMBDA it : [it EXCEPT !.draft = draft])
markRead(items, id) ==
    Update(items, id, LAMBDA it : [it EXCEPT !.unread = FALSE])

\* The page with new items, after the effect that marks the selected one read.
InboxWith(p, items) == [p EXCEPT !.items = markRead(items, p.selectedId)]

\* The state the first render and its effects leave.  decided is a history
\* variable: the last decision on each item of the gateway's list.
InboxMounted ==
    InboxWith([items |-> <<>>, chip |-> "awaiting", selectedId |-> InboxSeed[1].id,
               editing |-> FALSE, draftBuffer |-> <<>>, decided |-> {}], InboxSeed)

\* The effect on the load: the list is replaced and its first item selected;
\* an edit in progress goes on, with its buffer.
InboxLoaded(data) ==
    InboxWith([page EXCEPT !.selectedId = IF data.items # <<>> THEN data.items[1].id ELSE @,
                           !.decided = IF load.data.live THEN @ ELSE {}],
              data.items)

\* The selected item as a set of at most one: there is none only when the
\* list is empty (InboxTypeOK).
selected == {it \in ToSet(page.items) : it.id = page.selectedId}

\* Where a draft can be typed in.
DraftedBlock(item, editing) == IF editing THEN {"type"} ELSE {}

\* The buttons of the detail pane.
DetailDrawer(item, editing) ==
    LET isActionable == item.status # "done"
    IN  {"snooze"}
        \cup (IF isActionable THEN {"approve", "edit", "deny"} ELSE {})
        \cup (IF item.draft # <<>> THEN DraftedBlock(item, editing) ELSE {})
        \cup (IF item.draft # <<>> /\ isActionable /\ editing THEN {"cancel", "save"} ELSE {})

Offered(op, item) == op \in DetailDrawer(item, page.editing)

\* The history of decisions after one on the selected item.
Decide(id, status) ==
    IF load.data.live
    THEN {d \in page.decided : d.id # id} \cup {[id |-> id, status |-> status]}
    ELSE page.decided

\* Mutated form: the edit in progress survives the change of item.
onSelectKeepsEdit ==
    \E it \in applyChip(page.items, page.chip) :
        PageStep("inbox", InboxWith([page EXCEPT !.selectedId = it.id], page.items))

onSelect ==
    \E it \in applyChip(page.items, page.chip) :
        PageStep("inbox", InboxWith([page EXCEPT !.selectedId = it.id, !.editing = FALSE,
                                                 !.draftBuffer = <<>>], page.items))

setInboxChip == \E c \in InboxChipsPicked : PageStep("inbox", [page EXCEPT !.chip = c])

onApproveItem ==
    \E it \in selected :
        /\ Offered("approve", it)
        /\ PageStep("inbox", InboxWith([page EXCEPT !.editing = FALSE,
                                                    !.decided = Decide(it.id, "done")],
                                       approveItem(page.items, it.id)))

onDenyItem ==
    \E it \in selected :
        /\ Offered("deny", it)
        /\ PageStep("inbox", InboxWith([page EXCEPT !.editing = FALSE,
                                                    !.decided = Decide(it.id, "held")],
                                       denyItem(page.items, it.id)))

onSnoozeItem ==
    \E it \in selected :
        /\ Offered("snooze", it)
        /\ PageStep("inbox", InboxWith(page, snoozeItem(page.items, it.id)))

onEdit ==
    \E it \in selected :
        /\ Offered("edit", it) /\ it.draft # <<>>
        /\ PageStep("inbox", [page EXCEPT !.draftBuffer = it.draft, !.editing = TRUE])

\* Typing changes the draft that is on screen: the buffer, or the item's own
\* draft when there is no buffer.
onChangeBuffer ==
    \E it \in selected :
        /\ Offered("type", it)
        /\ LET shown == IF page.draftBuffer # <<>> THEN page.draftBuffer ELSE it.draft
           IN  PageStep("inbox", [page EXCEPT !.draftBuffer = <<[shown[1] EXCEPT !.edited = TRUE]>>])

onCancelEdit ==
    \E it \in selected :
        /\ Offered("cancel", it)
        /\ PageStep("inbox", [page EXCEPT !.editing = FALSE, !.draftBuffer = <<>>])

onCommitEdit ==
    \E it \in selected :
        /\ Offered("save", it) /\ page.draftBuffer # <<>>
        /\ PageStep("inbox", InboxWith([page EXCEPT !.editing = FALSE],
                                       commitEdit(page.items, it.id, page.draftBuffer)))

InboxLoad == Read("inbox", InboxAnswers) \/ Resolves("inbox", InboxLoaded)

InboxNext ==
    /\ route = "inbox"
    /\ \/ onSelect \/ setInboxChip \/ onApproveItem \/ onDenyItem \/ onSnoozeItem
       \/ onEdit \/ onChangeBuffer \/ onCancelEdit \/ onCommitEdit
       \/ RouteError("inbox", page)

-----------------------------------------------------------------------------
InboxTypeOK ==
    /\ page.chip \in InboxChips /\ page.editing \in BOOLEAN
    /\ page.items # <<>> => selected # {}
    /\ \A it \in ToSet(page.items) : it.status \in {"awaiting", "draft", "held", "done"}

\* The draft an item carries was written for that item: no sequence of
\* selecting, editing, loading and retrying saves one item's draft into
\* another (onSelect drops the buffer, the gateway's items carry no drafts).
InboxDraftOwn ==
    route = "inbox" =>
        \A it \in ToSet(page.items) : \A i \in DOMAIN it.draft : it.draft[i].of = it.id
=============================================================================
