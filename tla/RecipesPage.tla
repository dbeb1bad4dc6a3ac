---------------------------- MODULE RecipesPage ----------------------------
(***************************************************************************)
(* The Recipes page (pages/v2/Recipes.tsx): recipes that are activated and *)
(* paused, a category tab and a search over them, and the drawer of one.   *)
(* A recipe is [category, status, words], words the searches it matches.   *)
(***************************************************************************)
EXTENDS WebShell

CONSTANTS
    RecipesSeed,    \* the mock's recipes: id -> recipe
    RecipeWords     \* the words searched for

\* "none" stands for null, and is no recipe's id.
ASSUME RecipeInputs ==
    /\ IsFiniteSet(DOMAIN RecipesSeed) /\ "none" \notin DOMAIN RecipesSeed
    /\ RecipesSeed \in [DOMAIN RecipesSeed ->
          [category : STRING, status : {"active", "paused", "new"}, words : SUBSET STRING]]

RecipeTabs == {"all", "inbox", "calendar", "purchasing", "research", "operations", "drafting"}

RecipesMounted == [recipes |-> RecipesSeed, tab |-> "all", q |-> "", openId |-> "none"]

applyFilters(recipes, tab, q) ==
    {id \in DOMAIN recipes :
        /\ tab \in {"all", recipes[id].category}
        /\ q = "" \/ q \in recipes[id].words}

\* countByTab: what the tabs show.
countByTab(recipes) ==
    [tab \in RecipeTabs |-> Cardinality(applyFilters(recipes, tab, ""))]

\* The label of the button that toggles a recipe.
PrimaryAction(status) == IF status = "active" THEN "pause" ELSE "activate"

\* A card's buttons; running once only shows a message.
RecipeCard(recipe) ==
    {PrimaryAction(recipe.status), "inspect"}
        \cup (IF recipe.status # "new" THEN {"run once"} ELSE {})

\* The drawer's: it offers to run a new recipe as well.
RecipeDrawer(recipe) == {PrimaryAction(recipe.status), "run once", "close"}

toggleRecipe(recipes, id) ==
    [recipes EXCEPT ![id].status = IF @ = "active" THEN "paused" ELSE "active"]

\* onToggle from a card on screen, or from the open drawer.
onToggleRecipe ==
    \E id \in applyFilters(page.recipes, page.tab, page.q) \cup (DOMAIN page.recipes \cap {page.openId}) :
        PageStep("recipes", [page EXCEPT !.recipes = toggleRecipe(@, id)])

onInspect ==
    \E id \in applyFilters(page.recipes, page.tab, page.q) :
        /\ "inspect" \in RecipeCard(page.recipes[id])
        /\ DrawerStep("recipes", [page EXCEPT !.openId = id], TRUE)

onCloseRecipe ==
    /\ page.openId # "none"
    /\ "close" \in RecipeDrawer(page.recipes[page.openId])
    /\ DrawerStep("recipes", [page EXCEPT !.openId = "none"], FALSE)

\* The tabs and the search box.
CategoryTabs ==
    \/ \E t \in RecipeTabs : PageStep("recipes", [page EXCEPT !.tab = t])
    \/ \E q \in RecipeWords \cup {""} : PageStep("recipes", [page EXCEPT !.q = q])

RecipesNext ==
    /\ route = "recipes"
    /\ onToggleRecipe \/ onInspect \/ onCloseRecipe \/ CategoryTabs

-----------------------------------------------------------------------------
RecipesTypeOK ==
    /\ page.openId \in DOMAIN RecipesSeed \cup {"none"} /\ page.tab \in RecipeTabs
    /\ \A id \in DOMAIN page.recipes : page.recipes[id].status \in {"active", "paused", "new"}
    /\ \A t \in RecipeTabs : countByTab(page.recipes)[t] <= countByTab(page.recipes)["all"]
=============================================================================
