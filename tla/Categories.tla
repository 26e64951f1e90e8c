----------------------------- MODULE Categories ------------------------------
(***************************************************************************)
(* The category tree (categories.service.ts, category.types.ts): every      *)
(* handler reads the tree, judges the place it was asked for, and writes    *)
(* one row later by its id. The tree is what budgets add up over. All       *)
(* categories here are of one type; their names are left out.               *)
(***************************************************************************)
EXTENDS Integers, FiniteSets, FiniteSetsExt

CONSTANTS Categories, NoCategory, Editors \* Editors: requests on categories

ASSUME CategoriesAssumption == NoCategory \notin Categories /\ IsFiniteSet(Categories)

VARIABLES
    tree,       \* categories: category -> [live, parent]
    placing,    \* requests between their reads and their write
    tangled     \* history: a place judged on an outdated tree was taken

categoryVars == <<tree, placing, tangled>>

-----------------------------------------------------------------------------
MaxDepth == 3 \* MAX_CATEGORY_DEPTH

Missing == [live |-> FALSE, parent |-> NoCategory]
Places == Categories \cup {NoCategory}
Live(c) == tree[c].live
Parent(c) == tree[c].parent
Children(c) == {x \in Categories : Live(x) /\ Parent(x) = c}

\* categoryAncestorIds: up the parents until the root or a category seen before.
Above(t, c) ==
    LET up[n \in 0..Cardinality(Categories)] ==
            IF n = 0 THEN {c}
            ELSE LET below == up[n - 1] IN below \cup ({t[x].parent : x \in below} \ {NoCategory})
    IN  up[Cardinality(Categories)]
Ancestors(c) == Above(tree, c)

Depth(c) == Cardinality(Ancestors(c))
Subtree(c) == {x \in Categories : Live(x) /\ c \in Ancestors(x)} \cup {c}

\* subtreeSpan: the levels below c, c's own included.
Span(c) ==
    LET span[at \in Categories \X SUBSET Categories] ==
            LET x == at[1]
                seen == at[2]
            IN  IF x \in seen \/ Children(x) = {} THEN 1
                ELSE 1 + Max({span[<<k, seen \cup {x}>>] : k \in Children(x)})
    IN  span[<<c, {}>>]

\* Fault: what hangs below the category is not counted.
FitsAlone(c, p) ==
    /\ p # NoCategory => Live(p) /\ p \notin Subtree(c)
    /\ (IF p = NoCategory THEN 0 ELSE Depth(p)) + 1 <= MaxDepth

\* assessCategoryPlacement
Fits(c, p) ==
    /\ p # NoCategory => Live(p) /\ p \notin Subtree(c)
    /\ (IF p = NoCategory THEN 0 ELSE Depth(p)) + Span(c) <= MaxDepth

-----------------------------------------------------------------------------
Free == [pc |-> "new", cat |-> NoCategory, to |-> NoCategory, stale |-> FALSE]
Place(r, pc, c, p) ==
    /\ placing[r].pc = "new"
    /\ placing' = [placing EXCEPT ![r] = [Free EXCEPT !.pc = pc, !.cat = c, !.to = p]]
    /\ UNCHANGED <<tree, tangled>>

\* A request ends; the others now hold a tree that is out of date.
Settle(r, t) ==
    /\ tree' = t
    /\ placing' = [q \in Editors |-> IF q = r THEN Free ELSE
                        [placing[q] EXCEPT !.stale = @ \/ (placing[q].pc # "new" /\ t # tree)]]

\* The id of a new category is the database's to choose.
CategoryCreateRead(r, c, p) ==
    /\ ~Live(c) /\ \A q \in Editors : placing[q].cat # c
    /\ Fits(c, p) /\ Place(r, "creating", c, p)

\* update: a parent that is sent but unchanged is not judged again.
CategoryUpdateRead(r, c, p) ==
    /\ Live(c) /\ (p = Parent(c) \/ Fits(c, p))
    /\ Place(r, "moving", c, p)

\* remove counts the children; what else it counts is in Budgets.
CategoryRemoveRead(r, c) ==
    Live(c) /\ Children(c) = {} /\ Place(r, "removing", c, NoCategory)

\* The foreign key asks for the parent, the update for the row itself.
CategoryWrite(r) ==
    LET w == placing[r]
        possible == (w.to # NoCategory => Live(w.to)) /\ (w.pc = "moving" => Live(w.cat))
    IN
    /\ w.pc \in {"creating", "moving"}
    /\ Settle(r, IF possible THEN [tree EXCEPT ![w.cat] = [live |-> TRUE, parent |-> w.to]] ELSE tree)
    /\ tangled' = (tangled \/ (possible /\ w.stale))

\* onDelete: Restrict keeps a category that got a child meanwhile.
CategoryDelete(r) ==
    LET c == placing[r].cat IN
    /\ placing[r].pc = "removing"
    /\ Settle(r, IF Live(c) /\ Children(c) = {} THEN [tree EXCEPT ![c] = Missing] ELSE tree)
    /\ UNCHANGED tangled

-----------------------------------------------------------------------------
\* Every category hangs from a root, at most three levels down (docs/33: a move
\* may make no cycle), unless a handler wrote a place it had judged on a tree
\* that another handler changed meanwhile. A cycle is not only untidy:
\* buildCategoryTree walks from the roots and never shows its members.
TreeSoundUnlessOverlapped ==
    tangled \/ \A c \in Categories : Live(c) =>
        /\ Depth(c) <= MaxDepth
        /\ \E root \in Ancestors(c) : Live(root) /\ Parent(root) = NoCategory
=============================================================================
