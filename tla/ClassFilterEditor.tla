-------------------------- MODULE ClassFilterEditor --------------------------
(***************************************************************************)
(* Editing a filter: the row of the details panel                          *)
(* (FSEClassFilterCustomization) has a button that clears the filter and   *)
(* one that opens a popup (SClassFilter) with the class tree, where a      *)
(* click marks a class.  The popup's nodes are copies of those of the      *)
(* hierarchy, with the mark each had when they were copied, and are made   *)
(* again when the hierarchy changes.                                       *)
(***************************************************************************)
EXTENDS ClassHierarchy

CONSTANTS
    Base,                   \* the base class the filter was made with
    Internal,               \* InternalOnlyClasses of the class viewer
    Searches,               \* the names that are searched for
    Start,                  \* the filters there may be when editing begins
    MaxMarks,               \* bound: marks in a filter
    NoSearch

Filter == [allowed : SUBSET Class, ignored : SUBSET Class, base : {Base, Object}]
Mark == {"none", "allowed", "denied"}

ASSUME ClassFilterEditorAssumption ==
    /\ Base \in Class \ Blueprints /\ Internal \subseteq Class \ Blueprints
    /\ Start \subseteq {f \in Filter : f.base = Base}

VARIABLES
    filter,                 \* the marks of the filter
    shown,                  \* RootClasses: the copied nodes and their marks
    search,                 \* SearchString
    found,                  \* FilteredClasses: none, the nodes shown, or older ones
    older,                  \* those older nodes
    strayed                 \* history: a click fell on an older node

editorVars == <<filter, shown, search, found, older, strayed>>
vars == <<hierarchyVars, editorVars>>

NoCopy == [up |-> NoTree, mark |-> [n \in {} |-> "none"]]
-----------------------------------------------------------------------------
(* SetStateFromFilter *)
MarkIn(f, c) == IF c \in f.allowed THEN "allowed"
                ELSE IF c \in f.ignored THEN "denied" ELSE "none"

Passes(n) == n.class \in live => Supers(n.class) \cap Internal = {}

(* GetClassTree: the nodes below that of the base class that pass, or have *)
(* a node that does below them; the root's copy is dropped by Populate.    *)
Copy(up, f) ==
    LET roots == {n \in DOMAIN up \cup {ClassNode(Object)} : n.class = f.base}
        inner == (UNION {Below(up, n) : n \in roots}) \ roots
        kept == {n \in inner : \E m \in Below(up, n) : Passes(m)}
    IN  [up |-> [n \in kept |-> up[n]], mark |-> [n \in kept |-> MarkIn(f, n.class)]]

(* The nodes on screen, and those of them that go with the search. *)
OnScreen == IF found = "older" THEN older ELSE shown
Displayed ==
    {n \in DOMAIN OnScreen.mark :
        search = NoSearch \/ \E m \in Below(OnScreen.up, n) : m.class = search}

(* GetParentFilterState: the first mark above, among the nodes copied. *)
ParentMark(copy, n) ==
    LET marked == {m \in DOMAIN copy.mark \ {n} :
                        copy.mark[m] # "none" /\ n \in Below(copy.up, m)}
        first == CHOOSE m \in marked : \A k \in marked : m \in Below(copy.up, k)
    IN  IF marked = {} THEN "none" ELSE copy.mark[first]

(* GetClassBackgroundColor *)
Colour(copy, n) == IF copy.mark[n] # "none" THEN copy.mark[n] ELSE ParentMark(copy, n)
-----------------------------------------------------------------------------
EditorInit ==
    /\ filter \in Start
    /\ shown = NoCopy /\ older = NoCopy
    /\ search = NoSearch /\ found = "none"
    /\ strayed = FALSE

Init == HierarchyInit /\ EditorInit

(* GetListContent, Construct: the first popup makes the hierarchy. *)
Open ==
    /\ ~open
    /\ open' = TRUE
    /\ built' = TRUE
    /\ IF built THEN UNCHANGED tree ELSE PopulateClassHierarchy
    /\ refresh' = TRUE
    /\ shown' = NoCopy /\ older' = NoCopy
    /\ search' = NoSearch /\ found' = "none"
    /\ strayed' = FALSE
    /\ UNCHANGED <<assets, live, wanted, filter>>

(* The menu is closed, by any click beside it; the widget is destroyed. *)
Close ==
    /\ open
    /\ open' = FALSE
    /\ refresh' = FALSE
    /\ shown' = NoCopy /\ older' = NoCopy
    /\ search' = NoSearch /\ found' = "none"
    /\ strayed' = FALSE
    /\ UNCHANGED <<assets, live, built, tree, wanted, filter>>

(* Tick: populate the hierarchy if that was requested, which refreshes     *)
(* every popup; then Populate the popup.  A search keeps the nodes it has. *)
Tick ==
    /\ open /\ (wanted \/ refresh)
    /\ wanted' = FALSE
    /\ IF wanted THEN PopulateClassHierarchy ELSE UNCHANGED tree
    /\ refresh' = FALSE
    /\ shown' = Copy(tree', filter)
    /\ IF found = "shown" THEN found' = "older" /\ older' = shown ELSE UNCHANGED <<found, older>>
    /\ UNCHANGED <<assets, live, built, open, filter, search, strayed>>

(* OnSearchTextChanged *)
Search(s) ==
    /\ open /\ s # search
    /\ search' = s
    /\ found' = IF s = NoSearch THEN "none" ELSE "shown"
    /\ older' = NoCopy
    /\ UNCHANGED <<hierarchyVars, filter, shown, strayed>>

(* The mark OnClassClicked gives to a class. *)
NextMark(n) ==
    IF OnScreen.mark[n] # "none" THEN "none"
    ELSE IF ParentMark(OnScreen, n) = "allowed" THEN "denied" ELSE "allowed"

Marked(f, c, mark) ==
    [f EXCEPT !.allowed = IF mark = "allowed" THEN @ \cup {c} ELSE @ \ {c},
              !.ignored = IF mark = "denied" THEN @ \cup {c} ELSE @ \ {c}]

(* Mutant of MarkClass: an allowed class keeps its other mark. *)
MarkClassOver(n, mark) ==
    /\ filter' = [filter EXCEPT
                    !.allowed = IF mark = "allowed" THEN @ \cup {n.class} ELSE @,
                    !.ignored = IF mark = "denied" THEN @ \cup {n.class} ELSE @ \ {n.class}]
    /\ IF found = "older"
       THEN older' = [older EXCEPT !.mark = [@ EXCEPT ![n] = mark]] /\ UNCHANGED shown
       ELSE shown' = [shown EXCEPT !.mark = [@ EXCEPT ![n] = mark]] /\ UNCHANGED older

(* MarkClass: the filter gets the mark, and the node on screen. *)
MarkClass(n, mark) ==
    /\ filter' = Marked(filter, n.class, mark)
    /\ IF found = "older"
       THEN older' = [older EXCEPT !.mark = [@ EXCEPT ![n] = mark]] /\ UNCHANGED shown
       ELSE shown' = [shown EXCEPT !.mark = [@ EXCEPT ![n] = mark]] /\ UNCHANGED older

(* OnClassClicked *)
Click(n) ==
    /\ open /\ n \in Displayed
    /\ MarkClass(n, NextMark(n))
    /\ Cardinality(filter'.allowed \cup filter'.ignored) <= MaxMarks
    /\ strayed' = (strayed \/ found = "older")
    /\ UNCHANGED <<hierarchyVars, search, found>>

(* OnClearClicked: the base class is lost with the marks. *)
ClearFilter ==
    /\ ~open
    /\ filter' = [allowed |-> {}, ignored |-> {}, base |-> Object]
    /\ UNCHANGED <<hierarchyVars, shown, search, found, older, strayed>>

Next ==
    \/ HierarchyNext /\ UNCHANGED editorVars
    \/ Open \/ Close \/ Tick
    \/ \E s \in Searches \cup {NoSearch} : Search(s)
    \/ \E n \in Node : Click(n)
    \/ ClearFilter

Spec == Init /\ [][Next]_vars
-----------------------------------------------------------------------------
(* What BakeAllowedClasses makes of the marks (see ClassFilters). *)
Allows(f, c) ==
    \E i \in DOMAIN Chain[c] :
        /\ Chain[c][i] \in f.allowed
        /\ \A j \in 1..(i - 1) : Chain[c][j] \notin f.ignored

(* The popup is true to the bake: a class is shown green exactly if the    *)
(* filter allows it, so long as no class above the tree is marked and      *)
(* no click fell on what was found before the last refresh.                *)
ColoursTellTheBake ==
    open /\ ~refresh /\ ~strayed =>
        \A n \in Displayed :
            \/ \E c \in Supers(n.class) :
                /\ \A m \in DOMAIN OnScreen.mark : m.class # c
                /\ c \in filter.allowed \cup filter.ignored
            \/ Colour(OnScreen, n) = "allowed" <=> Allows(filter, n.class)

(* The nodes of a popup are a part of a tree that ends below the base      *)
(* class, and every node between is there.                                 *)
IsCopy(copy, base) ==
    /\ copy = [up |-> copy.up, mark |-> copy.mark] /\ DOMAIN copy.mark = DOMAIN copy.up
    /\ DOMAIN copy.up \subseteq Node /\ copy.up \in [DOMAIN copy.up -> Node]
    /\ copy.mark \in [DOMAIN copy.up -> Mark]
    /\ \A n, m \in DOMAIN copy.up : n.class = m.class => n = m
    /\ \A n \in DOMAIN copy.up :
        /\ n.class # Object /\ copy.up[n].class = Super[n.class]
        /\ base \in Supers(Super[n.class])
        /\ copy.up[n] \in DOMAIN copy.up \/ copy.up[n].class = base

(* The inductive invariant: the copies have the marks of the filter, until *)
(* a click falls on an older node.                                         *)
EditorIInv ==
    /\ HierarchyIInv
    /\ filter \in Filter /\ found \in {"none", "shown", "older"}
    /\ ~open => shown = NoCopy
    /\ ~open \/ found # "older" => older = NoCopy
    /\ \A copy \in {shown, older} :
        /\ IsCopy(copy, filter.base)
        /\ ~strayed => \A n \in DOMAIN copy.mark : copy.mark[n] = MarkIn(filter, n.class)
=============================================================================
