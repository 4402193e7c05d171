---------------------------- MODULE ClassHierarchy ----------------------------
(***************************************************************************)
(* The tree of classes the editor shows when a filter is edited            *)
(* (ClassFilter::FClassHierarchy).  A loaded class has a node of its own;  *)
(* a blueprint asset has a node read from its tags, loaded or not.  The    *)
(* tree is built by hanging the nodes of assets below the node of their    *)
(* super class, where the node of the asset replaces that of the class;    *)
(* later assets are added to it and removed from it one by one.            *)
(***************************************************************************)
EXTENDS Naturals, Sequences, FiniteSets, SequencesExt

CONSTANTS
    Class,
    Object,                 \* the root of all classes
    Chain,                  \* a class, its super class, and so on up to the root
    Blueprints,             \* the classes that are made by an asset
    Movable                 \* bound: those whose assets come and go

Node == [class : Class, from : {"class", "asset"}]
ClassNode(c) == [class |-> c, from |-> "class"]
AssetNode(c) == [class |-> c, from |-> "asset"]

Super == [c \in Class \ {Object} |-> Chain[c][2]]
(* A class and those above it. *)
Supers(c) == {Chain[c][i] : i \in DOMAIN Chain[c]}

ASSUME ClassHierarchyAssumption ==
    /\ Object \in Class \ Blueprints /\ Blueprints \subseteq Class /\ Movable \subseteq Blueprints
    /\ IsFiniteSet(Class) /\ Chain \in [Class -> Seq(Class)]
    /\ \A c \in Class :
        /\ Chain[c] # <<>> /\ Chain[c][1] = c /\ Chain[c][Len(Chain[c])] = Object
        /\ \A i \in DOMAIN Chain[c] : Chain[Chain[c][i]] = SubSeq(Chain[c], i, Len(Chain[c]))
    /\ \A c \in Class \ Blueprints : Supers(c) \cap Blueprints = {}

VARIABLES
    assets,                 \* the blueprint assets there are
    live,                   \* the classes in memory
    built,                  \* ClassHierarchy exists
    tree,                   \* the parent of every node below ObjectClassRoot
    wanted,                 \* bPopulateClassHierarchy
    open,                   \* a popup shows the tree
    refresh                 \* bNeedsRefresh of that popup

hierarchyVars == <<assets, live, built, tree, wanted, open, refresh>>

NoTree == [n \in {} |-> ClassNode(Object)]
ChildrenIn(up, n) == {k \in DOMAIN up : up[k] = n}

(* A node and all that are below it. *)
Below(up, n) ==
    LET Reach[depth \in 0..Cardinality(DOMAIN up)] ==
            IF depth = 0 THEN {n}
            ELSE LET above == Reach[depth - 1] IN above \cup {k \in DOMAIN up : up[k] \in above}
    IN  Reach[Cardinality(DOMAIN up)]

Without(up, nodes) == [n \in DOMAIN up \ nodes |-> up[n]]
Hang(up, nodes, parent) ==
    [n \in DOMAIN up \cup nodes |-> IF n \in nodes THEN parent ELSE up[n]]

InTree(up) == {n.class : n \in Below(up, ClassNode(Object))}
-----------------------------------------------------------------------------
(* FindParent: the nodes below n that stand for the super class of k. *)
FindParent(up, n, k) == {m \in Below(up, n) : m.class = Super[k.class]}

(* Mutant of AddUniqueChild: the node is added beside that of its class. *)
AddTwin(up, parent, new) == Hang(up, {new}, parent)

(* Mutant of AddUniqueChild: the new node takes the place of the old one   *)
(* and the children of the old one are forgotten.                          *)
AddBareChild(up, parent, new) ==
    LET olds == {m \in ChildrenIn(up, parent) : m.class = new.class /\ new.class \in live}
    IN  Hang(Without(up, UNION {Below(up, m) : m \in olds}), {new}, parent)

(* FSEClassFilterNode::AddUniqueChild, of the node of an asset: it takes   *)
(* the place of the node its class has there, and the children of that     *)
(* one, but for those it has itself from an asset.                         *)
AddUniqueChild(up, parent, new) ==
    LET olds == {m \in ChildrenIn(up, parent) : m.class = new.class /\ new.class \in live}
        kids == UNION {ChildrenIn(up, m) : m \in olds}
        own == {k.class : k \in ChildrenIn(up, new)}
        dropped == {k \in kids : k.class \in own \cap live}
        gone == olds \cup UNION {Below(up, k) : k \in dropped}
    IN  Hang(Hang(Without(up, gone), kids \ dropped, new), {new}, parent)

RemoveAtSwap(s, i) == SubSeq([s EXCEPT ![i] = s[Len(s)]], 1, Len(s) - 1)

(* A turn of the loop of PopulateClassHierarchy: the node the list is at   *)
(* is hung below the first node of the list that has its parent, and the   *)
(* last node of the list takes its place in it.                            *)
Holders(s) ==
    {j \in DOMAIN s.list :
        s.list[s.at] # ClassNode(Object) /\ FindParent(s.up, s.list[j], s.list[s.at]) # {}}
Linked(s) ==
    LET holders == Holders(s)
        n == s.list[s.at]
        first == CHOOSE j \in holders : \A k \in holders : j <= k
        parent == CHOOSE m \in FindParent(s.up, s.list[first], n) : TRUE
    IN  IF holders = {} THEN [s EXCEPT !.at = @ + 1]
        ELSE [s EXCEPT !.up = AddUniqueChild(@, parent, n), !.list = RemoveAtSwap(@, s.at)]

(* AddChildren_NoFilter: the tree of the classes in memory. *)
ClassTree == [n \in {ClassNode(c) : c \in live \ {Object}} |-> ClassNode(Super[n.class])]

(* The tree, when the registry lists the assets in the order given. *)
Populated(order) ==
    LET nodes == [i \in 1..Len(order) |-> AssetNode(order[i])]
        start == [up |-> ClassTree, list |-> Append(nodes, ClassNode(Object)), at |-> 1]
        Loop[turns \in 0..Len(start.list)] ==
            IF turns = 0 THEN start ELSE Linked(Loop[turns - 1])
        up == Loop[Len(start.list)].up
    IN  Without(up, DOMAIN up \ Below(up, ClassNode(Object)))

(* PopulateClassHierarchy; RefreshAll is left to the caller. *)
PopulateClassHierarchy == tree' \in {Populated(order) : order \in SetToSeqs(assets)}
-----------------------------------------------------------------------------
HierarchyInit ==
    /\ assets \in {Blueprints \ S : S \in SUBSET Movable}
    /\ live = Class \ Blueprints
    /\ built = FALSE
    /\ tree = NoTree
    /\ wanted = FALSE
    /\ open = FALSE /\ refresh = FALSE

(* The engine loads a blueprint, and with it those above it. *)
LoadBlueprint(c) ==
    /\ c \in assets \ live
    /\ Supers(c) \ live \subseteq assets
    /\ live' = live \cup Supers(c)
    /\ UNCHANGED <<assets, built, tree, wanted, open, refresh>>

(* The engine collects a blueprint class nobody uses. *)
UnloadBlueprint(c) ==
    /\ c \in live \cap Blueprints
    /\ \A d \in live \ {c} : c \notin Supers(d)
    /\ live' = live \ {c}
    /\ UNCHANGED <<assets, built, tree, wanted, open, refresh>>

(* A file appears, or a blueprint is created, whose class is loaded next. *)
AddAsset(c) ==
    LET parents == FindParent(tree, ClassNode(Object), AssetNode(c))
        added == built /\ c \notin InTree(tree) /\ parents # {}
    IN  /\ c \in Movable \ assets
        /\ assets' = assets \cup {c}
        /\ tree' = IF added THEN Hang(tree, {AssetNode(c)}, CHOOSE m \in parents : TRUE)
                   ELSE tree
        /\ refresh' = (refresh \/ (open /\ added))
        /\ UNCHANGED <<live, built, wanted, open>>

(* The file of a blueprint goes, be its class in memory or not; the node   *)
(* goes with all that is below it.                                         *)
RemoveAsset(c) ==
    LET nodes == {n \in DOMAIN tree : n.class = c}
    IN  /\ c \in assets \cap Movable
        /\ assets' = assets \ {c}
        /\ tree' = Without(tree, UNION {Below(tree, n) : n \in nodes})
        /\ refresh' = (refresh \/ (open /\ nodes # {}))
        /\ UNCHANGED <<live, built, wanted, open>>

(* A blueprint is compiled, a module or a package is loaded, the registry  *)
(* has read all its files.                                                 *)
RequestPopulateClassHierarchy ==
    /\ built /\ ~wanted
    /\ wanted' = TRUE
    /\ UNCHANGED <<assets, live, built, tree, open, refresh>>

HierarchyNext ==
    \/ \E c \in Blueprints : LoadBlueprint(c) \/ UnloadBlueprint(c) \/ AddAsset(c) \/ RemoveAsset(c)
    \/ RequestPopulateClassHierarchy
-----------------------------------------------------------------------------
(* No class is in the tree twice, and each is below its super class: the   *)
(* nodes of an asset and of its class are made one whatever the order in   *)
(* which the two trees meet, and AddAsset, which does not look for a twin, *)
(* never makes one.                                                        *)
EachClassOnce ==
    /\ \A n, m \in DOMAIN tree : n.class = m.class => n = m
    /\ \A n \in DOMAIN tree : n.class # Object /\ tree[n].class = Super[n.class]

(* The classes and nodes there are, and that every node of the tree can be *)
(* reached from ObjectClassRoot.                                           *)
HierarchyIInv ==
    /\ assets \subseteq Blueprints /\ live \subseteq Class
    /\ Class \ Blueprints \subseteq live /\ \A c \in live : Supers(c) \subseteq live
    /\ {built, wanted, open, refresh} \subseteq BOOLEAN
    /\ DOMAIN tree \subseteq Node /\ tree \in [DOMAIN tree -> Node]
    /\ EachClassOnce
    /\ DOMAIN tree \subseteq Below(tree, ClassNode(Object))

(* Classes the tree should have: their file and those above are there. *)
Known == {c \in Class : Supers(c) \subseteq live \cup assets}
Populates == (~built /\ built') \/ (wanted /\ ~wanted')

(* "pulling all the loaded and unloaded classes into a master tree"        *)
(* (ClassFilterHelpers.h:50): once populated, the tree has no class that   *)
(* is not there, and misses one only if it is below a blueprint in memory  *)
(* whose super class is another blueprint in memory.                       *)
BelowTwoBlueprints(c) ==
    \E b \in (Supers(c) \ {c}) \cap live \cap Blueprints : Super[b] \in live \cap Blueprints
TreeKeepsClasses ==
    [][Populates => /\ InTree(tree') \subseteq Known
                    /\ {c \in Known : ~BelowTwoBlueprints(c)} \subseteq InTree(tree')]_hierarchyVars
=============================================================================
