----------------------- MODULE ClassFilterEditor_proofs -----------------------
(***************************************************************************)
(* Proofs about the editor of filters, for any classes, any assets in any  *)
(* order of the registry, and any filter: the tree has each class once,    *)
(* populating it loses no class but those below two blueprints in memory,  *)
(* and the popup's colours are what BakeAllowedClasses makes of the marks. *)
(***************************************************************************)
EXTENDS ClassFilterEditor, FiniteSetTheorems, TLAPS

(* Induction: were x the number of a step that is not in S, then those up  *)
(* to x that are not could be put, one down each, into one place less.     *)
LEMMA Induct ==
    ASSUME NEW S, 0 \in S, \A n \in Nat : n \in S => n + 1 \in S
    PROVE  \A n \in Nat : n \in S
<1> SUFFICES ASSUME NEW x \in Nat, x \notin S
             PROVE  FALSE
  OBVIOUS
<1> DEFINE A == (0..x) \ S
           B == A \ {x}
           f == [n \in A |-> n - 1]
<1>1. IsFiniteSet(A) /\ x \in A
  <2>1. IsFiniteSet(0..x)
    BY FS_Interval
  <2>2. IsFiniteSet(A)
    BY <2>1, FS_Difference, Zenon
  <2> QED
    BY <2>2
<1>2. \A n \in A : n - 1 \in B
  <2> SUFFICES ASSUME NEW n \in A
               PROVE  n - 1 \in B
    OBVIOUS
  <2>1. n \in Nat /\ n <= x /\ n # 0 /\ n \notin S
    OBVIOUS
  <2>2. n - 1 \in Nat /\ n - 1 \notin S /\ n - 1 <= x /\ n - 1 # x
    BY <2>1
  <2> QED
    BY <2>2
<1>3. IsFiniteSet(B) /\ Cardinality(B) = Cardinality(A) - 1 /\ Cardinality(A) \in Nat
  BY <1>1, FS_RemoveElement, FS_CardinalityType
<1>4. f \in [A -> B]
  BY <1>2
<1>5. Cardinality(B) < Cardinality(A)
  BY <1>3
<1>6. \A m, n \in A : f[m] = f[n] => m = n
  OBVIOUS
<1> HIDE DEF A, B, f
<1>7. \E m, n \in A : m # n /\ f[m] = f[n]
  BY <1>1, <1>3, <1>4, <1>5, FS_PigeonHole
<1> QED
  BY <1>6, <1>7
-----------------------------------------------------------------------------
(* What Below computes: the sets of the nodes up to a depth.               *)
Deeper(up, above) == above \cup {k \in DOMAIN up : up[k] \in above}
Reaches(f, up, n, num) ==
    f = [depth \in 0..num |->
            IF depth = 0 THEN {n}
            ELSE LET above == f[depth - 1] IN above \cup {k \in DOMAIN up : up[k] \in above}]

LEMMA ReachesIs ==
    ASSUME NEW f, NEW up, NEW n, NEW num \in Nat, Reaches(f, up, n, num)
    PROVE  f[0] = {n} /\ \A d \in Nat : d < num => f[d + 1] = Deeper(up, f[d])
<1>1. \A d \in 0..num : f[d] = IF d = 0 THEN {n} ELSE Deeper(up, f[d - 1])
  BY Zenon DEF Reaches, Deeper
<1>2. 0 \in 0..num
  OBVIOUS
<1>3. ASSUME NEW d \in Nat, d < num
      PROVE  f[d + 1] = Deeper(up, f[d])
  <2>1. d + 1 \in 0..num /\ d + 1 # 0 /\ (d + 1) - 1 = d
    BY <1>3
  <2> QED
    BY <1>1, <2>1, Zenon
<1> QED
  BY <1>1, <1>2, <1>3

LEMMA ReachesExists ==
    ASSUME NEW up, NEW n
    PROVE  \A num \in Nat : \E f : Reaches(f, up, n, num)
<1> DEFINE S == {num \in Nat : \E f : Reaches(f, up, n, num)}
<1>1. 0 \in S
  <2> DEFINE f == [d \in 0..0 |-> {n}]
  <2>1. Reaches(f, up, n, 0)
    BY DEF Reaches
  <2> QED
    BY <2>1
<1>2. ASSUME NEW num \in Nat, num \in S
      PROVE  num + 1 \in S
  <2>1. PICK f : Reaches(f, up, n, num)
    BY <1>2
  <2> DEFINE g == [d \in 0..(num + 1) |-> IF d = num + 1 THEN Deeper(up, f[num]) ELSE f[d]]
  <2>2. f[0] = {n} /\ \A d \in Nat : d < num => f[d + 1] = Deeper(up, f[d])
    BY <2>1, ReachesIs
  <2>3. ASSUME NEW d \in 0..(num + 1)
        PROVE  g[d] = IF d = 0 THEN {n} ELSE Deeper(up, g[d - 1])
    <3>1. CASE d = 0
      BY <2>2, <3>1
    <3>2. CASE d # 0
      <4>1. d - 1 \in Nat /\ d - 1 \in 0..(num + 1) /\ d - 1 # num + 1 /\ (d - 1) + 1 = d
        BY <3>2
      <4>2. g[d - 1] = f[d - 1]
        BY <4>1
      <4>3. g[d] = Deeper(up, f[d - 1])
        <5>1. CASE d = num + 1
          <6>1. d - 1 = num
            BY <5>1
          <6> QED
            BY <5>1, <6>1
        <5>2. CASE d # num + 1
          <6>1. d - 1 < num
            BY <5>2
          <6>2. f[(d - 1) + 1] = Deeper(up, f[d - 1])
            BY <2>2, <4>1, <6>1
          <6> QED
            BY <4>1, <5>2, <6>2
        <5> QED
          BY <5>1, <5>2
      <4> HIDE DEF g
      <4> QED
        BY <3>2, <4>2, <4>3
    <3> QED
      BY <3>1, <3>2
  <2>4. g = [d \in 0..(num + 1) |-> g[d]]
    OBVIOUS
  <2> HIDE DEF g
  <2>5. Reaches(g, up, n, num + 1)
    BY <2>3, <2>4, Zenon DEF Reaches, Deeper
  <2> QED
    BY <2>5
<1> HIDE DEF S
<1>3. \A num \in Nat : num \in S
  BY <1>1, <1>2, Induct
<1> QED
  BY <1>3 DEF S

Finds(f, up, n) ==
    /\ Below(up, n) = f[Cardinality(DOMAIN up)] /\ f[0] = {n}
    /\ \A d \in Nat : d < Cardinality(DOMAIN up) => f[d + 1] = Deeper(up, f[d])

LEMMA BelowReaches ==
    ASSUME NEW up, NEW n, IsFiniteSet(DOMAIN up)
    PROVE  \E f : Finds(f, up, n)
<1> DEFINE num == Cardinality(DOMAIN up)
<1>1. num \in Nat
  BY FS_CardinalityType
<1>2. \E f : Reaches(f, up, n, num)
  BY <1>1, ReachesExists
<1> DEFINE f == CHOOSE g : Reaches(g, up, n, num)
<1>3. Reaches(f, up, n, num)
  BY <1>2
<1>4. Below(up, n) = f[num]
  BY Zenon DEF Below, Reaches
<1> HIDE DEF f
<1>5. f[0] = {n} /\ \A d \in Nat : d < num => f[d + 1] = Deeper(up, f[d])
  BY <1>1, <1>3, ReachesIs
<1> QED
  BY <1>4, <1>5 DEF Finds

(* Below has the node and, with every node, those whose parent it is: as   *)
(* long as a turn adds to the set, it has as many nodes as turns were made,*)
(* and there are no more than the tree has.                                *)
LEMMA BelowIsClosed ==
    ASSUME NEW up, NEW n, IsFiniteSet(DOMAIN up)
    PROVE  /\ n \in Below(up, n)
           /\ \A k \in DOMAIN up : up[k] \in Below(up, n) => k \in Below(up, n)
<1> DEFINE num == Cardinality(DOMAIN up)
           All == DOMAIN up \cup {n}
           f == CHOOSE g : Finds(g, up, n)
<1>1. num \in Nat /\ IsFiniteSet(All)
  BY FS_CardinalityType, FS_AddElement
<1>2. /\ Below(up, n) = f[num] /\ f[0] = {n}
      /\ \A d \in Nat : d < num => f[d + 1] = Deeper(up, f[d])
  <2>1. Finds(f, up, n)
    BY BelowReaches
  <2> QED
    BY <2>1 DEF Finds
<1> HIDE DEF f
<1> DEFINE S == {d \in Nat : d <= num =>
                    /\ n \in f[d] /\ f[d] \subseteq All
                    /\ Deeper(up, f[d]) = f[d] \/ Cardinality(f[d]) >= d + 1}
<1>3. 0 \in S
  <2>1. Cardinality(f[0]) = 1
    BY <1>2, FS_Singleton
  <2> QED
    BY <1>2, <2>1
<1>4. ASSUME NEW d \in Nat, d \in S
      PROVE  d + 1 \in S
  <2> SUFFICES ASSUME d + 1 <= num
               PROVE  /\ n \in f[d + 1] /\ f[d + 1] \subseteq All
                      /\ \/ Deeper(up, f[d + 1]) = f[d + 1]
                         \/ Cardinality(f[d + 1]) >= (d + 1) + 1
    OBVIOUS
  <2>1. d <= num /\ d < num
    BY <1>1
  <2>2. f[d + 1] = Deeper(up, f[d])
    BY <1>2, <2>1
  <2>3. n \in f[d] /\ f[d] \subseteq All
    BY <1>4, <2>1
  <2>4. n \in f[d + 1] /\ f[d + 1] \subseteq All /\ f[d] \subseteq f[d + 1]
    BY <2>2, <2>3 DEF Deeper
  <2>5. CASE f[d + 1] = f[d]
    BY <2>2, <2>4, <2>5
  <2>6. CASE f[d + 1] # f[d]
    <3>1. Cardinality(f[d]) >= d + 1
      BY <1>4, <2>1, <2>2, <2>6
    <3>2. IsFiniteSet(f[d + 1])
      BY <1>1, <2>4, FS_Subset
    <3>3. /\ Cardinality(f[d]) <= Cardinality(f[d + 1])
          /\ Cardinality(f[d + 1]) # Cardinality(f[d]) /\ IsFiniteSet(f[d])
      BY <2>4, <2>6, <3>2, FS_Subset
    <3>4. Cardinality(f[d]) \in Nat /\ Cardinality(f[d + 1]) \in Nat
      BY <3>2, <3>3, FS_CardinalityType
    <3>5. Cardinality(f[d + 1]) >= (d + 1) + 1
      BY <3>1, <3>3, <3>4
    <3> QED
      BY <2>4, <3>5
  <2> QED
    BY <2>5, <2>6
<1>5. \A d \in Nat : d \in S
  <2> HIDE DEF S
  <2> QED
    BY <1>3, <1>4, Induct
<1>6. /\ n \in f[num] /\ f[num] \subseteq All
      /\ Deeper(up, f[num]) = f[num] \/ Cardinality(f[num]) >= num + 1
  BY <1>1, <1>5
<1>7. ASSUME Cardinality(f[num]) >= num + 1
      PROVE  f[num] = All
  <2>1. Cardinality(All) <= num + 1
    BY <1>1, FS_AddElement
  <2>2. Cardinality(f[num]) <= Cardinality(All) /\ IsFiniteSet(f[num])
        /\ (Cardinality(All) = Cardinality(f[num]) => All = f[num])
    BY <1>1, <1>6, FS_Subset
  <2>3. Cardinality(All) \in Nat /\ Cardinality(f[num]) \in Nat
    BY <1>1, <2>2, FS_CardinalityType
  <2> QED
    BY <1>1, <1>7, <2>1, <2>2, <2>3
<1>8. Deeper(up, f[num]) = f[num]
  BY <1>6, <1>7 DEF Deeper
<1> QED
  BY <1>2, <1>6, <1>8 DEF Deeper

(* A set that has the node and is closed downwards has all that is below.  *)
LEMMA BelowIsLeast ==
    ASSUME NEW up, NEW n, IsFiniteSet(DOMAIN up), NEW T,
           n \in T, \A k \in DOMAIN up : up[k] \in T => k \in T
    PROVE  Below(up, n) \subseteq T
<1> DEFINE num == Cardinality(DOMAIN up)
           f == CHOOSE g : Finds(g, up, n)
<1>1. num \in Nat
  BY FS_CardinalityType
<1>2. /\ Below(up, n) = f[num] /\ f[0] = {n}
      /\ \A d \in Nat : d < num => f[d + 1] = Deeper(up, f[d])
  <2>1. Finds(f, up, n)
    BY BelowReaches
  <2> QED
    BY <2>1 DEF Finds
<1> HIDE DEF f
<1> DEFINE S == {d \in Nat : d <= num => f[d] \subseteq T}
<1>3. 0 \in S
  BY <1>2
<1>4. ASSUME NEW d \in Nat, d \in S
      PROVE  d + 1 \in S
  <2> SUFFICES ASSUME d + 1 <= num
               PROVE  f[d + 1] \subseteq T
    OBVIOUS
  <2>1. d <= num /\ d < num
    BY <1>1
  <2>2. f[d + 1] = Deeper(up, f[d]) /\ f[d] \subseteq T
    BY <1>2, <1>4, <2>1
  <2> QED
    BY <2>2 DEF Deeper
<1>5. \A d \in Nat : d \in S
  <2> HIDE DEF S
  <2> QED
    BY <1>3, <1>4, Induct
<1> QED
  BY <1>1, <1>2, <1>5

(* What is below a node is the node, or in the tree with its parent.       *)
LEMMA BelowGoesUp ==
    ASSUME NEW up, NEW n, IsFiniteSet(DOMAIN up), NEW m \in Below(up, n)
    PROVE  m = n \/ (m \in DOMAIN up /\ up[m] \in Below(up, n))
<1> DEFINE T == {k \in Below(up, n) : k = n \/ (k \in DOMAIN up /\ up[k] \in Below(up, n))}
<1>1. n \in T
  BY BelowIsClosed
<1>2. \A k \in DOMAIN up : up[k] \in T => k \in T
  BY BelowIsClosed
<1>3. Below(up, n) \subseteq T
  <2> HIDE DEF T
  <2> QED
    BY <1>1, <1>2, BelowIsLeast
<1> QED
  BY <1>3

LEMMA BelowBelow ==
    ASSUME NEW up, NEW n, IsFiniteSet(DOMAIN up), NEW m \in Below(up, n)
    PROVE  Below(up, m) \subseteq Below(up, n)
BY BelowIsClosed, BelowIsLeast
-----------------------------------------------------------------------------
(* A chain holds classes up to Object, and every part of it is a chain.    *)
Depth(c) == Len(Chain[c])

LEMMA Chains ==
    ASSUME NEW c \in Class
    PROVE  /\ Chain[c] \in Seq(Class) /\ Chain[c][1] = c /\ Depth(c) \in Nat \ {0}
           /\ DOMAIN Chain[c] = 1..Depth(c) /\ Chain[c][Depth(c)] = Object
           /\ \A i \in 1..Depth(c) :
                /\ Chain[c][i] \in Class
                /\ Depth(Chain[c][i]) = Depth(c) - i + 1
                /\ \A j \in 1..(Depth(c) - i + 1) : Chain[Chain[c][i]][j] = Chain[c][i + j - 1]
<1>1. Chain[c] \in Seq(Class) /\ Chain[c] # <<>> /\ Chain[c][1] = c /\ Chain[c][Depth(c)] = Object
  BY ClassHierarchyAssumption DEF Depth
<1>2. DOMAIN Chain[c] = 1..Depth(c) /\ Depth(c) \in Nat \ {0}
  BY <1>1 DEF Depth
<1>3. ASSUME NEW i \in 1..Depth(c)
      PROVE  /\ Chain[c][i] \in Class
             /\ Depth(Chain[c][i]) = Depth(c) - i + 1
             /\ \A j \in 1..(Depth(c) - i + 1) : Chain[Chain[c][i]][j] = Chain[c][i + j - 1]
  <2>1. Chain[Chain[c][i]] = SubSeq(Chain[c], i, Depth(c))
    BY <1>2, ClassHierarchyAssumption DEF Depth
  <2> DEFINE s == Chain[c]
  <2>2. s \in Seq(Class) /\ Len(s) = Depth(c) /\ i \in 1..Len(s)
    BY <1>1 DEF Depth
  <2> HIDE DEF s
  <2>3. /\ Len(SubSeq(s, i, Len(s))) = Len(s) - i + 1
        /\ \A j \in 1..(Len(s) - i + 1) : SubSeq(s, i, Len(s))[j] = s[i + j - 1]
        /\ s[i] \in Class
    BY <2>2
  <2> QED
    BY <2>1, <2>2, <2>3 DEF Depth, s
<1> QED
  BY <1>1, <1>2, <1>3

LEMMA RootChain == Object \in Class /\ Depth(Object) = 1 /\ Supers(Object) = {Object}
<1>1. Object \in Class
  BY ClassHierarchyAssumption
<1> DEFINE d == Depth(Object)
<1>2. d \in Nat \ {0} /\ Chain[Object][d] = Object /\ Chain[Object][1] = Object
      /\ DOMAIN Chain[Object] = 1..d /\ Depth(Chain[Object][d]) = d - d + 1
  BY <1>1, Chains
<1>3. d = 1
  BY <1>2
<1>4. DOMAIN Chain[Object] = {1} /\ Chain[Object][1] = Object
  BY <1>2, <1>3
<1> QED
  BY <1>1, <1>3, <1>4 DEF Supers

(* The classes above a class are the class and those above its super class.*)
LEMMA SuperIs ==
    ASSUME NEW c \in Class, c # Object
    PROVE  /\ Super[c] \in Class /\ Depth(Super[c]) = Depth(c) - 1
           /\ Supers(c) = {c} \cup Supers(Super[c])
<1>1. /\ Depth(c) \in Nat \ {0} /\ DOMAIN Chain[c] = 1..Depth(c) /\ Chain[c][1] = c
      /\ Chain[c][Depth(c)] = Object
  BY Chains
<1>2. Depth(c) # 1
  BY <1>1
<1>3. 2 \in 1..Depth(c) /\ Super[c] = Chain[c][2]
  BY <1>1, <1>2 DEF Super
<1>4. /\ Super[c] \in Class /\ Depth(Super[c]) = Depth(c) - 2 + 1
      /\ \A j \in 1..(Depth(c) - 2 + 1) : Chain[Super[c]][j] = Chain[c][2 + j - 1]
  BY <1>3, Chains
<1>5. DOMAIN Chain[Super[c]] = 1..(Depth(c) - 1)
  BY <1>1, <1>4, Chains
<1>6. Supers(c) \subseteq {c} \cup Supers(Super[c])
  <2> SUFFICES ASSUME NEW i \in 1..Depth(c), i # 1
               PROVE  Chain[c][i] \in Supers(Super[c])
    BY <1>1 DEF Supers
  <2>1. i - 1 \in 1..(Depth(c) - 1) /\ 2 + (i - 1) - 1 = i
    BY <1>1
  <2>2. Chain[Super[c]][i - 1] = Chain[c][i]
    BY <1>1, <1>4, <2>1
  <2> QED
    BY <1>5, <2>1, <2>2 DEF Supers
<1>7. {c} \cup Supers(Super[c]) \subseteq Supers(c)
  <2>1. c \in Supers(c)
    BY <1>1 DEF Supers
  <2>2. ASSUME NEW j \in 1..(Depth(c) - 1)
        PROVE  Chain[Super[c]][j] \in Supers(c)
    <3>1. j + 1 \in 1..Depth(c) /\ 2 + j - 1 = j + 1
      BY <1>1
    <3>2. Chain[Super[c]][j] = Chain[c][j + 1]
      BY <1>1, <1>4, <3>1
    <3> QED
      BY <1>1, <3>1, <3>2 DEF Supers
  <2> QED
    BY <1>5, <2>1, <2>2 DEF Supers
<1> QED
  BY <1>1, <1>4, <1>6, <1>7

LEMMA SupersAre ==
    ASSUME NEW c \in Class
    PROVE  /\ c \in Supers(c) /\ Object \in Supers(c) /\ Supers(c) \subseteq Class
           /\ \A d \in Supers(c) : Supers(d) \subseteq Supers(c) /\ (d # c => Depth(d) < Depth(c))
<1>1. /\ Depth(c) \in Nat \ {0} /\ DOMAIN Chain[c] = 1..Depth(c) /\ Chain[c][1] = c
      /\ Chain[c][Depth(c)] = Object
  BY Chains
<1>2. c \in Supers(c) /\ Object \in Supers(c)
  BY <1>1 DEF Supers
<1>3. ASSUME NEW i \in 1..Depth(c)
      PROVE  /\ Chain[c][i] \in Class /\ Supers(Chain[c][i]) \subseteq Supers(c)
             /\ Chain[c][i] # c => Depth(Chain[c][i]) < Depth(c)
  <2> DEFINE d == Chain[c][i]
  <2>1. /\ d \in Class /\ Depth(d) = Depth(c) - i + 1
        /\ \A j \in 1..(Depth(c) - i + 1) : Chain[d][j] = Chain[c][i + j - 1]
    BY Chains
  <2>2. DOMAIN Chain[d] = 1..(Depth(c) - i + 1)
    BY <2>1, Chains
  <2>3. ASSUME NEW j \in 1..(Depth(c) - i + 1)
        PROVE  Chain[d][j] \in Supers(c)
    <3>1. i + j - 1 \in 1..Depth(c)
      BY <1>1
    <3> QED
      BY <1>1, <2>1, <3>1 DEF Supers
  <2>4. Supers(d) \subseteq Supers(c)
    BY <2>2, <2>3 DEF Supers
  <2>5. d # c => i # 1
    BY <1>1
  <2> QED
    BY <1>1, <2>1, <2>4, <2>5
<1>4. \A d \in Supers(c) : \E i \in 1..Depth(c) : d = Chain[c][i]
  BY <1>1 DEF Supers
<1> QED
  BY <1>2, <1>3, <1>4

(* What holds of a class when it holds of its super class holds of all.    *)
LEMMA ChainInduct ==
    ASSUME NEW S, \A c \in Class : (c # Object => Super[c] \in S) => c \in S
    PROVE  Class \subseteq S
<1> DEFINE D == {d \in Nat : \A c \in Class : Depth(c) <= d => c \in S}
<1>1. 0 \in D
  BY Chains
<1>2. ASSUME NEW d \in Nat, d \in D
      PROVE  d + 1 \in D
  <2> SUFFICES ASSUME NEW c \in Class, Depth(c) <= d + 1
               PROVE  c \in S
    OBVIOUS
  <2>1. CASE c = Object
    BY <2>1
  <2>2. CASE c # Object
    <3>1. Super[c] \in Class /\ Depth(Super[c]) = Depth(c) - 1 /\ Depth(c) \in Nat
      BY <2>2, SuperIs, Chains
    <3>2. Depth(Super[c]) <= d
      BY <3>1
    <3> QED
      BY <1>2, <3>1, <3>2
  <2> QED
    BY <2>1, <2>2
<1>3. \A d \in Nat : d \in D
  <2> HIDE DEF D
  <2> QED
    BY <1>1, <1>2, Induct
<1> QED
  BY <1>3, Chains
-----------------------------------------------------------------------------
(* A tree, or a forest: every node has the node of its super class above.  *)
IsTree(up) ==
    /\ DOMAIN up \subseteq Node /\ up \in [DOMAIN up -> Node]
    /\ \A n \in DOMAIN up : n.class # Object /\ up[n].class = Super[n.class]
SiblingsOnce(up) == \A n, m \in DOMAIN up : up[n] = up[m] /\ n.class = m.class => n = m
Root == ClassNode(Object)

LEMMA Nodes ==
    /\ IsFiniteSet(Node) /\ Root \in Node /\ Root.class = Object
    /\ \A n \in Node : n.class \in Class /\ n.from \in {"class", "asset"}
    /\ \A n, m \in Node : n.class = m.class /\ n.from = m.from => n = m
    /\ \A n \in Node : n.class = Object /\ n.from = "class" => n = Root
    /\ \A c \in Class : /\ ClassNode(c) \in Node /\ ClassNode(c).class = c
                        /\ ClassNode(c).from = "class"
                        /\ AssetNode(c) \in Node /\ AssetNode(c).class = c
                        /\ AssetNode(c).from = "asset"
<1>1. \A n \in Node : n.class \in Class /\ n.from \in {"class", "asset"}
  BY DEF Node
<1>2. \A n, m \in Node : n.class = m.class /\ n.from = m.from => n = m
  BY DEF Node
<1>3. Object \in Class /\ IsFiniteSet(Class)
  BY ClassHierarchyAssumption
<1> DEFINE Of(from) == {n \in Node : n.from = from}
<1>4. ASSUME NEW from
      PROVE  IsFiniteSet(Of(from))
  <2> DEFINE f == [n \in Of(from) |-> n.class]
  <2>1. f \in Injection(Of(from), Class)
    <3>1. f \in [Of(from) -> Class]
      BY <1>1
    <3>2. \A n, m \in Of(from) : f[n] = f[m] => n = m
      BY <1>2
    <3> HIDE DEF f
    <3> QED
      BY <3>1, <3>2 DEF Injection, IsInjective
  <2> HIDE DEF f, Of
  <2> QED
    BY <1>3, <2>1, FS_Injection
<1>5. Node = Of("class") \cup Of("asset")
  BY <1>1
<1>6. IsFiniteSet(Node)
  <2> HIDE DEF Of
  <2>1. IsFiniteSet(Of("class")) /\ IsFiniteSet(Of("asset"))
    BY <1>4
  <2>2. IsFiniteSet(Of("class") \cup Of("asset"))
    BY <2>1, FS_Union
  <2> QED
    BY <1>5, <2>2
<1>7. \A c \in Class : /\ ClassNode(c) \in Node /\ ClassNode(c).class = c
                       /\ ClassNode(c).from = "class"
                       /\ AssetNode(c) \in Node /\ AssetNode(c).class = c
                       /\ AssetNode(c).from = "asset"
  BY DEF Node, ClassNode, AssetNode
<1>8. Root \in Node /\ Root.class = Object /\ Root.from = "class"
  BY <1>3, <1>7 DEF Root
<1>9. \A n \in Node : n.class = Object /\ n.from = "class" => n = Root
  BY <1>2, <1>8
<1> QED
  BY <1>1, <1>2, <1>6, <1>7, <1>8, <1>9

LEMMA TreeIsFinite ==
    ASSUME NEW up, DOMAIN up \subseteq Node
    PROVE  IsFiniteSet(DOMAIN up)
BY Nodes, FS_Subset

(* What is below a node is of a class below that of the node.              *)
LEMMA BelowHasClass ==
    ASSUME NEW up, IsTree(up), NEW n \in Node, NEW m \in Below(up, n)
    PROVE  /\ m \in Node /\ n.class \in Supers(m.class)
           /\ m # n => Depth(n.class) < Depth(m.class) /\ n.class # m.class
<1> DEFINE T == {k \in Node : /\ n.class \in Supers(k.class)
                              /\ k # n => Depth(n.class) < Depth(k.class)}
<1>1. n \in T
  BY Nodes, SupersAre
<1>2. ASSUME NEW k \in DOMAIN up, up[k] \in T
      PROVE  k \in T
  <2>1. k \in Node /\ k.class \in Class \ {Object} /\ up[k].class = Super[k.class] /\ up[k] \in Node
    BY Nodes DEF IsTree
  <2>2. /\ Depth(up[k].class) = Depth(k.class) - 1
        /\ Supers(k.class) = {k.class} \cup Supers(up[k].class)
    BY <2>1, SuperIs
  <2>3. n.class \in Supers(up[k].class) /\ (up[k] # n => Depth(n.class) < Depth(up[k].class))
    BY <1>2
  <2>4. Depth(k.class) \in Nat /\ Depth(n.class) \in Nat
    BY <2>1, Nodes, Chains
  <2> QED
    BY <2>1, <2>2, <2>3, <2>4
<1>3. IsFiniteSet(DOMAIN up)
  BY TreeIsFinite DEF IsTree
<1>4. Below(up, n) \subseteq T
  <2> HIDE DEF T
  <2> QED
    BY <1>1, <1>2, <1>3, BelowIsLeast
<1>5. Depth(n.class) \in Nat
  BY Nodes, Chains
<1> QED
  BY <1>4, <1>5

(* Where siblings differ in class, all nodes below the root do.            *)
LEMMA OnceBelowRoot ==
    ASSUME NEW up, IsTree(up), SiblingsOnce(up), DOMAIN up \subseteq Below(up, Root),
           NEW n \in DOMAIN up, NEW m \in DOMAIN up, n.class = m.class
    PROVE  n = m
<1> DEFINE T == {k \in Node : \A l \in DOMAIN up \cup {Root} : l.class = k.class => l = k}
<1>1. IsFiniteSet(DOMAIN up)
  BY TreeIsFinite DEF IsTree
<1>2. Root \in T
  BY Nodes DEF IsTree
<1>3. ASSUME NEW k \in DOMAIN up, up[k] \in T
      PROVE  k \in T
  <2> SUFFICES ASSUME NEW l \in DOMAIN up, l.class = k.class
               PROVE  l = k
    BY Nodes DEF IsTree
  <2>1. l # Root /\ up[l].class = up[k].class
    BY Nodes DEF IsTree
  <2>2. up[l] \in Below(up, Root)
    BY <1>1, <2>1, BelowGoesUp
  <2>3. up[l] \in DOMAIN up \cup {Root}
    BY <1>1, <2>2, BelowGoesUp
  <2>4. up[l] = up[k]
    BY <1>3, <2>1, <2>3
  <2> QED
    BY <2>4 DEF SiblingsOnce
<1>4. Below(up, Root) \subseteq T
  <2> HIDE DEF T
  <2> QED
    BY <1>1, <1>2, <1>3, BelowIsLeast
<1> QED
  BY <1>4

(* Nodes are taken out of a tree with all that is below them.              *)
LEMMA Pruned ==
    ASSUME NEW up, IsTree(up), NEW gone, \A k \in DOMAIN up : up[k] \in gone => k \in gone
    PROVE  /\ IsTree(Without(up, gone)) /\ DOMAIN Without(up, gone) = DOMAIN up \ gone
           /\ \A n \in DOMAIN up \ gone : Without(up, gone)[n] = up[n]
           /\ SiblingsOnce(up) => SiblingsOnce(Without(up, gone))
           /\ Below(up, Root) \subseteq gone \cup Below(Without(up, gone), Root)
<1> DEFINE rest == Without(up, gone)
<1>1. DOMAIN rest = DOMAIN up \ gone /\ \A n \in DOMAIN up \ gone : rest[n] = up[n]
  BY DEF Without
<1>2. IsTree(rest)
  <2>1. rest = [n \in DOMAIN up \ gone |-> up[n]]
    BY DEF Without
  <2>2. rest \in [DOMAIN up \ gone -> Node]
    BY <2>1 DEF IsTree
  <2> HIDE DEF rest
  <2> QED
    BY <1>1, <2>2 DEF IsTree
<1>3. SiblingsOnce(up) => SiblingsOnce(rest)
  BY <1>1 DEF SiblingsOnce
<1> HIDE DEF rest
<1>4. IsFiniteSet(DOMAIN up) /\ IsFiniteSet(DOMAIN rest)
  BY <1>2, TreeIsFinite DEF IsTree
<1> DEFINE T == gone \cup Below(rest, Root)
<1>5. Root \in T
  BY <1>4, BelowIsClosed
<1>6. ASSUME NEW k \in DOMAIN up, up[k] \in T
      PROVE  k \in T
  <2>1. CASE up[k] \in gone
    BY <2>1
  <2>2. CASE up[k] \in Below(rest, Root) /\ k \notin gone
    BY <1>1, <1>4, <2>2, BelowIsClosed
  <2> QED
    BY <1>6, <2>1, <2>2
<1>7. Below(up, Root) \subseteq T
  <2> HIDE DEF T
  <2> QED
    BY <1>4, <1>5, <1>6, BelowIsLeast
<1> QED
  BY <1>1, <1>2, <1>3, <1>7 DEF rest

(* A node is hung below one of the tree.                                   *)
LEMMA Grown ==
    ASSUME NEW up, IsTree(up), NEW p \in Below(up, Root), NEW n \in Node \ DOMAIN up,
           n.class # Object, p.class = Super[n.class]
    PROVE  /\ IsTree(Hang(up, {n}, p)) /\ DOMAIN Hang(up, {n}, p) = DOMAIN up \cup {n}
           /\ Below(up, Root) \cup {n} \subseteq Below(Hang(up, {n}, p), Root)
<1> DEFINE more == Hang(up, {n}, p)
<1>1. DOMAIN more = DOMAIN up \cup {n} /\ more[n] = p /\ \A m \in DOMAIN up : more[m] = up[m]
  BY DEF Hang
<1>2. p \in Node
  BY BelowHasClass, Nodes
<1>3. IsTree(more)
  <2>1. more = [m \in DOMAIN up \cup {n} |-> more[m]]
    BY DEF Hang
  <2> HIDE DEF more
  <2>2. more \in [DOMAIN up \cup {n} -> Node]
    BY <1>1, <1>2, <2>1 DEF IsTree
  <2> QED
    BY <1>1, <2>2 DEF IsTree
<1> HIDE DEF more
<1>4. IsFiniteSet(DOMAIN up) /\ IsFiniteSet(DOMAIN more)
  BY <1>3, TreeIsFinite DEF IsTree
<1>5. Below(up, Root) \subseteq Below(more, Root)
  <2>1. Root \in Below(more, Root)
    BY <1>4, BelowIsClosed
  <2>2. \A k \in DOMAIN up : up[k] \in Below(more, Root) => k \in Below(more, Root)
    BY <1>1, <1>4, BelowIsClosed
  <2> QED
    BY <1>4, <2>1, <2>2, BelowIsLeast
<1>6. n \in Below(more, Root)
  BY <1>1, <1>4, <1>5, BelowIsClosed
<1> QED
  BY <1>1, <1>3, <1>5, <1>6 DEF more
-----------------------------------------------------------------------------
(* What AddUniqueChild replaces, what moves to the new node, and what goes. *)
Olds(up, parent, new) ==
    {m \in DOMAIN up : up[m] = parent /\ m.class = new.class /\ new.class \in live}
Kids(up, parent, new) == {k \in DOMAIN up : up[k] \in Olds(up, parent, new)}
Dropped(up, parent, new) ==
    {k \in Kids(up, parent, new) :
        k.class \in live /\ \E m \in DOMAIN up : up[m] = new /\ m.class = k.class}
Gone(up, parent, new) ==
    Olds(up, parent, new) \cup UNION {Below(up, k) : k \in Dropped(up, parent, new)}

LEMMA AddUniqueChildIs ==
    ASSUME NEW up, NEW parent, NEW new
    PROVE  AddUniqueChild(up, parent, new) =
                Hang(Hang(Without(up, Gone(up, parent, new)),
                          Kids(up, parent, new) \ Dropped(up, parent, new), new), {new}, parent)
<1> DEFINE olds == {m \in ChildrenIn(up, parent) : m.class = new.class /\ new.class \in live}
           kids == UNION {ChildrenIn(up, m) : m \in olds}
           own == {k.class : k \in ChildrenIn(up, new)}
           dropped == {k \in kids : k.class \in own \cap live}
<1>1. olds = Olds(up, parent, new)
  BY DEF Olds, ChildrenIn
<1>2. kids = Kids(up, parent, new)
  BY <1>1 DEF Kids, ChildrenIn
<1>3. dropped = Dropped(up, parent, new)
  <2>1. \A c : c \in own <=> \E m \in DOMAIN up : up[m] = new /\ m.class = c
    BY DEF ChildrenIn
  <2> HIDE DEF kids, own
  <2> QED
    BY <1>2, <2>1 DEF Dropped
<1>4. AddUniqueChild(up, parent, new) =
        Hang(Hang(Without(up, olds \cup UNION {Below(up, k) : k \in dropped}),
                  kids \ dropped, new), {new}, parent)
  BY Zenon DEF AddUniqueChild
<1> HIDE DEF olds, kids, own, dropped
<1> QED
  BY <1>1, <1>2, <1>3, <1>4 DEF Gone

(* A node goes only if another of its class is there, or a blueprint in    *)
(* memory is above it whose super class is that of the new node; nothing   *)
(* that stays loses its parent.                                            *)
LEMMA UniqueChild ==
    ASSUME NEW up, IsTree(up), SiblingsOnce(up),
           \A n \in DOMAIN up : n.from = "class" => n.class \in live,
           NEW new \in Node, new \notin DOMAIN up, new.from = "asset", new.class # Object,
           NEW parent \in Node, parent.class = Super[new.class],
           NEW then, then = AddUniqueChild(up, parent, new)
    PROVE  /\ IsTree(then) /\ SiblingsOnce(then)
           /\ new \in DOMAIN then /\ then[new] = parent
           /\ DOMAIN then \subseteq DOMAIN up \cup {new}
           /\ \A n \in DOMAIN then \ {new} : then[n] = new \/ then[n] = up[n]
           /\ \A n \in DOMAIN then \ {new} : then[n] \in DOMAIN up => then[n] \in DOMAIN then
           /\ parent \in DOMAIN up => parent \in DOMAIN then
           /\ \A n \in DOMAIN up \ DOMAIN then :
                \/ \E m \in DOMAIN then : m.class = n.class
                \/ \E m \in DOMAIN up : /\ up[m] = new /\ m.class \in Supers(n.class) \ {n.class}
                                        /\ m.class \in live /\ new.class \in live
<1> DEFINE olds == Olds(up, parent, new)
           kids == Kids(up, parent, new)
           dropped == Dropped(up, parent, new)
           gone == Gone(up, parent, new)
<1>1. IsFiniteSet(DOMAIN up)
  BY TreeIsFinite DEF IsTree
<1>2. \A n \in DOMAIN up : /\ n \in Node /\ n.class \in Class \ {Object} /\ up[n] \in Node
                           /\ up[n].class = Super[n.class]
                           /\ Depth(up[n].class) = Depth(n.class) - 1 /\ Depth(n.class) \in Nat
  BY Nodes, SuperIs, Chains DEF IsTree
<1>3. /\ new.class \in Class /\ Depth(new.class) \in Nat
      /\ Depth(parent.class) = Depth(new.class) - 1
  BY Nodes, SuperIs, Chains
<1>4. \A m \in olds : m \in DOMAIN up /\ up[m] = parent /\ m.class = new.class /\ new.class \in live
  BY DEF Olds
<1>5. \A k \in kids : k \in DOMAIN up /\ up[k] \in olds /\ Depth(k.class) = Depth(new.class) + 1
                      /\ up[k].class = new.class
  <2> HIDE DEF olds
  <2>1. \A k \in kids : k \in DOMAIN up /\ up[k] \in olds
    BY DEF Kids, olds
  <2> QED
    BY <1>2, <1>3, <1>4, <2>1
<1>6. \A k \in dropped : /\ k \in kids /\ k.class \in live
                         /\ \E m \in DOMAIN up : up[m] = new /\ m.class = k.class
  BY DEF Dropped
<1>7. \A n : n \in gone <=> n \in olds \/ \E k \in dropped : n \in Below(up, k)
  BY DEF Gone
<1> HIDE DEF olds, kids, dropped, gone
<1>8. \A k \in dropped : \A n \in Below(up, k) :
        /\ n \in DOMAIN up
        /\ k.class \in Supers(n.class)
        /\ n # k => /\ Depth(k.class) < Depth(n.class) /\ k.class # n.class
                    /\ up[n] \in Below(up, k)
  <2> TAKE k \in dropped
  <2> TAKE n \in Below(up, k)
  <2>1. k \in DOMAIN up /\ k \in Node
    BY <1>2, <1>5, <1>6
  <2> QED
    BY <1>1, <2>1, BelowHasClass, BelowGoesUp
<1>9. gone \subseteq DOMAIN up
  BY <1>4, <1>7, <1>8
<1>10. \A n \in gone : Depth(n.class) >= Depth(new.class)
  BY <1>2, <1>3, <1>4, <1>5, <1>6, <1>7, <1>8
<1>11. kids \ dropped \subseteq DOMAIN up \ gone
  <2> SUFFICES ASSUME NEW k \in kids \ dropped, k \in gone
               PROVE  FALSE
    BY <1>5
  <2>1. k \notin olds
    BY <1>3, <1>4, <1>5
  <2>2. PICK d \in dropped : k \in Below(up, d)
    BY <1>7, <2>1
  <2>3. k # d /\ Depth(d.class) < Depth(k.class)
    BY <1>8, <2>2
  <2> QED
    BY <1>2, <1>3, <1>5, <1>6, <2>3
<1>12. /\ DOMAIN then = (DOMAIN up \ gone) \cup {new} /\ then[new] = parent
       /\ \A n \in DOMAIN up \ gone : then[n] = IF n \in kids THEN new ELSE up[n]
       /\ then = [n \in DOMAIN then |-> then[n]]
  <2>1. then = Hang(Hang(Without(up, gone), kids \ dropped, new), {new}, parent)
    BY AddUniqueChildIs DEF gone, kids, dropped
  <2> DEFINE rest == Without(up, gone)
             more == Hang(rest, kids \ dropped, new)
  <2>2. DOMAIN rest = DOMAIN up \ gone /\ \A n \in DOMAIN up \ gone : rest[n] = up[n]
    BY DEF Without
  <2> HIDE DEF rest
  <2>3. /\ DOMAIN more = DOMAIN up \ gone
        /\ \A n \in DOMAIN up \ gone : more[n] = IF n \in kids \ dropped THEN new ELSE up[n]
    BY <1>11, <2>2 DEF Hang
  <2> HIDE DEF more
  <2>4. then = Hang(more, {new}, parent)
    BY <2>1 DEF more, rest
  <2>5. /\ DOMAIN then = (DOMAIN up \ gone) \cup {new} /\ then[new] = parent
        /\ \A n \in DOMAIN up \ gone : then[n] = more[n]
        /\ then = [n \in DOMAIN then |-> then[n]]
    BY <2>3, <2>4 DEF Hang
  <2>6. \A n \in DOMAIN up \ gone : n \in kids <=> n \in kids \ dropped
    <3> SUFFICES ASSUME NEW n \in dropped
                 PROVE  n \in gone
      OBVIOUS
    <3>1. n \in Below(up, n)
      BY <1>1, BelowIsClosed
    <3> QED
      BY <1>7, <3>1
  <2> QED
    BY <2>3, <2>5, <2>6
<1>13. new \notin kids /\ new \notin gone /\ new # parent
  BY <1>3, <1>5, <1>9
<1>14. IsTree(then)
  <2>1. DOMAIN then \subseteq Node
    BY <1>2, <1>12
  <2>2. \A n \in DOMAIN then : then[n] \in Node /\ n.class # Object /\ then[n].class = Super[n.class]
    <3>1. \A n \in DOMAIN up \ gone :
            then[n] \in Node /\ n.class # Object /\ then[n].class = Super[n.class]
      <4> TAKE n \in DOMAIN up \ gone
      <4>1. CASE n \in kids
        BY <1>2, <1>5, <1>12, <4>1
      <4>2. CASE n \notin kids
        BY <1>2, <1>12, <4>2
      <4> QED
        BY <4>1, <4>2
    <3> QED
      BY <1>12, <3>1
  <2>3. then \in [DOMAIN then -> Node]
    BY <1>12, <2>2
  <2> QED
    BY <2>1, <2>2, <2>3 DEF IsTree
<1>15. ASSUME NEW n \in DOMAIN up \ gone, n \notin kids
       PROVE  up[n] \notin gone
  <2>1. up[n] \notin olds
    BY <1>15 DEF kids, olds, Kids
  <2>2. \A k \in dropped : up[n] \in Below(up, k) => n \in Below(up, k)
    BY <1>1, BelowIsClosed
  <2> QED
    BY <1>7, <2>1, <2>2
<1>16. SiblingsOnce(then)
  <2> SUFFICES ASSUME NEW n \in DOMAIN then, NEW m \in DOMAIN then, n # m,
                      then[n] = then[m], n.class = m.class
               PROVE  FALSE
    BY DEF SiblingsOnce
  <2>1. ASSUME NEW k \in DOMAIN up \ gone, then[k] = parent, k.class = new.class
        PROVE  FALSE
    <3>1. k \notin kids /\ up[k] = parent
      BY <1>12, <1>13, <2>1
    <3>2. k \notin olds
      BY <1>7
    <3>3. new.class \notin live
      BY <2>1, <3>1, <3>2 DEF olds, Olds
    <3>4. k.from = "asset"
      BY <1>2, <2>1, <3>3, Nodes
    <3> QED
      BY <1>2, <2>1, <3>4, Nodes
  <2>2. n # new /\ m # new
    BY <1>12, <2>1
  <2>3. n \in DOMAIN up \ gone /\ m \in DOMAIN up \ gone
    BY <1>12, <2>2
  <2>4. CASE n \in kids /\ m \in kids
    <3>1. up[n] \in olds /\ up[m] \in olds
      BY <1>5, <2>4
    <3>2. up[n] = up[m]
      BY <1>4, <3>1 DEF SiblingsOnce
    <3> QED
      BY <2>3, <3>2 DEF SiblingsOnce
  <2>5. ASSUME NEW k \in DOMAIN up \ gone, NEW l \in DOMAIN up \ gone,
               k \in kids, l \notin kids, then[k] = then[l], k.class = l.class
        PROVE  FALSE
    <3>1. up[l] = new
      BY <1>12, <2>5
    <3>2. k \notin dropped
      BY <1>1, <1>7, BelowIsClosed
    <3>3. k.class \notin live
      BY <2>5, <3>1, <3>2 DEF dropped, kids, Dropped
    <3>4. k.from = "asset" /\ l.from = "asset"
      BY <1>2, <2>5, <3>3, Nodes
    <3>5. k = l
      BY <1>2, <2>5, <3>4, Nodes
    <3> QED
      BY <2>5, <3>5
  <2>6. CASE n \notin kids /\ m \notin kids
    BY <1>12, <2>3, <2>6 DEF SiblingsOnce
  <2> QED
    BY <2>3, <2>4, <2>5, <2>6
<1>17. \A n \in DOMAIN then \ {new} : then[n] = new \/ (then[n] = up[n] /\ up[n] \notin gone)
  BY <1>12, <1>15
<1>18. parent \in DOMAIN up => parent \in DOMAIN then
  BY <1>3, <1>10, <1>12
<1>19. ASSUME NEW n \in DOMAIN up \ DOMAIN then
       PROVE  \/ \E m \in DOMAIN then : m.class = n.class
              \/ \E m \in DOMAIN up : /\ up[m] = new /\ m.class \in Supers(n.class) \ {n.class}
                                      /\ m.class \in live /\ new.class \in live
  <2>1. n \in gone
    BY <1>12
  <2>2. CASE n \in olds
    BY <1>4, <1>12, <2>2
  <2>3. ASSUME NEW k \in dropped, n \in Below(up, k)
        PROVE  \/ \E m \in DOMAIN then : m.class = n.class
               \/ \E m \in DOMAIN up : /\ up[m] = new /\ m.class \in Supers(n.class) \ {n.class}
                                       /\ m.class \in live /\ new.class \in live
    <3>1. PICK m \in DOMAIN up : up[m] = new /\ m.class = k.class
      BY <1>6
    <3>2. k \in kids /\ k.class \in live /\ new.class \in live
      BY <1>4, <1>5, <1>6
    <3>3. CASE n # k
      BY <1>8, <2>3, <3>1, <3>2, <3>3
    <3>4. CASE n = k
      <4>1. m \notin olds
        BY <1>3, <1>4, <1>5, <3>1, <3>2
      <4>2. \A d \in dropped : m \notin Below(up, d)
        <5> SUFFICES ASSUME NEW d \in dropped, m \in Below(up, d)
                     PROVE  FALSE
          OBVIOUS
        <5>1. up[d] \in DOMAIN up
          BY <1>4, <1>5, <1>6
        <5>2. m # d
          BY <3>1, <5>1
        <5>3. new \in Below(up, d)
          BY <1>8, <3>1, <5>2
        <5> QED
          BY <1>8, <5>3
      <4>3. m \in DOMAIN then
        BY <1>7, <1>12, <4>1, <4>2
      <4> QED
        BY <3>1, <3>4, <4>3
    <3> QED
      BY <3>3, <3>4
  <2> QED
    BY <1>7, <2>1, <2>2, <2>3
<1>20. \A n \in DOMAIN then \ {new} : then[n] \in DOMAIN up => then[n] \in DOMAIN then
  BY <1>12, <1>17
<1> QED
  BY <1>12, <1>14, <1>16, <1>17, <1>18, <1>19, <1>20
-----------------------------------------------------------------------------
(* The loop of PopulateClassHierarchy.                                     *)
LEMMA LeastIn ==
    ASSUME NEW S \in SUBSET Nat, S # {}
    PROVE  \E j \in S : \A k \in S : j <= k
<1> SUFFICES ASSUME \A j \in S : \E k \in S : k < j
             PROVE  FALSE
  OBVIOUS
<1> DEFINE T == {n \in Nat : \A j \in S : n < j}
<1>1. 0 \in T
  OBVIOUS
<1>2. \A n \in Nat : n \in T => n + 1 \in T
  <2> SUFFICES ASSUME NEW n \in T, NEW j \in S
               PROVE  n + 1 < j
    OBVIOUS
  <2>1. PICK k \in S : k < j
    OBVIOUS
  <2> QED
    BY <2>1
<1>3. \A n \in Nat : n \in T
  <2> HIDE DEF T
  <2> QED
    BY <1>1, <1>2, Induct
<1>4. PICK j \in S : TRUE
  OBVIOUS
<1> QED
  BY <1>3, <1>4

(* The classes the tree must have.                                         *)
Kept == {c \in Known : ~BelowTwoBlueprints(c)}

LEMMA KeptIsClosed ==
    ASSUME NEW c \in Kept, c # Object
    PROVE  /\ c \in Class /\ Super[c] \in Kept /\ Super[c] \in Class
           /\ c \in live \cup assets
<1>1. c \in Class /\ Supers(c) \subseteq live \cup assets /\ ~BelowTwoBlueprints(c)
  BY DEF Kept, Known
<1>2. Super[c] \in Class /\ Supers(c) = {c} \cup Supers(Super[c]) /\ Super[c] \in Supers(c)
      /\ Depth(Super[c]) = Depth(c) - 1 /\ Depth(c) \in Nat
  BY <1>1, SuperIs, SupersAre, Chains
<1>3. ~BelowTwoBlueprints(Super[c])
  <2> SUFFICES ASSUME NEW b \in Supers(Super[c]) \ {Super[c]}
               PROVE  b \in Supers(c) \ {c}
    BY <1>1 DEF BelowTwoBlueprints
  <2>1. b # c
    BY <1>2, SupersAre
  <2> QED
    BY <1>2, <2>1
<1> QED
  BY <1>1, <1>2, <1>3 DEF Kept, Known

LEMMA RemoveAtSwapIs ==
    ASSUME NEW list \in Seq(Node), NEW i \in 1..Len(list)
    PROVE  /\ RemoveAtSwap(list, i) \in Seq(Node) /\ Len(RemoveAtSwap(list, i)) = Len(list) - 1
           /\ \A j \in 1..(Len(list) - 1) :
                RemoveAtSwap(list, i)[j] = IF j = i THEN list[Len(list)] ELSE list[j]
<1> DEFINE s == [list EXCEPT ![i] = list[Len(list)]]
<1>1. /\ s \in Seq(Node) /\ Len(s) = Len(list)
      /\ \A j \in 1..Len(list) : s[j] = IF j = i THEN list[Len(list)] ELSE list[j]
  OBVIOUS
<1>2. RemoveAtSwap(list, i) = SubSeq(s, 1, Len(list) - 1)
  BY <1>1 DEF RemoveAtSwap
<1> HIDE DEF s
<1> QED
  BY <1>1, <1>2

Pending(s) == {s.list[i] : i \in 1..Len(s.list)}
Present(s) == DOMAIN s.up \cup Pending(s)

(* The invariant of the loop: the nodes are a forest whose roots are the   *)
(* nodes still in the list, siblings differ in class, every class that     *)
(* must be kept has a node, and none of those was passed over.             *)
LoopTypeInv(s) ==
    /\ s = [up |-> s.up, list |-> s.list, at |-> s.at]
    /\ s.list \in Seq(Node) /\ s.at \in 1..(Len(s.list) + 1)
    /\ \A i, j \in 1..Len(s.list) : s.list[i] = s.list[j] => i = j
LoopInv(s) ==
    /\ LoopTypeInv(s)
    /\ IsTree(s.up) /\ SiblingsOnce(s.up)
    /\ Root \in Pending(s)
    /\ \A n \in Pending(s) \ {Root} : n.from = "asset" /\ n.class \in assets
    /\ \A n \in Pending(s) : n \notin DOMAIN s.up
    /\ \A n \in DOMAIN s.up :
        /\ n.from = "class" => n.class \in live
        /\ n.from = "asset" => n.class \in assets
        /\ s.up[n] \in Present(s)
        /\ s.up[n] \in Pending(s) \ {Root} => n.from = "asset"
    /\ \A c \in Kept \ {Object} : \E n \in Present(s) : n.class = c
    /\ \A j \in 1..(s.at - 1) : s.list[j] # Root => s.list[j].class \notin Kept

LEMMA PresentBelowPending ==
    ASSUME NEW s, LoopInv(s), NEW m \in Present(s)
    PROVE  m \in Node /\ \E r \in Pending(s) : m \in Below(s.up, r)
<1>1. IsFiniteSet(DOMAIN s.up) /\ DOMAIN s.up \subseteq Node
  BY TreeIsFinite DEF LoopInv, IsTree
<1>2. Pending(s) \subseteq Node
  BY DEF LoopInv, LoopTypeInv, Pending
<1> DEFINE S == {c \in Class : \A k \in Present(s) :
                    k.class = c => \E r \in Pending(s) : k \in Below(s.up, r)}
<1>3. ASSUME NEW c \in Class, c # Object => Super[c] \in S
      PROVE  c \in S
  <2> SUFFICES ASSUME NEW k \in Present(s), k.class = c
               PROVE  \E r \in Pending(s) : k \in Below(s.up, r)
    OBVIOUS
  <2>1. CASE k \in Pending(s)
    BY <1>1, <2>1, BelowIsClosed
  <2>2. CASE k \in DOMAIN s.up
    <3>1. c # Object /\ s.up[k].class = Super[c] /\ s.up[k] \in Present(s)
      BY <2>2 DEF LoopInv, IsTree
    <3>2. PICK r \in Pending(s) : s.up[k] \in Below(s.up, r)
      BY <1>3, <3>1
    <3> QED
      BY <1>1, <2>2, <3>2, BelowIsClosed
  <2> QED
    BY <2>1, <2>2 DEF Present
<1>4. Class \subseteq S
  <2> HIDE DEF S
  <2> QED
    BY <1>3, ChainInduct
<1>5. m \in Node /\ m.class \in Class
  BY <1>1, <1>2, Nodes DEF Present
<1> QED
  BY <1>4, <1>5

LEMMA LinkedKeepsLoopInv ==
    ASSUME assets \subseteq Blueprints, NEW s, LoopInv(s), s.at <= Len(s.list)
    PROVE  /\ LoopInv(Linked(s))
           /\ Len(Linked(s).list) - Linked(s).at = Len(s.list) - s.at - 1
<1> DEFINE n == s.list[s.at]
<1>1. /\ s = [up |-> s.up, list |-> s.list, at |-> s.at] /\ s.list \in Seq(Node)
      /\ s.at \in 1..Len(s.list) /\ DOMAIN s.list = 1..Len(s.list) /\ Len(s.list) \in Nat
      /\ n \in Pending(s) /\ n \in Node /\ Pending(s) \subseteq Node
  BY DEF LoopInv, LoopTypeInv, Pending
<1>2. /\ IsTree(s.up) /\ IsFiniteSet(DOMAIN s.up) /\ DOMAIN s.up \subseteq Node
  BY TreeIsFinite DEF LoopInv, IsTree
<1>3. n # Root => /\ n.from = "asset" /\ n.class \in assets /\ n.class \in Blueprints
                  /\ n.class # Object /\ n # ClassNode(Object)
  BY <1>1, ClassHierarchyAssumption DEF LoopInv, Root
<1>4. CASE Holders(s) = {}
  <2>1. Linked(s) = [up |-> s.up, list |-> s.list, at |-> s.at + 1]
    <3>1. Linked(s) = [s EXCEPT !.at = @ + 1]
      BY <1>4, Zenon DEF Linked
    <3> QED
      BY <1>1, <3>1
  <2> DEFINE then == Linked(s)
  <2>2. /\ then = [up |-> then.up, list |-> then.list, at |-> then.at]
        /\ then.up = s.up /\ then.list = s.list /\ then.at = s.at + 1
        /\ Pending(then) = Pending(s) /\ Present(then) = Present(s)
    BY <2>1 DEF Pending, Present
  <2>3. n = Root \/ n.class \notin Kept
    <3> SUFFICES ASSUME n # Root, n.class \in Kept
                 PROVE  FALSE
      OBVIOUS
    <3>1. Super[n.class] \in Kept
      BY <1>3, KeptIsClosed
    <3>2. PICK m \in Present(s) : m.class = Super[n.class]
      <4>1. CASE Super[n.class] = Object
        BY <4>1, Nodes DEF LoopInv, Present
      <4>2. CASE Super[n.class] # Object
        BY <3>1, <4>2 DEF LoopInv
      <4> QED
        BY <4>1, <4>2
    <3>3. PICK r \in Pending(s) : m \in Below(s.up, r)
      BY PresentBelowPending
    <3>4. PICK j \in 1..Len(s.list) : r = s.list[j]
      BY DEF Pending
    <3>5. m \in FindParent(s.up, s.list[j], n)
      BY <3>2, <3>3, <3>4 DEF FindParent
    <3> QED
      BY <1>1, <1>3, <1>4, <3>4, <3>5 DEF Holders
  <2>4. LoopTypeInv(then)
    BY <1>1, <2>2 DEF LoopInv, LoopTypeInv
  <2>5. \A j \in 1..(then.at - 1) : then.list[j] # Root => then.list[j].class \notin Kept
    <3> TAKE j \in 1..(then.at - 1)
    <3>1. CASE j = s.at
      BY <2>2, <2>3, <3>1
    <3>2. CASE j # s.at
      <4>1. j \in 1..(s.at - 1)
        BY <1>1, <2>2, <3>2
      <4> QED
        BY <2>2, <4>1 DEF LoopInv
    <3> QED
      BY <3>1, <3>2
  <2> HIDE DEF then, n
  <2>6. LoopInv(then)
    BY <2>2, <2>4, <2>5 DEF LoopInv
  <2> QED
    BY <1>1, <2>2, <2>6 DEF then
<1>5. CASE Holders(s) # {}
  <2> DEFINE first == CHOOSE j \in Holders(s) : \A k \in Holders(s) : j <= k
             parent == CHOOSE m \in FindParent(s.up, s.list[first], n) : TRUE
             new == AddUniqueChild(s.up, parent, n)
             rest == RemoveAtSwap(s.list, s.at)
             then == Linked(s)
  <2>1. n # Root
    BY <1>5 DEF Holders, Root
  <2>2. first \in Holders(s)
    <3>1. Holders(s) \in SUBSET Nat
      BY <1>1 DEF Holders
    <3> QED
      BY <1>5, <3>1, LeastIn
  <2>3. first \in 1..Len(s.list) /\ FindParent(s.up, s.list[first], n) # {}
    BY <1>1, <2>2 DEF Holders
  <2>4. parent \in FindParent(s.up, s.list[first], n)
    BY <2>3
  <2>5. then = [up |-> new, list |-> rest, at |-> s.at]
    <3>1. then = [s EXCEPT !.up = new, !.list = rest]
      <4>1. then = [s EXCEPT !.up = AddUniqueChild(@, parent, n), !.list = RemoveAtSwap(@, s.at)]
        BY <1>5, Zenon DEF Linked
      <4> HIDE DEF then, parent, n
      <4> QED
        BY <1>1, <4>1
    <3> HIDE DEF then, new, rest
    <3> QED
      BY <1>1, <3>1
  <2> HIDE DEF first, parent
  <2>6. /\ parent.class = Super[n.class] /\ parent \in Node
        /\ parent \in Present(s) /\ parent # n
    <3>1. s.list[first] \in Pending(s) /\ s.list[first] \in Node
      BY <1>1, <2>3 DEF Pending
    <3>2. parent.class = Super[n.class] /\ parent \in Below(s.up, s.list[first])
      BY <2>4 DEF FindParent
    <3>3. parent \in Node /\ parent \in Present(s)
      BY <1>2, <3>1, <3>2, BelowHasClass, BelowGoesUp DEF Present
    <3>4. Depth(Super[n.class]) = Depth(n.class) - 1 /\ Depth(n.class) \in Nat
      BY <1>1, <1>3, <2>1, Nodes, SuperIs, Chains
    <3> QED
      BY <3>2, <3>3, <3>4
  <2> HIDE DEF n
  <2>7. n \notin DOMAIN s.up /\ \A m \in DOMAIN s.up : m.from = "class" => m.class \in live
    BY <1>1 DEF LoopInv
  <2>8. /\ IsTree(new) /\ SiblingsOnce(new)
        /\ n \in DOMAIN new /\ new[n] = parent /\ DOMAIN new \subseteq DOMAIN s.up \cup {n}
        /\ \A m \in DOMAIN new \ {n} : new[m] = n \/ new[m] = s.up[m]
        /\ \A m \in DOMAIN new \ {n} : new[m] \in DOMAIN s.up => new[m] \in DOMAIN new
        /\ parent \in DOMAIN s.up => parent \in DOMAIN new
        /\ \A m \in DOMAIN s.up \ DOMAIN new :
             \/ \E k \in DOMAIN new : k.class = m.class
             \/ \E k \in DOMAIN s.up : /\ s.up[k] = n /\ k.class \in Supers(m.class) \ {m.class}
                                       /\ k.class \in live /\ n.class \in live
    <3>1. SiblingsOnce(s.up)
      BY DEF LoopInv
    <3> QED
      BY <1>1, <1>2, <1>3, <2>1, <2>6, <2>7, <3>1, UniqueChild
  <2> HIDE DEF new
  <2>9. /\ rest \in Seq(Node) /\ Len(rest) = Len(s.list) - 1
        /\ \A j \in 1..(Len(s.list) - 1) :
             rest[j] = IF j = s.at THEN s.list[Len(s.list)] ELSE s.list[j]
    BY <1>1, RemoveAtSwapIs
  <2> HIDE DEF rest
  <2>10. /\ then = [up |-> then.up, list |-> then.list, at |-> then.at]
         /\ then.up = new /\ then.list = rest /\ then.at = s.at
    BY <2>5
  <2> HIDE DEF then
  <2>11. \A i, j \in 1..Len(s.list) : s.list[i] = s.list[j] => i = j
    BY DEF LoopInv, LoopTypeInv
  <2>12. \A i, j \in 1..Len(rest) : rest[i] = rest[j] => i = j
    <3> SUFFICES ASSUME NEW i \in 1..Len(rest), NEW j \in 1..Len(rest), rest[i] = rest[j]
                 PROVE  i = j
      OBVIOUS
    <3> DEFINE f(x) == IF x = s.at THEN Len(s.list) ELSE x
    <3>1. /\ f(i) \in 1..Len(s.list) /\ f(j) \in 1..Len(s.list)
          /\ rest[i] = s.list[f(i)] /\ rest[j] = s.list[f(j)]
      BY <1>1, <2>9
    <3>2. f(i) = f(j)
      BY <2>11, <3>1
    <3>3. i # Len(s.list) /\ j # Len(s.list)
      BY <1>1, <2>9
    <3> QED
      BY <3>2, <3>3
  <2>13. Pending(then) = Pending(s) \ {n}
    <3>1. \A j \in 1..Len(rest) : rest[j] \in Pending(s) \ {n}
      <4> TAKE j \in 1..Len(rest)
      <4>1. j \in 1..(Len(s.list) - 1)
        BY <2>9
      <4>2. rest[j] = IF j = s.at THEN s.list[Len(s.list)] ELSE s.list[j]
        BY <2>9, <4>1
      <4>3. CASE j = s.at
        <5>1. Len(s.list) \in 1..Len(s.list) /\ Len(s.list) # s.at
          BY <1>1, <4>1, <4>3
        <5> QED
          BY <1>1, <2>11, <4>2, <4>3, <5>1 DEF Pending, n
      <4>4. CASE j # s.at
        BY <1>1, <2>11, <4>1, <4>2, <4>4 DEF Pending, n
      <4> QED
        BY <4>3, <4>4
    <3>2. ASSUME NEW i \in 1..Len(s.list), s.list[i] # n
          PROVE  \E j \in 1..Len(rest) : rest[j] = s.list[i]
      <4>1. i # s.at
        BY <3>2 DEF n
      <4>2. CASE i = Len(s.list)
        <5>1. s.at \in 1..(Len(s.list) - 1)
          BY <1>1, <4>1, <4>2
        <5> QED
          BY <2>9, <4>2, <5>1
      <4>3. CASE i # Len(s.list)
        <5>1. i \in 1..(Len(s.list) - 1)
          BY <1>1, <4>3
        <5> QED
          BY <2>9, <4>1, <5>1
      <4> QED
        BY <4>2, <4>3
    <3> QED
      BY <2>10, <3>1, <3>2 DEF Pending
  <2>14. LoopTypeInv(then)
    <3>1. s.at \in 1..(Len(rest) + 1)
      BY <1>1, <2>9
    <3> QED
      BY <2>9, <2>10, <2>12, <3>1 DEF LoopTypeInv
  <2>15. \A m \in Pending(then) : m \notin DOMAIN then.up
    BY <2>8, <2>10, <2>13 DEF LoopInv
  <2>16. Root \in Pending(then)
         /\ \A m \in Pending(then) \ {Root} : m.from = "asset" /\ m.class \in assets
    BY <2>1, <2>13 DEF LoopInv
  <2>17. \A m \in Present(s) : m \in DOMAIN s.up \/ m = n \/ m \in Pending(then)
    BY <2>13 DEF Present
  <2>18. ASSUME NEW m \in DOMAIN new
         PROVE  /\ m.from = "class" => m.class \in live
                /\ m.from = "asset" => m.class \in assets
                /\ new[m] \in Present(then)
                /\ new[m] \in Pending(then) \ {Root} => m.from = "asset"
    <3>1. CASE m = n
      BY <1>3, <2>1, <2>6, <2>8, <2>10, <2>17, <3>1 DEF Present
    <3>2. CASE m # n
      <4>1. /\ m \in DOMAIN s.up
            /\ m.from = "class" => m.class \in live
            /\ m.from = "asset" => m.class \in assets
            /\ s.up[m] \in Present(s)
            /\ s.up[m] \in Pending(s) \ {Root} => m.from = "asset"
        BY <2>8, <3>2 DEF LoopInv
      <4>2. new[m] \in Present(then)
        BY <2>8, <2>10, <2>17, <3>2, <4>1 DEF Present
      <4>3. new[m] \in Pending(then) \ {Root} => m.from = "asset"
        BY <2>8, <2>13, <3>2, <4>1
      <4> QED
        BY <4>1, <4>2, <4>3
    <3> QED
      BY <3>1, <3>2
  <2>19. ASSUME NEW c \in Kept \ {Object}
         PROVE  \E m \in Present(then) : m.class = c
    <3>1. PICK m \in Present(s) : m.class = c
      BY DEF LoopInv
    <3>2. CASE m = n \/ m \in Pending(then) \/ m \in DOMAIN new
      BY <2>8, <2>10, <3>1, <3>2 DEF Present
    <3>3. CASE m \in DOMAIN s.up \ DOMAIN new
      <4>1. CASE \E k \in DOMAIN new : k.class = m.class
        BY <2>10, <3>1, <4>1 DEF Present
      <4>2. ASSUME NEW k \in DOMAIN s.up, s.up[k] = n, k.class \in Supers(m.class) \ {m.class},
                   k.class \in live, n.class \in live
            PROVE  FALSE
        <5>1. k.from = "asset" /\ k.class \in Blueprints
          BY <1>1, <2>1, <4>2 DEF LoopInv
        <5>2. Super[k.class] = n.class
          BY <1>2, <4>2 DEF IsTree
        <5>3. BelowTwoBlueprints(c)
          BY <1>3, <2>1, <3>1, <4>2, <5>1, <5>2 DEF BelowTwoBlueprints
        <5> QED
          BY <5>3 DEF Kept
      <4> QED
        BY <2>8, <3>3, <4>1, <4>2
    <3> QED
      BY <2>17, <3>2, <3>3
  <2>20. \A j \in 1..(then.at - 1) : then.list[j] # Root => then.list[j].class \notin Kept
    <3> SUFFICES ASSUME NEW j \in 1..(s.at - 1)
                 PROVE  rest[j] = s.list[j]
      BY <2>10 DEF LoopInv
    <3>1. j \in 1..(Len(s.list) - 1) /\ j # s.at
      BY <1>1
    <3> QED
      BY <2>9, <3>1
  <2>21. LoopInv(then)
    BY <2>8, <2>10, <2>14, <2>15, <2>16, <2>18, <2>19, <2>20 DEF LoopInv
  <2> QED
    BY <1>1, <2>9, <2>10, <2>21 DEF then
<1> QED
  BY <1>4, <1>5
-----------------------------------------------------------------------------
(* Where the loop starts: the tree of the classes in memory, and the nodes *)
(* of all assets in the list.                                              *)
StartOf(order) ==
    [up |-> ClassTree,
     list |-> Append([i \in 1..Len(order) |-> AssetNode(order[i])], ClassNode(Object)),
     at |-> 1]

LEMMA StartLoopInv ==
    ASSUME HierarchyIInv, NEW order \in SetToSeqs(assets)
    PROVE  LoopInv(StartOf(order)) /\ Len(StartOf(order).list) \in Nat
<1> DEFINE s == StartOf(order)
           num == Cardinality(assets)
           nodes == [i \in 1..Len(order) |-> AssetNode(order[i])]
<1>1. /\ assets \subseteq Blueprints /\ assets \subseteq Class /\ Object \notin assets
      /\ live \subseteq Class /\ Object \in live
      /\ \A c \in live : Supers(c) \subseteq live
  BY ClassHierarchyAssumption DEF HierarchyIInv
<1>2. IsFiniteSet(assets) /\ num \in Nat
  <2>1. IsFiniteSet(assets)
    BY <1>1, ClassHierarchyAssumption, FS_Subset
  <2> QED
    BY <2>1, FS_CardinalityType
<1>3. order \in [1..num -> assets] /\ \A i, j \in 1..num : i # j => order[i] # order[j]
  BY DEF SetToSeqs
<1>4. Len(order) = num /\ order \in Seq(assets)
  BY <1>2, <1>3
<1>5. \A c \in assets : \E i \in 1..num : order[i] = c
  <2>1. order \in Injection(1..num, assets)
    BY <1>3 DEF Injection, IsInjective
  <2>2. Cardinality(1..num) = num
    BY <1>2, FS_Interval
  <2>3. order \in Surjection(1..num, assets)
    BY <1>2, <2>1, <2>2, FS_Injection
  <2> QED
    BY <2>3 DEF Surjection
<1>6. /\ nodes \in Seq(Node) /\ Len(nodes) = num
      /\ \A i \in 1..num : nodes[i] = AssetNode(order[i])
  <2>1. nodes \in [1..num -> Node]
    BY <1>1, <1>3, <1>4, Nodes
  <2> HIDE DEF nodes
  <2>2. nodes \in Seq(Node) /\ Len(nodes) = num
    BY <1>2, <2>1
  <2> QED
    BY <1>4, <2>2 DEF nodes
<1>7. /\ s = [up |-> s.up, list |-> s.list, at |-> s.at]
      /\ s.up = ClassTree /\ s.list = Append(nodes, Root) /\ s.at = 1
  BY DEF StartOf, Root
<1> HIDE DEF s, nodes
<1>8. /\ s.list \in Seq(Node) /\ Len(s.list) = num + 1
      /\ \A i \in 1..num : s.list[i] = AssetNode(order[i])
      /\ s.list[num + 1] = Root
  <2>1. s.list = Append(nodes, Root) /\ Root \in Node
    BY <1>7, Nodes
  <2>2. /\ Append(nodes, Root) \in Seq(Node) /\ Len(Append(nodes, Root)) = Len(nodes) + 1
        /\ \A i \in 1..Len(nodes) : Append(nodes, Root)[i] = nodes[i]
        /\ Append(nodes, Root)[Len(nodes) + 1] = Root
    BY <1>6, <2>1
  <2> QED
    BY <1>6, <2>1, <2>2
<1>9. \A i \in 1..num : /\ s.list[i].from = "asset" /\ s.list[i].class = order[i]
                        /\ s.list[i].class \in assets /\ s.list[i] # Root
  BY <1>1, <1>3, <1>8, Nodes
<1>10. \A i \in 1..(num + 1) : i \in 1..num \/ i = num + 1
  BY <1>2
<1>11. LoopTypeInv(s)
  <2>1. \A i, j \in 1..(num + 1) : s.list[i] = s.list[j] => i = j
    BY <1>3, <1>8, <1>9, <1>10
  <2> QED
    BY <1>2, <1>7, <1>8, <2>1 DEF LoopTypeInv
<1>12. /\ Root \in Pending(s)
       /\ \A n \in Pending(s) \ {Root} : n.from = "asset" /\ n.class \in assets
       /\ \A c \in assets : \E n \in Pending(s) : n.class = c
  <2>1. num + 1 \in 1..(num + 1) /\ 1..num \subseteq 1..(num + 1)
    BY <1>2
  <2>2. Pending(s) = {s.list[i] : i \in 1..(num + 1)}
    BY <1>8 DEF Pending
  <2> QED
    BY <1>5, <1>8, <1>9, <1>10, <2>1, <2>2
<1>13. /\ DOMAIN s.up = {ClassNode(c) : c \in live \ {Object}}
       /\ \A c \in live \ {Object} : s.up[ClassNode(c)] = ClassNode(Super[c])
       /\ s.up = [n \in DOMAIN s.up |-> s.up[n]]
  BY <1>7, <1>1, Nodes DEF ClassTree
<1>14. \A c \in live \ {Object} : Super[c] \in live
  BY <1>1, SuperIs, SupersAre
<1>15. \A n \in DOMAIN s.up : /\ n \in Node /\ n.from = "class" /\ n.class \in live \ {Object}
                              /\ n = ClassNode(n.class)
                              /\ s.up[n] = ClassNode(Super[n.class])
  BY <1>1, <1>13, Nodes
<1>16. IsTree(s.up) /\ SiblingsOnce(s.up)
  <2>1. s.up \in [DOMAIN s.up -> Node]
    <3> DEFINE f == s.up
    <3>1. f = [n \in DOMAIN f |-> f[n]]
      BY <1>13
    <3>2. \A n \in DOMAIN f : f[n] \in Node
      BY <1>1, <1>14, <1>15, Nodes
    <3> HIDE DEF f
    <3>3. f \in [DOMAIN f -> Node]
      BY <3>1, <3>2
    <3> QED
      BY <3>3 DEF f
  <2> QED
    BY <1>1, <1>14, <1>15, <2>1, Nodes DEF IsTree, SiblingsOnce
<1>17. \A n \in Pending(s) : n \notin DOMAIN s.up
  BY <1>12, <1>15, Nodes
<1>18. ASSUME NEW n \in DOMAIN s.up
       PROVE  /\ n.from = "class" => n.class \in live
              /\ n.from = "asset" => n.class \in assets
              /\ s.up[n] \in Present(s)
              /\ s.up[n] \in Pending(s) \ {Root} => n.from = "asset"
  <2>1. Super[n.class] \in live /\ s.up[n] = ClassNode(Super[n.class]) /\ s.up[n].from = "class"
    BY <1>1, <1>14, <1>15, Nodes
  <2>2. s.up[n] \in Present(s)
    BY <1>12, <1>13, <2>1 DEF Present, Root
  <2> QED
    BY <1>12, <1>15, <2>1, <2>2
<1>19. ASSUME NEW c \in Kept \ {Object}
       PROVE  \E n \in Present(s) : n.class = c
  <2>1. c \in live \cup assets
    BY KeptIsClosed
  <2>2. CASE c \in live
    BY <1>1, <1>13, <2>2, Nodes DEF Present
  <2> QED
    BY <1>12, <2>1, <2>2 DEF Present
<1>20. \A j \in 1..(s.at - 1) : FALSE
  BY <1>7
<1>21. LoopInv(s)
  BY <1>11, <1>12, <1>16, <1>17, <1>18, <1>19, <1>20 DEF LoopInv
<1> QED
  BY <1>2, <1>8, <1>21 DEF s

(* The turns of the loop.                                                  *)
Turns(f, start, num) ==
    f = [turns \in 0..num |-> IF turns = 0 THEN start ELSE Linked(f[turns - 1])]

LEMMA TurnsIs ==
    ASSUME NEW f, NEW start, NEW num \in Nat, Turns(f, start, num)
    PROVE  f[0] = start /\ \A n \in Nat : n < num => f[n + 1] = Linked(f[n])
<1>1. \A n \in 0..num : f[n] = IF n = 0 THEN start ELSE Linked(f[n - 1])
  BY Zenon DEF Turns
<1>2. 0 \in 0..num
  OBVIOUS
<1>3. ASSUME NEW n \in Nat, n < num
      PROVE  f[n + 1] = Linked(f[n])
  <2>1. n + 1 \in 0..num /\ n + 1 # 0 /\ (n + 1) - 1 = n
    BY <1>3
  <2> QED
    BY <1>1, <2>1, Zenon
<1> QED
  BY <1>1, <1>2, <1>3

LEMMA TurnsExist ==
    ASSUME NEW start
    PROVE  \A num \in Nat : \E f : Turns(f, start, num)
<1> DEFINE S == {num \in Nat : \E f : Turns(f, start, num)}
<1>1. 0 \in S
  <2> DEFINE f == [n \in 0..0 |-> start]
  <2>1. Turns(f, start, 0)
    BY DEF Turns
  <2> QED
    BY <2>1
<1>2. ASSUME NEW num \in Nat, num \in S
      PROVE  num + 1 \in S
  <2>1. PICK f : Turns(f, start, num)
    BY <1>2
  <2> DEFINE g == [n \in 0..(num + 1) |-> IF n = num + 1 THEN Linked(f[num]) ELSE f[n]]
  <2>2. f[0] = start /\ \A n \in Nat : n < num => f[n + 1] = Linked(f[n])
    BY <2>1, TurnsIs
  <2>3. ASSUME NEW n \in 0..(num + 1)
        PROVE  g[n] = IF n = 0 THEN start ELSE Linked(g[n - 1])
    <3>1. CASE n = 0
      BY <2>2, <3>1
    <3>2. CASE n # 0
      <4>1. n - 1 \in Nat /\ n - 1 \in 0..(num + 1) /\ n - 1 # num + 1 /\ (n - 1) + 1 = n
        BY <3>2
      <4>2. g[n - 1] = f[n - 1]
        BY <4>1
      <4>3. g[n] = Linked(f[n - 1])
        <5>1. CASE n = num + 1
          <6>1. n - 1 = num
            BY <5>1
          <6> QED
            BY <5>1, <6>1
        <5>2. CASE n # num + 1
          <6>1. n - 1 < num
            BY <5>2
          <6>2. f[(n - 1) + 1] = Linked(f[n - 1])
            BY <2>2, <4>1, <6>1
          <6> QED
            BY <4>1, <5>2, <6>2
        <5> QED
          BY <5>1, <5>2
      <4> HIDE DEF g
      <4> QED
        BY <3>2, <4>2, <4>3
    <3> QED
      BY <3>1, <3>2
  <2>4. g = [n \in 0..(num + 1) |-> g[n]]
    OBVIOUS
  <2> HIDE DEF g
  <2>5. Turns(g, start, num + 1)
    BY <2>3, <2>4, Zenon DEF Turns
  <2> QED
    BY <2>5
<1> HIDE DEF S
<1>3. \A num \in Nat : num \in S
  BY <1>1, <1>2, Induct
<1> QED
  BY <1>3 DEF S

(* What the loop ends with.                                                *)
Ended(s) == LoopInv(s) /\ s.at = Len(s.list) + 1
LEMMA PopulatedIs ==
    ASSUME HierarchyIInv, NEW order \in SetToSeqs(assets)
    PROVE  \E s : /\ Ended(s)
                  /\ Populated(order) = Without(s.up, DOMAIN s.up \ Below(s.up, Root))
<1> DEFINE start == StartOf(order)
           num == Len(start.list)
           f == CHOOSE g : Turns(g, start, num)
           s == f[num]
<1>1. LoopInv(start) /\ num \in Nat /\ start.at = 1 /\ assets \subseteq Blueprints
  BY StartLoopInv DEF StartOf, HierarchyIInv
<1>2. Populated(order) = Without(s.up, DOMAIN s.up \ Below(s.up, Root))
  BY Zenon DEF Populated, StartOf, Turns, Root
<1> HIDE DEF start, num
<1>3. Turns(f, start, num)
  BY <1>1, TurnsExist
<1> HIDE DEF f
<1>4. f[0] = start /\ \A n \in Nat : n < num => f[n + 1] = Linked(f[n])
  BY <1>1, <1>3, TurnsIs
<1> DEFINE S == {n \in Nat : n <= num =>
                    LoopInv(f[n]) /\ Len(f[n].list) - f[n].at = num - 1 - n}
<1>5. 0 \in S
  BY <1>1, <1>4 DEF num
<1>6. ASSUME NEW n \in Nat, n \in S
      PROVE  n + 1 \in S
  <2> SUFFICES ASSUME n + 1 <= num
               PROVE  /\ LoopInv(f[n + 1])
                      /\ Len(f[n + 1].list) - f[n + 1].at = num - 1 - (n + 1)
    OBVIOUS
  <2>1. n <= num /\ n < num
    BY <1>1
  <2>2. /\ f[n + 1] = Linked(f[n]) /\ LoopInv(f[n])
        /\ Len(f[n].list) - f[n].at = num - 1 - n
    BY <1>4, <1>6, <2>1
  <2>3. Len(f[n].list) \in Nat /\ f[n].at \in Nat
    BY <2>2 DEF LoopInv, LoopTypeInv
  <2>4. f[n].at <= Len(f[n].list)
    BY <1>1, <2>1, <2>2, <2>3
  <2> QED
    BY <1>1, <2>2, <2>3, <2>4, LinkedKeepsLoopInv
<1>7. \A n \in Nat : n \in S
  <2> HIDE DEF S
  <2> QED
    BY <1>5, <1>6, Induct
<1>8. LoopInv(s) /\ Len(s.list) - s.at = num - 1 - num
  BY <1>1, <1>7
<1>9. Len(s.list) \in Nat /\ s.at \in Nat
  BY <1>8 DEF LoopInv, LoopTypeInv
<1>10. Ended(s)
  BY <1>1, <1>8, <1>9 DEF Ended
<1> HIDE DEF s
<1> QED
  BY <1>2, <1>10

(* Up from a class that is kept there are only classes that are, the roots *)
(* left in the list are none of them: its node is below the root.          *)
LEMMA EndedKeeps ==
    ASSUME NEW s, Ended(s)
    PROVE  \A c \in Kept : \E n \in Below(s.up, Root) : n.class = c
<1>1. /\ IsFiniteSet(DOMAIN s.up) /\ IsTree(s.up) /\ LoopInv(s)
      /\ s.at = Len(s.list) + 1 /\ Len(s.list) \in Nat
  BY TreeIsFinite DEF Ended, LoopInv, IsTree, LoopTypeInv
<1>2. \A n \in Pending(s) : n # Root => n.class \notin Kept
  <2>1. (1..(s.at - 1)) = 1..Len(s.list)
    BY <1>1
  <2> QED
    BY <1>1, <2>1 DEF LoopInv, Pending
<1>3. ASSUME NEW n \in Present(s), n.class \in Kept
      PROVE  n \in Below(s.up, Root)
  <2> DEFINE S == {c \in Class : \A k \in Present(s) :
                      k.class = c /\ c \in Kept => k \in Below(s.up, Root)}
  <2>1. ASSUME NEW c \in Class, c # Object => Super[c] \in S
        PROVE  c \in S
    <3> SUFFICES ASSUME NEW k \in Present(s), k.class = c, c \in Kept
                 PROVE  k \in Below(s.up, Root)
      OBVIOUS
    <3>1. CASE k \in Pending(s)
      BY <1>1, <1>2, <3>1, BelowIsClosed
    <3>2. CASE k \in DOMAIN s.up
      <4>1. c # Object /\ s.up[k].class = Super[c] /\ s.up[k] \in Present(s)
        BY <1>1, <3>2 DEF IsTree, LoopInv
      <4>2. Super[c] \in Kept
        BY <4>1, KeptIsClosed
      <4>3. s.up[k] \in Below(s.up, Root)
        BY <2>1, <4>1, <4>2
      <4> QED
        BY <1>1, <3>2, <4>3, BelowIsClosed
    <3> QED
      BY <3>1, <3>2 DEF Present
  <2>2. Class \subseteq S
    <3> HIDE DEF S
    <3> QED
      BY <2>1, ChainInduct
  <2>3. n.class \in Class
    BY <1>3 DEF Kept, Known
  <2> QED
    BY <1>3, <2>2, <2>3
<1>4. ASSUME NEW c \in Kept
      PROVE  \E n \in Below(s.up, Root) : n.class = c
  <2>1. CASE c = Object
    BY <1>1, <2>1, BelowIsClosed, Nodes
  <2>2. CASE c # Object
    <3>1. PICK n \in Present(s) : n.class = c
      BY <1>1, <2>2 DEF LoopInv
    <3> QED
      BY <1>3, <3>1
  <2> QED
    BY <2>1, <2>2
<1> QED
  BY <1>4

(* A tree the editor may show.                                             *)
IsWhole(up) ==
    /\ IsTree(up) /\ DOMAIN up \subseteq Below(up, Root)
    /\ \A n, m \in DOMAIN up : n.class = m.class => n = m

LEMMA InTreeIs ==
    ASSUME NEW up, IsWhole(up)
    PROVE  InTree(up) = {Object} \cup {n.class : n \in DOMAIN up}
<1>1. IsFiniteSet(DOMAIN up)
  BY TreeIsFinite DEF IsWhole, IsTree
<1>2. Below(up, Root) \subseteq DOMAIN up \cup {Root}
  BY <1>1, BelowGoesUp
<1>3. Root \in Below(up, Root)
  BY <1>1, BelowIsClosed
<1> HIDE DEF Root
<1>4. Below(up, Root) = DOMAIN up \cup {Root}
  BY <1>2, <1>3 DEF IsWhole
<1>5. InTree(up) = {n.class : n \in Below(up, Root)}
  BY DEF InTree, Root
<1> QED
  BY <1>4, <1>5, Nodes

LEMMA PopulatedTree ==
    ASSUME HierarchyIInv, NEW order \in SetToSeqs(assets)
    PROVE  /\ IsWhole(Populated(order))
           /\ InTree(Populated(order)) \subseteq Known
           /\ Kept \subseteq InTree(Populated(order))
<1>1. PICK s : Ended(s) /\ Populated(order) = Without(s.up, DOMAIN s.up \ Below(s.up, Root))
  BY PopulatedIs
<1> DEFINE up == s.up
           gone == DOMAIN up \ Below(up, Root)
           rest == Populated(order)
<1>2. /\ IsTree(up) /\ SiblingsOnce(up) /\ IsFiniteSet(DOMAIN up)
      /\ \A n \in DOMAIN up : n.class \in live \cup assets
  BY <1>1, TreeIsFinite, Nodes DEF Ended, LoopInv, IsTree
<1>3. rest = Without(up, gone)
  BY <1>1
<1> HIDE DEF up
<1>4. \A k \in DOMAIN up : up[k] \in gone => k \in gone
  <2> SUFFICES ASSUME NEW k \in DOMAIN up, up[k] \in gone, k \in Below(up, Root)
               PROVE  FALSE
    OBVIOUS
  <2>1. k # Root
    BY <1>2, Nodes DEF IsTree
  <2> QED
    BY <1>2, <2>1, BelowGoesUp
<1> HIDE DEF rest, gone
<1>5. /\ IsTree(rest) /\ DOMAIN rest = DOMAIN up \ gone /\ SiblingsOnce(rest)
      /\ Below(up, Root) \subseteq gone \cup Below(rest, Root)
  BY <1>2, <1>3, <1>4, Pruned
<1>6. DOMAIN rest \subseteq Below(rest, Root)
  BY <1>5 DEF gone
<1>7. IsWhole(rest)
  BY <1>5, <1>6, OnceBelowRoot DEF IsWhole
<1>8. InTree(rest) = {Object} \cup {n.class : n \in DOMAIN rest}
  BY <1>7, InTreeIs
<1>9. InTree(rest) \subseteq Known
  <2> DEFINE T == {n \in Node : n.class \in Known}
  <2>1. Object \in Known
    BY RootChain, ClassHierarchyAssumption DEF HierarchyIInv, Known
  <2>2. ASSUME NEW k \in DOMAIN rest, rest[k] \in T
        PROVE  k \in T
    <3>1. k \in Node /\ k.class \in Class \ {Object} /\ rest[k].class = Super[k.class]
      BY <1>5, Nodes DEF IsTree
    <3>2. Supers(k.class) = {k.class} \cup Supers(rest[k].class) /\ k.class \in live \cup assets
      BY <1>2, <1>5, <3>1, SuperIs
    <3> QED
      BY <2>2, <3>1, <3>2 DEF Known
  <2>3. Root \in T /\ IsFiniteSet(DOMAIN rest)
    BY <1>5, <2>1, Nodes, TreeIsFinite DEF IsTree
  <2>4. Below(rest, Root) \subseteq T
    <3> HIDE DEF T
    <3> QED
      BY <2>2, <2>3, BelowIsLeast
  <2> QED
    BY <2>4 DEF InTree, Root
<1>10. ASSUME NEW c \in Kept
       PROVE  c \in InTree(rest)
  <2>1. PICK n \in Below(up, Root) : n.class = c
    BY <1>1, EndedKeeps DEF up
  <2>2. n \in Below(rest, Root)
    BY <1>5, <2>1 DEF gone
  <2> QED
    BY <2>1, <2>2 DEF InTree, Root
<1> QED
  BY <1>7, <1>9, <1>10 DEF rest
-----------------------------------------------------------------------------
(* The steps of the hierarchy.                                             *)
IsWorld ==
    /\ assets \subseteq Blueprints /\ live \subseteq Class
    /\ Class \ Blueprints \subseteq live /\ \A c \in live : Supers(c) \subseteq live
    /\ {built, wanted, open, refresh} \subseteq BOOLEAN

LEMMA HierarchyIInvIs == HierarchyIInv <=> IsWorld /\ IsWhole(tree)
BY DEF HierarchyIInv, IsWorld, IsWhole, IsTree, EachClassOnce, Root

LEMMA HierarchyIInvIsNext == HierarchyIInv' <=> IsWorld' /\ IsWhole(tree')
BY DEF HierarchyIInv, IsWorld, IsWhole, IsTree, EachClassOnce, Root, Node, Below

LEMMA PrunedIsWhole ==
    ASSUME NEW up, IsWhole(up), NEW gone, \A k \in DOMAIN up : up[k] \in gone => k \in gone
    PROVE  IsWhole(Without(up, gone))
<1>1. IsTree(up) /\ DOMAIN up \subseteq Below(up, Root)
  BY DEF IsWhole
<1> DEFINE rest == Without(up, gone)
<1>2. /\ IsTree(rest) /\ DOMAIN rest = DOMAIN up \ gone
      /\ Below(up, Root) \subseteq gone \cup Below(rest, Root)
  BY <1>1, Pruned
<1> HIDE DEF rest
<1>3. DOMAIN rest \subseteq Below(rest, Root)
  BY <1>1, <1>2
<1> QED
  BY <1>2, <1>3 DEF IsWhole, rest

LEMMA GrownIsWhole ==
    ASSUME NEW up, IsWhole(up), NEW p \in Below(up, Root), NEW n \in Node,
           n.class \notin InTree(up), p.class = Super[n.class]
    PROVE  IsWhole(Hang(up, {n}, p))
<1> DEFINE more == Hang(up, {n}, p)
<1>1. n.class # Object /\ \A m \in DOMAIN up : m.class # n.class
  BY InTreeIs
<1>2. IsTree(up) /\ DOMAIN up \subseteq Below(up, Root) /\ n \notin DOMAIN up
      /\ \A m, k \in DOMAIN up : m.class = k.class => m = k
  BY <1>1 DEF IsWhole
<1>3. /\ IsTree(more) /\ DOMAIN more = DOMAIN up \cup {n}
      /\ Below(up, Root) \cup {n} \subseteq Below(more, Root)
  BY <1>1, <1>2, Grown
<1> HIDE DEF more
<1>4. IsWhole(more)
  BY <1>1, <1>2, <1>3 DEF IsWhole
<1> QED
  BY <1>4 DEF more

LEMMA NoTreeIsWhole == IsWhole(NoTree)
<1>1. DOMAIN NoTree = {} /\ NoTree = [n \in {} |-> NoTree[n]]
  BY DEF NoTree
<1>2. NoTree \in [DOMAIN NoTree -> Node]
  BY <1>1
<1> QED
  BY <1>1, <1>2 DEF IsWhole, IsTree

LEMMA HierarchyStarts == HierarchyInit => HierarchyIInv
<1> SUFFICES ASSUME HierarchyInit
             PROVE  HierarchyIInv
  OBVIOUS
<1>1. \A c \in live : Supers(c) \subseteq live
  BY SupersAre, ClassHierarchyAssumption DEF HierarchyInit
<1>2. IsWorld
  BY <1>1, ClassHierarchyAssumption DEF HierarchyInit, IsWorld
<1>3. IsWhole(tree)
  BY NoTreeIsWhole DEF HierarchyInit
<1> QED
  BY <1>2, <1>3, HierarchyIInvIs

LEMMA HierarchySteps == HierarchyIInv /\ HierarchyNext => HierarchyIInv'
<1> SUFFICES ASSUME HierarchyIInv, HierarchyNext
             PROVE  HierarchyIInv'
  OBVIOUS
<1>1. IsWorld /\ IsWhole(tree)
  BY HierarchyIInvIs
<1>2. IsFiniteSet(DOMAIN tree)
  BY <1>1, TreeIsFinite DEF IsWhole, IsTree
<1>3. ASSUME NEW c \in Blueprints, LoadBlueprint(c)
      PROVE  HierarchyIInv'
  <2>1. c \in Class
    BY ClassHierarchyAssumption
  <2>2. live' = live \cup Supers(c)
    BY <1>3 DEF LoadBlueprint
  <2>3. /\ live' \subseteq Class /\ Class \ Blueprints \subseteq live'
        /\ \A d \in live' : Supers(d) \subseteq live'
    BY <1>1, <2>1, <2>2, SupersAre DEF IsWorld
  <2>4. IsWorld'
    BY <1>1, <1>3, <2>3 DEF IsWorld, LoadBlueprint
  <2>5. tree' = tree
    BY <1>3 DEF LoadBlueprint
  <2> QED
    BY <1>1, <2>4, <2>5, HierarchyIInvIsNext
<1>4. ASSUME NEW c \in Blueprints, UnloadBlueprint(c)
      PROVE  HierarchyIInv'
  <2>1. live' = live \ {c} /\ \A d \in live \ {c} : c \notin Supers(d)
    BY <1>4 DEF UnloadBlueprint
  <2>2. /\ live' \subseteq Class /\ Class \ Blueprints \subseteq live'
        /\ \A d \in live' : Supers(d) \subseteq live'
    BY <1>1, <2>1 DEF IsWorld
  <2>3. IsWorld'
    BY <1>1, <1>4, <2>2 DEF IsWorld, UnloadBlueprint
  <2>4. tree' = tree
    BY <1>4 DEF UnloadBlueprint
  <2> QED
    BY <1>1, <2>3, <2>4, HierarchyIInvIsNext
<1>5. ASSUME NEW c \in Blueprints, AddAsset(c)
      PROVE  HierarchyIInv'
  <2> DEFINE parents == FindParent(tree, ClassNode(Object), AssetNode(c))
             added == built /\ c \notin InTree(tree) /\ parents # {}
             p == CHOOSE m \in parents : TRUE
  <2>1. /\ assets' = assets \cup {c}
        /\ tree' = IF added THEN Hang(tree, {AssetNode(c)}, p) ELSE tree
        /\ refresh' = (refresh \/ (open /\ added))
        /\ UNCHANGED <<live, built, wanted, open>>
    BY <1>5, Zenon DEF AddAsset
  <2>2. added \in BOOLEAN
    BY <1>1 DEF IsWorld
  <2>3. ASSUME added
        PROVE  IsWhole(Hang(tree, {AssetNode(c)}, p))
    <3>1. p \in parents /\ c \notin InTree(tree)
      BY <2>3
    <3> HIDE DEF p
    <3>2. c \in Class
      BY ClassHierarchyAssumption
    <3>3. AssetNode(c) \in Node /\ AssetNode(c).class = c
      BY <3>2, Nodes
    <3>4. p \in Below(tree, Root) /\ p.class = Super[AssetNode(c).class]
      BY <3>1 DEF FindParent, Root
    <3> QED
      BY <1>1, <3>1, <3>3, <3>4, GrownIsWhole
  <2>4. IsWhole(tree')
    BY <1>1, <2>1, <2>3
  <2> HIDE DEF added
  <2>5. IsWorld'
    BY <1>1, <2>1, <2>2 DEF IsWorld
  <2> QED
    BY <2>4, <2>5, HierarchyIInvIsNext
<1>6. ASSUME NEW c \in Blueprints, RemoveAsset(c)
      PROVE  HierarchyIInv'
  <2> DEFINE nodes == {n \in DOMAIN tree : n.class = c}
             gone == UNION {Below(tree, n) : n \in nodes}
  <2>1. /\ assets' = assets \ {c} /\ tree' = Without(tree, gone)
        /\ refresh' = (refresh \/ (open /\ nodes # {}))
        /\ UNCHANGED <<live, built, wanted, open>>
    BY <1>6, Zenon DEF RemoveAsset
  <2>2. \A k \in DOMAIN tree : tree[k] \in gone => k \in gone
    BY <1>2, BelowIsClosed
  <2> HIDE DEF gone
  <2>3. IsWhole(tree')
    BY <1>1, <2>1, <2>2, PrunedIsWhole
  <2> HIDE DEF nodes
  <2>4. IsWorld'
    BY <1>1, <2>1 DEF IsWorld
  <2> QED
    BY <2>3, <2>4, HierarchyIInvIsNext
<1>7. ASSUME RequestPopulateClassHierarchy
      PROVE  HierarchyIInv'
  <2>1. IsWorld' /\ tree' = tree
    BY <1>1, <1>7 DEF IsWorld, RequestPopulateClassHierarchy
  <2> QED
    BY <1>1, <2>1, HierarchyIInvIsNext
<1> QED
  BY <1>3, <1>4, <1>5, <1>6, <1>7 DEF HierarchyNext

LEMMA PopulatesWhole ==
    ASSUME HierarchyIInv, PopulateClassHierarchy
    PROVE  IsWhole(tree') /\ InTree(tree') \subseteq Known /\ Kept \subseteq InTree(tree')
<1>1. PICK order \in SetToSeqs(assets) : tree' = Populated(order)
  BY DEF PopulateClassHierarchy
<1> QED
  BY <1>1, PopulatedTree
-----------------------------------------------------------------------------
(* The popup's nodes: what is kept of a tree below the base class.         *)
HasMarks(copy, f) == \A n \in DOMAIN copy.mark : copy.mark[n] = MarkIn(f, n.class)

LEMMA MarkOf == \A f, c : MarkIn(f, c) \in Mark
BY DEF MarkIn, Mark

LEMMA NoCopyIs == \A f : IsCopy(NoCopy, f.base) /\ HasMarks(NoCopy, f)
<1> DEFINE up == NoCopy.up
           mark == NoCopy.mark
<1>1. /\ up = NoTree /\ mark = [n \in {} |-> "none"]
      /\ NoCopy = [up |-> up, mark |-> mark]
  BY DEF NoCopy
<1>2. DOMAIN up = {} /\ up = [n \in {} |-> up[n]] /\ DOMAIN mark = {}
  BY <1>1 DEF NoTree
<1>3. mark \in [{} -> Mark]
  BY <1>1
<1> HIDE DEF up, mark
<1>4. up \in [DOMAIN up -> Node]
  BY <1>2
<1> QED
  BY <1>1, <1>2, <1>3, <1>4 DEF IsCopy, HasMarks, up, mark

LEMMA CopyIsCopy ==
    ASSUME NEW up, IsWhole(up), filter \in Filter
    PROVE  IsCopy(Copy(up, filter), filter.base) /\ HasMarks(Copy(up, filter), filter)
<1> DEFINE roots == {n \in DOMAIN up \cup {ClassNode(Object)} : n.class = filter.base}
           all == UNION {Below(up, n) : n \in roots}
           inner == all \ roots
           kept == {n \in inner : \E m \in Below(up, n) : Passes(m)}
           copy == Copy(up, filter)
<1>1. copy = [up |-> [n \in kept |-> up[n]], mark |-> [n \in kept |-> MarkIn(filter, n.class)]]
  BY Zenon DEF Copy
<1>2. IsTree(up) /\ IsFiniteSet(DOMAIN up) /\ \A n, m \in DOMAIN up : n.class = m.class => n = m
  BY TreeIsFinite DEF IsWhole, IsTree
<1>3. /\ \A r \in roots : r \in Node /\ r.class = filter.base
       /\ \A m \in DOMAIN up : m \in roots <=> m.class = filter.base
  BY <1>2, Nodes DEF IsTree, Root
<1> HIDE DEF roots
<1>4. \A n : n \in inner <=> n \notin roots /\ \E r \in roots : n \in Below(up, r)
  OBVIOUS
<1> HIDE DEF inner
<1>5. ASSUME NEW n \in inner
      PROVE  /\ n \in DOMAIN up /\ n \in Node /\ n.class # Object
             /\ up[n].class = Super[n.class] /\ up[n] \in Node
             /\ filter.base \in Supers(Super[n.class])
             /\ up[n].class = filter.base \/ up[n] \in inner
  <2>1. PICK r \in roots : n \in Below(up, r)
    BY <1>4
  <2>2. r \in Node /\ r.class = filter.base
    BY <1>3
  <2>3. n # r
    BY <1>4
  <2>4. n \in DOMAIN up /\ up[n] \in Below(up, r)
    BY <1>2, <2>1, <2>3, BelowGoesUp
  <2>5. /\ n \in Node /\ n.class # Object /\ up[n] \in Node /\ up[n].class = Super[n.class]
    BY <1>2, <2>4 DEF IsTree
  <2>6. filter.base \in Supers(up[n].class)
    BY <1>2, <2>2, <2>4, BelowHasClass
  <2>7. up[n] \in roots => up[n].class = filter.base
    BY <1>3
  <2>8. up[n] \notin roots => up[n] \in inner
    BY <1>4, <2>1, <2>4
  <2> QED
    BY <2>4, <2>5, <2>6, <2>7, <2>8
<1>6. ASSUME NEW n \in kept
      PROVE  up[n] \in kept \/ up[n].class = filter.base
  <2>1. PICK m \in Below(up, n) : Passes(m)
    OBVIOUS
  <2>2. n \in DOMAIN up /\ (up[n].class = filter.base \/ up[n] \in inner)
    BY <1>5
  <2>3. m \in Below(up, up[n])
    BY <1>2, <2>1, <2>2, BelowIsClosed, BelowBelow
  <2> QED
    BY <2>1, <2>2, <2>3
<1>7. kept \subseteq inner
  OBVIOUS
<1> HIDE DEF kept
<1> DEFINE u == copy.up
           mark == copy.mark
<1>8. /\ u = [n \in kept |-> up[n]] /\ mark = [n \in kept |-> MarkIn(filter, n.class)]
      /\ copy = [up |-> u, mark |-> mark]
  BY <1>1
<1> HIDE DEF u, mark, copy
<1>9. /\ DOMAIN u = kept /\ DOMAIN mark = kept
      /\ \A n \in kept : u[n] = up[n] /\ mark[n] = MarkIn(filter, n.class)
  BY <1>8
<1>10. u \in [kept -> Node] /\ mark \in [kept -> Mark]
  BY <1>5, <1>7, <1>8, MarkOf
<1>11. kept \subseteq Node /\ kept \subseteq DOMAIN up
  BY <1>5, <1>7
<1>12. \A n \in kept : /\ n.class # Object /\ u[n].class = Super[n.class]
                       /\ filter.base \in Supers(Super[n.class])
                       /\ u[n] \in kept \/ u[n].class = filter.base
  BY <1>5, <1>6, <1>7, <1>9
<1>13. IsCopy(copy, filter.base)
  BY <1>2, <1>8, <1>9, <1>10, <1>11, <1>12 DEF IsCopy, u, mark
<1>14. HasMarks(copy, filter)
  BY <1>9 DEF HasMarks, mark
<1> QED
  BY <1>13, <1>14 DEF copy

(* A click changes the mark of one class, which has one node.              *)
Remarked(copy, n, mark) == [copy EXCEPT !.mark = [@ EXCEPT ![n] = mark]]

LEMMA MarkedIs ==
    ASSUME NEW f \in Filter, NEW c \in Class, NEW mark \in Mark
    PROVE  /\ Marked(f, c, mark) \in Filter /\ Marked(f, c, mark).base = f.base
           /\ MarkIn(Marked(f, c, mark), c) = mark
           /\ \A d : d # c => MarkIn(Marked(f, c, mark), d) = MarkIn(f, d)
<1> DEFINE g == Marked(f, c, mark)
<1>1. /\ f.allowed \in SUBSET Class /\ f.ignored \in SUBSET Class /\ f.base \in {Base, Object}
      /\ f = [allowed |-> f.allowed, ignored |-> f.ignored, base |-> f.base]
  BY DEF Filter
<1>2. g = [allowed |-> IF mark = "allowed" THEN f.allowed \cup {c} ELSE f.allowed \ {c},
           ignored |-> IF mark = "denied" THEN f.ignored \cup {c} ELSE f.ignored \ {c},
           base |-> f.base]
  <2> DEFINE a == IF mark = "allowed" THEN f.allowed \cup {c} ELSE f.allowed \ {c}
             i == IF mark = "denied" THEN f.ignored \cup {c} ELSE f.ignored \ {c}
  <2>1. g = [[f EXCEPT !.allowed = a] EXCEPT !.ignored = i]
    <3> DEFINE h == [f EXCEPT !.allowed = a]
    <3>1. g = [h EXCEPT !.ignored = IF mark = "denied" THEN @ \cup {c} ELSE @ \ {c}]
      BY DEF Marked
    <3>2. h.ignored = f.ignored
      BY <1>1
    <3> QED
      BY <3>1, <3>2
  <2> HIDE DEF a, i, g
  <2>2. g = [allowed |-> a, ignored |-> i, base |-> f.base]
    BY <1>1, <2>1
  <2> QED
    BY <2>2 DEF a, i
<1>3. /\ g.allowed = IF mark = "allowed" THEN f.allowed \cup {c} ELSE f.allowed \ {c}
      /\ g.ignored = IF mark = "denied" THEN f.ignored \cup {c} ELSE f.ignored \ {c}
      /\ g.base = f.base
  BY <1>2
<1>4. g \in Filter
  BY <1>1, <1>2 DEF Filter
<1> HIDE DEF g
<1>5. MarkIn(g, c) = mark
  BY <1>3 DEF MarkIn, Mark
<1>6. \A d : d # c => MarkIn(g, d) = MarkIn(f, d)
  BY <1>3 DEF MarkIn
<1> QED
  BY <1>3, <1>4, <1>5, <1>6 DEF g

LEMMA RemarkedIs ==
    ASSUME filter \in Filter, NEW copy, NEW base, IsCopy(copy, base), NEW n \in DOMAIN copy.mark,
           NEW mark \in Mark
    PROVE  /\ n.class \in Class /\ IsCopy(Remarked(copy, n, mark), base)
           /\ HasMarks(copy, filter) =>
                HasMarks(Remarked(copy, n, mark), Marked(filter, n.class, mark))
<1>1. /\ copy = [up |-> copy.up, mark |-> copy.mark] /\ DOMAIN copy.mark = DOMAIN copy.up
      /\ copy.mark \in [DOMAIN copy.up -> Mark] /\ DOMAIN copy.up \subseteq Node
      /\ \A k, m \in DOMAIN copy.up : k.class = m.class => k = m
  BY DEF IsCopy
<1>2. n.class \in Class
  BY <1>1, Nodes
<1> DEFINE then == Remarked(copy, n, mark)
           old == copy.mark
           new == [old EXCEPT ![n] = mark]
<1>3. then = [up |-> copy.up, mark |-> new]
  <2>1. then = [copy EXCEPT !.mark = new]
    BY <1>1 DEF Remarked
  <2> HIDE DEF new, then
  <2> QED
    BY <1>1, <2>1
<1>4. /\ new \in [DOMAIN copy.up -> Mark] /\ DOMAIN new = DOMAIN copy.up
      /\ new[n] = mark /\ \A k \in DOMAIN copy.up : k # n => new[k] = old[k]
  BY <1>1
<1> HIDE DEF new, then
<1>5. then.up = copy.up /\ then.mark = new /\ then = [up |-> then.up, mark |-> then.mark]
  BY <1>3
<1>6. IsCopy(then, base)
  BY <1>4, <1>5 DEF IsCopy
<1>7. ASSUME HasMarks(copy, filter)
      PROVE  HasMarks(then, Marked(filter, n.class, mark))
  <2> DEFINE g == Marked(filter, n.class, mark)
  <2>1. MarkIn(g, n.class) = mark /\ \A d : d # n.class => MarkIn(g, d) = MarkIn(filter, d)
    BY <1>2, MarkedIs
  <2> HIDE DEF g
  <2>2. \A k \in DOMAIN copy.up : new[k] = MarkIn(g, k.class)
    <3> TAKE k \in DOMAIN copy.up
    <3>1. CASE k = n
      BY <1>4, <2>1, <3>1
    <3>2. CASE k # n
      <4>1. k.class # n.class
        BY <1>1, <3>2
      <4> QED
        BY <1>1, <1>4, <1>7, <2>1, <3>2, <4>1 DEF HasMarks
    <3> QED
      BY <3>1, <3>2
  <2> QED
    BY <1>4, <1>5, <2>2 DEF HasMarks, g
<1> QED
  BY <1>2, <1>6, <1>7 DEF then
-----------------------------------------------------------------------------
(* The steps of the editor.                                                *)
IsEditor ==
    /\ filter \in Filter /\ found \in {"none", "shown", "older"}
    /\ ~open => shown = NoCopy
    /\ ~open \/ found # "older" => older = NoCopy
    /\ \A copy \in {shown, older} :
        IsCopy(copy, filter.base) /\ (~strayed => HasMarks(copy, filter))

LEMMA EditorIInvIs == EditorIInv <=> HierarchyIInv /\ IsEditor
BY DEF EditorIInv, IsEditor, HasMarks

LEMMA EditorIInvIsNext == EditorIInv' <=> HierarchyIInv' /\ IsEditor'
BY DEF EditorIInv, IsEditor, HasMarks, HierarchyIInv, IsCopy, EachClassOnce, MarkIn, Below,
       Filter, Mark, Node

LEMMA EditorStarts == Init => EditorIInv
<1> SUFFICES ASSUME Init
             PROVE  EditorIInv
  OBVIOUS
<1>1. HierarchyIInv /\ filter \in Filter
  BY HierarchyStarts, ClassFilterEditorAssumption DEF Init, EditorInit
<1>2. IsEditor
  BY <1>1, NoCopyIs DEF Init, EditorInit, IsEditor
<1> QED
  BY <1>1, <1>2, EditorIInvIs

LEMMA EditorSteps == EditorIInv /\ [Next]_vars => EditorIInv'
<1> SUFFICES ASSUME EditorIInv, [Next]_vars
             PROVE  EditorIInv'
  OBVIOUS
<1>1. IsWorld /\ IsWhole(tree) /\ HierarchyIInv /\ IsEditor /\ filter \in Filter
  BY HierarchyIInvIs, EditorIInvIs DEF IsEditor
<1>2. CASE HierarchyNext /\ UNCHANGED editorVars
  <2>1. HierarchyIInv'
    BY <1>1, <1>2, HierarchySteps
  <2>2. open' = open
    BY <1>2 DEF HierarchyNext, LoadBlueprint, UnloadBlueprint, AddAsset, RemoveAsset,
                RequestPopulateClassHierarchy
  <2>3. IsEditor'
    BY <1>1, <1>2, <2>2 DEF IsEditor, editorVars
  <2> QED
    BY <2>1, <2>3, EditorIInvIsNext
<1>3. CASE Open
  <2>1. IsWhole(tree')
    BY <1>1, <1>3, PopulatesWhole DEF Open
  <2>2. IsWorld'
    BY <1>1, <1>3 DEF IsWorld, Open
  <2>3. IsEditor'
    <3>1. /\ filter' = filter /\ found' = "none" /\ shown' = NoCopy /\ older' = NoCopy
      BY <1>3 DEF Open
    <3> QED
      BY <1>1, <3>1, NoCopyIs DEF IsEditor
  <2> QED
    BY <2>1, <2>2, <2>3, HierarchyIInvIsNext, EditorIInvIsNext
<1>4. CASE Close
  <2>1. IsWorld' /\ tree' = tree
    BY <1>1, <1>4 DEF IsWorld, Close
  <2>2. IsEditor'
    <3>1. /\ filter' = filter /\ found' = "none" /\ shown' = NoCopy /\ older' = NoCopy
      BY <1>4 DEF Close
    <3> QED
      BY <1>1, <3>1, NoCopyIs DEF IsEditor
  <2> QED
    BY <1>1, <2>1, <2>2, HierarchyIInvIsNext, EditorIInvIsNext
<1>5. CASE Tick
  <2>1. IsWhole(tree')
    BY <1>1, <1>5, PopulatesWhole DEF Tick
  <2>2. IsWorld'
    BY <1>1, <1>5 DEF IsWorld, Tick
  <2>3. /\ open /\ open' = open /\ filter' = filter /\ strayed' = strayed
        /\ shown' = Copy(tree', filter)
        /\ \/ found = "shown" /\ found' = "older" /\ older' = shown
           \/ found # "shown" /\ found' = found /\ older' = older
    BY <1>5 DEF Tick
  <2>4. IsCopy(shown', filter.base) /\ HasMarks(shown', filter)
    BY <1>1, <2>1, <2>3, CopyIsCopy
  <2>5. IsEditor'
    BY <1>1, <2>3, <2>4 DEF IsEditor
  <2> QED
    BY <2>1, <2>2, <2>5, HierarchyIInvIsNext, EditorIInvIsNext
<1>6. ASSUME NEW s \in Searches \cup {NoSearch}, Search(s)
      PROVE  EditorIInv'
  <2>1. IsWorld' /\ tree' = tree
    BY <1>1, <1>6 DEF IsWorld, Search, hierarchyVars
  <2>2. /\ open /\ open' = open /\ filter' = filter /\ strayed' = strayed /\ shown' = shown
        /\ found' \in {"none", "shown"} /\ older' = NoCopy
    BY <1>6 DEF Search, hierarchyVars
  <2>3. IsEditor'
    BY <1>1, <2>2, NoCopyIs DEF IsEditor
  <2> QED
    BY <1>1, <2>1, <2>3, HierarchyIInvIsNext, EditorIInvIsNext
<1>7. ASSUME NEW n \in Node, Click(n)
      PROVE  EditorIInv'
  <2> DEFINE mark == NextMark(n)
             f == Marked(filter, n.class, mark)
  <2>1. IsWorld' /\ tree' = tree
    BY <1>1, <1>7 DEF IsWorld, Click, hierarchyVars
  <2>2. /\ open /\ open' = open /\ found' = found /\ n \in DOMAIN OnScreen.mark
        /\ filter' = f /\ strayed' = (strayed \/ found = "older")
        /\ IF found = "older" THEN older' = Remarked(older, n, mark) /\ shown' = shown
           ELSE shown' = Remarked(shown, n, mark) /\ older' = older
    BY <1>7 DEF Click, hierarchyVars, Displayed, MarkClass, Remarked
  <2>3. mark \in Mark
    BY DEF NextMark, Mark
  <2> HIDE DEF mark
  <2>4. /\ n.class \in Class /\ f \in Filter /\ f.base = filter.base
    BY <1>1, <2>3, Nodes, MarkedIs
  <2>5. CASE found = "older"
    <3>1. IsCopy(older, filter.base) /\ IsCopy(shown, filter.base)
      BY <1>1 DEF IsEditor
    <3>2. IsCopy(older', filter.base)
      BY <1>1, <2>2, <2>3, <2>5, <3>1, RemarkedIs DEF OnScreen
    <3> HIDE DEF f
    <3>3. IsEditor'
      BY <1>1, <2>2, <2>4, <2>5, <3>1, <3>2 DEF IsEditor
    <3> QED
      BY <1>1, <2>1, <3>3, HierarchyIInvIsNext, EditorIInvIsNext
  <2>6. CASE found # "older"
    <3>1. older = NoCopy /\ IsCopy(shown, filter.base) /\ (~strayed => HasMarks(shown, filter))
      BY <1>1, <2>6 DEF IsEditor
    <3>2. IsCopy(shown', filter.base) /\ (~strayed => HasMarks(shown', f))
      BY <1>1, <2>2, <2>3, <2>6, <3>1, RemarkedIs DEF OnScreen
    <3>3. IsCopy(NoCopy, f.base) /\ HasMarks(NoCopy, f)
      BY NoCopyIs
    <3> HIDE DEF f
    <3>4. IsEditor'
      BY <1>1, <2>2, <2>4, <2>6, <3>1, <3>2, <3>3 DEF IsEditor
    <3> QED
      BY <1>1, <2>1, <3>4, HierarchyIInvIsNext, EditorIInvIsNext
  <2> QED
    BY <2>5, <2>6
<1>8. CASE ClearFilter
  <2>1. IsWorld' /\ tree' = tree
    BY <1>1, <1>8 DEF IsWorld, ClearFilter, hierarchyVars
  <2>2. /\ ~open /\ open' = open /\ found' = found /\ shown' = NoCopy /\ older' = NoCopy
        /\ filter' = [allowed |-> {}, ignored |-> {}, base |-> Object]
    BY <1>1, <1>8 DEF ClearFilter, hierarchyVars, IsEditor
  <2>3. filter' \in Filter
    BY <2>2 DEF Filter
  <2>4. IsCopy(NoCopy, filter'.base) /\ HasMarks(NoCopy, filter')
    BY NoCopyIs
  <2>5. IsEditor'
    BY <1>1, <2>2, <2>3, <2>4 DEF IsEditor
  <2> QED
    BY <1>1, <2>1, <2>5, HierarchyIInvIsNext, EditorIInvIsNext
<1>9. CASE UNCHANGED vars
  <2>1. IsWorld' /\ tree' = tree /\ IsEditor'
    BY <1>1, <1>9 DEF IsWorld, IsEditor, vars, hierarchyVars, editorVars
  <2> QED
    BY <1>1, <2>1, HierarchyIInvIsNext, EditorIInvIsNext
<1> QED
  BY <1>2, <1>3, <1>4, <1>5, <1>6, <1>7, <1>8, <1>9 DEF Next
-----------------------------------------------------------------------------
(* On screen a node is below another exactly if its class is.              *)
LEMMA CopyIsATree ==
    ASSUME NEW copy, NEW base, IsCopy(copy, base)
    PROVE  IsTree(copy.up) /\ IsFiniteSet(DOMAIN copy.up)
<1>1. IsTree(copy.up)
  BY DEF IsCopy, IsTree
<1> QED
  BY <1>1, TreeIsFinite DEF IsTree

LEMMA CopyBelow ==
    ASSUME NEW copy, NEW base \in Class, IsCopy(copy, base),
           NEW m \in DOMAIN copy.up, NEW n \in DOMAIN copy.up
    PROVE  n \in Below(copy.up, m) <=> m.class \in Supers(n.class)
<1> DEFINE up == copy.up
           S == {c \in Class : \A k \in DOMAIN up :
                    k.class = c /\ m.class \in Supers(c) => k \in Below(up, m)}
<1>1. /\ IsTree(up) /\ IsFiniteSet(DOMAIN up) /\ DOMAIN up \subseteq Node
      /\ \A k, l \in DOMAIN up : k.class = l.class => k = l
      /\ \A k \in DOMAIN up : /\ k.class \in Class \ {Object} /\ up[k].class = Super[k.class]
                              /\ base \in Supers(Super[k.class])
                              /\ up[k] \in DOMAIN up \/ up[k].class = base
  BY CopyIsATree, Nodes DEF IsCopy
<1> HIDE DEF up
<1>2. n \in Below(up, m) => m.class \in Supers(n.class)
  BY <1>1, BelowHasClass DEF up
<1>3. ASSUME NEW c \in Class, c # Object => Super[c] \in S
      PROVE  c \in S
  <2> SUFFICES ASSUME NEW k \in DOMAIN up, k.class = c, m.class \in Supers(c)
               PROVE  k \in Below(up, m)
    OBVIOUS
  <2>1. CASE c = m.class
    <3>1. k = m
      BY <1>1, <2>1 DEF up
    <3> QED
      BY <1>1, <3>1, BelowIsClosed
  <2>2. CASE c # m.class
    <3>1. /\ c # Object /\ up[k].class = Super[c] /\ Super[c] \in Class
          /\ m.class \in Supers(Super[c])
      BY <1>1, <2>2, SuperIs
    <3>2. up[k] \in DOMAIN up
      <4> SUFFICES ASSUME Super[c] = base
                   PROVE  FALSE
        BY <1>1, <3>1
      <4>1. m.class \in Class \ {Object} /\ base \in Supers(Super[m.class]) /\ m.class \in Supers(base)
        BY <1>1, <3>1 DEF up
      <4>2. /\ Super[m.class] \in Class /\ Depth(Super[m.class]) = Depth(m.class) - 1
            /\ Depth(m.class) \in Nat /\ Depth(base) \in Nat
        BY <4>1, SuperIs, Chains
      <4>3. base = Super[m.class] \/ Depth(base) < Depth(Super[m.class])
        BY <4>1, <4>2, SupersAre
      <4>4. m.class = base \/ Depth(m.class) < Depth(base)
        BY <4>1, SupersAre
      <4> QED
        BY <4>2, <4>3, <4>4
    <3> QED
      BY <1>1, <1>3, <3>1, <3>2, BelowIsClosed
  <2> QED
    BY <2>1, <2>2
<1>4. Class \subseteq S
  <2> HIDE DEF S
  <2> QED
    BY <1>3, ChainInduct
<1> QED
  BY <1>1, <1>2, <1>4 DEF up

(* The filter of a popup, where every marked class above n has a node: the *)
(* nearest mark tells the colour of n and whether its class is allowed.    *)
LEMMA ColourTells ==
    ASSUME NEW f, NEW copy, NEW base \in Class, IsCopy(copy, base), HasMarks(copy, f),
           NEW n \in DOMAIN copy.mark,
           \A c \in Supers(n.class) : c \in f.allowed \cup f.ignored =>
                \E m \in DOMAIN copy.mark : m.class = c
    PROVE  Colour(copy, n) = "allowed" <=> Allows(f, n.class)
<1> DEFINE up == copy.up
           mark == copy.mark
           chain == Chain[n.class]
           num == Depth(n.class)
           IsMarked(c) == c \in f.allowed \cup f.ignored
           marked == {m \in DOMAIN mark \ {n} : mark[m] # "none" /\ n \in Below(up, m)}
           first == CHOOSE m \in marked : \A k \in marked : m \in Below(up, k)
<1>1. /\ DOMAIN mark = DOMAIN up /\ n \in DOMAIN up /\ DOMAIN up \subseteq Node
      /\ \A k, l \in DOMAIN up : k.class = l.class => k = l
      /\ \A k \in DOMAIN up : mark[k] = MarkIn(f, k.class)
      /\ \A k \in DOMAIN up : k.class \in Class
      /\ IsTree(up) /\ IsFiniteSet(DOMAIN up)
  BY CopyIsATree, Nodes DEF IsCopy, HasMarks
<1>2. \A k, l \in DOMAIN up : l \in Below(up, k) <=> k.class \in Supers(l.class)
  BY CopyBelow
<1>3. \A c : /\ MarkIn(f, c) # "none" <=> IsMarked(c)
             /\ MarkIn(f, c) = "allowed" <=> c \in f.allowed
  BY DEF MarkIn
<1>4. /\ num \in Nat \ {0} /\ DOMAIN chain = 1..num /\ chain[1] = n.class
      /\ Supers(n.class) = {chain[i] : i \in 1..num}
      /\ \A i \in 1..num :
            /\ chain[i] \in Class /\ Depth(chain[i]) = num - i + 1
            /\ \A j \in 1..(num - i + 1) : Chain[chain[i]][j] = chain[i + j - 1]
  <2>1. n.class \in Class
    BY <1>1
  <2> HIDE DEF up, mark
  <2>2. /\ num \in Nat \ {0} /\ DOMAIN chain = 1..num /\ chain[1] = n.class
        /\ \A i \in 1..num :
              /\ chain[i] \in Class /\ Depth(chain[i]) = num - i + 1
              /\ \A j \in 1..(num - i + 1) : Chain[chain[i]][j] = chain[i + j - 1]
    BY <2>1, Chains
  <2>3. Supers(n.class) = {chain[i] : i \in DOMAIN chain}
    BY DEF Supers
  <2> HIDE DEF chain, num
  <2> QED
    BY <2>2, <2>3
<1>5. Allows(f, n.class) <=>
        \E i \in 1..num : chain[i] \in f.allowed /\ \A j \in 1..(i - 1) : chain[j] \notin f.ignored
  BY <1>4 DEF Allows
<1>6. ParentMark(copy, n) = IF marked = {} THEN "none" ELSE mark[first]
  BY Zenon DEF ParentMark
<1>7. Colour(copy, n) = IF mark[n] # "none" THEN mark[n] ELSE ParentMark(copy, n)
  BY DEF Colour
<1> HIDE DEF up, mark, chain, num
<1>8. CASE \A i \in 1..num : ~IsMarked(chain[i])
  <2>1. \A k \in DOMAIN up : n \in Below(up, k) => mark[k] = "none"
    BY <1>1, <1>2, <1>3, <1>4, <1>8
  <2>2. mark[n] = "none"
    BY <1>1, <2>1, BelowIsClosed
  <2>3. marked = {}
    BY <1>1, <2>1
  <2>4. ~Allows(f, n.class)
    BY <1>5, <1>8
  <2> QED
    BY <1>6, <1>7, <2>2, <2>3, <2>4
<1>9. ASSUME NEW i \in 1..num, IsMarked(chain[i]), \A j \in 1..(i - 1) : ~IsMarked(chain[j])
      PROVE  Colour(copy, n) = "allowed" <=> Allows(f, n.class)
  <2>1. Allows(f, n.class) <=> chain[i] \in f.allowed
    <3>1. chain[i] \in f.allowed => Allows(f, n.class)
      BY <1>5, <1>9
    <3>2. ASSUME chain[i] \notin f.allowed, NEW l \in 1..num, chain[l] \in f.allowed
          PROVE  \E j \in 1..(l - 1) : chain[j] \in f.ignored
      <4>1. l # i /\ l \notin 1..(i - 1)
        BY <1>9, <3>2
      <4>2. i \in 1..(l - 1)
        BY <1>4, <4>1
      <4>3. chain[i] \in f.ignored
        BY <1>9, <3>2
      <4> QED
        BY <4>2, <4>3
    <3> QED
      BY <1>5, <3>1, <3>2
  <2>2. chain[i] \in Supers(n.class)
    BY <1>4
  <2>3. PICK m \in DOMAIN up : m.class = chain[i]
    BY <1>1, <1>9, <2>2 DEF mark
  <2>4. mark[m] # "none" /\ (mark[m] = "allowed" <=> chain[i] \in f.allowed)
    BY <1>1, <1>3, <1>9, <2>3
  <2>5. Colour(copy, n) = mark[m]
    <3>1. CASE i = 1
      <4>1. m = n
        BY <1>1, <1>4, <2>3, <3>1
      <4> QED
        BY <1>7, <2>4, <4>1
    <3>2. CASE i # 1
      <4>1. mark[n] = "none" /\ m # n
        <5>1. 1 \in 1..(i - 1)
          BY <1>4, <3>2
        <5>2. ~IsMarked(n.class)
          BY <1>4, <1>9, <5>1
        <5> QED
          BY <1>1, <1>3, <2>4, <5>2
      <4>2. m \in marked
        BY <1>1, <1>2, <2>2, <2>3, <2>4, <4>1
      <4>3. ASSUME NEW k \in marked
            PROVE  m \in Below(up, k)
        <5>1. k \in DOMAIN up /\ IsMarked(k.class) /\ k.class \in Supers(n.class)
          BY <1>1, <1>2, <1>3
        <5>2. PICK l \in 1..num : k.class = chain[l]
          BY <1>4, <5>1
        <5>3. l \notin 1..(i - 1)
          BY <1>9, <5>1, <5>2
        <5>4. l - i + 1 \in 1..(num - i + 1) /\ i + (l - i + 1) - 1 = l
          BY <1>4, <5>3
        <5>5. Chain[m.class][l - i + 1] = k.class
          BY <1>4, <2>3, <5>2, <5>4
        <5>6. DOMAIN Chain[m.class] = 1..(num - i + 1)
          BY <1>1, <1>4, <2>3, Chains
        <5>7. k.class \in Supers(m.class)
          BY <5>4, <5>5, <5>6 DEF Supers
        <5> QED
          BY <1>2, <5>1, <5>7
      <4>4. first \in marked /\ \A k \in marked : first \in Below(up, k)
        BY <4>2, <4>3
      <4> HIDE DEF first
      <4>5. first \in DOMAIN up /\ first \in Below(up, m) /\ m \in Below(up, first)
        BY <1>1, <4>2, <4>3, <4>4
      <4>6. first = m
        <5>1. /\ first \in Node /\ m \in Node
              /\ Depth(m.class) \in Nat /\ Depth(first.class) \in Nat
          BY <1>1, <4>5, Chains
        <5>2. /\ first # m => Depth(m.class) < Depth(first.class)
              /\ m # first => Depth(first.class) < Depth(m.class)
          BY <1>1, <4>5, <5>1, BelowHasClass
        <5> QED
          BY <5>1, <5>2
      <4> QED
        BY <1>6, <1>7, <4>1, <4>2, <4>6
    <3> QED
      BY <3>1, <3>2
  <2> QED
    BY <2>1, <2>4, <2>5
<1>10. CASE \E i \in 1..num : IsMarked(chain[i])
  <2> DEFINE S == {i \in 1..num : IsMarked(chain[i])}
  <2>1. S \in SUBSET Nat /\ S # {}
    BY <1>10
  <2>2. \E i \in S : \A j \in S : i <= j
    <3> HIDE DEF S
    <3> QED
      BY <2>1, LeastIn
  <2>3. PICK i \in S : \A j \in S : i <= j
    BY <2>2
  <2>4. \A j \in 1..(i - 1) : ~IsMarked(chain[j])
    BY <1>4, <2>3
  <2> QED
    BY <1>9, <2>3, <2>4
<1> QED
  BY <1>8, <1>10

LEMMA ColoursTell == EditorIInv => ColoursTellTheBake
<1> SUFFICES ASSUME EditorIInv, open, ~strayed, NEW n \in Displayed,
                    ~\E c \in Supers(n.class) :
                        /\ \A m \in DOMAIN OnScreen.mark : m.class # c
                        /\ c \in filter.allowed \cup filter.ignored
             PROVE  Colour(OnScreen, n) = "allowed" <=> Allows(filter, n.class)
  BY DEF ColoursTellTheBake
<1>1. OnScreen \in {shown, older} /\ n \in DOMAIN OnScreen.mark
  BY DEF OnScreen, Displayed
<1>2. IsCopy(OnScreen, filter.base) /\ HasMarks(OnScreen, filter)
  BY <1>1, EditorIInvIs DEF IsEditor
<1>3. filter.base \in Class
  BY ClassFilterEditorAssumption, RootChain, EditorIInvIs DEF IsEditor, Filter
<1> HIDE DEF OnScreen
<1> QED
  BY <1>1, <1>2, <1>3, ColourTells
-----------------------------------------------------------------------------
(* Whatever assets come and go, whatever is loaded, searched and clicked,  *)
(* the tree is one tree and the nodes of a popup are a part of it with the *)
(* marks of the filter.                                                    *)
THEOREM EditorIsKept == Spec => []EditorIInv
<1>1. Init => EditorIInv
  BY EditorStarts
<1>2. EditorIInv /\ [Next]_vars => EditorIInv'
  BY EditorSteps
<1> QED
  BY <1>1, <1>2, PTL DEF Spec

(* A class has one node in the tree of PopulateClassHierarchy, below that  *)
(* of its super class, whatever the order in which the registry lists the  *)
(* assets, and AddAsset and RemoveAsset keep it so.                        *)
THEOREM ClassesAreOnce == Spec => []EachClassOnce
<1>1. EditorIInv => EachClassOnce
  BY DEF EditorIInv, HierarchyIInv
<1> QED
  BY <1>1, EditorIsKept, PTL

(* The colours of the popup are what BakeAllowedClasses makes of the marks *)
(* of the filter: GetParentFilterState stops at the mark that decides.     *)
THEOREM ColoursAreTrue == Spec => []ColoursTellTheBake
BY EditorIsKept, ColoursTell, PTL

(* Populating the tree loses no class but those below two blueprints in    *)
(* memory, and has none that is not there.                                 *)
THEOREM TreeIsWhole == Spec => TreeKeepsClasses
<1>1. EditorIInv /\ [Next]_vars =>
        [Populates => /\ InTree(tree') \subseteq Known
                      /\ {c \in Known : ~BelowTwoBlueprints(c)} \subseteq InTree(tree')]_hierarchyVars
  <2> SUFFICES ASSUME EditorIInv, [Next]_vars, Populates
               PROVE  InTree(tree') \subseteq Known /\ Kept \subseteq InTree(tree')
    BY DEF Kept
  <2>1. HierarchyIInv
    BY DEF EditorIInv
  <2>2. CASE Open
    <3>1. PopulateClassHierarchy
      BY <2>2 DEF Open, Populates
    <3> QED
      BY <2>1, <3>1, PopulatesWhole
  <2>3. CASE Tick
    <3>1. PopulateClassHierarchy
      BY <2>3 DEF Tick, Populates
    <3> QED
      BY <2>1, <3>1, PopulatesWhole
  <2>4. built' = built /\ (wanted => wanted') => ~Populates
    BY DEF Populates
  <2>5. CASE HierarchyNext
    BY <2>4, <2>5 DEF HierarchyNext, LoadBlueprint, UnloadBlueprint, AddAsset, RemoveAsset,
                      RequestPopulateClassHierarchy
  <2>6. CASE Close \/ ClearFilter \/ UNCHANGED vars
    BY <2>4, <2>6 DEF Close, ClearFilter, vars, hierarchyVars
  <2>7. ASSUME NEW s, Search(s)
        PROVE  FALSE
    BY <2>4, <2>7 DEF Search, hierarchyVars
  <2>8. ASSUME NEW n, Click(n)
        PROVE  FALSE
    BY <2>4, <2>8 DEF Click, hierarchyVars
  <2> QED
    BY <2>2, <2>3, <2>5, <2>6, <2>7, <2>8 DEF Next
<1> QED
  BY <1>1, EditorIsKept, PTL DEF Spec, TreeKeepsClasses
=============================================================================
