------------------------- MODULE ClassFilters_proofs -------------------------
(***************************************************************************)
(* Proofs about ClassFilters, for any tree of classes, any filters and     *)
(* presets.                                                                *)
(***************************************************************************)
EXTENDS ClassFilters, TLAPS

(* A chain holds classes, and every part of it is a chain. *)
LEMMA Chains ==
    ASSUME NEW c \in Class, NEW i \in DOMAIN Chain[c]
    PROVE  /\ Chain[c] \in Seq(Class) /\ Chain[c][1] = c
           /\ DOMAIN Chain[c] = 1..Len(Chain[c]) /\ Len(Chain[c]) \in Nat
           /\ i \in Nat /\ 1 \in DOMAIN Chain[c] /\ i <= Len(Chain[c]) /\ 1 <= i
           /\ Chain[c][i] \in Class
           /\ Chain[Chain[c][i]] = SubSeq(Chain[c], i, Len(Chain[c]))
           /\ Supers(c) \subseteq Class
<1>1. Chain[c] \in Seq(Class) /\ Chain[c] # <<>> /\ Chain[c][1] = c
  BY ClassFiltersAssumption
<1>2. DOMAIN Chain[c] = 1..Len(Chain[c]) /\ Len(Chain[c]) \in Nat
  BY <1>1
<1>3. Chain[Chain[c][i]] = SubSeq(Chain[c], i, Len(Chain[c]))
  BY ClassFiltersAssumption
<1>4. \A j \in DOMAIN Chain[c] : Chain[c][j] \in Class
  BY <1>1, <1>2
<1>5. Supers(c) \subseteq Class
  BY <1>4 DEF Supers
<1>6. QED
  BY <1>1, <1>2, <1>3, <1>4, <1>5

(* What is baked passes on what it passed on: a class below an allowed one, *)
(* with nothing ignored between, is allowed.                               *)
LEMMA BakedIsAllowed ==
    ASSUME NEW f \in Filter, NEW on \in SUBSET Class, NEW c \in Class,
           \A d \in on : Allows(f, d), PassesBake(c, on, f.ignored)
    PROVE  Allows(f, c)
<1>1. PICK i \in DOMAIN Chain[c] :
        /\ Chain[c][i] \in on
        /\ \A j \in 1..(i - 1) : Chain[c][j] \notin f.ignored
  BY DEF PassesBake
<1> DEFINE d == Chain[c][i]
<1>2. PICK k \in DOMAIN Chain[d] :
        /\ Chain[d][k] \in f.allowed
        /\ \A j \in 1..(k - 1) : Chain[d][j] \notin f.ignored
  BY <1>1 DEF Allows
<1>3. /\ Chain[d] = SubSeq(Chain[c], i, Len(Chain[c]))
      /\ Chain[c] \in Seq(Class) /\ DOMAIN Chain[c] = 1..Len(Chain[c])
      /\ i \in Nat /\ Len(Chain[c]) \in Nat /\ 1 <= i /\ i <= Len(Chain[c])
  BY Chains
<1>4. /\ DOMAIN Chain[d] = 1..(Len(Chain[c]) - i + 1)
      /\ \A j \in 1..(Len(Chain[c]) - i + 1) : Chain[d][j] = Chain[c][i + j - 1]
  BY <1>3
<1> DEFINE m == i + k - 1
<1>5. k \in Nat /\ 1 <= k /\ m \in DOMAIN Chain[c] /\ Chain[c][m] \in f.allowed
  BY <1>2, <1>3, <1>4
<1>6. ASSUME NEW j \in 1..(m - 1)  PROVE Chain[c][j] \notin f.ignored
  <2>1. CASE j <= i - 1
    BY <2>1, <1>1, <1>3, <1>5
  <2>2. CASE j > i - 1
    <3>1. j - i + 1 \in 1..(k - 1)
      BY <2>2, <1>3, <1>5
    <3>2. Chain[d][j - i + 1] = Chain[c][j]
      BY <3>1, <1>3, <1>4, <1>5
    <3>3. QED
      BY <3>1, <3>2, <1>2
  <2>3. QED
    BY <2>1, <2>2, <1>3, <1>5
<1>7. QED
  BY <1>5, <1>6 DEF Allows

(* Once the allowed classes above it are baked, an allowed class passes. *)
LEMMA AllowedPasses ==
    ASSUME NEW f \in Filter, NEW on, NEW c \in Class, Allows(f, c),
           \A i \in DOMAIN Chain[c] : Chain[c][i] \in f.allowed => Chain[c][i] \in on
    PROVE  PassesBake(c, on, f.ignored)
BY DEF Allows, PassesBake

(* A class that is allowed itself passes. *)
LEMMA AllowedIsAllowed ==
    ASSUME NEW f \in Filter, NEW c \in Class, c \in f.allowed
    PROVE  Allows(f, c)
<1>1. 1 \in DOMAIN Chain[c] /\ Chain[c][1] = c
  BY ClassFiltersAssumption
<1>2. QED
  BY <1>1 DEF Allows
-----------------------------------------------------------------------------
(* The bake.                                                               *)

(* After the first pass every loaded class that is allowed is baked, or is *)
(* among the classes the second pass will look at.                         *)
LEMMA BakeBegins ==
    ASSUME NEW f \in Marks, NEW j \in {"save", "load", "hide", "show"},
           loaded' \in SUBSET Class, ClosedUpwards(loaded)', StartBake(j, f)
    PROVE  /\ slot' \in Marks /\ job' = j /\ slot' = f
           /\ baked' \in [Kind -> SUBSET loaded'] /\ todo' \in [Kind -> SUBSET loaded']
           /\ destroyed' = [l \in Levels |-> {}]
           /\ BakeInv'
<1>1. /\ slot' = f /\ job' = j /\ job' # "none"
      /\ baked' = [k \in Kind |-> AllowedRoots(f[k])]
      /\ todo' = [k \in Kind |-> Derived(AllowedRoots(f[k])) \ AllowedRoots(f[k])]
      /\ destroyed' = [l \in Levels |-> {}]
  BY DEF StartBake
<1>2. \A k \in Kind : f[k] \in Filter /\ f[k].allowed \in SUBSET Class
  BY DEF Marks, Filter
<1>3. baked' \in [Kind -> SUBSET loaded'] /\ todo' \in [Kind -> SUBSET loaded']
  BY <1>1 DEF AllowedRoots, Derived
<1>4. ASSUME NEW k \in Kind, NEW c \in baked'[k]  PROVE Allows(slot'[k], c)
  BY <1>1, <1>2, <1>4, AllowedIsAllowed DEF AllowedRoots
<1>5. ASSUME NEW k \in Kind, NEW c \in loaded', c \in slot'[k].allowed
      PROVE  c \in baked'[k]
  BY <1>1, <1>5 DEF AllowedRoots
<1>6. ASSUME NEW k \in Kind, NEW c \in loaded', Allows(slot'[k], c)
      PROVE  c \in baked'[k] \cup todo'[k]
  <2>1. PICK i \in DOMAIN Chain[c] : Chain[c][i] \in f[k].allowed
    BY <1>1, <1>6 DEF Allows
  <2>2. Chain[c][i] \in Supers(c) /\ Supers(c) \subseteq loaded'
    BY <1>6 DEF Supers, ClosedUpwards
  <2>3. Chain[c][i] \in AllowedRoots(f[k])
    BY <2>1, <2>2 DEF AllowedRoots
  <2>4. c \in Derived(AllowedRoots(f[k]))
    BY <2>2, <2>3 DEF Derived
  <2>5. QED
    BY <2>4, <1>1
<1>7. BakeInv'
  BY <1>1, <1>4, <1>5, <1>6 DEF BakeInv
<1>8. QED
  BY <1>1, <1>3, <1>7

(* The second pass keeps it so, whichever class it looks at. *)
LEMMA BakeGoesOn ==
    ASSUME FiltersTypeOK, RecordsInv, BakeInv,
           NEW n \in 1..4, NEW c \in Class, BakeClass(n, c)
    PROVE  FiltersTypeOK' /\ RecordsInv' /\ BakeInv' /\ job # "none"
<1> DEFINE k == Kinds[n]
<1>1. k \in Kind
  BY DEF Kinds, Kind
<1>2. /\ c \in todo[k] /\ todo' = [todo EXCEPT ![k] = @ \ {c}]
      /\ UNCHANGED <<preset, loaded, slot, job, shown, sub, file, destroyed>>
  BY DEF BakeClass
<1>3. todo[k] # {} /\ job # "none"
  BY <1>1, <1>2 DEF BakeInv, NoClasses
<1>4. /\ baked \in [Kind -> SUBSET loaded] /\ todo \in [Kind -> SUBSET loaded]
      /\ loaded \in SUBSET Class /\ slot \in Marks /\ slot[k] \in Filter
      /\ c \in loaded /\ ClosedUpwards(loaded)
  BY <1>1, <1>2 DEF FiltersTypeOK, Marks
<1>5. todo' \in [Kind -> SUBSET loaded]
  BY <1>2, <1>4
<1>6. CASE PassesBake(c, baked[k], slot[k].ignored)
  <2>1. baked' = [baked EXCEPT ![k] = @ \cup {c}]
    BY <1>6 DEF BakeClass
  <2>2. baked' \in [Kind -> SUBSET loaded]
    BY <2>1, <1>4
  <2>3. Allows(slot[k], c)
    BY <1>1, <1>4, <1>6, BakedIsAllowed DEF BakeInv
  <2>4. \A m \in Kind : \A d \in baked'[m] : Allows(slot[m], d)
    BY <1>1, <1>4, <2>1, <2>3 DEF BakeInv
  <2>5. \A m \in Kind : baked[m] \subseteq baked'[m]
                         /\ baked[m] \cup todo[m] \subseteq baked'[m] \cup todo'[m]
    BY <1>2, <1>4, <2>1
  <2>6. BakeInv'
    BY <1>2, <1>3, <2>4, <2>5 DEF BakeInv
  <2>7. QED
    BY <1>2, <1>3, <1>5, <2>2, <2>6 DEF FiltersTypeOK, RecordsInv, IsRecord
<1>7. CASE ~ PassesBake(c, baked[k], slot[k].ignored)
  <2>1. baked' = baked
    BY <1>7 DEF BakeClass
  <2>2. ~ Allows(slot[k], c)
    <3>1. ASSUME NEW i \in DOMAIN Chain[c], Chain[c][i] \in slot[k].allowed
          PROVE  Chain[c][i] \in baked[k]
      <4>1. Chain[c][i] \in loaded
        BY <1>4 DEF ClosedUpwards, Supers
      <4>2. QED
        BY <4>1, <3>1, <1>1, <1>3 DEF BakeInv
    <3>2. QED
      BY <3>1, <1>4, <1>7, AllowedPasses
  <2>3. ASSUME NEW m \in Kind, NEW d \in loaded, Allows(slot[m], d)
        PROVE  d \in baked'[m] \cup todo'[m]
    <3>1. d \in baked[m] \cup todo[m]
      BY <2>3, <1>3 DEF BakeInv
    <3>2. CASE m = k
      BY <3>1, <3>2, <2>1, <2>2, <2>3, <1>2, <1>4
    <3>3. CASE m # k
      BY <3>1, <3>3, <2>1, <1>2, <1>4
    <3>4. QED
      BY <3>2, <3>3
  <2>4. BakeInv'
    BY <1>2, <1>3, <2>1, <2>3 DEF BakeInv
  <2>5. QED
    BY <1>2, <1>3, <1>5, <2>1, <2>4 DEF FiltersTypeOK, RecordsInv, IsRecord
<1>8. QED
  BY <1>6, <1>7

(* When nothing is left to look at, what is baked is what is allowed. *)
LEMMA BakeEnds ==
    ASSUME FiltersTypeOK, BakeInv, job # "none", BakeIsDone
    PROVE  \A k \in Kind : baked[k] = {c \in loaded : Allows(slot[k], c)}
<1>1. \A k \in Kind : todo[k] = {} /\ baked[k] \subseteq loaded
  BY DEF BakeIsDone, NoClasses, FiltersTypeOK
<1>2. QED
  BY <1>1 DEF BakeInv

(* So a level is recorded with the classes its filter allows. *)
LEMMA RecordedIsAllowed ==
    ASSUME FiltersTypeOK, BakeInv, job # "none", BakeIsDone
    PROVE  Recorded \in Record /\ IsRecord(Recorded)
           /\ Recorded.under = slot["actor"]
<1>1. "actor" \in Kind /\ slot["actor"] \in Filter /\ loaded \in SUBSET Class
  BY DEF Kind, FiltersTypeOK, Marks
<1>2. baked["actor"] = {c \in loaded : Allows(slot["actor"], c)}
  BY <1>1, BakeEnds
<1>3. QED
  BY <1>1, <1>2 DEF Recorded, Record, IsRecord
-----------------------------------------------------------------------------
(* The steps.                                                              *)

(* The classes in memory stay closed when a class is loaded with all above. *)
LEMMA SupersAreClosed ==
    ASSUME NEW c \in Class
    PROVE  Supers(c) \subseteq Class /\ ClosedUpwards(Supers(c))
<1>1. ASSUME NEW d \in Supers(c), NEW x \in Supers(d)  PROVE x \in Supers(c)
  <2>1. PICK i \in DOMAIN Chain[c] : d = Chain[c][i]
    BY DEF Supers
  <2>2. d \in Class
    BY <2>1, Chains
  <2>3. PICK j \in DOMAIN Chain[d] : x = Chain[d][j]
    BY DEF Supers
  <2>4. /\ Chain[d] = SubSeq(Chain[c], i, Len(Chain[c])) /\ Chain[c] \in Seq(Class)
        /\ DOMAIN Chain[c] = 1..Len(Chain[c]) /\ i \in Nat /\ Len(Chain[c]) \in Nat
        /\ 1 <= i /\ i <= Len(Chain[c])
    BY <2>1, Chains
  <2>5. j \in 1..(Len(Chain[c]) - i + 1) /\ x = Chain[c][i + j - 1]
    BY <2>3, <2>4
  <2>6. i + j - 1 \in DOMAIN Chain[c]
    BY <2>4, <2>5
  <2>7. QED
    BY <2>5, <2>6 DEF Supers
<1>2. Supers(c) \subseteq Class
  <2>1. 1 \in DOMAIN Chain[c]
    BY ClassFiltersAssumption
  <2>2. QED
    BY <2>1, Chains
<1>3. QED
  BY <1>1, <1>2 DEF ClosedUpwards

(* A preset gives four filters. *)
LEMMA PresetHasMarks ==
    ASSUME NEW p \in Preset
    PROVE  FromPreset(p) \in Marks
<1>1. p \in [filter : Marks, useLoadActor : BOOLEAN, useLoadComponent : BOOLEAN]
  BY ClassFiltersAssumption
<1>2. \A k \in Kind : p.filter[k] \in Filter
  BY <1>1 DEF Marks
<1>3. \A k \in Kind : CopiedTo(k, p) \in Filter
  BY <1>2 DEF Kind, CopiedTo, ActorFilter, ComponentFilter
<1>4. QED
  BY <1>3 DEF FromPreset, Marks

(* Initially nothing is baked and nothing recorded. *)
LEMMA FiltersInit == Init => FiltersIInv
<1> SUFFICES ASSUME Init PROVE FiltersIInv
  OBVIOUS
<1>1. NoFilter \in Marks
  BY DEF NoFilter, Marks, Filter
<1>2. FiltersTypeOK
  BY <1>1, ClassFiltersAssumption DEF Init, FiltersTypeOK, NoClasses, Levels
<1>3. RecordsInv /\ BakeInv /\ LoadSparesTheRecorded
  BY DEF Init, RecordsInv, BakeInv, NoClasses, LoadSparesTheRecorded, Levels
<1>4. QED
  BY <1>2, <1>3 DEF FiltersIInv

(* A task that begins destroys nothing yet. *)
LEMMA BeginSpares ==
    ASSUME destroyed' = [l \in Levels |-> {}]
    PROVE  LoadSparesTheRecorded'
BY DEF LoadSparesTheRecorded, Levels

(* A task begins. *)
LEMMA BeginStep ==
    ASSUME FiltersIInv, BeginSave \/ BeginLoad \/ BeginHide \/ BeginShow
    PROVE  FiltersIInv'
<1> USE DEF FiltersIInv
<1>1. CASE BeginSave
  <2>1. /\ StartBake("save", FromPreset(preset))
        /\ UNCHANGED <<preset, loaded, shown, sub, file>>
    BY <1>1 DEF BeginSave, FiltersTypeOK, Kind
  <2>2. FromPreset(preset) \in Marks /\ loaded' \in SUBSET Class /\ ClosedUpwards(loaded)'
    BY <2>1, PresetHasMarks DEF FiltersTypeOK, ClosedUpwards
  <2>3. /\ slot' \in Marks /\ job' = "save"
        /\ baked' \in [Kind -> SUBSET loaded'] /\ todo' \in [Kind -> SUBSET loaded']
        /\ destroyed' = [l \in Levels |-> {}] /\ BakeInv'
    BY <2>1, <2>2, BakeBegins
  <2>4. FiltersTypeOK' /\ RecordsInv'
    BY <2>1, <2>2, <2>3 DEF FiltersTypeOK, RecordsInv, IsRecord
  <2>5. QED
    BY <2>3, <2>4, BeginSpares
<1>2. CASE BeginLoad
  <2> DEFINE needed == file.main.classes \cup (IF file.sub = NoRecord THEN {} ELSE file.sub.classes)
  <2>1. /\ file # NoFile /\ file \in File
        /\ loaded' = loaded \cup UNION {Supers(c) : c \in needed}
        /\ sub' = file.sub /\ StartBake("load", file.filter)
        /\ UNCHANGED <<preset, shown, file>>
    BY <1>2 DEF BeginLoad, FiltersTypeOK
  <2>2. needed \in SUBSET Class
    BY <2>1 DEF File, Record
  <2>3. loaded' \in SUBSET Class /\ ClosedUpwards(loaded)'
    BY <2>1, <2>2, SupersAreClosed DEF FiltersTypeOK, ClosedUpwards
  <2>4. file.filter \in Marks /\ file.sub \in Record \cup {NoRecord}
    BY <2>1 DEF File
  <2>5. /\ slot' \in Marks /\ slot' = file.filter /\ job' = "load"
        /\ baked' \in [Kind -> SUBSET loaded'] /\ todo' \in [Kind -> SUBSET loaded']
        /\ destroyed' = [l \in Levels |-> {}] /\ BakeInv'
    BY <2>1, <2>3, <2>4, BakeBegins
  <2>6. FiltersTypeOK' /\ RecordsInv'
    BY <2>1, <2>3, <2>4, <2>5 DEF FiltersTypeOK, RecordsInv, IsRecord
  <2>7. QED
    BY <2>5, <2>6, BeginSpares
<1>3. CASE BeginHide \/ BeginShow
  <2>1. PICK j \in {"hide", "show"} : StartBake(j, slot)
    BY <1>3 DEF BeginHide, BeginShow
  <2>2. UNCHANGED <<preset, loaded, shown, sub, file>>
    BY <1>3 DEF BeginHide, BeginShow
  <2>3. slot \in Marks /\ loaded' \in SUBSET Class /\ ClosedUpwards(loaded)'
    BY <2>2 DEF FiltersTypeOK, ClosedUpwards
  <2>4. /\ slot' \in Marks /\ job' = j
        /\ baked' \in [Kind -> SUBSET loaded'] /\ todo' \in [Kind -> SUBSET loaded']
        /\ destroyed' = [l \in Levels |-> {}] /\ BakeInv'
    BY <2>1, <2>3, BakeBegins
  <2>5. FiltersTypeOK' /\ RecordsInv'
    BY <2>2, <2>3, <2>4 DEF FiltersTypeOK, RecordsInv, IsRecord
  <2>6. QED
    BY <2>4, <2>5, BeginSpares
<1>4. QED
  BY <1>1, <1>2, <1>3

(* What a load destroys for want of a record was not there to record. *)
LEMMA Unrecorded ==
    ASSUME FiltersTypeOK, BakeInv, job # "none", BakeIsDone,
           NEW r \in Record, IsRecord(r), r.under = slot["actor"]
    PROVE  WithoutRecord(r) \cap r.there = {}
<1>1. baked["actor"] = {c \in loaded : Allows(slot["actor"], c)}
  BY BakeEnds DEF Kind
<1>2. QED
  BY <1>1 DEF WithoutRecord, IsRecord

(* A task ends. *)
LEMMA EndStep ==
    ASSUME FiltersIInv, EndSave \/ EndLoad \/ EndHide \/ EndShow
    PROVE  FiltersIInv'
<1> USE DEF FiltersIInv
<1>1. /\ job # "none" /\ BakeIsDone /\ job' = "none" /\ todo' = NoClasses
      /\ UNCHANGED <<preset, loaded, slot, baked, todo>>
  BY DEF EndSave, EndLoad, EndHide, EndShow, BakeIsDone
<1>2. BakeInv'
  BY <1>1 DEF BakeInv
<1>3. Recorded \in Record /\ IsRecord(Recorded) /\ Recorded.under = slot["actor"]
  BY <1>1, RecordedIsAllowed
<1>4. CASE EndSave
  <2>1. /\ sub' = IF shown THEN Recorded ELSE sub
        /\ file' = [filter |-> slot, main |-> Recorded, sub |-> sub', asked |-> preset]
        /\ UNCHANGED <<shown, destroyed>>
    BY <1>4 DEF EndSave
  <2>2. sub' \in Record \cup {NoRecord} /\ (sub' # NoRecord => IsRecord(sub)')
    BY <1>3, <2>1 DEF FiltersTypeOK, RecordsInv, IsRecord
  <2>3. file' \in File /\ IsRecord(file.main)' /\ file'.main.under = file'.filter["actor"]
        /\ (file'.sub # NoRecord => IsRecord(file.sub)')
    BY <1>3, <2>1, <2>2 DEF File, FiltersTypeOK, IsRecord
  <2>4. destroyed' = [l \in Levels |-> {}]
    BY <1>1, <2>1 DEF RecordsInv
  <2>5. FiltersTypeOK' /\ RecordsInv'
    BY <1>1, <2>1, <2>2, <2>3 DEF FiltersTypeOK, RecordsInv, ClosedUpwards
  <2>6. QED
    BY <1>2, <2>1, <2>4, <2>5, BeginSpares
<1>5. CASE EndLoad
  <2>1. /\ job = "load" /\ file # NoFile /\ slot = file.filter
        /\ UNCHANGED <<shown, sub, file>>
        /\ destroyed' = [l \in Levels |->
                            CASE l = "main" -> WithoutRecord(file.main)
                              [] l = "sub" -> IF shown /\ sub # NoRecord
                                              THEN WithoutRecord(sub) ELSE {}]
    BY <1>5 DEF EndLoad, RecordsInv
  <2>2. \A r : WithoutRecord(r) \in SUBSET Class
    BY DEF WithoutRecord, FiltersTypeOK
  <2>3. /\ destroyed' \in [Levels -> SUBSET Class]
        /\ destroyed'["main"] = WithoutRecord(file.main)
        /\ destroyed'["sub"] # {} => sub # NoRecord /\ destroyed'["sub"] = WithoutRecord(sub)
    BY <2>1, <2>2 DEF Levels
  <2>4. file.main \in Record /\ IsRecord(file.main) /\ file.main.under = slot["actor"]
    BY <2>1 DEF FiltersTypeOK, RecordsInv, File
  <2>5. sub # NoRecord => sub \in Record /\ IsRecord(sub)
    BY DEF FiltersTypeOK, RecordsInv
  <2>6. LoadSparesTheRecorded'
    <3>1. WithoutRecord(file.main) \cap file.main.there = {}
      BY <1>1, <2>4, Unrecorded
    <3>2. ASSUME sub # NoRecord, sub.under = slot["actor"]
          PROVE  WithoutRecord(sub) \cap sub.there = {}
      BY <1>1, <2>5, <3>2, Unrecorded
    <3>3. QED
      BY <1>1, <2>1, <2>3, <3>1, <3>2 DEF LoadSparesTheRecorded
  <2>7. FiltersTypeOK' /\ RecordsInv'
    BY <1>1, <2>1, <2>3 DEF FiltersTypeOK, RecordsInv, ClosedUpwards, IsRecord
  <2>8. QED
    BY <1>2, <2>6, <2>7
<1>6. CASE EndHide \/ EndShow
  <2>1. /\ shown' \in BOOLEAN /\ UNCHANGED <<file, destroyed>>
        /\ sub' = sub \/ sub' = Recorded
    BY <1>6 DEF EndHide, EndShow
  <2>2. sub' \in Record \cup {NoRecord} /\ (sub' # NoRecord => IsRecord(sub)')
    BY <1>3, <2>1 DEF FiltersTypeOK, RecordsInv, IsRecord
  <2>3. destroyed' = [l \in Levels |-> {}]
    BY <1>1, <2>1 DEF RecordsInv
  <2>4. FiltersTypeOK' /\ RecordsInv'
    BY <1>1, <2>1, <2>2 DEF FiltersTypeOK, RecordsInv, ClosedUpwards, IsRecord
  <2>5. QED
    BY <1>2, <2>3, <2>4, BeginSpares
<1>7. QED
  BY <1>4, <1>5, <1>6

(* What happens between tasks. *)
LEMMA BetweenStep ==
    ASSUME FiltersIInv,
           \/ Stream \/ Restart \/ UNCHANGED vars
           \/ \E c \in Class : LoadClass(c)
           \/ \E p \in Preset : ChangePreset(p)
    PROVE  FiltersIInv'
<1> USE DEF FiltersIInv
<1>1. CASE Stream \/ UNCHANGED vars \/ \E p \in Preset : ChangePreset(p)
  <2>1. /\ preset' \in Preset /\ shown' \in BOOLEAN
        /\ UNCHANGED <<loaded, slot, baked, todo, job, sub, file, destroyed>>
    BY <1>1 DEF Stream, ChangePreset, vars, FiltersTypeOK
  <2>2. FiltersTypeOK' /\ RecordsInv'
    BY <2>1 DEF FiltersTypeOK, RecordsInv, ClosedUpwards, IsRecord
  <2>3. BakeInv' /\ LoadSparesTheRecorded'
    BY <2>1 DEF BakeInv, LoadSparesTheRecorded
  <2>4. QED
    BY <2>2, <2>3
<1>2. CASE \E c \in Class : LoadClass(c)
  <2>1. PICK c \in Class : LoadClass(c)
    BY <1>2
  <2>2. /\ job = "none" /\ loaded' = loaded \cup Supers(c)
        /\ UNCHANGED <<preset, slot, baked, todo, job, shown, sub, file, destroyed>>
    BY <2>1 DEF LoadClass
  <2>3. loaded' \in SUBSET Class /\ ClosedUpwards(loaded)'
    BY <2>2, SupersAreClosed DEF FiltersTypeOK, ClosedUpwards
  <2>4. baked' \in [Kind -> SUBSET loaded'] /\ todo' \in [Kind -> SUBSET loaded']
    BY <2>2 DEF FiltersTypeOK
  <2>5. FiltersTypeOK'
    BY <2>2, <2>3, <2>4 DEF FiltersTypeOK
  <2>6. RecordsInv' /\ BakeInv' /\ LoadSparesTheRecorded'
    BY <2>2 DEF RecordsInv, IsRecord, BakeInv, LoadSparesTheRecorded
  <2>7. QED
    BY <2>5, <2>6
<1>3. CASE Restart
  <2>1. /\ job = "none" /\ loaded' = Native /\ slot' = NoFilter /\ baked' = NoClasses
        /\ shown' \in BOOLEAN /\ sub' = NoRecord
        /\ destroyed' = [l \in Levels |-> {}]
        /\ UNCHANGED <<preset, todo, job, file>>
    BY <1>3 DEF Restart
  <2>2. todo' = NoClasses
    BY <2>1 DEF BakeInv
  <2>3. NoFilter \in Marks
    BY DEF NoFilter, Marks, Filter
  <2>4. FiltersTypeOK'
    BY <2>1, <2>2, <2>3, ClassFiltersAssumption
    DEF FiltersTypeOK, NoClasses, Levels, ClosedUpwards
  <2>5. RecordsInv' /\ BakeInv'
    BY <2>1, <2>2 DEF RecordsInv, IsRecord, BakeInv, NoClasses
  <2>6. QED
    BY <2>1, <2>4, <2>5, BeginSpares
<1>4. QED
  BY <1>1, <1>2, <1>3

(* The bake keeps the rest as it was. *)
LEMMA BakeStep ==
    ASSUME FiltersIInv, NEW n \in 1..4, NEW c \in Class, BakeClass(n, c)
    PROVE  FiltersIInv'
<1>1. FiltersTypeOK' /\ RecordsInv' /\ BakeInv' /\ job # "none"
  BY BakeGoesOn DEF FiltersIInv
<1>2. destroyed' = [l \in Levels |-> {}]
  BY <1>1 DEF BakeClass, FiltersIInv, RecordsInv
<1>3. QED
  BY <1>1, <1>2, BeginSpares DEF FiltersIInv

-----------------------------------------------------------------------------
(* Filters, records and bakes stay what they are: every class that is      *)
(* baked is allowed, and none that is allowed is forgotten.                *)
THEOREM FiltersAreRight == Spec => []FiltersIInv
<1>1. FiltersIInv /\ [Next]_vars => FiltersIInv'
  <2>1. SUFFICES ASSUME FiltersIInv, Next \/ UNCHANGED vars
                 PROVE  FiltersIInv'
    OBVIOUS
  <2>2. QED
    BY <2>1, BeginStep, EndStep, BetweenStep, BakeStep DEF Next
<1>2. QED
  BY <1>1, FiltersInit, PTL DEF Spec

(* The bake gives what the filter means, in any order of the classes.      *)
THEOREM BakesAreRight == Spec => []BakeIsNearestMark
<1>1. FiltersIInv => BakeIsNearestMark
  BY BakeEnds DEF FiltersIInv, BakeIsNearestMark
<1>2. QED
  BY <1>1, FiltersAreRight, PTL

(* A load destroys no actor that could have had a record under the filter. *)
THEOREM RecordedActorsAreSpared == Spec => []LoadSparesTheRecorded
<1>1. FiltersIInv => LoadSparesTheRecorded
  BY DEF FiltersIInv
<1>2. QED
  BY <1>1, FiltersAreRight, PTL
=============================================================================
