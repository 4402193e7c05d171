----------------------------- MODULE ClassFilters -----------------------------
(***************************************************************************)
(* Which classes are saved and loaded.  A preset has filters, marks on     *)
(* classes that allow or ignore them with their children; a save copies    *)
(* them into the slot's data (FSELevelFilter::FromPreset), a load takes    *)
(* those of the file, and each task bakes them before it looks at actors:  *)
(* FSEClassFilter::BakeAllowedClasses turns the marks into the set of the  *)
(* loaded classes that pass.                                               *)
(*                                                                         *)
(* A level is recorded with every actor whose class is allowed.  When a    *)
(* slot is loaded, an actor of an allowed class that has no record is      *)
(* destroyed: it was not there when the level was recorded.  Actors are    *)
(* abstracted to their class here; WorldRecords has them one by one.       *)
(***************************************************************************)
EXTENDS Integers, Sequences

CONSTANTS
    Class,                  \* the classes a filter can mark
    Chain,                  \* a class, its super class, and so on up to the root
    Native,                 \* the classes that are loaded from the start
    Preset,                 \* the presets the game may use or change to
    NoRecord, NoFile

Filter == [allowed : SUBSET Class, ignored : SUBSET Class]
Kind == {"actor", "component", "loadActor", "loadComponent"}
Kinds == <<"actor", "component", "loadActor", "loadComponent">>
Supers(c) == {Chain[c][i] : i \in DOMAIN Chain[c]}
ClosedUpwards(S) == \A c \in S : Supers(c) \subseteq S
Marks == [Kind -> Filter]

ASSUME ClassFiltersAssumption ==
    /\ Chain \in [Class -> Seq(Class)]
    /\ \A c \in Class :
        /\ Chain[c] # <<>> /\ Chain[c][1] = c
        /\ \A i \in DOMAIN Chain[c] :
            Chain[Chain[c][i]] = SubSeq(Chain[c], i, Len(Chain[c]))
    /\ Native \subseteq Class /\ ClosedUpwards(Native)
    /\ Preset \subseteq [filter : Marks, useLoadActor : BOOLEAN, useLoadComponent : BOOLEAN]

VARIABLES
    preset,                 \* the active preset
    loaded,                 \* the classes in memory
    slot,                   \* GeneralLevelFilter of the current data
    baked,                  \* BakedAllowedClasses of its four filters
    todo,                   \* classes the bake under way has yet to look at
    job,                    \* the task at work
    shown,                  \* the sub-level is loaded
    sub,                    \* the record of the sub-level in the current data
    file,                   \* the slot's file
    destroyed               \* history: classes the load just done destroyed

vars == <<preset, loaded, slot, baked, todo, job, shown, sub, file, destroyed>>

(* Of a level: the classes recorded, and history: the classes there were,  *)
(* and the filter they passed.                                             *)
Record == [classes : SUBSET Class, there : SUBSET Class, under : Filter]
(* The filters and levels of a file, and history: the preset that was used. *)
File == [filter : Marks, main : Record, sub : Record \cup {NoRecord}, asked : Preset]

NoFilter == [k \in Kind |-> [allowed |-> {}, ignored |-> {}]]
NoClasses == [k \in Kind |-> {}]
Levels == {"main", "sub"}
-----------------------------------------------------------------------------
(* What a filter means: going up from the class, the first mark allows it. *)
Allows(filter, c) ==
    \E i \in DOMAIN Chain[c] :
        /\ Chain[c][i] \in filter.allowed
        /\ \A j \in 1..(i - 1) : Chain[c][j] \notin filter.ignored

(* Mutant of PassesBake: the class's own mark is not looked at. *)
PassesBakeFromParent(c, on, ignored) ==
    \E i \in DOMAIN Chain[c] :
        /\ Chain[c][i] \in on
        /\ \A j \in 2..(i - 1) : Chain[c][j] \notin ignored

(* The second pass of the bake, one class: going up, a class that is baked *)
(* by now is met before any that is ignored.                               *)
PassesBake(c, on, ignored) ==
    \E i \in DOMAIN Chain[c] :
        /\ Chain[c][i] \in on
        /\ \A j \in 1..(i - 1) : Chain[c][j] \notin ignored

(* USavePreset::GetActorFilter and the const GetComponentFilter. *)
ActorFilter(p, isLoading) ==
    p.filter[IF isLoading /\ p.useLoadActor THEN "loadActor" ELSE "actor"]
ComponentFilter(p, isLoading) ==
    p.filter[IF isLoading /\ p.useLoadActor THEN "loadComponent" ELSE "component"]

CopiedTo(k, p) ==
    CASE k = "actor" -> ActorFilter(p, TRUE)
      [] k = "loadActor" -> ActorFilter(p, FALSE)
      [] k = "component" -> ComponentFilter(p, TRUE)
      [] k = "loadComponent" -> ComponentFilter(p, FALSE)

FromPreset(p) == [k \in Kind |-> CopiedTo(k, p)]
-----------------------------------------------------------------------------
Init ==
    /\ preset \in Preset
    /\ loaded = Native
    /\ slot = NoFilter
    /\ baked = NoClasses
    /\ todo = NoClasses
    /\ job = "none"
    /\ shown \in BOOLEAN
    /\ sub = NoRecord
    /\ file = NoFile
    /\ destroyed = [l \in Levels |-> {}]

(* First pass: the allowed classes that are loaded, and all their children. *)
AllowedRoots(filter) == filter.allowed \cap loaded'
Derived(roots) == {c \in loaded' : Supers(c) \cap roots # {}}

(* Mutant of StartBake: BakedAllowedClasses is not emptied. *)
StartBakeOnTop(j, f) ==
    /\ job = "none"
    /\ job' = j
    /\ slot' = f
    /\ baked' = [k \in Kind |-> baked[k] \cup AllowedRoots(f[k])]
    /\ todo' = [k \in Kind |-> Derived(AllowedRoots(f[k])) \ AllowedRoots(f[k])]
    /\ destroyed' = [l \in Levels |-> {}]

(* The task j begins to bake the filters f. *)
StartBake(j, f) ==
    /\ job = "none"
    /\ job' = j
    /\ slot' = f
    /\ baked' = [k \in Kind |-> AllowedRoots(f[k])]
    /\ todo' = [k \in Kind |-> Derived(AllowedRoots(f[k])) \ AllowedRoots(f[k])]
    /\ destroyed' = [l \in Levels |-> {}]

(* Filters are baked one after the other, a class at a time. *)
BakeClass(n, c) ==
    /\ c \in todo[Kinds[n]]
    /\ \A m \in 1..(n - 1) : todo[Kinds[m]] = {}
    /\ baked' = IF PassesBake(c, baked[Kinds[n]], slot[Kinds[n]].ignored)
                THEN [baked EXCEPT ![Kinds[n]] = @ \cup {c}]
                ELSE baked
    /\ todo' = [todo EXCEPT ![Kinds[n]] = @ \ {c}]
    /\ UNCHANGED <<preset, loaded, slot, job, shown, sub, file, destroyed>>

BakeIsDone == todo = NoClasses

(* A level is recorded: FSELevelFilter::ShouldSave picks the actors. *)
Recorded == [classes |-> baked["actor"] \cap loaded, there |-> loaded,
             under |-> slot["actor"]]

(* USlotDataTask_Saver::OnStart takes the filters of the preset. *)
BeginSave ==
    /\ UNCHANGED <<preset, loaded, shown, sub, file>>
    /\ StartBake("save", FromPreset(preset))

EndSave ==
    /\ job = "save" /\ BakeIsDone
    /\ sub' = IF shown THEN Recorded ELSE sub
    /\ file' = [filter |-> slot, main |-> Recorded, sub |-> sub', asked |-> preset]
    /\ job' = "none"
    /\ UNCHANGED <<preset, loaded, slot, baked, todo, shown, destroyed>>

(* Mutant of BeginLoad: the filters are those of the preset, as in a save. *)
BeginLoadByPreset ==
    /\ file # NoFile
    /\ loaded' = loaded \cup UNION {Supers(c) : c \in file.main.classes}
    /\ sub' = file.sub
    /\ UNCHANGED <<preset, shown, file>>
    /\ StartBake("load", FromPreset(preset))

(* USlotDataTask_Loader: reading the file loads the classes of its records. *)
BeginLoad ==
    /\ file # NoFile
    /\ loaded' = loaded \cup UNION {Supers(c) : c \in file.main.classes
                     \cup (IF file.sub = NoRecord THEN {} ELSE file.sub.classes)}
    /\ sub' = file.sub
    /\ UNCHANGED <<preset, shown, file>>
    /\ StartBake("load", file.filter)

(* PrepareLevel of the main level, and of the sub-level if it is loaded. *)
WithoutRecord(record) == (baked["actor"] \cap loaded) \ record.classes

EndLoad ==
    /\ job = "load" /\ BakeIsDone
    /\ destroyed' = [l \in Levels |->
                       CASE l = "main" -> WithoutRecord(file.main)
                         [] l = "sub" -> IF shown /\ sub # NoRecord
                                         THEN WithoutRecord(sub) ELSE {}]
    /\ job' = "none"
    /\ UNCHANGED <<preset, loaded, slot, baked, todo, shown, sub, file>>

(* The sub-level is hidden and recorded, or shown and brought back: both   *)
(* tasks bake the filters of the current data again.                       *)
BeginHide ==
    /\ shown /\ sub # NoRecord
    /\ UNCHANGED <<preset, loaded, shown, sub, file>>
    /\ StartBake("hide", slot)

EndHide ==
    /\ job = "hide" /\ BakeIsDone
    /\ sub' = Recorded
    /\ shown' = FALSE
    /\ job' = "none"
    /\ UNCHANGED <<preset, loaded, slot, baked, todo, file, destroyed>>

BeginShow ==
    /\ ~shown /\ sub # NoRecord
    /\ UNCHANGED <<preset, loaded, shown, sub, file>>
    /\ StartBake("show", slot)

EndShow ==
    /\ job = "show" /\ BakeIsDone
    /\ shown' = TRUE
    /\ job' = "none"
    /\ UNCHANGED <<preset, loaded, slot, baked, todo, sub, file, destroyed>>

(* A level without a record: the tasks fail. *)
Stream ==
    /\ job = "none" /\ sub = NoRecord
    /\ shown' = ~shown
    /\ UNCHANGED <<preset, loaded, slot, baked, todo, job, sub, file, destroyed>>

(* The game loads a class, or changes the preset, between two tasks. *)
LoadClass(c) ==
    /\ job = "none" /\ c \notin loaded
    /\ loaded' = loaded \cup Supers(c)
    /\ UNCHANGED <<preset, slot, baked, todo, job, shown, sub, file, destroyed>>

ChangePreset(p) ==
    /\ job = "none" /\ p # preset
    /\ preset' = p
    /\ UNCHANGED <<loaded, slot, baked, todo, job, shown, sub, file, destroyed>>

(* The process ends and another begins; the file is what it leaves. *)
Restart ==
    /\ job = "none"
    /\ loaded' = Native
    /\ slot' = NoFilter
    /\ baked' = NoClasses
    /\ shown' \in BOOLEAN
    /\ sub' = NoRecord
    /\ destroyed' = [l \in Levels |-> {}]
    /\ UNCHANGED <<preset, todo, job, file>>

Next ==
    \/ BeginSave \/ EndSave \/ BeginLoad \/ EndLoad
    \/ BeginHide \/ EndHide \/ BeginShow \/ EndShow
    \/ Stream \/ Restart
    \/ \E n \in 1..4 : \E c \in Class : BakeClass(n, c)
    \/ \E c \in Class : LoadClass(c)
    \/ \E p \in Preset : ChangePreset(p)

Spec == Init /\ [][Next]_vars
-----------------------------------------------------------------------------
IsRecord(r) == r.classes = {c \in r.there : Allows(r.under, c)}

FiltersTypeOK ==
    /\ preset \in Preset
    /\ loaded \in SUBSET Class /\ ClosedUpwards(loaded)
    /\ slot \in Marks
    /\ baked \in [Kind -> SUBSET loaded] /\ todo \in [Kind -> SUBSET loaded]
    /\ job \in {"none", "save", "load", "hide", "show"}
    /\ shown \in BOOLEAN
    /\ sub \in Record \cup {NoRecord}
    /\ file \in File \cup {NoFile}
    /\ destroyed \in [Levels -> SUBSET Class]

(* What every record holds, and what the job under way works on. *)
RecordsInv ==
    /\ sub # NoRecord => IsRecord(sub)
    /\ file # NoFile => /\ IsRecord(file.main)
                        /\ file.main.under = file.filter["actor"]
                        /\ file.sub # NoRecord => IsRecord(file.sub)
    /\ job = "load" => file # NoFile /\ slot = file.filter
    /\ job # "none" => destroyed = [l \in Levels |-> {}]

(* The work of a bake: what is baked is allowed, and what is loaded and    *)
(* allowed is baked or yet to be looked at.  A class loaded after a bake   *)
(* is not in it until the next task bakes again.                           *)
BakeInv ==
    /\ job = "none" => todo = NoClasses
    /\ \A k \in Kind :
        /\ \A c \in baked[k] : Allows(slot[k], c)
        /\ job # "none" => \A c \in loaded : /\ c \in slot[k].allowed => c \in baked[k]
                                             /\ Allows(slot[k], c) => c \in baked[k] \cup todo[k]

(* A load destroys no actor that could have had a record: a class that was *)
(* there when the level was recorded is destroyed only if the record was   *)
(* made under another filter than the file's.  The main level's never is;  *)
(* a sub-level's is when it was hidden under one preset and the game saved *)
(* under another while it was not loaded.                                  *)
LoadSparesTheRecorded ==
    /\ file # NoFile => destroyed["main"] \cap file.main.there = {}
    /\ destroyed["sub"] # {} /\ sub.under = slot["actor"]
         => destroyed["sub"] \cap sub.there = {}

FiltersIInv == FiltersTypeOK /\ RecordsInv /\ BakeInv /\ LoadSparesTheRecorded

(* A bake gives what the filters mean whatever the order of the classes,   *)
(* so a level is recorded with every class its filter allows, and no other. *)
BakeIsNearestMark ==
    job # "none" /\ BakeIsDone =>
        \A k \in Kind : baked[k] = {c \in loaded : Allows(slot[k], c)}

(* SavePreset.h:101 "If enabled, this filter will be used while loading    *)
(* instead of ActorFilter": a save uses ActorFilter and ComponentFilter.   *)
SavesUseTheSaveFilters ==
    file # NoFile => /\ file.filter["actor"] = file.asked.filter["actor"]
                    /\ file.filter["component"] = file.asked.filter["component"]
=============================================================================
