--------------------------- MODULE ModelStoreProofs ---------------------------
(***************************************************************************)
(* No model is lost by ModelStore, the saved path follows its file and the *)
(* lists show every model, for any number of directories, names, models    *)
(* and threads.                                                            *)
(***************************************************************************)
EXTENDS ModelStore, TLAPS

\* The file t writes has a name; the file t reads is the one it found.
Writes(t) == t \in DOMAIN task /\ task[t].pc \in {"copy", "remove"}
Reads(t)  == t \in DOMAIN task /\ Migrating(t) /\ task[t].pc \in {"open", "copy", "remove"}

Injective == \A p, q \in Paths : names[p] = names[q] /\ Exists(p) => p = q

\* What operation and step have to do with each other.
Shape ==
    \A t \in DOMAIN task :
        /\ task[t].pc \in {"list", "choose", "rename", "openSource", "remove"} => Migrating(t)
        /\ task[t].pc \in {"rename", "openSource", "open", "copy", "remove", "load", "loaded"} =>
               task[t].dst \in Paths
        /\ task[t].pc = "delete" => task[t].src \in Paths
        /\ task[t].pc \in {"load", "loaded", "delete"} => ~Migrating(t)
        /\ ~Migrating(t) /\ task[t].pc \in {"open", "copy"} => task[t].model \in Models
        /\ Migrating(t) =>
               /\ task[t].to \in Dirs
               /\ \A p \in task[t].todo : p[1] # task[t].to
               /\ task[t].pc \notin {"list", "choose"} =>
                      task[t].src \in Paths /\ task[t].src # task[t].dst
               /\ task[t].pc \in {"open", "copy"} => task[t].in \in Inodes

\* What an operation has of the files it works at.
Own(t) ==
    /\ Reads(t) => Exists(task[t].src) /\ names[task[t].src] = task[t].in
    /\ Writes(t) => Exists(task[t].dst) /\ names[task[t].dst] = task[t].out
    /\ t \in DOMAIN task /\ task[t].pc = "copy" =>
           content[task[t].out] = [model |-> task[t].model, whole |-> FALSE]
    /\ t \in DOMAIN task /\ task[t].pc = "remove" =>
           content[task[t].out] = content[task[t].in]

\* Nobody writes where another one writes or reads.
Apart(t, u) ==
    t # u /\ Writes(u) =>
        /\ Writes(t) => task[t].dst # task[u].dst
        /\ Reads(t) => task[t].src # task[u].dst

Kept == \A m \in owed : \E p \in Paths : Is(p, m)

Undisturbed ==
    /\ \A t \in DOMAIN task : Own(t)
    /\ \A t, u \in DOMAIN task : Apart(t, u)
    /\ Kept

IInv ==
    /\ TypeOK /\ Injective /\ Shape
    /\ accident # "collided" => Undisturbed

\* The next state has what this one had of task u.
Alike(u) ==
    /\ u \in DOMAIN task /\ u \in DOMAIN task'
    /\ task'[u].op = task[u].op /\ task'[u].pc = task[u].pc
    /\ task'[u].todo = task[u].todo /\ task'[u].to = task[u].to
    /\ task'[u].src = task[u].src /\ task'[u].dst = task[u].dst
    /\ task'[u].in = task[u].in /\ task'[u].out = task[u].out
    /\ task'[u].model = task[u].model

------------------------------------------------------------------------------
(* The operators on tasks.                                                 *)

LEMMA RunTasks ==
    ASSUME NEW t, NEW l, Run(t, l)
    PROVE  /\ DOMAIN task' = DOMAIN task \cup {t}
           /\ task'[t] = l
           /\ \A u \in DOMAIN task \ {t} : task'[u] = task[u] /\ Alike(u)
<1>1. task' = [u \in DOMAIN task \cup {t} |-> IF u = t THEN l ELSE task[u]]  BY DEF Run
<1>2. /\ DOMAIN task' = DOMAIN task \cup {t}
      /\ task'[t] = l
      /\ \A u \in DOMAIN task \ {t} : task'[u] = task[u]
  BY <1>1
<1> QED  BY <1>2 DEF Alike

LEMMA EndTasks ==
    ASSUME NEW t, End(t)
    PROVE  /\ DOMAIN task' = DOMAIN task \ {t}
           /\ \A u \in DOMAIN task \ {t} : task'[u] = task[u] /\ Alike(u)
<1>1. task' = [u \in DOMAIN task \ {t} |-> task[u]]  BY DEF End
<1>2. /\ DOMAIN task' = DOMAIN task \ {t}
      /\ \A u \in DOMAIN task \ {t} : task'[u] = task[u]
  BY <1>1
<1> QED  BY <1>2 DEF Alike

\* Types of the tasks after Run and End.
LEMMA RunTypes ==
    ASSUME TypeOK, NEW t \in Threads, NEW l \in Task, Run(t, l)
    PROVE  task' \in [DOMAIN task' -> Task] /\ DOMAIN task' \subseteq Threads
BY DEF TypeOK, Run

LEMMA EndTypes ==
    ASSUME TypeOK, NEW t, End(t)
    PROVE  task' \in [DOMAIN task' -> Task] /\ DOMAIN task' \subseteq Threads
BY DEF TypeOK, End

\* What happened is not forgotten.
LEMMA HappensOnce ==
    ASSUME NEW what \in {"none", "cut", "overlap", "collided", "restored"}, Happens(what), TypeOK
    PROVE  /\ accident' \in Accidents
           /\ accident' # "collided" => accident # "collided" /\ what # "collided"
BY DEF Happens, TypeOK, Accidents

\* To begin beside another operation is no collision.
LEMMA OverlapHappens ==
    ASSUME Happens(Overlap), TypeOK
    PROVE  /\ accident' \in Accidents
           /\ accident' # "collided" => accident # "collided"
BY HappensOnce DEF Overlap

\* Shape speaks of one task at a time.
LEMMA ShapeAlike ==
    ASSUME Shape, NEW u \in DOMAIN task', Alike(u)
    PROVE  (task'[u].pc \in {"list", "choose", "rename", "openSource", "remove"} => Migrating(u)')
           /\ (task'[u].pc \in {"rename", "openSource", "open", "copy", "remove",
                                 "load", "loaded"} => task'[u].dst \in Paths)
           /\ (task'[u].pc = "delete" => task'[u].src \in Paths)
           /\ (task'[u].pc \in {"load", "loaded", "delete"} => ~Migrating(u)')
           /\ (~Migrating(u)' /\ task'[u].pc \in {"open", "copy"} =>
                  task'[u].model \in Models)
           /\ (Migrating(u)' =>
                 /\ task'[u].to \in Dirs
                 /\ \A p \in task'[u].todo : p[1] # task'[u].to
                 /\ task'[u].pc \notin {"list", "choose"} =>
                        task'[u].src \in Paths /\ task'[u].src # task'[u].dst
                 /\ task'[u].pc \in {"open", "copy"} => task'[u].in \in Inodes)
BY DEF Shape, Alike, Migrating

\* A step that leaves the files alone and after which every task is as it was
\* or has no file open keeps what is known of the files.
LEMMA SameFiles ==
    ASSUME Undisturbed, UNCHANGED <<files, owed>>,
           \A u \in DOMAIN task' : Alike(u) \/ (~Reads(u)' /\ ~Writes(u)')
    PROVE  Undisturbed'
<1>1. ASSUME NEW u \in DOMAIN task'  PROVE Own(u)'
  <2>1. CASE ~Reads(u)' /\ ~Writes(u)'
    BY <2>1 DEF Own, Writes
  <2>2. CASE Alike(u)
    BY <2>2 DEF Own, Alike, Reads, Writes, Migrating, Exists, files, Undisturbed
  <2> QED  BY <2>1, <2>2
<1>2. ASSUME NEW u \in DOMAIN task', NEW v \in DOMAIN task'  PROVE Apart(u, v)'
  <2>1. CASE ~Reads(v)' /\ ~Writes(v)'
    BY <2>1 DEF Apart
  <2>2. CASE ~Reads(u)' /\ ~Writes(u)'
    BY <2>2 DEF Apart
  <2>3. CASE Alike(u) /\ Alike(v)
    BY <2>3 DEF Apart, Alike, Reads, Writes, Migrating, Undisturbed
  <2> QED  BY <2>1, <2>2, <2>3
<1>3. Kept'
  BY DEF Kept, Is, Exists, files, Undisturbed
<1> QED  BY <1>1, <1>2, <1>3 DEF Undisturbed

------------------------------------------------------------------------------
(* The user.                                                               *)

LEMMA InitHolds == Init => IInv
<1> SUFFICES ASSUME Init  PROVE IInv
  OBVIOUS
<1> USE StoreAssumption
<1>1. \A i \in DOMAIN Installed : i \in Inodes /\ Installed[i] \in [path : Paths, model : Models]
  <2> DEFINE Entry == [path : Paths, model : Models]
  <2>1. Installed \in Seq(Entry) /\ Len(Installed) <= MaxInodes /\ MaxInodes \in Nat
    OBVIOUS
  <2> HIDE DEF Entry
  <2>2. DOMAIN Installed = 1 .. Len(Installed) /\ Len(Installed) \in Nat
    BY <2>1
  <2>3. \A i \in 1 .. Len(Installed) : Installed[i] \in Entry
    BY <2>1
  <2> QED  BY <2>1, <2>2, <2>3 DEF Inodes, Entry
<1>2. \A p \in Paths : names[p] # 0 =>
          names[p] \in DOMAIN Installed /\ Installed[names[p]].path = p
  BY DEF Init
<1>3. TypeOK
  <2>1. names \in [Paths -> {0} \cup Inodes]
    BY <1>1, <1>2 DEF Init
  <2>2. content \in [Inodes -> [model : Models \cup {None}, whole : BOOLEAN]]
    BY <1>1 DEF Init
  <2>3. task \in [DOMAIN task -> Task] /\ DOMAIN task \subseteq Threads
    BY DEF Init
  <2>4. set \in Settings /\ disk \in Settings
    BY DEF Init, Settings
  <2>5. owed \subseteq Models
    BY <1>1 DEF Init
  <2> QED  BY <2>1, <2>2, <2>3, <2>4, <2>5 DEF TypeOK, Init, Accidents
<1>4. Injective
  BY <1>2 DEF Injective, Exists
<1>5. DOMAIN task = {}
  BY DEF Init
<1>6. Kept
  <2> SUFFICES ASSUME NEW i \in DOMAIN Installed
               PROVE  \E p \in Paths : Is(p, Installed[i].model)
    BY DEF Kept, Init
  <2>1. Installed[i].path \in Paths /\ names[Installed[i].path] # 0
    BY <1>1 DEF Init, Inodes
  <2>2. names[Installed[i].path] = i
    BY <2>1, <1>2
  <2>3. content[i] = [model |-> Installed[i].model, whole |-> TRUE]
    BY <1>1 DEF Init
  <2> QED  BY <2>1, <2>2, <2>3 DEF Is, Exists
<1> QED  BY <1>3, <1>4, <1>5, <1>6 DEF IInv, Shape, Undisturbed

\* The settings change; whatever runs goes on.
LEMMA SettingsStep ==
    ASSUME IInv,
           \/ \E b \in Backups : RestoreState(b)
           \/ UnloadModel \/ UseRemote \/ ForgetMissing \/ OnStop
    PROVE  IInv'
<1>1. UNCHANGED <<files, task, owed, begun>>
  BY DEF RestoreState, UnloadModel, UseRemote, ForgetMissing, OnStop
<1>2. set' \in Settings /\ disk' \in Settings
  <2>1. ASSUME NEW b \in Backups, RestoreState(b)  PROVE set' \in Settings /\ disk' \in Settings
    <3> DEFINE m == IF b.path # None /\ Exists(b.path) THEN content[names[b.path]].model ELSE None
    <3>1. b \in [dir : Dirs, path : Paths \cup {None}, local : BOOLEAN]
      BY StoreAssumption
    <3>2. m \in Models \cup {None}
      <4>1. CASE b.path # None /\ Exists(b.path)
        <5>1. names[b.path] \in Inodes
          BY <4>1, <3>1 DEF Exists, IInv, TypeOK
        <5> QED  BY <4>1, <5>1 DEF IInv, TypeOK
      <4>2. CASE ~(b.path # None /\ Exists(b.path))
        BY <4>2
      <4> QED  BY <4>1, <4>2
    <3>3. Save([dir |-> b.dir, path |-> b.path, local |-> b.local, model |-> m])
      BY <2>1 DEF RestoreState
    <3> HIDE DEF m
    <3> QED  BY <3>1, <3>2, <3>3 DEF Save, Settings
  <2> QED  BY <2>1 DEF UnloadModel, UseRemote, ForgetMissing, OnStop, Save, Unset, Settings, IInv, TypeOK
<1>3. accident' \in Accidents /\ (accident' # "collided" => accident # "collided")
  <2>1. ASSUME NEW b \in Backups, RestoreState(b)
        PROVE  accident' \in Accidents /\ (accident' # "collided" => accident # "collided")
    <3>1. Happens(IF Fits(b) THEN Overlap ELSE "restored")
      BY <2>1 DEF RestoreState
    <3> QED  BY <3>1, HappensOnce DEF Overlap, IInv
  <2>2. CASE UnloadModel \/ ForgetMissing
    BY <2>2, OverlapHappens DEF UnloadModel, ForgetMissing, IInv
  <2>3. CASE UseRemote \/ OnStop
    BY <2>3 DEF UseRemote, OnStop, IInv, TypeOK
  <2> QED  BY <2>1, <2>2, <2>3
<1>4. TypeOK'
  BY <1>1, <1>2, <1>3 DEF IInv, TypeOK, files
<1>5. Injective' /\ Shape'
  BY <1>1 DEF IInv, Injective, Exists, Shape, Migrating, files
<1>6. Undisturbed' = Undisturbed
  BY <1>1 DEF Undisturbed, Own, Apart, Kept, Is, Exists, Reads, Writes, Migrating, files
<1> QED  BY <1>3, <1>4, <1>5, <1>6 DEF IInv

\* A step that only begins operation l of thread t.
LEMMA BeginStep ==
    ASSUME IInv, NEW t \in Threads, NEW l \in Task, Run(t, l),
           UNCHANGED <<files, disk, owed>>, set' \in Settings, begun' \in Nat, Happens(Overlap),
           l.pc \in {"list", "delete", "open", "load"},
           l.pc = "list" <=> l.op \in {"all", "one"},
           l.pc = "list" => l.to \in Dirs /\ \A p \in l.todo : p[1] # l.to,
           l.pc = "delete" => l.src \in Paths,
           l.pc = "load" => l.dst \in Paths,
           l.pc = "open" => l.dst \in Paths /\ l.model \in Models
    PROVE  IInv'
<1>1. /\ DOMAIN task' = DOMAIN task \cup {t}
      /\ task'[t] = l
      /\ \A u \in DOMAIN task \ {t} : task'[u] = task[u] /\ Alike(u)
  BY RunTasks
<1>2. TypeOK'
  <2>1. task' \in [DOMAIN task' -> Task] /\ DOMAIN task' \subseteq Threads
    BY RunTypes DEF IInv
  <2> QED  BY <2>1, OverlapHappens DEF IInv, TypeOK, files
<1>3. Injective'
  BY DEF IInv, Injective, Exists, files
<1>4. Shape'
  <2>1. \A u \in DOMAIN task' \ {t} : Alike(u)
    BY <1>1
  <2>2. Migrating(t)' <=> l.pc = "list"
    BY <1>1 DEF Migrating
  <2>3. Shape
    BY DEF IInv
  <2> QED  BY <1>1, <2>1, <2>2, <2>3, ShapeAlike DEF Shape
<1>5. ~Reads(t)' /\ ~Writes(t)'
  BY <1>1 DEF Reads, Writes, Migrating
<1>6. accident # "collided" => Undisturbed'
  BY <1>1, <1>5, SameFiles DEF IInv
<1> QED  BY <1>2, <1>3, <1>4, <1>6, OverlapHappens DEF IInv

\* No local variable is set yet.
LEMMA LocalType == Local \in Task
BY DEF Local, Task

LEMMA UserStep ==
    ASSUME IInv, NEW t \in Threads, User(t)
    PROVE  IInv'
<1> USE StoreAssumption
<1>1. ASSUME NEW d \in Dirs, ChangeModelStorage(t, d)  PROVE IInv'
  <2> DEFINE l == [Local EXCEPT !.op = "all", !.pc = "list", !.to = d,
                       !.todo = {p \in Paths : p[1] = set.dir}, !.old = set.path]
  <2>1. l \in Task
    BY <1>1, LocalType DEF Task, IInv, TypeOK, Settings
  <2>2. /\ l.pc = "list" /\ l.op = "all" /\ l.to = d
        /\ l.todo = {p \in Paths : p[1] = set.dir}
    BY DEF Local
  <2>3. \A p \in l.todo : p[1] # l.to
    BY <1>1, <2>2 DEF ChangeModelStorage
  <2>4. /\ Run(t, l) /\ UNCHANGED <<files, disk, owed>> /\ Happens(Overlap)
        /\ set' \in Settings /\ begun' \in Nat
    BY <1>1 DEF ChangeModelStorage, Begin, settings, IInv, TypeOK
  <2> HIDE DEF l
  <2> QED  BY <2>1, <2>2, <2>3, <2>4, BeginStep
<1>2. ASSUME NEW p \in Paths, MigrateModel(t, p)  PROVE IInv'
  <2> DEFINE l == [Local EXCEPT !.op = "one", !.pc = "list", !.to = set.dir,
                       !.todo = {p}, !.old = p]
  <2>1. l \in Task /\ set.dir \in Dirs
    BY <1>2, LocalType DEF Task, IInv, TypeOK, Settings
  <2>2. l.pc = "list" /\ l.op = "one" /\ l.to = set.dir /\ l.todo = {p}
    BY DEF Local
  <2>3. \A q \in l.todo : q[1] # l.to
    BY <1>2, <2>2 DEF MigrateModel
  <2>4. /\ Run(t, l) /\ UNCHANGED <<files, disk, owed>> /\ Happens(Overlap)
        /\ set' \in Settings /\ begun' \in Nat
    BY <1>2 DEF MigrateModel, Begin, settings, IInv, TypeOK
  <2> HIDE DEF l
  <2> QED  BY <2>1, <2>2, <2>3, <2>4, BeginStep
<1>3. ASSUME NEW p \in Paths, DeleteModel(t, p)  PROVE IInv'
  <2> DEFINE l == [Local EXCEPT !.op = "delete", !.pc = "delete", !.src = p]
  <2>1. l \in Task
    BY <1>3, LocalType DEF Task
  <2>2. l.pc = "delete" /\ l.op = "delete" /\ l.src = p
    BY DEF Local
  <2>3. set' \in Settings
    BY <1>3 DEF DeleteModel, Unset, Settings, IInv, TypeOK
  <2>4. /\ Run(t, l) /\ UNCHANGED <<files, disk, owed>> /\ Happens(Overlap)
        /\ begun' \in Nat
    BY <1>3 DEF DeleteModel, Begin, IInv, TypeOK
  <2> HIDE DEF l
  <2> QED  BY <2>1, <2>2, <2>3, <2>4, BeginStep
<1>4. ASSUME NEW i \in Imports, ImportModel(t, i[1], i[2])  PROVE IInv'
  <2> DEFINE l == [Local EXCEPT !.op = "import", !.pc = "open", !.model = i[1],
                       !.dst = <<set.dir, i[2]>>]
  <2>1. i[1] \in Models /\ <<set.dir, i[2]>> \in Paths
    BY DEF Paths, IInv, TypeOK, Settings
  <2>2. l \in Task
    BY <2>1, LocalType DEF Task
  <2>3. l.pc = "open" /\ l.op = "import" /\ l.model = i[1] /\ l.dst = <<set.dir, i[2]>>
    BY DEF Local
  <2>4. /\ Run(t, l) /\ UNCHANGED <<files, disk, owed>> /\ Happens(Overlap)
        /\ set' \in Settings /\ begun' \in Nat
    BY <1>4 DEF ImportModel, Begin, settings, IInv, TypeOK
  <2> HIDE DEF l
  <2> QED  BY <2>1, <2>2, <2>3, <2>4, BeginStep
<1>5. ASSUME NEW p \in Paths, LoadModel(t, p)  PROVE IInv'
  <2> DEFINE l == [Local EXCEPT !.op = "load", !.pc = "load", !.dst = p]
  <2>1. l \in Task
    BY <1>5, LocalType DEF Task
  <2>2. l.pc = "load" /\ l.op = "load" /\ l.dst = p
    BY DEF Local
  <2>3. /\ Run(t, l) /\ UNCHANGED <<files, disk, owed>> /\ Happens(Overlap)
        /\ set' \in Settings /\ begun' \in Nat
    BY <1>5 DEF LoadModel, Begin, settings, IInv, TypeOK
  <2> HIDE DEF l
  <2> QED  BY <2>1, <2>2, <2>3, BeginStep
<1> QED  BY <1>1, <1>2, <1>3, <1>4, <1>5 DEF User

------------------------------------------------------------------------------
(* Steps of a thread that leave the files alone.                           *)

\* An operation that ends, in whatever way.
LEMMA EndStep ==
    ASSUME IInv, NEW t, End(t), UNCHANGED <<files, owed, begun>>,
           set' \in Settings, disk' \in Settings,
           accident' \in Accidents,
           accident' # "collided" => accident # "collided"
    PROVE  IInv'
<1>1. /\ DOMAIN task' = DOMAIN task \ {t}
      /\ \A u \in DOMAIN task \ {t} : task'[u] = task[u] /\ Alike(u)
  BY EndTasks
<1>2. TypeOK'
  BY EndTypes DEF IInv, TypeOK, files
<1>3. Injective'
  BY DEF IInv, Injective, Exists, files
<1>4. Shape'
  <2>1. \A u \in DOMAIN task' : Alike(u)
    BY <1>1
  <2>2. Shape
    BY DEF IInv
  <2> QED  BY <2>1, <2>2, ShapeAlike DEF Shape
<1>5. accident # "collided" => Undisturbed'
  BY <1>1, SameFiles DEF IInv
<1> QED  BY <1>2, <1>3, <1>4, <1>5 DEF IInv

LEMMA FailStep ==
    ASSUME IInv, NEW t, Fail(t), UNCHANGED <<files, settings, owed, begun>>
    PROVE  IInv'
<1>1. End(t) /\ Happens(IF Migrating(t) THEN "cut" ELSE "none")
  BY DEF Fail
<1>2. /\ accident' \in Accidents
      /\ accident' # "collided" => accident # "collided"
  BY <1>1, HappensOnce DEF IInv
<1>3. set' \in Settings /\ disk' \in Settings
  BY DEF settings, IInv, TypeOK
<1> QED  BY <1>1, <1>2, <1>3, EndStep DEF settings

LEMMA FailsStep ==
    ASSUME IInv, NEW t, CopyFails(t) \/ DeleteFails(t) \/ LoadFails(t)
    PROVE  IInv'
BY FailStep DEF CopyFails, DeleteFails, LoadFails

LEMMA MigratedStep ==
    ASSUME IInv, NEW t, Migrated(t)
    PROVE  IInv'
<1>1. t \in DOMAIN task /\ task[t] \in Task /\ task[t].pc = "choose"
  BY DEF Migrated, At, IInv, TypeOK
<1>2. Migrating(t) /\ task[t].to \in Dirs /\ task[t].old \in Paths \cup {None}
      /\ task[t].new \in Paths \cup {None}
  BY <1>1 DEF IInv, Shape, Task
<1>3. UpdatedLocalModelPath(task[t].old, t) \in Paths \cup {None}
  BY <1>2 DEF UpdatedLocalModelPath
<1>4. set' \in Settings /\ disk' \in Settings
  <2> DEFINE path == UpdatedLocalModelPath(task[t].old, t)
  <2> HIDE DEF path
  <2>1. \/ UNCHANGED settings
        \/ Save([set EXCEPT !.dir = task[t].to, !.path = path])
        \/ Save([set EXCEPT !.path = task[t].new])
    BY <1>2 DEF Migrated, Migrating, path
  <2>2. path \in Paths \cup {None}
    BY <1>3 DEF path
  <2> QED  BY <2>1, <2>2, <1>2 DEF settings, Save, Settings, IInv, TypeOK
<1>5. End(t) /\ UNCHANGED <<files, owed, accident, begun>>
  BY DEF Migrated
<1>6. accident' \in Accidents
  BY <1>5 DEF IInv, TypeOK
<1> QED  BY <1>4, <1>5, <1>6, EndStep

LEMMA LoadReturnsStep ==
    ASSUME IInv, NEW t, LoadReturns(t)
    PROVE  IInv'
<1>1. t \in DOMAIN task /\ task[t] \in Task /\ task[t].pc = "loaded"
  BY DEF LoadReturns, At, IInv, TypeOK
<1>2. task[t].dst \in Paths /\ task[t].model \in Models \cup {None}
  BY <1>1 DEF IInv, Shape, Task
<1>3. set' \in Settings /\ disk' \in Settings
  BY <1>2 DEF LoadReturns, settings, Save, Settings, IInv, TypeOK
<1>4. End(t) /\ UNCHANGED <<files, owed, accident, begun>>
  BY DEF LoadReturns
<1>5. accident' \in Accidents
  BY <1>4 DEF IInv, TypeOK
<1> QED  BY <1>3, <1>4, <1>5, EndStep

\* A step of an operation that has no file open yet, or none any more.
LEMMA WayStep ==
    ASSUME IInv, NEW t \in DOMAIN task, NEW l \in Task, Run(t, l),
           l.op = task[t].op, l.to = task[t].to, l.todo \subseteq task[t].todo,
           l.pc \in {"choose", "rename", "openSource", "loaded"},
           Migrating(t) <=> l.pc # "loaded",
           l.pc # "choose" => l.dst \in Paths,
           l.pc \in {"rename", "openSource"} => l.src \in Paths /\ l.src # l.dst,
           accident' \in Accidents, accident' # "collided" => accident # "collided",
           UNCHANGED <<files, settings, owed, begun>>
    PROVE  IInv'
<1>1. /\ DOMAIN task' = DOMAIN task \cup {t}
      /\ task'[t] = l
      /\ \A u \in DOMAIN task \ {t} : task'[u] = task[u] /\ Alike(u)
  BY RunTasks
<1>2. TypeOK'
  <2>1. t \in Threads
    BY DEF IInv, TypeOK
  <2>2. task' \in [DOMAIN task' -> Task] /\ DOMAIN task' \subseteq Threads
    BY <2>1, RunTypes DEF IInv
  <2> QED  BY <2>2 DEF IInv, TypeOK, files, settings
<1>3. Injective'
  BY DEF IInv, Injective, Exists, files
<1>4. Shape'
  <2>1. \A u \in DOMAIN task' \ {t} : Alike(u)
    BY <1>1
  <2>2. Migrating(t)' <=> Migrating(t)
    BY <1>1 DEF Migrating
  <2>3. Migrating(t) => l.to \in Dirs /\ \A p \in l.todo : p[1] # l.to
    BY DEF IInv, Shape
  <2>4. Shape
    BY DEF IInv
  <2> QED  BY <1>1, <2>1, <2>2, <2>3, <2>4, ShapeAlike DEF Shape
<1>5. ~Reads(t)' /\ ~Writes(t)'
  BY <1>1 DEF Reads, Writes
<1>6. accident # "collided" => Undisturbed'
  BY <1>1, <1>5, SameFiles DEF IInv
<1> QED  BY <1>2, <1>3, <1>4, <1>6 DEF IInv

LEMMA ListFilesStep ==
    ASSUME IInv, NEW t, ListFiles(t)
    PROVE  IInv'
<1>1. t \in DOMAIN task /\ task[t] \in Task /\ task[t].pc = "list" /\ Migrating(t)
  BY DEF ListFiles, At, IInv, TypeOK, Shape
<1>2. UNCHANGED <<files, settings, owed, begun>>
  BY DEF ListFiles
<1>3. ASSUME NEW ps \in SUBSET task[t].todo,
             Run(t, [task[t] EXCEPT !.pc = "choose", !.todo = ps]),
             accident' \in Accidents, accident' # "collided" => accident # "collided"
      PROVE  IInv'
  <2> DEFINE l == [task[t] EXCEPT !.pc = "choose", !.todo = ps]
  <2>1. l \in Task
    BY <1>1 DEF Task
  <2>2. l.op = task[t].op /\ l.to = task[t].to /\ l.todo = ps /\ l.pc = "choose"
    BY <1>1 DEF Task
  <2>3. Run(t, l)
    BY <1>3
  <2> HIDE DEF l
  <2> QED  BY <1>1, <1>2, <1>3, <2>1, <2>2, <2>3, WayStep
<1>4. CASE End(t) /\ UNCHANGED accident
  <2>1. accident' \in Accidents /\ set' \in Settings /\ disk' \in Settings
    BY <1>2, <1>4 DEF IInv, TypeOK, settings
  <2> QED  BY <1>2, <1>4, <2>1, EndStep DEF settings
<1>5. \/ UNCHANGED accident
      \/ Happens("cut")
  BY DEF ListFiles
<1>6. accident' \in Accidents /\ (accident' # "collided" => accident # "collided")
  BY <1>5, HappensOnce DEF IInv, TypeOK
<1>7. \/ \E ps \in SUBSET task[t].todo : Run(t, [task[t] EXCEPT !.pc = "choose", !.todo = ps])
      \/ End(t) /\ UNCHANGED accident
  <2> DEFINE there == {p \in task[t].todo : Exists(p)}
  <2>1. \/ Run(t, [task[t] EXCEPT !.pc = "choose", !.todo = there])
        \/ Run(t, [task[t] EXCEPT !.pc = "choose", !.todo = {}])
        \/ End(t) /\ UNCHANGED accident
    BY DEF ListFiles
  <2>2. there \in SUBSET task[t].todo
    OBVIOUS
  <2> HIDE DEF there
  <2> QED  BY <2>1, <2>2
<1> QED  BY <1>3, <1>4, <1>6, <1>7

LEMMA EngineLoadsStep ==
    ASSUME IInv, NEW t, EngineLoads(t)
    PROVE  IInv'
<1> DEFINE m == content[names[task[t].dst]].model
           l == [task[t] EXCEPT !.pc = "loaded", !.model = m]
<1>1. /\ t \in DOMAIN task /\ task[t] \in Task /\ task[t].pc = "load" /\ ~Migrating(t)
      /\ task[t].dst \in Paths
  BY DEF EngineLoads, At, IInv, TypeOK, Shape
<1>2. Run(t, l) /\ UNCHANGED <<files, settings, owed, accident, begun>> /\ Exists(task[t].dst)
  BY DEF EngineLoads
<1>3. m \in Models \cup {None}
  <2>1. names[task[t].dst] \in Inodes
    BY <1>1, <1>2 DEF Exists, IInv, TypeOK
  <2> QED  BY <2>1 DEF IInv, TypeOK
<1> HIDE DEF m
<1>4. l \in Task
  BY <1>1, <1>3 DEF Task
<1>5. /\ l.op = task[t].op /\ l.to = task[t].to /\ l.todo = task[t].todo
      /\ l.pc = "loaded" /\ l.dst = task[t].dst
  BY <1>1 DEF Task
<1>6. accident' \in Accidents
  BY <1>2 DEF IInv, TypeOK
<1> HIDE DEF l
<1> QED  BY <1>1, <1>2, <1>4, <1>5, <1>6, WayStep

LEMMA ChooseStep ==
    ASSUME IInv, NEW t, Choose(t)
    PROVE  IInv'
<1>1. t \in DOMAIN task /\ task[t] \in Task /\ task[t].pc = "choose"
  BY DEF Choose, At, IInv, TypeOK
<1>2. PICK p \in task[t].todo, q \in {task[t].to} \X Names :
          Run(t, [task[t] EXCEPT !.pc = "rename", !.src = p, !.dst = q, !.todo = @ \ {p}])
  BY DEF Choose
<1> DEFINE l == [task[t] EXCEPT !.pc = "rename", !.src = p, !.dst = q, !.todo = @ \ {p}]
<1>3. Migrating(t) /\ task[t].to \in Dirs /\ p[1] # task[t].to
  BY <1>1 DEF IInv, Shape
<1>4. p \in Paths /\ q \in Paths /\ p # q
  <2>1. p \in Paths
    BY <1>1 DEF Task
  <2> QED  BY <2>1, <1>3 DEF Paths
<1>5. l \in Task
  BY <1>1, <1>4 DEF Task
<1>6. /\ l.op = task[t].op /\ l.to = task[t].to /\ l.todo \subseteq task[t].todo
      /\ l.pc = "rename" /\ l.src = p /\ l.dst = q
  BY <1>1 DEF Task
<1>7. Run(t, l) /\ UNCHANGED <<files, settings, owed, accident, begun>>
  BY <1>2 DEF Choose
<1>8. accident' \in Accidents
  BY DEF Choose, RenameFails, IInv, TypeOK
<1> HIDE DEF l
<1> QED  BY <1>1, <1>3, <1>4, <1>5, <1>6, <1>7, <1>8, WayStep

LEMMA RenameFailsStep ==
    ASSUME IInv, NEW t, RenameFails(t)
    PROVE  IInv'
<1> DEFINE l == [task[t] EXCEPT !.pc = "openSource"]
<1>1. t \in DOMAIN task /\ task[t] \in Task /\ task[t].pc = "rename"
  BY DEF RenameFails, At, IInv, TypeOK
<1>2. Migrating(t) /\ task[t].dst \in Paths /\ task[t].src \in Paths /\ task[t].src # task[t].dst
  BY <1>1 DEF IInv, Shape
<1>3. l \in Task
  BY <1>1 DEF Task
<1>4. /\ l.op = task[t].op /\ l.to = task[t].to /\ l.todo = task[t].todo
      /\ l.pc = "openSource" /\ l.src = task[t].src /\ l.dst = task[t].dst
  BY <1>1 DEF Task
<1>5. Run(t, l) /\ UNCHANGED <<files, settings, owed, accident, begun>>
  BY DEF RenameFails
<1>6. accident' \in Accidents
  BY DEF Choose, RenameFails, IInv, TypeOK
<1> HIDE DEF l
<1> QED  BY <1>1, <1>2, <1>3, <1>4, <1>5, <1>6, WayStep

------------------------------------------------------------------------------
(* Steps of a thread at the files.                                         *)

\* What a step of t leaves alone, whatever it does to the files.
LEMMA OtherShapes ==
    ASSUME IInv, NEW t \in DOMAIN task, NEW l \in Task, Run(t, l),
           l.pc \in {"choose", "open", "copy", "remove", "load"},
           l.op = task[t].op, l.to = task[t].to, l.todo = task[t].todo,
           l.pc \in {"choose", "remove"} => Migrating(t),
           l.pc = "load" => ~Migrating(t),
           l.pc # "choose" => l.src = task[t].src /\ l.dst = task[t].dst,
           l.pc # "choose" => task[t].dst \in Paths,
           Migrating(t) => task[t].pc \notin {"list", "choose"},
           Migrating(t) /\ l.pc \in {"open", "copy"} => l.in \in Inodes,
           ~Migrating(t) => l.model \in Models
    PROVE  /\ DOMAIN task' = DOMAIN task
           /\ task'[t] = l
           /\ \A u \in DOMAIN task \ {t} : task'[u] = task[u] /\ Alike(u)
           /\ task' \in [DOMAIN task' -> Task] /\ DOMAIN task' \subseteq Threads
           /\ Shape'
<1>1. /\ DOMAIN task' = DOMAIN task
      /\ task'[t] = l
      /\ \A u \in DOMAIN task \ {t} : task'[u] = task[u] /\ Alike(u)
  BY RunTasks
<1>2. task' \in [DOMAIN task' -> Task] /\ DOMAIN task' \subseteq Threads
  <2>1. t \in Threads
    BY DEF IInv, TypeOK
  <2> QED  BY <2>1, RunTypes DEF IInv
<1>3. Shape'
  <2>1. \A u \in DOMAIN task' \ {t} : Alike(u)
    BY <1>1
  <2>2. Migrating(t)' <=> Migrating(t)
    BY <1>1 DEF Migrating
  <2>3. Migrating(t) => /\ l.to \in Dirs /\ \A p \in l.todo : p[1] # l.to
                        /\ task[t].src \in Paths /\ task[t].src # task[t].dst
    BY DEF IInv, Shape
  <2>4. Shape
    BY DEF IInv
  <2> QED  BY <1>1, <2>1, <2>2, <2>3, <2>4, ShapeAlike DEF Shape
<1> QED  BY <1>1, <1>2, <1>3

LEMMA OpenSourceStep ==
    ASSUME IInv, NEW t, OpenSource(t)
    PROVE  IInv'
<1> DEFINE i == names[task[t].src]
           l == [task[t] EXCEPT !.pc = "open", !.in = i, !.model = content[i].model]
<1>1. t \in DOMAIN task /\ task[t] \in Task /\ task[t].pc = "openSource"
  BY DEF OpenSource, At, IInv, TypeOK
<1>2. /\ Migrating(t) /\ task[t].dst \in Paths /\ task[t].src \in Paths
      /\ task[t].src # task[t].dst
  BY <1>1 DEF IInv, Shape
<1>3. /\ Run(t, l) /\ UNCHANGED <<files, settings, owed, begun>> /\ Exists(task[t].src)
      /\ Happens(IF Contended(t, task[t].src) THEN "collided" ELSE "none")
  BY DEF OpenSource
<1>4. i \in Inodes /\ i \in Nat /\ content[i].model \in Models \cup {None}
  <2>1. i \in Inodes
    BY <1>2, <1>3 DEF Exists, IInv, TypeOK
  <2> QED  BY <2>1, StoreAssumption DEF Inodes, IInv, TypeOK
<1> HIDE DEF i
<1>5. l \in Task
  BY <1>1, <1>4 DEF Task
<1>6. /\ l.op = task[t].op /\ l.to = task[t].to /\ l.todo = task[t].todo
      /\ l.pc = "open" /\ l.src = task[t].src /\ l.dst = task[t].dst /\ l.in = i
  BY <1>1 DEF Task
<1> HIDE DEF l
<1>7. /\ DOMAIN task' = DOMAIN task
      /\ task'[t] = l
      /\ \A u \in DOMAIN task \ {t} : task'[u] = task[u] /\ Alike(u)
      /\ task' \in [DOMAIN task' -> Task] /\ DOMAIN task' \subseteq Threads
      /\ Shape'
  BY <1>1, <1>2, <1>3, <1>4, <1>5, <1>6, OtherShapes
<1>8. /\ accident' \in Accidents
      /\ accident' # "collided" => accident # "collided" /\ ~Contended(t, task[t].src)
  BY <1>3, HappensOnce DEF IInv
<1>9. TypeOK' /\ Injective'
  BY <1>3, <1>7, <1>8 DEF IInv, TypeOK, Injective, Exists, files, settings
<1>10. ASSUME accident' # "collided"  PROVE Undisturbed'
  <2> Undisturbed /\ ~Contended(t, task[t].src)
    BY <1>8, <1>10 DEF IInv
  <2>1. ASSUME NEW u \in DOMAIN task'  PROVE Own(u)'
    <3>1. CASE u = t
      BY <3>1, <1>3, <1>6, <1>7 DEF Own, Writes, Exists, files, i
    <3>2. CASE u # t
      BY <3>2, <1>3, <1>7 DEF Own, Alike, Reads, Writes, Migrating, Exists, files, Undisturbed
    <3> QED  BY <3>1, <3>2
  <2>2. ASSUME NEW u \in DOMAIN task', NEW v \in DOMAIN task'  PROVE Apart(u, v)'
    <3>1. CASE v = t
      BY <3>1, <1>6, <1>7 DEF Apart, Writes
    <3>2. CASE u = t /\ v # t
      <4>1. Writes(v) => task[v].dst # task[t].src
        BY <3>2, <1>7 DEF Contended, Loading, Writes
      <4> QED  BY <4>1, <3>2, <1>6, <1>7 DEF Apart, Writes
    <3>3. CASE u # t /\ v # t
      BY <3>3, <1>7 DEF Apart, Alike, Reads, Writes, Migrating, Undisturbed
    <3> QED  BY <3>1, <3>2, <3>3
  <2>3. Kept'
    BY <1>3 DEF Kept, Is, Exists, files, Undisturbed
  <2> QED  BY <2>1, <2>2, <2>3 DEF Undisturbed
<1> QED  BY <1>7, <1>9, <1>10 DEF IInv

LEMMA OpenStep ==
    ASSUME IInv, NEW t, Open(t)
    PROVE  IInv'
<1> DEFINE dst == task[t].dst
           empty == [model |-> task[t].model, whole |-> FALSE]
<1>1. t \in DOMAIN task /\ task[t] \in Task /\ task[t].pc = "open"
  BY DEF Open, At, IInv, TypeOK
<1>2. /\ dst \in Paths
      /\ ~Migrating(t) => task[t].model \in Models
      /\ Migrating(t) => /\ task[t].src \in Paths /\ task[t].src # dst
                         /\ task[t].in \in Inodes
  BY <1>1 DEF IInv, Shape
<1>3. PICK i \in Inodes :
          /\ IF Exists(dst) THEN i = names[dst] ELSE Free(i)
          /\ names' = [names EXCEPT ![dst] = i]
          /\ content' = [content EXCEPT ![i] = empty]
          /\ Run(t, [task[t] EXCEPT !.pc = "copy", !.out = i])
  BY DEF Open
<1> DEFINE l == [task[t] EXCEPT !.pc = "copy", !.out = i]
<1>4. i \in Nat /\ i # 0
  BY StoreAssumption DEF Inodes
<1>5. l \in Task
  BY <1>1, <1>4 DEF Task
<1>6. /\ l.op = task[t].op /\ l.to = task[t].to /\ l.todo = task[t].todo
      /\ l.pc = "copy" /\ l.src = task[t].src /\ l.dst = task[t].dst
      /\ l.in = task[t].in /\ l.out = i /\ l.model = task[t].model
  BY <1>1 DEF Task
<1>7. Run(t, l)
  BY <1>3
<1> HIDE DEF l
<1>8. /\ DOMAIN task' = DOMAIN task
      /\ task'[t] = l
      /\ \A u \in DOMAIN task \ {t} : task'[u] = task[u] /\ Alike(u)
      /\ task' \in [DOMAIN task' -> Task] /\ DOMAIN task' \subseteq Threads
      /\ Shape'
  BY <1>1, <1>2, <1>5, <1>6, <1>7, OtherShapes
<1>9. /\ accident' \in Accidents
      /\ accident' # "collided" =>
             /\ accident # "collided" /\ ~Contended(t, dst)
             /\ Migrating(t) => ~Exists(dst)
  BY HappensOnce DEF Open, IInv
<1>10. owed' = IF Exists(dst) /\ content[names[dst]].whole /\ ~Migrating(t)
               THEN owed \ {content[names[dst]].model} ELSE owed
  BY DEF Open
<1>11. TypeOK'
  <2>1. names' \in [Paths -> {0} \cup Inodes]
    BY <1>2, <1>3 DEF IInv, TypeOK
  <2>2. empty \in [model : Models \cup {None}, whole : BOOLEAN]
    BY <1>1 DEF Task
  <2>3. content' \in [Inodes -> [model : Models \cup {None}, whole : BOOLEAN]]
    BY <1>3, <2>2 DEF IInv, TypeOK
  <2>4. owed' \subseteq Models
    BY <1>10 DEF IInv, TypeOK
  <2>5. UNCHANGED <<settings, begun>>
    BY DEF Open
  <2> QED  BY <1>8, <1>9, <2>1, <2>3, <2>4, <2>5 DEF IInv, TypeOK, settings
<1>12. \A p \in Paths : names'[p] = IF p = dst THEN i ELSE names[p]
  BY <1>2, <1>3 DEF IInv, TypeOK
<1>13. \A p \in Paths \ {dst} : names[p] # i
  <2>1. CASE Exists(dst)
    BY <2>1, <1>2, <1>3 DEF IInv, Injective
  <2>2. CASE ~Exists(dst)
    BY <2>2, <1>3 DEF Free
  <2> QED  BY <2>1, <2>2
<1>14. Injective'
  BY <1>12, <1>13 DEF IInv, Injective, Exists
<1>15. \A j \in Inodes : content'[j] = IF j = i THEN empty ELSE content[j]
  BY <1>3 DEF IInv, TypeOK
<1>16. ASSUME accident' # "collided"  PROVE Undisturbed'
  <2> Undisturbed /\ ~Contended(t, dst) /\ (Migrating(t) => ~Exists(dst))
    BY <1>9, <1>16 DEF IInv
  <2>1. \A u \in DOMAIN task \ {t} :
            Reads(u) \/ Writes(u) => task[u].src # dst /\ task[u].dst # dst
    BY DEF Contended, Loading, Reads, Writes
  <2>2. ASSUME NEW u \in DOMAIN task \ {t}
        PROVE  /\ Reads(u) => task[u].src \in Paths /\ task[u].in # i /\ task[u].in \in Inodes
               /\ Writes(u) => task[u].dst \in Paths /\ task[u].out # i /\ task[u].out \in Inodes
    <3>1. Reads(u) => task[u].src \in Paths
      BY DEF Reads, IInv, Shape
    <3>2. Writes(u) => task[u].dst \in Paths
      BY DEF Writes, IInv, Shape
    <3>3. Own(u)
      BY DEF Undisturbed
    <3> QED  BY <2>1, <3>1, <3>2, <3>3, <1>13 DEF Own, Exists, IInv, TypeOK
  <2>3. ASSUME NEW u \in DOMAIN task'  PROVE Own(u)'
    <3>1. CASE u = t
      <4>1. task'[t].dst \in Paths /\ names'[task'[t].dst] = i /\ task'[t].out = i
        BY <1>2, <1>6, <1>8, <1>12
      <4>2. Reads(t)' => Reads(t)
        BY <1>1, <1>6, <1>8 DEF Reads, Migrating
      <4>3. Reads(t) => Exists(task[t].src) /\ names[task[t].src] = task[t].in
        BY <1>1 DEF Undisturbed, Own
      <4>4. Reads(t) => names'[task'[t].src] # 0 /\ names'[task'[t].src] = task'[t].in
        BY <4>3, <1>2, <1>6, <1>8, <1>12 DEF Reads, Exists
      <4>5. content'[i] = [model |-> task[t].model, whole |-> FALSE]
        BY <1>15
      <4> QED  BY <3>1, <4>1, <4>2, <4>4, <4>5, <1>4, <1>6, <1>8 DEF Own, Exists
    <3>2. CASE u # t
      <4>1. u \in DOMAIN task \ {t} /\ task'[u] = task[u] /\ Own(u)
        BY <3>2, <1>8 DEF Undisturbed
      <4>2. (Reads(u)' <=> Reads(u)) /\ (Writes(u)' <=> Writes(u))
        BY <4>1, <1>8 DEF Reads, Writes, Migrating
      <4>3. Reads(u) => /\ names'[task[u].src] # 0
                        /\ names'[task[u].src] = task[u].in
        BY <4>1, <2>1, <2>2, <1>12 DEF Own, Exists
      <4>4. Writes(u) => /\ names'[task[u].dst] # 0
                         /\ names'[task[u].dst] = task[u].out
        BY <4>1, <2>1, <2>2, <1>12 DEF Own, Exists
      <4>5. task[u].pc = "copy" => content'[task[u].out] = content[task[u].out]
        BY <4>1, <2>2, <1>15 DEF Writes
      <4>6. task[u].pc = "remove" =>
                /\ content'[task[u].out] = content[task[u].out]
                /\ content'[task[u].in] = content[task[u].in]
        <5>1. task[u].pc = "remove" => Reads(u) /\ Writes(u)
          BY <4>1 DEF Reads, Writes, IInv, Shape
        <5> QED  BY <5>1, <4>1, <2>2, <1>15
      <4>7. (task[u].pc = "copy" =>
                 content[task[u].out] = [model |-> task[u].model, whole |-> FALSE])
            /\ (task[u].pc = "remove" => content[task[u].out] = content[task[u].in])
        BY <4>1 DEF Own
      <4> QED  BY <4>1, <4>2, <4>3, <4>4, <4>5, <4>6, <4>7 DEF Own, Exists
    <3> QED  BY <3>1, <3>2
  <2>4. ASSUME NEW u \in DOMAIN task', NEW v \in DOMAIN task'  PROVE Apart(u, v)'
    <3>1. CASE v = t
      BY <3>1, <2>1, <1>6, <1>8 DEF Apart, Reads, Writes, Migrating
    <3>2. CASE u = t /\ v # t
      <4>1. (Writes(v) => task[v].dst # dst) /\ task'[v] = task[v]
        BY <3>2, <2>1, <1>8
      <4>2. Reads(t)' => Reads(t)
        BY <1>1, <1>6, <1>8 DEF Reads, Migrating
      <4>3. Apart(t, v)
        BY <3>2, <1>1, <1>8 DEF Undisturbed
      <4> QED  BY <4>1, <4>2, <4>3, <3>2, <1>6, <1>8 DEF Apart, Writes
    <3>3. CASE u # t /\ v # t
      BY <3>3, <1>8 DEF Apart, Alike, Reads, Writes, Migrating, Undisturbed
    <3> QED  BY <3>1, <3>2, <3>3
  <2>5. ASSUME NEW m \in owed'  PROVE \E p \in Paths : Is(p, m)'
    <3>1. m \in owed
      BY <1>10
    <3>2. PICK p \in Paths : Is(p, m)
      BY <3>1 DEF Undisturbed, Kept
    <3>3. p # dst
      BY <3>2, <1>10 DEF Is
    <3>4. names'[p] = names[p] /\ names[p] # i /\ names[p] \in Inodes
      BY <3>2, <3>3, <1>12, <1>13 DEF Is, Exists, IInv, TypeOK
    <3>5. content'[names[p]] = content[names[p]]
      BY <3>4, <1>15
    <3> QED  BY <3>2, <3>4, <3>5 DEF Is, Exists
  <2> QED  BY <2>3, <2>4, <2>5 DEF Undisturbed, Kept
<1> QED  BY <1>8, <1>11, <1>14, <1>16 DEF IInv

\* What was copied is whole; nobody else has the file open.
LEMMA CopyDoneStep ==
    ASSUME IInv, NEW t, CopyDone(t)
    PROVE  IInv'
<1> DEFINE o == task[t].out
           c == IF Migrating(t) THEN content[task[t].in] ELSE [content[o] EXCEPT !.whole = TRUE]
           l == [task[t] EXCEPT !.pc = IF Migrating(t) THEN "remove" ELSE "load"]
<1>1. t \in DOMAIN task /\ task[t] \in Task /\ task[t].pc = "copy"
  BY DEF CopyDone, At, IInv, TypeOK
<1>2. /\ task[t].dst \in Paths
      /\ ~Migrating(t) => task[t].model \in Models
      /\ Migrating(t) => /\ task[t].src \in Paths /\ task[t].src # task[t].dst
                         /\ task[t].in \in Inodes
  BY <1>1 DEF IInv, Shape
<1>3. /\ content' = [content EXCEPT ![o] = c]
      /\ Run(t, l)
      /\ owed' = IF Migrating(t) THEN owed ELSE owed \cup {task[t].model}
      /\ UNCHANGED <<names, settings, accident, begun>>
  BY DEF CopyDone
<1>4. o \in Inodes => c \in [model : Models \cup {None}, whole : BOOLEAN]
  BY <1>2 DEF IInv, TypeOK
<1>5. \A j \in Inodes : content'[j] = IF j = o THEN c ELSE content[j]
  BY <1>3 DEF IInv, TypeOK
<1>6. content' \in [Inodes -> [model : Models \cup {None}, whole : BOOLEAN]]
  <2> HIDE DEF c, o
  <2> QED  BY <1>3, <1>4 DEF IInv, TypeOK
<1>7. c = IF Migrating(t) THEN content[task[t].in] ELSE [content[o] EXCEPT !.whole = TRUE]
  OBVIOUS
<1>8. /\ l \in Task
      /\ l.op = task[t].op /\ l.to = task[t].to /\ l.todo = task[t].todo
      /\ l.pc = IF Migrating(t) THEN "remove" ELSE "load"
      /\ l.src = task[t].src /\ l.dst = task[t].dst
      /\ l.in = task[t].in /\ l.out = o /\ l.model = task[t].model
  BY <1>1 DEF Task
<1> HIDE DEF l, c, o
<1>9. /\ DOMAIN task' = DOMAIN task
      /\ task'[t] = l
      /\ \A u \in DOMAIN task \ {t} : task'[u] = task[u] /\ Alike(u)
      /\ task' \in [DOMAIN task' -> Task] /\ DOMAIN task' \subseteq Threads
      /\ Shape'
  BY <1>1, <1>2, <1>3, <1>8, OtherShapes
<1>10. TypeOK' /\ Injective'
  <2>1. owed' \subseteq Models
    BY <1>2, <1>3 DEF IInv, TypeOK
  <2> QED  BY <2>1, <1>3, <1>6, <1>9 DEF IInv, TypeOK, Injective, Exists, settings
<1>11. ASSUME accident' # "collided"  PROVE Undisturbed'
  <2>1. Undisturbed
    BY <1>3, <1>11 DEF IInv
  <2>2. Own(t) /\ Writes(t) /\ (Migrating(t) => Reads(t))
    BY <2>1, <1>1 DEF Undisturbed, Writes, Reads
  <2>3. /\ names[task[t].dst] = o /\ o # 0 /\ o \in Inodes
        /\ content[o] = [model |-> task[t].model, whole |-> FALSE]
        /\ Migrating(t) => /\ names[task[t].src] = task[t].in /\ task[t].in # 0
                           /\ task[t].in # o
    <3>1. names[task[t].dst] = o /\ Exists(task[t].dst)
      BY <2>2 DEF Own, o
    <3>2. o # 0 /\ o \in Inodes
      BY <3>1, <1>2 DEF Exists, IInv, TypeOK
    <3>3. content[o] = [model |-> task[t].model, whole |-> FALSE]
      BY <2>2, <1>1 DEF Own, o
    <3>4. Migrating(t) => names[task[t].src] = task[t].in /\ task[t].in # 0
      BY <2>2 DEF Own, Exists
    <3>5. Migrating(t) => task[t].in # o
      BY <3>1, <3>4, <1>2 DEF IInv, Injective, Exists
    <3> QED  BY <3>1, <3>2, <3>3, <3>4, <3>5
  <2>4. ASSUME NEW u \in DOMAIN task \ {t}
        PROVE  /\ Reads(u) => task[u].in # o /\ task[u].in \in Inodes
               /\ Writes(u) => task[u].out # o /\ task[u].out \in Inodes
    <3>1. Own(u) /\ Apart(u, t)
      BY <2>1, <1>1 DEF Undisturbed
    <3>2. Reads(u) => task[u].src \in Paths /\ task[u].src # task[t].dst
      BY <3>1, <2>2 DEF Apart, Reads, IInv, Shape
    <3>3. Writes(u) => task[u].dst \in Paths /\ task[u].dst # task[t].dst
      BY <3>1, <2>2 DEF Apart, Writes, IInv, Shape
    <3>4. \A p \in Paths : p # task[t].dst /\ names[p] # 0 => names[p] # o /\ names[p] \in Inodes
      BY <1>2, <2>3 DEF IInv, Injective, Exists, TypeOK
    <3> QED  BY <3>1, <3>2, <3>3, <3>4 DEF Own, Exists
  <2>5. ASSUME NEW u \in DOMAIN task'  PROVE Own(u)'
    <3>1. CASE u = t
      <4>1. names'[task'[t].dst] = task'[t].out /\ names'[task'[t].dst] # 0
        BY <2>3, <1>3, <1>8, <1>9
      <4>2. Migrating(t) => /\ names'[task'[t].src] # 0 /\ names'[task'[t].src] = task'[t].in
        BY <2>3, <1>3, <1>8, <1>9
      <4>3. Migrating(t)' <=> Migrating(t)
        BY <1>8, <1>9 DEF Migrating
      <4>4. Migrating(t) => content'[task'[t].out] = content'[task'[t].in]
        BY <2>3, <1>2, <1>5, <1>7, <1>8, <1>9
      <4>5. task'[t].pc # "copy" /\ (task'[t].pc = "remove" => Migrating(t))
        BY <1>8, <1>9
      <4> QED  BY <3>1, <4>1, <4>2, <4>3, <4>4, <4>5 DEF Own, Reads, Exists
    <3>2. CASE u # t
      <4>1. u \in DOMAIN task \ {t} /\ task'[u] = task[u] /\ Own(u)
        BY <3>2, <2>1, <1>9 DEF Undisturbed
      <4>2. (Reads(u)' <=> Reads(u)) /\ (Writes(u)' <=> Writes(u))
        BY <4>1, <1>9 DEF Reads, Writes, Migrating
      <4>3. task[u].pc = "copy" => content'[task[u].out] = content[task[u].out]
        BY <4>1, <2>4, <1>5 DEF Writes
      <4>4. task[u].pc = "remove" =>
                /\ content'[task[u].out] = content[task[u].out]
                /\ content'[task[u].in] = content[task[u].in]
        <5>1. task[u].pc = "remove" => Reads(u) /\ Writes(u)
          BY <4>1 DEF Reads, Writes, IInv, Shape
        <5> QED  BY <5>1, <4>1, <2>4, <1>5
      <4> QED  BY <4>1, <4>2, <4>3, <4>4, <1>3 DEF Own, Exists
    <3> QED  BY <3>1, <3>2
  <2>6. ASSUME NEW u \in DOMAIN task', NEW v \in DOMAIN task'  PROVE Apart(u, v)'
    <3>1. Apart(u, v)
      BY <2>1, <1>9 DEF Undisturbed
    <3>2. /\ task'[u].src = task[u].src /\ task'[u].dst = task[u].dst
          /\ task'[v].dst = task[v].dst
      BY <1>8, <1>9
    <3>3. (Reads(u)' => Reads(u)) /\ (Writes(u)' => Writes(u)) /\ (Writes(v)' => Writes(v))
      BY <1>1, <1>8, <1>9 DEF Reads, Writes, Migrating
    <3> QED  BY <3>1, <3>2, <3>3 DEF Apart
  <2>7. ASSUME NEW m \in owed'  PROVE \E p \in Paths : Is(p, m)'
    <3>1. CASE m \in owed
      <4>1. PICK p \in Paths : Is(p, m)
        BY <3>1, <2>1 DEF Undisturbed, Kept
      <4>2. names[p] # o /\ names[p] \in Inodes
        BY <4>1, <2>3 DEF Is, Exists, IInv, TypeOK
      <4> QED  BY <4>1, <4>2, <1>3, <1>5 DEF Is, Exists
    <3>2. CASE m \notin owed
      <4>1. ~Migrating(t) /\ m = task[t].model
        BY <3>2, <1>3
      <4>2. c = [model |-> task[t].model, whole |-> TRUE]
        <5> DEFINE part == [model |-> task[t].model, whole |-> FALSE]
        <5>1. c = [part EXCEPT !.whole = TRUE]
          BY <4>1, <2>3, <1>7
        <5> QED  BY <5>1
      <4>3. Is(task[t].dst, m)'
        <5>1. names'[task[t].dst] = o /\ content'[o] = c /\ o # 0
          BY <2>3, <1>3, <1>5
        <5>2. Is(task[t].dst, m)' <=>
                  names'[task'[t].dst] # 0
                    /\ content'[names'[task'[t].dst]] = [model |-> m, whole |-> TRUE]
          BY DEF Is, Exists
        <5> QED  BY <5>1, <5>2, <4>1, <4>2, <1>8, <1>9
      <4> QED  BY <4>3, <1>2, <1>8, <1>9
    <3> QED  BY <3>1, <3>2
  <2> QED  BY <2>5, <2>6, <2>7 DEF Undisturbed, Kept
<1> QED  BY <1>9, <1>10, <1>11 DEF IInv

\* A step that takes the name src away, or gives its file a name that was free,
\* and whose thread has no file open afterwards.
LEMMA NameTaken ==
    ASSUME IInv, Undisturbed, NEW t, NEW src \in Paths, UNCHANGED content,
           \A p \in Paths \ {src} : Exists(p) => names'[p] = names[p],
           \A u \in DOMAIN task' \ {t} :
               /\ u \in DOMAIN task /\ task'[u] = task[u]
               /\ Reads(u) \/ Writes(u) => src \notin {task[u].src, task[u].dst},
           t \in DOMAIN task' => ~Reads(t)' /\ ~Writes(t)' /\ task'[t].pc \notin {"copy", "remove"}
    PROVE  /\ \A u \in DOMAIN task' : Own(u)'
           /\ \A u, v \in DOMAIN task' : Apart(u, v)'
<1>1. ASSUME NEW u \in DOMAIN task'  PROVE Own(u)'
  <2>1. CASE u = t
    BY <2>1 DEF Own
  <2>2. CASE u # t
    <3>1. /\ u \in DOMAIN task /\ task'[u] = task[u] /\ Own(u)
          /\ Reads(u) \/ Writes(u) => task[u].src # src /\ task[u].dst # src
      BY <2>2 DEF Undisturbed
    <3>2. (Reads(u)' <=> Reads(u)) /\ (Writes(u)' <=> Writes(u))
      BY <3>1 DEF Reads, Writes, Migrating
    <3>3. Reads(u) => names'[task[u].src] # 0 /\ names'[task[u].src] = task[u].in
      <4>1. Reads(u) => task[u].src \in Paths
        BY DEF Reads, IInv, Shape
      <4> QED  BY <3>1, <4>1 DEF Own, Exists
    <3>4. Writes(u) => names'[task[u].dst] # 0 /\ names'[task[u].dst] = task[u].out
      <4>1. Writes(u) => task[u].dst \in Paths
        BY DEF Writes, IInv, Shape
      <4> QED  BY <3>1, <4>1 DEF Own, Exists
    <3> QED  BY <3>1, <3>2, <3>3, <3>4 DEF Own, Exists
  <2> QED  BY <2>1, <2>2
<1>2. ASSUME NEW u \in DOMAIN task', NEW v \in DOMAIN task'  PROVE Apart(u, v)'
  <2>1. CASE v = t \/ u = t
    BY <2>1 DEF Apart
  <2>2. CASE u # t /\ v # t
    BY <2>2 DEF Apart, Reads, Writes, Migrating, Undisturbed
  <2> QED  BY <2>1, <2>2
<1> QED  BY <1>1, <1>2

\* Moved ends the work at a file.
LEMMA MovedTask ==
    ASSUME IInv, NEW t \in DOMAIN task, Moved(t), task[t].pc \in {"rename", "remove"}
    PROVE  /\ DOMAIN task' = DOMAIN task
           /\ \A u \in DOMAIN task \ {t} : task'[u] = task[u] /\ Alike(u)
           /\ task' \in [DOMAIN task' -> Task] /\ DOMAIN task' \subseteq Threads
           /\ Shape'
           /\ ~Reads(t)' /\ ~Writes(t)' /\ task'[t].pc = "choose"
<1> DEFINE l == [task[t] EXCEPT !.pc = "choose", !.src = None, !.dst = None, !.in = 0, !.out = 0,
                     !.model = None, !.new = IF task[t].src = task[t].old THEN task[t].dst ELSE @]
<1>1. task[t] \in Task
  BY DEF IInv, TypeOK
<1>2. Migrating(t) /\ task[t].dst \in Paths
  BY DEF IInv, Shape
<1>3. l \in Task
  BY <1>1, <1>2 DEF Task
<1>4. l.op = task[t].op /\ l.to = task[t].to /\ l.todo = task[t].todo /\ l.pc = "choose"
  BY <1>1 DEF Task
<1>5. Run(t, l)
  BY DEF Moved
<1> HIDE DEF l
<1>6. /\ DOMAIN task' = DOMAIN task
      /\ task'[t] = l
      /\ \A u \in DOMAIN task \ {t} : task'[u] = task[u] /\ Alike(u)
      /\ task' \in [DOMAIN task' -> Task] /\ DOMAIN task' \subseteq Threads
      /\ Shape'
  BY <1>2, <1>3, <1>4, <1>5, OtherShapes
<1> QED  BY <1>4, <1>6 DEF Reads, Writes

LEMMA RenameStep ==
    ASSUME IInv, NEW t, Rename(t)
    PROVE  IInv'
<1> DEFINE src == task[t].src
           dst == task[t].dst
<1>1. t \in DOMAIN task /\ task[t] \in Task /\ task[t].pc = "rename"
  BY DEF Rename, At, IInv, TypeOK
<1>2. src \in Paths /\ dst \in Paths /\ src # dst
  BY <1>1 DEF IInv, Shape
<1>3. /\ Exists(src) /\ Moved(t)
      /\ names' = [names EXCEPT ![dst] = names[src], ![src] = 0]
      /\ UNCHANGED <<content, settings, owed, begun>>
  BY DEF Rename
<1>4. /\ accident' \in Accidents
      /\ accident' # "collided" => accident # "collided" /\ ~Contended(t, src) /\ ~Exists(dst)
  BY HappensOnce DEF Rename, IInv
<1>5. /\ DOMAIN task' = DOMAIN task
      /\ \A u \in DOMAIN task \ {t} : task'[u] = task[u] /\ Alike(u)
      /\ task' \in [DOMAIN task' -> Task] /\ DOMAIN task' \subseteq Threads
      /\ Shape'
      /\ ~Reads(t)' /\ ~Writes(t)' /\ task'[t].pc = "choose"
  BY <1>1, <1>3, MovedTask
<1>6. \A p \in Paths : names'[p] = IF p = src THEN 0 ELSE IF p = dst THEN names[src] ELSE names[p]
  BY <1>2, <1>3 DEF IInv, TypeOK
<1>7. TypeOK'
  <2>1. names' \in [Paths -> {0} \cup Inodes]
    BY <1>2, <1>3 DEF IInv, TypeOK
  <2> QED  BY <2>1, <1>3, <1>4, <1>5 DEF IInv, TypeOK, settings
<1>8. Injective'
  BY <1>2, <1>6 DEF IInv, Injective, Exists
<1>9. ASSUME accident' # "collided"  PROVE Undisturbed'
  <2>1. Undisturbed /\ ~Contended(t, src) /\ ~Exists(dst)
    BY <1>4, <1>9 DEF IInv
  <2>2. \A u \in DOMAIN task' \ {t} :
            /\ u \in DOMAIN task /\ task'[u] = task[u]
            /\ Reads(u) \/ Writes(u) => src \notin {task[u].src, task[u].dst}
    BY <2>1, <1>5 DEF Contended, Loading, Reads, Writes
  <2>3. \A p \in Paths \ {src} : Exists(p) => names'[p] = names[p]
    BY <2>1, <1>6
  <2>4. /\ \A u \in DOMAIN task' : Own(u)'
        /\ \A u, v \in DOMAIN task' : Apart(u, v)'
    <3>1. UNCHANGED content
      BY <1>3
    <3>2. Undisturbed /\ src \in Paths
      BY <2>1, <1>2
    <3> HIDE DEF src, dst
    <3> QED  BY <3>1, <3>2, <2>2, <2>3, <1>5, NameTaken
  <2>5. ASSUME NEW m \in owed'  PROVE \E p \in Paths : Is(p, m)'
    <3>1. PICK p \in Paths : Is(p, m)
      BY <2>1, <1>3 DEF Undisturbed, Kept
    <3>2. PICK q \in Paths : names'[q] = names[p]
      <4>1. CASE p = src
        BY <4>1, <1>2, <1>6
      <4>2. CASE p # src
        <5>1. p # dst
          BY <2>1, <3>1 DEF Is
        <5> QED  BY <4>2, <5>1, <1>6
      <4> QED  BY <4>1, <4>2
    <3> QED  BY <3>1, <3>2, <1>3 DEF Is, Exists
  <2> QED  BY <2>4, <2>5 DEF Undisturbed, Kept
<1> QED  BY <1>5, <1>7, <1>8, <1>9 DEF IInv

LEMMA RemoveStep ==
    ASSUME IInv, NEW t, Remove(t)
    PROVE  IInv'
<1> DEFINE src == task[t].src
<1>1. t \in DOMAIN task /\ task[t] \in Task /\ task[t].pc = "remove"
  BY DEF Remove, At, IInv, TypeOK
<1>2. src \in Paths /\ task[t].dst \in Paths /\ src # task[t].dst /\ Migrating(t)
  BY <1>1 DEF IInv, Shape
<1>3. UNCHANGED <<content, settings, owed, begun>>
  BY DEF Remove
<1>4. CASE Fail(t) /\ UNCHANGED names
  BY <1>3, <1>4, FailStep DEF files
<1>5. CASE /\ Exists(src) /\ Moved(t)
           /\ names' = [names EXCEPT ![src] = 0]
           /\ Happens(IF Contended(t, src) THEN "collided" ELSE "none")
  <2>1. /\ accident' \in Accidents
        /\ accident' # "collided" => accident # "collided" /\ ~Contended(t, src)
    BY <1>5, HappensOnce DEF IInv
  <2>2. /\ DOMAIN task' = DOMAIN task
        /\ \A u \in DOMAIN task \ {t} : task'[u] = task[u] /\ Alike(u)
        /\ task' \in [DOMAIN task' -> Task] /\ DOMAIN task' \subseteq Threads
        /\ Shape'
        /\ ~Reads(t)' /\ ~Writes(t)' /\ task'[t].pc = "choose"
    BY <1>1, <1>5, MovedTask
  <2>3. \A p \in Paths : names'[p] = IF p = src THEN 0 ELSE names[p]
    BY <1>2, <1>5 DEF IInv, TypeOK
  <2>4. TypeOK'
    <3>1. names' \in [Paths -> {0} \cup Inodes]
      BY <1>2, <1>5 DEF IInv, TypeOK
    <3> QED  BY <3>1, <1>3, <2>1, <2>2 DEF IInv, TypeOK, settings
  <2>5. Injective'
    BY <2>3 DEF IInv, Injective, Exists
  <2>6. ASSUME accident' # "collided"  PROVE Undisturbed'
    <3>1. Undisturbed /\ ~Contended(t, src)
      BY <2>1, <2>6 DEF IInv
    <3>2. \A u \in DOMAIN task' \ {t} :
              /\ u \in DOMAIN task /\ task'[u] = task[u]
              /\ Reads(u) \/ Writes(u) => src \notin {task[u].src, task[u].dst}
      BY <3>1, <2>2 DEF Contended, Loading, Reads, Writes
    <3>3. /\ \A u \in DOMAIN task' : Own(u)'
          /\ \A u, v \in DOMAIN task' : Apart(u, v)'
      <4> HIDE DEF src
      <4> QED  BY <3>1, <3>2, <2>2, <2>3, <1>2, <1>3, NameTaken
    <3>4. Own(t) /\ Reads(t) /\ Writes(t)
      BY <3>1, <1>1, <1>2 DEF Undisturbed, Reads, Writes
    <3>5. /\ content[names[task[t].dst]] = content[names[src]]
          /\ names[task[t].dst] # 0
      BY <3>4, <1>1 DEF Own, Exists
    <3>6. ASSUME NEW m \in owed'  PROVE \E p \in Paths : Is(p, m)'
      <4>1. PICK p \in Paths : Is(p, m)
        BY <3>1, <1>3 DEF Undisturbed, Kept
      <4>2. PICK q \in Paths : q # src /\ names[q] # 0 /\ content[names[q]] = content[names[p]]
        BY <4>1, <3>5, <1>2 DEF Is, Exists
      <4> QED  BY <4>1, <4>2, <2>3, <1>3 DEF Is, Exists
    <3> QED  BY <3>3, <3>6 DEF Undisturbed, Kept
  <2> QED  BY <2>2, <2>4, <2>5, <2>6 DEF IInv
<1> QED  BY <1>4, <1>5 DEF Remove

LEMMA DeleteStep ==
    ASSUME IInv, NEW t, Delete(t)
    PROVE  IInv'
<1> DEFINE src == task[t].src
<1>1. t \in DOMAIN task /\ task[t] \in Task /\ task[t].pc = "delete"
  BY DEF Delete, At, IInv, TypeOK
<1>2. src \in Paths
  BY <1>1 DEF IInv, Shape
<1>3. End(t) /\ UNCHANGED <<content, set, begun>> /\ set' \in Settings /\ disk' \in Settings
  BY DEF Delete, IInv, TypeOK
<1>4. CASE ~Exists(src)
  <2>1. UNCHANGED <<names, owed, accident>>
    BY <1>4 DEF Delete
  <2>2. accident' \in Accidents
    BY <2>1 DEF IInv, TypeOK
  <2> QED  BY <2>1, <2>2, <1>3, EndStep DEF files
<1>5. CASE Exists(src)
  <2>1. /\ names' = [names EXCEPT ![src] = 0]
        /\ owed' = IF content[names[src]].whole THEN owed \ {content[names[src]].model} ELSE owed
        /\ Happens(IF Contended(t, src) THEN "collided" ELSE "none")
    BY <1>5 DEF Delete
  <2>2. /\ accident' \in Accidents
        /\ accident' # "collided" => accident # "collided" /\ ~Contended(t, src)
    BY <2>1, HappensOnce DEF IInv
  <2>3. /\ DOMAIN task' = DOMAIN task \ {t}
        /\ \A u \in DOMAIN task \ {t} : task'[u] = task[u] /\ Alike(u)
    BY <1>3, EndTasks
  <2>4. \A p \in Paths : names'[p] = IF p = src THEN 0 ELSE names[p]
    BY <1>2, <2>1 DEF IInv, TypeOK
  <2>5. TypeOK'
    <3>1. names' \in [Paths -> {0} \cup Inodes]
      BY <1>2, <2>1 DEF IInv, TypeOK
    <3>2. task' \in [DOMAIN task' -> Task] /\ DOMAIN task' \subseteq Threads
      BY <1>3, EndTypes DEF IInv
    <3>3. owed' \subseteq Models
      BY <2>1 DEF IInv, TypeOK
    <3> QED  BY <3>1, <3>2, <3>3, <1>3, <2>2 DEF IInv, TypeOK
  <2>6. Injective'
    BY <2>4 DEF IInv, Injective, Exists
  <2>7. Shape'
    <3>1. \A u \in DOMAIN task' : Alike(u)
      BY <2>3
    <3>2. Shape
      BY DEF IInv
    <3> QED  BY <3>1, <3>2, ShapeAlike DEF Shape
  <2>8. ASSUME accident' # "collided"  PROVE Undisturbed'
    <3>1. Undisturbed /\ ~Contended(t, src)
      BY <2>2, <2>8 DEF IInv
    <3>2. \A u \in DOMAIN task' \ {t} :
              /\ u \in DOMAIN task /\ task'[u] = task[u]
              /\ Reads(u) \/ Writes(u) => src \notin {task[u].src, task[u].dst}
      BY <3>1, <2>3 DEF Contended, Loading, Reads, Writes
    <3>3. /\ \A u \in DOMAIN task' : Own(u)'
          /\ \A u, v \in DOMAIN task' : Apart(u, v)'
      <4>1. t \notin DOMAIN task' /\ UNCHANGED content
        BY <2>3, <1>3
      <4>2. \A p \in Paths \ {src} : Exists(p) => names'[p] = names[p]
        BY <2>4
      <4> HIDE DEF src
      <4> QED  BY <3>1, <3>2, <4>1, <4>2, <1>2, NameTaken
    <3>4. ASSUME NEW m \in owed'  PROVE \E p \in Paths : Is(p, m)'
      <4>1. m \in owed
        BY <2>1
      <4>2. PICK p \in Paths : Is(p, m)
        BY <4>1, <3>1 DEF Undisturbed, Kept
      <4>3. p # src
        BY <4>2, <2>1 DEF Is
      <4> QED  BY <4>2, <4>3, <2>4, <1>3 DEF Is, Exists
    <3> QED  BY <3>3, <3>4 DEF Undisturbed, Kept
  <2> QED  BY <2>5, <2>6, <2>7, <2>8 DEF IInv
<1> QED  BY <1>4, <1>5

------------------------------------------------------------------------------
(* The screen and the process.                                             *)

LEMMA DestroyScreenStep ==
    ASSUME IInv, DestroyScreen
    PROVE  IInv'
<1>1. /\ task' = [t \in DOMAIN task |-> [task[t] EXCEPT !.live = FALSE]]
      /\ disk' = set /\ Happens("cut") /\ UNCHANGED <<files, set, owed, begun>>
  BY DEF DestroyScreen
<1>2. /\ accident' \in Accidents
      /\ accident' # "collided" => accident # "collided"
  BY <1>1, HappensOnce DEF IInv
<1>3. DOMAIN task' = DOMAIN task
  BY <1>1
<1>4. ASSUME NEW u \in DOMAIN task  PROVE task'[u] \in Task /\ Alike(u)
  <2>1. task[u] \in Task /\ task'[u] = [task[u] EXCEPT !.live = FALSE]
    BY <1>1 DEF IInv, TypeOK
  <2>2. /\ task'[u].op = task[u].op /\ task'[u].pc = task[u].pc
        /\ task'[u].todo = task[u].todo /\ task'[u].to = task[u].to
        /\ task'[u].src = task[u].src /\ task'[u].dst = task[u].dst
        /\ task'[u].in = task[u].in /\ task'[u].out = task[u].out
        /\ task'[u].model = task[u].model
    BY <2>1 DEF Task
  <2>3. task'[u] \in Task
    BY <2>1 DEF Task
  <2> QED  BY <2>2, <2>3, <1>3 DEF Alike
<1>5. TypeOK'
  <2>1. task' \in [DOMAIN task' -> Task]
    BY <1>1, <1>3, <1>4
  <2> QED  BY <2>1, <1>1, <1>2, <1>3 DEF IInv, TypeOK, files
<1>6. Injective'
  BY <1>1 DEF IInv, Injective, Exists, files
<1>7. Shape'
  <2>1. Shape
    BY DEF IInv
  <2> QED  BY <2>1, <1>3, <1>4, ShapeAlike DEF Shape
<1>8. accident # "collided" => Undisturbed'
  BY <1>1, <1>3, <1>4, SameFiles DEF IInv
<1> QED  BY <1>2, <1>5, <1>6, <1>7, <1>8 DEF IInv

LEMMA CrashStep ==
    ASSUME IInv, Crash
    PROVE  IInv'
<1>1. /\ task' = [t \in {} |-> Local] /\ set' = disk
      /\ Happens("cut") /\ UNCHANGED <<files, disk, owed, begun>>
  BY DEF Crash
<1>2. /\ accident' \in Accidents
      /\ accident' # "collided" => accident # "collided"
  BY <1>1, HappensOnce DEF IInv
<1>3. DOMAIN task' = {}
  BY <1>1
<1>4. TypeOK'
  BY <1>1, <1>2, <1>3 DEF IInv, TypeOK, files
<1>5. Injective' /\ Shape'
  BY <1>1, <1>3 DEF IInv, Injective, Exists, Shape, files
<1>6. accident # "collided" => Undisturbed'
  BY <1>1, <1>3 DEF IInv, Undisturbed, Kept, Is, Exists, files
<1> QED  BY <1>2, <1>4, <1>5, <1>6 DEF IInv

------------------------------------------------------------------------------
(* The theorems.                                                           *)

LEMMA StepHolds == IInv /\ [Next]_vars => IInv'
<1> SUFFICES ASSUME IInv, [Next]_vars  PROVE IInv'
  OBVIOUS
<1>1. CASE UNCHANGED vars
  <2>1. UNCHANGED <<names, content, task, set, disk, owed, accident, begun>>
    BY <1>1 DEF vars
  <2>2. TypeOK' /\ Injective' /\ Shape'
    BY <2>1 DEF IInv, TypeOK, Injective, Exists, Shape, Migrating
  <2>3. Undisturbed' = Undisturbed
    BY <2>1 DEF Undisturbed, Own, Apart, Kept, Is, Exists, Reads, Writes, Migrating
  <2> QED  BY <2>1, <2>2, <2>3 DEF IInv
<1>2. CASE \/ \E b \in Backups : RestoreState(b)
           \/ UnloadModel \/ UseRemote \/ ForgetMissing \/ OnStop
  BY <1>2, SettingsStep
<1>3. ASSUME NEW t \in Threads, User(t)  PROVE IInv'
  BY <1>3, UserStep
<1>4. ASSUME NEW t \in Threads, Work(t)  PROVE IInv'
  <2>1. CASE ListFiles(t) \/ Choose(t) \/ Rename(t) \/ RenameFails(t)
    BY <2>1, ListFilesStep, ChooseStep, RenameStep, RenameFailsStep
  <2>2. CASE OpenSource(t) \/ Open(t) \/ CopyFails(t) \/ CopyDone(t)
    BY <2>2, OpenSourceStep, OpenStep, FailsStep, CopyDoneStep
  <2>3. CASE Remove(t) \/ Migrated(t)
    BY <2>3, RemoveStep, MigratedStep
  <2>4. CASE Delete(t) \/ DeleteFails(t)
    BY <2>4, DeleteStep, FailsStep
  <2>5. CASE EngineLoads(t) \/ LoadFails(t) \/ LoadReturns(t)
    BY <2>5, EngineLoadsStep, FailsStep, LoadReturnsStep
  <2> QED  BY <1>4, <2>1, <2>2, <2>3, <2>4, <2>5 DEF Work
<1>5. CASE DestroyScreen \/ Crash
  BY <1>5, DestroyScreenStep, CrashStep
<1> QED  BY <1>1, <1>2, <1>3, <1>4, <1>5 DEF Next

LEMMA Invariance == Spec => []IInv
BY InitHolds, StepHolds, PTL DEF Spec

\* The variables of the store have their types: the settings name directories
\* and paths, every name leads to a file, every operation is at one of its steps.
THEOREM TypeCorrect == Spec => []TypeOK
<1>1. IInv => TypeOK
  BY DEF IInv
<1> QED  BY Invariance, <1>1, PTL

\* No model is lost by migrateInstalledModels, migrateInstalledModel,
\* importModel or deleteInstalledModel, whatever fails and wherever the process
\* dies, unless two operations met at one file.
THEOREM ModelsAreKept == Spec => []NoModelLost
<1>1. IInv => NoModelLost
  BY DEF IInv, Undisturbed, Kept, NoModelLost
<1> QED  BY Invariance, <1>1, PTL

------------------------------------------------------------------------------
(* Until an operation is cut short or two overlap there is at most one,    *)
(* and its screen is still there; the saved path, and every model, is      *)
(* where it leaves them.                                                   *)

\* Where the file of the saved path is while t works.
Holder(t) == IF task[t].old = set.path /\ task[t].new # None THEN task[t].new ELSE set.path

\* The names a model may have while t works so that it is listed afterwards.
Reach(t) ==
    IF task[t].op = "all"
    THEN ((AppDirs \cup {task[t].to}) \X Names) \cup task[t].todo \cup {task[t].src}
    ELSE ListedDirs \X Names

\* What the one operation that runs knows, and its screen is still there.
Steady(t) ==
    /\ task[t].live
    /\ task[t].pc \in {"list", "choose"} => task[t].src = None
    /\ task[t].src \notin task[t].todo
    /\ task[t].new # None =>
           /\ Migrating(t) /\ task[t].new[1] = task[t].to
           /\ task[t].old \in Paths \ (task[t].todo \cup {task[t].src})
    /\ Migrating(t) /\ task[t].pc \notin {"list", "choose"} =>
           task[t].src[1] # task[t].to /\ task[t].dst[1] = task[t].to
    /\ task[t].op = "all" => task[t].old = set.path
    /\ task[t].op = "one" =>
           /\ task[t].to = set.dir /\ task[t].old \in Paths
           /\ \/ task[t].pc \in {"list", "choose"} /\ task[t].todo = {task[t].old}
              \/ task[t].pc = "choose" /\ task[t].todo = {} /\ task[t].new # None
              \/ /\ task[t].pc \notin {"list", "choose"}
                 /\ task[t].todo = {} /\ task[t].src = task[t].old
    /\ ~Migrating(t) /\ task[t].pc \in {"open", "copy"} => task[t].dst[1] = set.dir
    /\ task[t].pc = "loaded" => Is(task[t].dst, task[t].model)
    /\ task[t].pc = "delete" => ~IsCurrent(task[t].src)

Follows(t) == set.local /\ set.path # None => Is(Holder(t), set.model)
Reached(t) == \A m \in owed : \E p \in Paths : Is(p, m) /\ p \in Reach(t)

Calm ==
    accident = "none" =>
        /\ \A t, u \in DOMAIN task : t = u
        /\ \A t \in DOMAIN task : Steady(t) /\ Follows(t) /\ Reached(t)
        /\ PathFollowsModel /\ AllListed

\* A step after which nothing bad has happened was harmless itself.
LEMMA HappensNone ==
    ASSUME NEW what \in {"none", "cut", "overlap", "collided", "restored"},
           Happens(what), accident' = "none"
    PROVE  accident = "none" /\ what = "none"
BY DEF Happens

LEMMA OnlyTask ==
    ASSUME Calm, accident = "none", NEW t \in DOMAIN task
    PROVE  DOMAIN task = {t} /\ Steady(t) /\ Follows(t) /\ Reached(t)
BY DEF Calm

\* What begins after nothing bad has happened begins alone.
LEMMA Alone ==
    ASSUME Happens(Overlap), accident' = "none"
    PROVE  accident = "none" /\ DOMAIN task = {}
BY DEF Happens, Overlap

LEMMA CalmRuns ==
    ASSUME NEW t, DOMAIN task' = {t}, Steady(t)', Follows(t)', Reached(t)'
    PROVE  Calm'
BY DEF Calm, PathFollowsModel, AllListed

LEMMA CalmRests ==
    ASSUME DOMAIN task' = {},
           set'.local /\ set'.path # None => Is(set.path, set.model)',
           \A m \in owed' : \E p \in Paths : Is(p, m)' /\ p[1] \in ListedDirs'
    PROVE  Calm'
<1>1. AllListed'
  <2>1. \A p \in Paths : p[1] \in ListedDirs' => p \in ListedDirs' \X Names
    BY DEF Paths
  <2> QED  BY <2>1 DEF AllListed
<1> QED  BY <1>1 DEF Calm, PathFollowsModel

LEMMA CalmInit == Init => Calm
<1> SUFFICES ASSUME Init  PROVE Calm
  OBVIOUS
<1> USE StoreAssumption
<1>1. DOMAIN task = {} /\ set.path = None
  BY DEF Init
<1>2. AllListed
  <2> SUFFICES ASSUME NEW i \in DOMAIN Installed
               PROVE  \E p \in ListedDirs \X Names : Is(p, Installed[i].model)
    BY DEF AllListed, Init
  <2>1. i \in Inodes /\ Installed[i].path \in Paths
    <3> DEFINE Entry == [path : Paths, model : Models]
    <3>1. Installed \in Seq(Entry) /\ Len(Installed) <= MaxInodes /\ MaxInodes \in Nat
      OBVIOUS
    <3> HIDE DEF Entry
    <3>2. DOMAIN Installed = 1 .. Len(Installed) /\ Len(Installed) \in Nat
      BY <3>1
    <3>3. Installed[i] \in Entry
      BY <3>1, <3>2
    <3> QED  BY <3>1, <3>2, <3>3 DEF Inodes, Entry
  <2>2. \A p \in Paths : names[p] # 0 => Installed[names[p]].path = p /\ names[p] \in DOMAIN Installed
    BY DEF Init
  <2>3. names[Installed[i].path] # 0
    BY <2>1 DEF Init, Inodes
  <2>4. names[Installed[i].path] = i
    BY <2>1, <2>2, <2>3
  <2>5. content[i] = [model |-> Installed[i].model, whole |-> TRUE]
    BY <2>1 DEF Init
  <2>6. Installed[i].path \in ListedDirs \X Names
    BY <2>1, InstalledAssumption DEF Paths, ListedDirs
  <2> QED  BY <2>3, <2>4, <2>5, <2>6 DEF Is, Exists
<1> QED  BY <1>1, <1>2 DEF Calm, PathFollowsModel

\* A backup is restored that the files fit, while nothing runs.
LEMMA Restored ==
    ASSUME IInv, NEW b \in Backups, RestoreState(b), accident' = "none"
    PROVE  /\ accident = "none" /\ DOMAIN task = {} /\ set'.dir = set.dir
           /\ set'.path # None => Is(set.path, set.model)'
<1> DEFINE m == IF b.path # None /\ Exists(b.path) THEN content[names[b.path]].model ELSE None
<1>1. /\ Save([dir |-> b.dir, path |-> b.path, local |-> b.local, model |-> m])
      /\ Happens(IF Fits(b) THEN Overlap ELSE "restored")
      /\ UNCHANGED <<names, content>>
  BY DEF RestoreState, files
<1>2. Fits(b) /\ Happens(Overlap)
  BY <1>1 DEF Happens
<1>3. accident = "none" /\ DOMAIN task = {}
  BY <1>2, Alone
<1>4. b.path # None => /\ Exists(b.path)
                       /\ content[names[b.path]] = [model |-> m, whole |-> TRUE]
  <2> SUFFICES ASSUME b.path # None
               PROVE  /\ Exists(b.path)
                      /\ content[names[b.path]] = [model |-> m, whole |-> TRUE]
    OBVIOUS
  <2>1. Exists(b.path) /\ content[names[b.path]].whole /\ b.path \in Paths
    BY <1>2, StoreAssumption DEF Fits
  <2>2. content[names[b.path]] \in [model : Models \cup {None}, whole : BOOLEAN]
    BY <2>1 DEF Exists, IInv, TypeOK
  <2>3. content[names[b.path]].model = m
    BY <2>1
  <2> HIDE DEF m
  <2> QED  BY <2>1, <2>2, <2>3
<1> HIDE DEF m
<1>5. set'.dir = b.dir /\ set'.path = b.path /\ set'.model = m
  BY <1>1 DEF Save
<1> QED  BY <1>1, <1>2, <1>3, <1>4, <1>5 DEF Fits, Is, Exists

\* The settings of a screen nobody works for.
LEMMA CalmSettings ==
    ASSUME IInv, Calm,
           \/ \E b \in Backups : RestoreState(b)
           \/ UnloadModel \/ ForgetMissing
    PROVE  Calm'
<1> SUFFICES ASSUME accident' = "none"  PROVE Calm'
  BY DEF Calm
<1>1. UNCHANGED <<names, content, task, owed>>
  BY DEF RestoreState, UnloadModel, ForgetMissing, files
<1>2. /\ accident = "none" /\ DOMAIN task = {} /\ set'.dir = set.dir
      /\ set'.path # None => Is(set.path, set.model)'
  <2>1. CASE UnloadModel \/ ForgetMissing
    <3>1. Happens(Overlap) /\ set' = Unset(set) /\ set \in Settings
      BY <2>1 DEF UnloadModel, ForgetMissing, Save, IInv, TypeOK
    <3>2. set'.dir = set.dir /\ set'.path = None
      BY <3>1 DEF Unset, Settings
    <3> QED  BY <3>1, <3>2, Alone
  <2> QED  BY <2>1, Restored
<1>3. ListedDirs' = ListedDirs
  BY <1>2 DEF ListedDirs
<1>4. \A m \in owed' : \E p \in Paths : Is(p, m)' /\ p[1] \in ListedDirs'
  <2>1. AllListed
    BY <1>2 DEF Calm
  <2>2. \A p \in ListedDirs \X Names : p \in Paths /\ p[1] \in ListedDirs
    BY StoreAssumption DEF Paths, ListedDirs, IInv, TypeOK, Settings
  <2> QED  BY <2>1, <2>2, <1>1, <1>2, <1>3 DEF AllListed, Is, Exists
<1> QED  BY <1>1, <1>2, <1>4, CalmRests

\* No saved path counts while the model is a remote one.
LEMMA CalmUseRemote ==
    ASSUME IInv, Calm, UseRemote
    PROVE  Calm'
<1>1. UNCHANGED <<names, content, task, owed, accident>>
  BY DEF UseRemote, files
<1>2. ~set'.local /\ set'.dir = set.dir /\ set'.path = set.path
  BY DEF UseRemote, Save, IInv, TypeOK, Settings
<1>3. ASSUME NEW t, Steady(t)  PROVE Steady(t)'
  BY <1>1, <1>2, <1>3 DEF Steady, Migrating, IsCurrent, Is, Exists
<1>4. \A t : Follows(t)' /\ Reached(t)' = Reached(t)
  BY <1>1, <1>2 DEF Follows, Reached, Reach, Is, Exists, ListedDirs
<1>5. PathFollowsModel' /\ AllListed' = AllListed
  BY <1>1, <1>2 DEF PathFollowsModel, AllListed, Is, Exists, ListedDirs
<1> QED  BY <1>1, <1>3, <1>4, <1>5 DEF Calm

LEMMA ListedPaths ==
    ASSUME IInv
    PROVE  \A p \in ListedDirs \X Names : p \in Paths /\ p[1] \in ListedDirs
BY StoreAssumption DEF Paths, ListedDirs, IInv, TypeOK, Settings

LEMMA InDirs ==
    ASSUME NEW p \in Paths, NEW ds, p[1] \in ds
    PROVE  p \in ds \X Names
BY DEF Paths

\* An operation begins: l is all it knows.
LEMMA CalmBegins ==
    ASSUME IInv, Calm, NEW t, NEW l, Happens(Overlap), Run(t, l),
           UNCHANGED <<names, content, owed>>,
           set' = set \/ (set'.path = None /\ set'.dir = set.dir),
           l.live, l.new = None, l.src \notin l.todo,
           l.pc \in {"list", "delete", "open", "load"},
           l.pc = "list" => l.src = None,
           l.op \in {"all", "one"} => l.pc = "list",
           l.op = "all" => l.old = set.path /\ l.todo = {p \in Paths : p[1] = set.dir}
                             /\ set' = set,
           l.op = "one" => l.to = set.dir /\ l.old \in Paths /\ l.todo = {l.old},
           l.pc = "open" => l.dst[1] = set.dir,
           l.pc = "delete" => ~(set'.local /\ set'.path = l.src)
    PROVE  Calm'
<1> SUFFICES ASSUME accident' = "none"  PROVE Calm'
  BY DEF Calm
<1>1. accident = "none" /\ DOMAIN task = {}
  BY Alone
<1>2. DOMAIN task' = {t} /\ task'[t] = l
  BY <1>1, RunTasks
<1>3. Steady(t)'
  BY <1>2 DEF Steady, Migrating, IsCurrent
<1>4. Follows(t)'
  BY <1>1, <1>2 DEF Follows, Holder, Calm, PathFollowsModel, Is, Exists
<1>5. Reached(t)'
  <2> SUFFICES ASSUME NEW m \in owed  PROVE \E p \in Paths : Is(p, m)' /\ (p \in Reach(t))'
    BY DEF Reached
  <2>1. PICK p \in ListedDirs \X Names : Is(p, m)
    BY <1>1 DEF Calm, AllListed
  <2>2. p \in Paths /\ p[1] \in ListedDirs
    BY <2>1, ListedPaths
  <2>3. Is(p, m)' /\ ListedDirs' = ListedDirs
    BY <2>1 DEF Is, Exists, ListedDirs
  <2>4. (p \in Reach(t))'
    <3>1. CASE l.op = "all"
      <4>1. CASE p[1] = set.dir
        <5>1. p \in l.todo
          BY <2>1, <2>2, <3>1, <4>1 DEF Is
        <5> QED  BY <5>1, <3>1, <1>2 DEF Reach
      <4>2. CASE p[1] # set.dir
        <5>1. p[1] \in AppDirs \cup {l.to}
          BY <2>2, <4>2 DEF ListedDirs
        <5>2. p \in (AppDirs \cup {l.to}) \X Names
          BY <5>1, <2>2, InDirs
        <5> QED  BY <5>2, <3>1, <1>2 DEF Reach
      <4> QED  BY <4>1, <4>2
    <3>2. CASE l.op # "all"
      BY <2>1, <2>3, <3>2, <1>2 DEF Reach
    <3> QED  BY <3>1, <3>2
  <2> QED  BY <2>2, <2>3, <2>4
<1> QED  BY <1>2, <1>3, <1>4, <1>5, CalmRuns

LEMMA CalmUser ==
    ASSUME IInv, Calm, NEW t \in Threads, User(t)
    PROVE  Calm'
<1> USE StoreAssumption
<1>1. ASSUME NEW d \in Dirs, ChangeModelStorage(t, d)  PROVE Calm'
  <2> DEFINE l == [Local EXCEPT !.op = "all", !.pc = "list", !.to = d,
                       !.todo = {p \in Paths : p[1] = set.dir}, !.old = set.path]
  <2>1. /\ l.live /\ l.new = None /\ l.src = None /\ l.pc = "list" /\ l.op = "all"
        /\ l.todo = {p \in Paths : p[1] = set.dir} /\ l.old = set.path
    BY DEF Local
  <2>2. Run(t, l) /\ Happens(Overlap) /\ UNCHANGED <<files, settings, owed>>
    BY <1>1 DEF ChangeModelStorage, Begin
  <2> HIDE DEF l
  <2> QED  BY <2>1, <2>2, CalmBegins DEF files, settings
<1>2. ASSUME NEW p \in Paths, MigrateModel(t, p)  PROVE Calm'
  <2> DEFINE l == [Local EXCEPT !.op = "one", !.pc = "list", !.to = set.dir,
                       !.todo = {p}, !.old = p]
  <2>1. /\ l.live /\ l.new = None /\ l.src = None /\ l.pc = "list" /\ l.op = "one"
        /\ l.todo = {p} /\ l.old = p /\ l.to = set.dir
    BY DEF Local
  <2>2. Run(t, l) /\ Happens(Overlap) /\ UNCHANGED <<files, settings, owed>>
    BY <1>2 DEF MigrateModel, Begin
  <2>3. p # None
    OBVIOUS
  <2> HIDE DEF l
  <2> QED  BY <2>1, <2>2, <2>3, CalmBegins DEF files, settings
<1>3. ASSUME NEW p \in Paths, DeleteModel(t, p)  PROVE Calm'
  <2> DEFINE l == [Local EXCEPT !.op = "delete", !.pc = "delete", !.src = p]
  <2>1. /\ l.live /\ l.new = None /\ l.src = p /\ l.pc = "delete" /\ l.op = "delete"
        /\ l.todo = {}
    BY DEF Local
  <2>2. Run(t, l) /\ Happens(Overlap) /\ UNCHANGED <<files, owed>>
    BY <1>3 DEF DeleteModel, Begin
  <2>3. set \in Settings /\ set' = IF IsCurrent(p) THEN Unset(set) ELSE set
    BY <1>3 DEF DeleteModel, IInv, TypeOK
  <2>4. /\ set' = set \/ (set'.path = None /\ set'.dir = set.dir)
        /\ ~(set'.local /\ set'.path = p)
    BY <2>3 DEF IsCurrent, Unset, Settings
  <2> HIDE DEF l
  <2> QED  BY <2>1, <2>2, <2>4, CalmBegins DEF files
<1>4. ASSUME NEW i \in Imports, ImportModel(t, i[1], i[2])  PROVE Calm'
  <2> DEFINE l == [Local EXCEPT !.op = "import", !.pc = "open", !.model = i[1],
                       !.dst = <<set.dir, i[2]>>]
  <2>1. /\ l.live /\ l.new = None /\ l.src = None /\ l.pc = "open" /\ l.op = "import"
        /\ l.todo = {} /\ l.dst[1] = set.dir
    BY DEF Local
  <2>2. Run(t, l) /\ Happens(Overlap) /\ UNCHANGED <<files, settings, owed>>
    BY <1>4 DEF ImportModel, Begin
  <2> HIDE DEF l
  <2> QED  BY <2>1, <2>2, CalmBegins DEF files, settings
<1>5. ASSUME NEW p \in Paths, LoadModel(t, p)  PROVE Calm'
  <2> DEFINE l == [Local EXCEPT !.op = "load", !.pc = "load", !.dst = p]
  <2>1. /\ l.live /\ l.new = None /\ l.src = None /\ l.pc = "load" /\ l.op = "load"
        /\ l.todo = {}
    BY DEF Local
  <2>2. Run(t, l) /\ Happens(Overlap) /\ UNCHANGED <<files, settings, owed>>
    BY <1>5 DEF LoadModel, Begin
  <2> HIDE DEF l
  <2> QED  BY <2>1, <2>2, CalmBegins DEF files, settings
<1> QED  BY <1>1, <1>2, <1>3, <1>4, <1>5 DEF User

\* A step of t that leaves the files where they are.
LEMMA CalmWay ==
    ASSUME IInv, Calm, NEW t \in DOMAIN task, NEW l, Run(t, l), accident = "none",
           UNCHANGED <<names, content, set, owed>>,
           l.op = task[t].op, l.to = task[t].to, l.old = task[t].old, l.new = task[t].new,
           \A p \in task[t].todo \cup {task[t].src} :
               p = None \/ ~Exists(p) \/ p \in l.todo \cup {l.src},
           Steady(t)'
    PROVE  Calm'
<1>1. DOMAIN task = {t} /\ Steady(t) /\ Follows(t) /\ Reached(t)
  BY OnlyTask
<1>2. DOMAIN task' = {t} /\ task'[t] = l
  BY <1>1, RunTasks
<1>3. Follows(t)'
  BY <1>1, <1>2 DEF Follows, Holder, Is, Exists
<1>4. Reached(t)'
  <2>1. \A p \in Paths : Exists(p) /\ p \in Reach(t) => (p \in Reach(t))'
    BY <1>2, StoreAssumption DEF Reach, ListedDirs
  <2> QED  BY <1>1, <2>1 DEF Reached, Is, Exists
<1> QED  BY <1>2, <1>3, <1>4, CalmRuns

\* The end of an operation that moved no directory.
LEMMA CalmEnds ==
    ASSUME IInv, Calm, NEW t \in DOMAIN task, End(t), accident = "none", task[t].op # "all",
           \A m \in owed' : m \in owed /\ \A p \in Paths : Is(p, m) => Is(p, m)',
           set'.dir = set.dir,
           set'.local /\ set'.path # None => Is(set.path, set.model)'
    PROVE  Calm'
<1>1. DOMAIN task = {t} /\ Steady(t) /\ Reached(t)
  BY OnlyTask
<1>2. DOMAIN task' = {}
  BY <1>1, EndTasks
<1>3. \A m \in owed' : \E p \in Paths : Is(p, m)' /\ p[1] \in ListedDirs'
  <2> SUFFICES ASSUME NEW m \in owed'
               PROVE  \E p \in Paths : Is(p, m)' /\ p[1] \in ListedDirs'
    OBVIOUS
  <2>1. PICK p \in Paths : Is(p, m) /\ p \in Reach(t)
    BY <1>1 DEF Reached
  <2>2. p[1] \in ListedDirs
    BY <2>1 DEF Reach
  <2>3. ListedDirs' = ListedDirs
    BY DEF ListedDirs
  <2> QED  BY <2>1, <2>2, <2>3
<1> QED  BY <1>2, <1>3, CalmRests

LEMMA CalmListFiles ==
    ASSUME IInv, Calm, NEW t, ListFiles(t)
    PROVE  Calm'
<1> SUFFICES ASSUME accident' = "none"  PROVE Calm'
  BY DEF Calm
<1>1. t \in DOMAIN task /\ task[t] \in Task /\ task[t].pc = "list" /\ Migrating(t)
  BY DEF ListFiles, At, IInv, TypeOK, Shape
<1>2. UNCHANGED <<names, content, set, owed>>
  BY DEF ListFiles, files, settings
<1>3. PICK there : there = {p \in task[t].todo : Exists(p)}
  OBVIOUS
<1>4. \/ /\ task[t].op = "all" \/ there # {}
         /\ Run(t, [task[t] EXCEPT !.pc = "choose", !.todo = there])
      \/ task[t].op = "one" /\ there = {} /\ End(t)
  <2>1. ~Happens("cut")
    BY HappensNone
  <2> QED  BY <2>1, <1>3 DEF ListFiles
<1>5. accident = "none"
  <2>1. UNCHANGED accident \/ Happens("cut")
    BY DEF ListFiles
  <2> QED  BY <2>1, HappensNone
<1>6. DOMAIN task = {t} /\ Steady(t) /\ Follows(t)
  BY <1>1, <1>5, OnlyTask
<1>7. ASSUME task[t].op = "all" \/ there # {},
             NEW l, l = [task[t] EXCEPT !.pc = "choose", !.todo = there], Run(t, l)
      PROVE  Calm'
  <2>1. /\ l.op = task[t].op /\ l.to = task[t].to /\ l.old = task[t].old /\ l.new = task[t].new
        /\ l.todo = there /\ l.src = task[t].src /\ l.pc = "choose" /\ l.live = task[t].live
    BY <1>1, <1>7 DEF Task
  <2>2. task'[t] = l
    BY <1>7, RunTasks
  <2>3. there \subseteq task[t].todo
    BY <1>3
  <2>4. Steady(t)'
    <3>1. l.op = "one" => /\ l.to = set.dir /\ l.old \in Paths /\ l.todo = {l.old}
      BY <1>1, <1>6, <1>7, <2>1, <2>3 DEF Steady
    <3> QED  BY <1>1, <1>2, <1>6, <2>1, <2>2, <2>3, <3>1 DEF Steady, Migrating
  <2>5. \A p \in task[t].todo \cup {task[t].src} :
            p = None \/ ~Exists(p) \/ p \in l.todo \cup {l.src}
    BY <1>3, <2>1
  <2> QED  BY <1>1, <1>2, <1>5, <1>7, <2>1, <2>4, <2>5, CalmWay
<1>8. ASSUME task[t].op = "one", End(t)  PROVE Calm'
  <2>1. Holder(t) = set.path
    BY <1>1, <1>6, <1>8 DEF Holder, Steady
  <2>2. set'.local /\ set'.path # None => Is(set.path, set.model)'
    BY <2>1, <1>2, <1>6 DEF Follows, Is, Exists
  <2>3. \A m \in owed' : m \in owed /\ \A p \in Paths : Is(p, m) => Is(p, m)'
    BY <1>2 DEF Is, Exists
  <2> QED  BY <1>1, <1>2, <1>5, <1>8, <2>2, <2>3, CalmEnds
<1> QED  BY <1>4, <1>7, <1>8

LEMMA CalmChoose ==
    ASSUME IInv, Calm, NEW t, Choose(t)
    PROVE  Calm'
<1> SUFFICES ASSUME accident' = "none"  PROVE Calm'
  BY DEF Calm
<1>1. t \in DOMAIN task /\ task[t] \in Task /\ task[t].pc = "choose"
  BY DEF Choose, At, IInv, TypeOK
<1>2. PICK p \in task[t].todo, q \in {task[t].to} \X Names :
          Run(t, [task[t] EXCEPT !.pc = "rename", !.src = p, !.dst = q, !.todo = @ \ {p}])
  BY Zenon DEF Choose
<1> DEFINE l == [task[t] EXCEPT !.pc = "rename", !.src = p, !.dst = q, !.todo = @ \ {p}]
<1>3. Migrating(t) /\ p \in Paths
  BY <1>1 DEF IInv, Shape, Task
<1>4. /\ l.op = task[t].op /\ l.to = task[t].to /\ l.old = task[t].old /\ l.new = task[t].new
      /\ l.todo = task[t].todo \ {p} /\ l.src = p /\ l.dst = q /\ l.pc = "rename"
      /\ l.live = task[t].live
  BY <1>1 DEF Task
<1>5. Run(t, l) /\ UNCHANGED <<names, content, set, owed, accident>>
  BY <1>2 DEF Choose, files, settings
<1> HIDE DEF l
<1>6. DOMAIN task = {t} /\ Steady(t)
  BY <1>1, <1>5, OnlyTask
<1>7. task'[t] = l
  BY <1>5, RunTasks
<1>8. Steady(t)'
  <2>1. l.new # None => Migrating(t)' /\ l.old \in Paths \ (l.todo \cup {l.src})
    BY <1>3, <1>4, <1>6, <1>7 DEF Steady, Migrating
  <2>2. l.dst[1] = l.to /\ l.src[1] # l.to
    BY <1>1, <1>3, <1>4 DEF IInv, Shape
  <2>3. l.op = "one" => /\ l.to = set.dir /\ l.old \in Paths
                        /\ l.src = l.old /\ l.todo = {}
    BY <1>1, <1>4, <1>6 DEF Steady
  <2> QED  BY <1>3, <1>4, <1>5, <1>6, <1>7, <2>1, <2>2, <2>3 DEF Steady, Migrating
<1>9. \A r \in task[t].todo \cup {task[t].src} :
          r = None \/ ~Exists(r) \/ r \in l.todo \cup {l.src}
  BY <1>1, <1>4, <1>6 DEF Steady
<1> QED  BY <1>1, <1>4, <1>5, <1>8, <1>9, CalmWay

\* RenameFails and OpenSource: only the place in the code is another.
LEMMA CalmGoesOn ==
    ASSUME IInv, Calm, NEW t \in DOMAIN task, NEW l, Run(t, l), accident = "none",
           UNCHANGED <<names, content, set, owed>>,
           Migrating(t), task[t].pc \notin {"list", "choose"}, l.pc \in {"openSource", "open"},
           l.op = task[t].op, l.to = task[t].to, l.old = task[t].old, l.new = task[t].new,
           l.todo = task[t].todo, l.src = task[t].src, l.dst = task[t].dst, l.live = task[t].live
    PROVE  Calm'
<1>1. Steady(t)
  BY OnlyTask
<1>2. task'[t] = l
  BY RunTasks
<1>3. Steady(t)'
  BY <1>1, <1>2 DEF Steady, Migrating
<1> QED  BY <1>3, CalmWay

LEMMA CalmRenameFails ==
    ASSUME IInv, Calm, NEW t, RenameFails(t)
    PROVE  Calm'
<1> SUFFICES ASSUME accident' = "none"  PROVE Calm'
  BY DEF Calm
<1> DEFINE l == [task[t] EXCEPT !.pc = "openSource"]
<1>1. t \in DOMAIN task /\ task[t] \in Task /\ task[t].pc = "rename" /\ Migrating(t)
  BY DEF RenameFails, At, IInv, TypeOK, Shape
<1>2. /\ l.op = task[t].op /\ l.to = task[t].to /\ l.old = task[t].old /\ l.new = task[t].new
      /\ l.todo = task[t].todo /\ l.src = task[t].src /\ l.dst = task[t].dst
      /\ l.pc = "openSource" /\ l.live = task[t].live
  BY <1>1 DEF Task
<1>3. Run(t, l) /\ UNCHANGED <<names, content, set, owed, accident>>
  BY DEF RenameFails, files, settings
<1> HIDE DEF l
<1> QED  BY <1>1, <1>2, <1>3, CalmGoesOn

LEMMA CalmOpenSource ==
    ASSUME IInv, Calm, NEW t, OpenSource(t)
    PROVE  Calm'
<1> SUFFICES ASSUME accident' = "none"  PROVE Calm'
  BY DEF Calm
<1> DEFINE i == names[task[t].src]
           m == content[i].model
           l == [task[t] EXCEPT !.pc = "open", !.in = i, !.model = m]
<1>1. t \in DOMAIN task /\ task[t] \in Task /\ task[t].pc = "openSource" /\ Migrating(t)
  BY DEF OpenSource, At, IInv, TypeOK, Shape
<1>2. /\ Run(t, l) /\ UNCHANGED <<files, settings, owed, begun>>
      /\ Happens(IF Contended(t, task[t].src) THEN "collided" ELSE "none")
  BY DEF OpenSource
<1>3. accident = "none"
  BY <1>2, HappensNone
<1> HIDE DEF m, i
<1>4. /\ l.op = task[t].op /\ l.to = task[t].to /\ l.old = task[t].old /\ l.new = task[t].new
      /\ l.todo = task[t].todo /\ l.src = task[t].src /\ l.dst = task[t].dst
      /\ l.pc = "open" /\ l.live = task[t].live
  BY <1>1 DEF Task
<1> HIDE DEF l
<1> QED  BY <1>1, <1>2, <1>3, <1>4, CalmGoesOn DEF files, settings

\* The file of src has the name dst afterwards, and the others keep theirs.
LEMMA CalmMoved ==
    ASSUME IInv, Calm, NEW t \in DOMAIN task, Moved(t), accident = "none",
           NEW src, src = task[t].src, NEW dst, dst = task[t].dst,
           task[t].pc \in {"rename", "remove"}, UNCHANGED <<set, owed>>,
           \A p \in Paths \ {src} : \A m : Is(p, m) => Is(p, m)',
           \A m : Is(src, m) => Is(dst, m)'
    PROVE  Calm'
<1> DEFINE new == IF src = task[t].old THEN dst ELSE task[t].new
           l == [task[t] EXCEPT !.pc = "choose", !.src = None, !.dst = None, !.in = 0, !.out = 0,
                     !.model = None, !.new = new]
<1>1. task[t] \in Task /\ Migrating(t) /\ src \in Paths /\ dst \in Paths
  BY DEF IInv, TypeOK, Shape
<1>2. DOMAIN task = {t} /\ Steady(t) /\ Follows(t) /\ Reached(t)
  BY OnlyTask
<1>3. Run(t, l)
  BY DEF Moved
<1>4. /\ l.op = task[t].op /\ l.to = task[t].to /\ l.old = task[t].old /\ l.new = new
      /\ l.todo = task[t].todo /\ l.src = None /\ l.pc = "choose" /\ l.live = task[t].live
  BY <1>1 DEF Task
<1> HIDE DEF l
<1>5. DOMAIN task' = {t} /\ task'[t] = l
  BY <1>2, <1>3, RunTasks
<1>6. /\ src \notin task[t].todo /\ src[1] # task[t].to /\ dst[1] = task[t].to /\ dst # None
      /\ task[t].todo \subseteq Paths /\ None \notin Paths
  BY <1>1, <1>2, StoreAssumption DEF Steady, Task
<1> HIDE DEF new
<1>7. Steady(t)'
  <2>1. Migrating(t)'
    BY <1>1, <1>4, <1>5 DEF Migrating
  <2>2. l.new # None => l.new[1] = l.to /\ l.old \in Paths \ (l.todo \cup {None})
    BY <1>1, <1>2, <1>4, <1>6 DEF Steady, new
  <2>3. l.op = "one" => l.to = set.dir /\ l.old \in Paths /\ l.todo = {} /\ l.new # None
    BY <1>2, <1>4, <1>6 DEF Steady, new
  <2>4. l.live /\ l.src \notin l.todo /\ (l.op = "all" => l.old = set.path)
    BY <1>2, <1>4, <1>6 DEF Steady
  <2> QED  BY <1>4, <1>5, <2>1, <2>2, <2>3, <2>4 DEF Steady, Migrating
<1>9. Follows(t)'
  <2> SUFFICES ASSUME set.local, set.path # None  PROVE Is(Holder(t), set.model)'
    BY DEF Follows
  <2>1. Is(Holder(t), set.model)
    BY <1>2 DEF Follows
  <2>2. set.path \in Paths /\ task[t].new \in Paths \cup {None}
    BY <1>1 DEF Task, IInv, TypeOK, Settings
  <2>3. Holder(t)' = IF task[t].old = set.path /\ new # None THEN new ELSE set.path
    BY <1>4, <1>5 DEF Holder
  <2>4. CASE src = set.path
    <3>1. task[t].op \in {"all", "one"}
      BY <1>1 DEF Migrating
    <3>2. task[t].old = src
      BY <2>4, <3>1, <1>2, <1>6 DEF Steady
    <3>3. task[t].new = None
      BY <3>2, <1>2 DEF Steady
    <3>4. Holder(t) = src
      BY <2>4, <3>3 DEF Holder
    <3>5. Holder(t)' = dst
      BY <2>3, <2>4, <3>2, <1>6 DEF new
    <3>6. Is(src, set.model)
      BY <2>1, <3>4
    <3>7. Is(dst, set.model)'
      BY <3>6, <1>1 DEF Is, Exists
    <3> QED  BY <3>5, <3>7
  <2>5. CASE src # set.path
    <3>1. Holder(t)' = Holder(t)
      BY <2>3, <2>5 DEF Holder, new
    <3>2. Holder(t) # src /\ Holder(t) \in Paths
      BY <2>2, <2>5, <1>2, <1>6 DEF Holder, Steady
    <3> QED  BY <2>1, <3>1, <3>2 DEF Is, Exists
  <2> QED  BY <2>4, <2>5
<1>10. Reached(t)'
  <2> SUFFICES ASSUME NEW m \in owed  PROVE \E p \in Paths : Is(p, m)' /\ (p \in Reach(t))'
    BY DEF Reached
  <2>1. PICK p \in Paths : Is(p, m) /\ p \in Reach(t)
    BY <1>2 DEF Reached
  <2>2. (dst \in Reach(t))'
    <3>1. CASE task[t].op = "all"
      <4>1. dst \in (AppDirs \cup {l.to}) \X Names
        BY <1>1, <1>4, <1>6, InDirs
      <4> QED  BY <3>1, <4>1, <1>4, <1>5 DEF Reach
    <3>2. CASE task[t].op # "all"
      <4>1. dst[1] \in ListedDirs
        BY <3>2, <1>1, <1>2, <1>6 DEF Migrating, Steady, ListedDirs
      <4>2. dst \in ListedDirs \X Names
        BY <1>1, <4>1, InDirs
      <4> QED  BY <3>2, <4>2, <1>4, <1>5 DEF Reach, ListedDirs
    <3> QED  BY <3>1, <3>2
  <2>3. p # src => (p \in Reach(t))'
    BY <2>1, <1>4, <1>5 DEF Reach, ListedDirs
  <2> QED  BY <2>1, <2>2, <2>3, <1>1
<1> QED  BY <1>5, <1>7, <1>9, <1>10, CalmRuns

LEMMA CalmRename ==
    ASSUME IInv, Calm, NEW t, Rename(t)
    PROVE  Calm'
<1> SUFFICES ASSUME accident' = "none"  PROVE Calm'
  BY DEF Calm
<1> DEFINE src == task[t].src
           dst == task[t].dst
<1>1. t \in DOMAIN task /\ task[t].pc = "rename" /\ src \in Paths /\ dst \in Paths /\ src # dst
  BY DEF Rename, At, IInv, Shape
<1>2. /\ Exists(src) /\ Moved(t)
      /\ names' = [names EXCEPT ![dst] = names[src], ![src] = 0]
      /\ UNCHANGED <<content, settings, owed, begun>>
  BY DEF Rename
<1>3. accident = "none" /\ ~Exists(dst)
  BY HappensNone DEF Rename
<1>4. \A p \in Paths : names'[p] = IF p = src THEN 0 ELSE IF p = dst THEN names[src] ELSE names[p]
  BY <1>1, <1>2 DEF IInv, TypeOK
<1>5. PICK s, d : s = src /\ d = dst
  OBVIOUS
<1>6. \A p \in Paths \ {s} : \A m : Is(p, m) => Is(p, m)'
  BY <1>2, <1>3, <1>4, <1>5 DEF Is, Exists
<1>7. \A m : Is(s, m) => Is(d, m)'
  BY <1>1, <1>2, <1>4, <1>5 DEF Is, Exists
<1> QED  BY <1>1, <1>2, <1>3, <1>5, <1>6, <1>7, CalmMoved DEF settings

LEMMA CalmRemove ==
    ASSUME IInv, Calm, NEW t, Remove(t)
    PROVE  Calm'
<1> SUFFICES ASSUME accident' = "none"  PROVE Calm'
  BY DEF Calm
<1>1. t \in DOMAIN task /\ task[t].pc = "remove" /\ Migrating(t)
  BY DEF Remove, At, IInv, Shape
<1>2. PICK s, d : s = task[t].src /\ d = task[t].dst
  OBVIOUS
<1>3. s \in Paths /\ d \in Paths /\ s # d
  BY <1>1, <1>2 DEF IInv, Shape
<1>4. ~Fail(t)
  BY <1>1, HappensNone DEF Fail
<1>5. /\ names' = [names EXCEPT ![s] = 0] /\ Moved(t)
      /\ Happens(IF Contended(t, s) THEN "collided" ELSE "none")
      /\ UNCHANGED <<content, settings, owed, begun>>
  BY <1>2, <1>4 DEF Remove
<1>6. accident = "none"
  BY <1>5, HappensNone
<1>7. \A p \in Paths : names'[p] = IF p = s THEN 0 ELSE names[p]
  BY <1>3, <1>5 DEF IInv, TypeOK
<1>8. content[names[d]] = content[names[s]] /\ names[d] # 0
  <2>1. Own(t) /\ Reads(t) /\ Writes(t)
    BY <1>1, <1>6 DEF IInv, Undisturbed, Reads, Writes
  <2> QED  BY <2>1, <1>1, <1>2 DEF Own, Exists
<1>9. \A p \in Paths \ {s} : \A m : Is(p, m) => Is(p, m)'
  BY <1>5, <1>7 DEF Is, Exists
<1>10. \A m : Is(s, m) => Is(d, m)'
  BY <1>3, <1>5, <1>7, <1>8 DEF Is, Exists
<1> QED  BY <1>1, <1>2, <1>5, <1>6, <1>9, <1>10, CalmMoved DEF settings

\* A step of the copy: no whole file but the one that is replaced suffers.
LEMMA CalmCopies ==
    ASSUME IInv, Calm, NEW t \in DOMAIN task, NEW l, Run(t, l), accident = "none",
           task[t].pc \in {"open", "copy"}, l.pc \in {"copy", "remove", "load"},
           UNCHANGED set,
           l.op = task[t].op, l.to = task[t].to, l.old = task[t].old, l.new = task[t].new,
           l.todo = task[t].todo, l.src = task[t].src, l.dst = task[t].dst, l.live = task[t].live,
           l.model = task[t].model,
           set.local /\ set.path # None => Is(Holder(t), set.model)',
           \A m \in owed' : \E p \in Paths : Is(p, m)' /\ p \in Reach(t)
    PROVE  Calm'
<1>1. DOMAIN task = {t} /\ Steady(t) /\ Follows(t) /\ Reached(t)
  BY OnlyTask
<1>2. DOMAIN task' = {t} /\ task'[t] = l
  BY <1>1, RunTasks
<1>3. Steady(t)'
  BY <1>1, <1>2 DEF Steady, Migrating
<1>4. Follows(t)'
  BY DEF Follows
<1>5. \A p \in Paths : p \in Reach(t) => (p \in Reach(t))'
  BY <1>2 DEF Reach, ListedDirs
<1>6. Reached(t)'
  BY <1>5 DEF Reached
<1> QED  BY <1>2, <1>3, <1>4, <1>6, CalmRuns

LEMMA CalmOpen ==
    ASSUME IInv, Calm, NEW t, Open(t)
    PROVE  Calm'
<1> SUFFICES ASSUME accident' = "none"  PROVE Calm'
  BY DEF Calm
<1> DEFINE empty == [model |-> task[t].model, whole |-> FALSE]
<1>1. t \in DOMAIN task /\ task[t] \in Task /\ task[t].pc = "open" /\ task[t].dst \in Paths
  BY DEF Open, At, IInv, TypeOK, Shape
<1>2. PICK d : d = task[t].dst
  OBVIOUS
<1>3. PICK i \in Inodes :
          /\ IF Exists(d) THEN i = names[d] ELSE Free(i)
          /\ names' = [names EXCEPT ![d] = i]
          /\ content' = [content EXCEPT ![i] = empty]
          /\ Run(t, [task[t] EXCEPT !.pc = "copy", !.out = i])
  BY <1>2, Zenon DEF Open
<1> DEFINE l == [task[t] EXCEPT !.pc = "copy", !.out = i]
<1>4. /\ l.op = task[t].op /\ l.to = task[t].to /\ l.old = task[t].old /\ l.new = task[t].new
      /\ l.todo = task[t].todo /\ l.src = task[t].src /\ l.dst = task[t].dst
      /\ l.pc = "copy" /\ l.live = task[t].live /\ l.model = task[t].model
  BY <1>1 DEF Task
<1>5. Run(t, l) /\ UNCHANGED <<settings, begun>>
      /\ owed' = IF Exists(d) /\ content[names[d]].whole /\ ~Migrating(t)
                 THEN owed \ {content[names[d]].model} ELSE owed
  BY <1>2, <1>3 DEF Open
<1> HIDE DEF l
<1>6. accident = "none" /\ (Migrating(t) => ~Exists(d)) /\ d # set.path
  <2>1. IF Contended(t, d) \/ (Exists(d) /\ Migrating(t))
        THEN Happens("collided")
        ELSE Happens(IF d \in {set.path, disk.path} THEN "cut" ELSE "none")
    BY <1>2 DEF Open
  <2> QED  BY <2>1, HappensNone
<1>7. Steady(t) /\ Follows(t) /\ Reached(t)
  BY <1>1, <1>6, OnlyTask
<1>8. \A p \in Paths : names'[p] = IF p = d THEN i ELSE names[p]
  BY <1>1, <1>2, <1>3 DEF IInv, TypeOK
<1>9. \A p \in Paths \ {d} : names[p] # i
  <2>1. CASE Exists(d)
    BY <2>1, <1>1, <1>2, <1>3 DEF IInv, Injective
  <2>2. CASE ~Exists(d)
    BY <2>2, <1>3 DEF Free
  <2> QED  BY <2>1, <2>2
<1>10. \A j \in Inodes : content'[j] = IF j = i THEN empty ELSE content[j]
  BY <1>3 DEF IInv, TypeOK
<1>11. \A p \in Paths \ {d} : \A m : Is(p, m) => Is(p, m)'
  <2> SUFFICES ASSUME NEW p \in Paths \ {d}, NEW m, Is(p, m)  PROVE Is(p, m)'
    OBVIOUS
  <2>1. names'[p] = names[p] /\ names[p] \in Inodes /\ names[p] # i
    BY <1>8, <1>9 DEF Is, Exists, IInv, TypeOK
  <2> QED  BY <2>1, <1>10 DEF Is, Exists
<1>12. set.local /\ set.path # None => Is(Holder(t), set.model)'
  <2> SUFFICES ASSUME set.local, set.path # None  PROVE Is(Holder(t), set.model)'
    OBVIOUS
  <2>1. PICK h, m : h = Holder(t) /\ m = set.model
    OBVIOUS
  <2>2. Is(h, m)
    BY <1>7, <2>1 DEF Follows
  <2>3. h \in Paths /\ h # d
    <3>1. h \in {set.path, task[t].new} \ {None}
      BY <2>1 DEF Holder
    <3>2. h \in Paths
      BY <3>1, <1>1 DEF Task, IInv, TypeOK, Settings
    <3>3. h # set.path => Migrating(t)
      BY <2>1, <1>7 DEF Holder, Steady
    <3> QED  BY <3>2, <3>3, <2>2, <1>6 DEF Is
  <2>4. (Holder(t))' = h /\ set' = set
    <3>1. task'[t] = l
      BY <1>1, <1>5, RunTasks
    <3> QED  BY <3>1, <2>1, <1>4, <1>5 DEF Holder, settings
  <2> QED  BY <2>1, <2>2, <2>3, <2>4, <1>11
<1>13. \A m \in owed' : \E p \in Paths : Is(p, m)' /\ p \in Reach(t)
  <2> SUFFICES ASSUME NEW m \in owed'  PROVE \E p \in Paths : Is(p, m)' /\ p \in Reach(t)
    OBVIOUS
  <2>1. PICK p \in Paths : Is(p, m) /\ p \in Reach(t)
    BY <1>5, <1>7 DEF Reached
  <2>2. p # d
    BY <2>1, <1>5, <1>6 DEF Is
  <2> QED  BY <2>1, <2>2, <1>11
<1> QED  BY <1>1, <1>4, <1>5, <1>6, <1>12, <1>13, CalmCopies DEF settings

LEMMA CalmCopyDone ==
    ASSUME IInv, Calm, NEW t, CopyDone(t)
    PROVE  Calm'
<1> SUFFICES ASSUME accident' = "none"  PROVE Calm'
  BY DEF Calm
<1>1. t \in DOMAIN task /\ task[t] \in Task /\ task[t].pc = "copy" /\ task[t].dst \in Paths
  BY DEF CopyDone, At, IInv, TypeOK, Shape
<1>2. PICK o, d, c : /\ o = task[t].out /\ d = task[t].dst
                     /\ c = IF Migrating(t) THEN content[task[t].in]
                            ELSE [content[o] EXCEPT !.whole = TRUE]
  OBVIOUS
<1>3. PICK pc : pc = IF Migrating(t) THEN "remove" ELSE "load"
  OBVIOUS
<1>4. PICK l : l = [task[t] EXCEPT !.pc = pc]
  OBVIOUS
<1>5. /\ content' = [content EXCEPT ![o] = c]
      /\ Run(t, l)
      /\ owed' = IF Migrating(t) THEN owed ELSE owed \cup {task[t].model}
      /\ UNCHANGED <<names, settings, accident, begun>>
  BY <1>3, <1>2, <1>4 DEF CopyDone
<1>6. /\ l.op = task[t].op /\ l.to = task[t].to /\ l.old = task[t].old /\ l.new = task[t].new
      /\ l.todo = task[t].todo /\ l.src = task[t].src /\ l.dst = task[t].dst
      /\ l.pc = pc /\ l.live = task[t].live /\ l.model = task[t].model
  BY <1>1, <1>4 DEF Task
<1>7. /\ names[d] = o /\ o # 0 /\ o \in Inodes
      /\ content[o] = [model |-> task[t].model, whole |-> FALSE]
  <2>1. Own(t) /\ Writes(t)
    BY <1>1, <1>5 DEF IInv, Undisturbed, Writes
  <2> QED  BY <2>1, <1>1, <1>2 DEF Own, Exists, IInv, TypeOK
<1>8. \A j \in Inodes : content'[j] = IF j = o THEN c ELSE content[j]
  BY <1>5 DEF IInv, TypeOK
<1>9. \A p \in Paths : \A m : Is(p, m) => Is(p, m)'
  <2> SUFFICES ASSUME NEW p \in Paths, NEW m, Is(p, m)  PROVE Is(p, m)'
    OBVIOUS
  <2>1. names[p] # o /\ names[p] \in Inodes
    BY <1>7 DEF Is, Exists, IInv, TypeOK
  <2> QED  BY <2>1, <1>5, <1>8 DEF Is, Exists
<1>10. Steady(t) /\ Follows(t) /\ Reached(t)
  BY <1>1, <1>5, OnlyTask
<1>11. PICK h, m : h = Holder(t) /\ m = set.model
  OBVIOUS
<1>12. set.local /\ set.path # None => Is(Holder(t), set.model)'
  <2> SUFFICES ASSUME set.local, set.path # None  PROVE Is(Holder(t), set.model)'
    OBVIOUS
  <2>1. Is(h, m)
    BY <1>10, <1>11 DEF Follows
  <2>2. h \in Paths
    BY <1>1, <1>11 DEF Holder, Task, IInv, TypeOK, Settings
  <2>3. (Holder(t))' = h /\ set' = set
    <3>1. task'[t] = l
      BY <1>1, <1>5, RunTasks
    <3> QED  BY <3>1, <1>5, <1>6, <1>11 DEF Holder, settings
  <2> QED  BY <2>1, <2>2, <2>3, <1>9, <1>11
<1>13. PICK n : n = task[t].model
  OBVIOUS
<1>14. ~Migrating(t) => Is(d, n)'
  <2> SUFFICES ASSUME ~Migrating(t)  PROVE Is(d, n)'
    OBVIOUS
  <2> DEFINE part == [model |-> n, whole |-> FALSE]
  <2>1. c = [part EXCEPT !.whole = TRUE]
    BY <1>2, <1>7, <1>13
  <2>2. c = [model |-> n, whole |-> TRUE]
    BY <2>1
  <2> QED  BY <2>2, <1>5, <1>7, <1>8 DEF Is, Exists
<1>15. \A k \in owed' : \E p \in Paths : Is(p, k)' /\ p \in Reach(t)
  <2> SUFFICES ASSUME NEW k \in owed'  PROVE \E p \in Paths : Is(p, k)' /\ p \in Reach(t)
    OBVIOUS
  <2>1. CASE k \in owed
    BY <2>1, <1>9, <1>10 DEF Reached
  <2>2. CASE k \notin owed
    <3>1. ~Migrating(t) /\ k = n /\ d \in Paths
      BY <2>2, <1>1, <1>2, <1>5, <1>13
    <3>2. d \in Reach(t)
      <4>1. d[1] \in ListedDirs
        BY <3>1, <1>1, <1>2, <1>10 DEF Steady, ListedDirs
      <4>2. d \in ListedDirs \X Names
        BY <3>1, <4>1, InDirs
      <4> QED  BY <3>1, <4>2 DEF Reach, Migrating
    <3> QED  BY <3>1, <3>2, <1>14
  <2> QED  BY <2>1, <2>2
<1> QED  BY <1>3, <1>1, <1>5, <1>6, <1>12, <1>15, CalmCopies DEF settings

LEMMA CalmFails ==
    ASSUME IInv, Calm, NEW t, CopyFails(t) \/ DeleteFails(t) \/ LoadFails(t)
    PROVE  Calm'
<1> SUFFICES ASSUME accident' = "none"  PROVE Calm'
  BY DEF Calm
<1>1. /\ t \in DOMAIN task /\ Fail(t) /\ UNCHANGED <<names, content, set, owed>>
  BY DEF CopyFails, DeleteFails, LoadFails, At, files, settings
<1>2. End(t) /\ accident = "none" /\ ~Migrating(t)
  BY <1>1, HappensNone DEF Fail
<1>3. Steady(t) /\ Follows(t)
  BY <1>1, <1>2, OnlyTask
<1>4. set'.local /\ set'.path # None => Is(set.path, set.model)'
  <2>1. Holder(t) = set.path
    BY <1>2, <1>3 DEF Steady, Holder
  <2> QED  BY <2>1, <1>1, <1>3 DEF Follows, Is, Exists
<1>5. \A m \in owed' : m \in owed /\ \A p \in Paths : Is(p, m) => Is(p, m)'
  BY <1>1 DEF Is, Exists
<1> QED  BY <1>1, <1>2, <1>4, <1>5, CalmEnds DEF Migrating

LEMMA CalmDelete ==
    ASSUME IInv, Calm, NEW t, Delete(t)
    PROVE  Calm'
<1> SUFFICES ASSUME accident' = "none"  PROVE Calm'
  BY DEF Calm
<1>1. t \in DOMAIN task /\ task[t].pc = "delete" /\ ~Migrating(t)
  BY DEF Delete, At, IInv, Shape
<1>2. PICK s \in Paths : s = task[t].src
  BY <1>1 DEF IInv, Shape
<1>3. /\ IF Exists(s)
         THEN /\ names' = [names EXCEPT ![s] = 0]
              /\ owed' = IF content[names[s]].whole THEN owed \ {content[names[s]].model} ELSE owed
              /\ Happens(IF Contended(t, s) THEN "collided" ELSE "none")
         ELSE UNCHANGED <<names, owed, accident>>
      /\ End(t) /\ UNCHANGED <<content, set, begun>>
  BY <1>2 DEF Delete
<1>4. accident = "none"
  BY <1>3, HappensNone
<1>5. \A p \in Paths \ {s} : names'[p] = names[p]
  BY <1>2, <1>3 DEF IInv, TypeOK
<1>6. Steady(t) /\ Follows(t)
  BY <1>1, <1>4, OnlyTask
<1>7. set'.local /\ set'.path # None => Is(set.path, set.model)'
  <2> SUFFICES ASSUME set.local, set.path # None  PROVE Is(set.path, set.model)'
    BY <1>3
  <2>1. Holder(t) = set.path
    BY <1>1, <1>6 DEF Steady, Holder
  <2>2. set.path \in Paths /\ set.path # s
    BY <1>1, <1>2, <1>6 DEF Steady, IsCurrent, IInv, TypeOK, Settings
  <2> QED  BY <2>1, <2>2, <1>3, <1>5, <1>6 DEF Follows, Is, Exists
<1>8. \A m \in owed' : m \in owed /\ \A p \in Paths : Is(p, m) => Is(p, m)'
  <2> SUFFICES ASSUME NEW m \in owed'
               PROVE  m \in owed /\ \A p \in Paths : Is(p, m) => Is(p, m)'
    OBVIOUS
  <2>1. m \in owed
    BY <1>3
  <2>2. ~Is(s, m)
    BY <1>3 DEF Is
  <2> QED  BY <2>1, <2>2, <1>3, <1>5 DEF Is, Exists
<1> QED  BY <1>1, <1>3, <1>4, <1>7, <1>8, CalmEnds DEF Migrating

LEMMA CalmEngineLoads ==
    ASSUME IInv, Calm, NEW t, EngineLoads(t)
    PROVE  Calm'
<1> SUFFICES ASSUME accident' = "none"  PROVE Calm'
  BY DEF Calm
<1>1. /\ t \in DOMAIN task /\ task[t] \in Task /\ task[t].pc = "load" /\ ~Migrating(t)
      /\ task[t].dst \in Paths
  BY DEF EngineLoads, At, IInv, TypeOK, Shape
<1>2. PICK d, m : d = task[t].dst /\ m = content[names[d]].model
  OBVIOUS
<1>3. PICK l : l = [task[t] EXCEPT !.pc = "loaded", !.model = m]
  OBVIOUS
<1>4. /\ Run(t, l) /\ Exists(d) /\ content[names[d]].whole
      /\ UNCHANGED <<names, content, set, owed, accident>>
  BY <1>2, <1>3 DEF EngineLoads, files, settings
<1>5. /\ l.op = task[t].op /\ l.to = task[t].to /\ l.old = task[t].old /\ l.new = task[t].new
      /\ l.todo = task[t].todo /\ l.src = task[t].src /\ l.pc = "loaded"
      /\ l.live = task[t].live /\ l.dst = d /\ l.model = m
  BY <1>1, <1>2, <1>3 DEF Task
<1>6. Is(d, m)'
  <2>1. content[names[d]] \in [model : Models \cup {None}, whole : BOOLEAN]
    BY <1>1, <1>2, <1>4 DEF Exists, IInv, TypeOK
  <2>2. content[names[d]] = [model |-> m, whole |-> TRUE]
    BY <2>1, <1>2, <1>4
  <2> QED  BY <2>2, <1>4 DEF Is, Exists
<1>7. Steady(t) /\ task'[t] = l
  BY <1>1, <1>4, OnlyTask, RunTasks
<1>8. Steady(t)'
  <2>1. Is(task[t].dst, task[t].model)'
    BY <1>5, <1>6, <1>7 DEF Is, Exists
  <2> QED  BY <1>1, <1>5, <1>7, <2>1 DEF Steady, Migrating
<1> QED  BY <1>1, <1>4, <1>5, <1>8, CalmWay

LEMMA CalmLoadReturns ==
    ASSUME IInv, Calm, NEW t, LoadReturns(t)
    PROVE  Calm'
<1> SUFFICES ASSUME accident' = "none"  PROVE Calm'
  BY DEF Calm
<1>1. t \in DOMAIN task /\ task[t].pc = "loaded" /\ ~Migrating(t)
  BY DEF LoadReturns, At, IInv, Shape
<1>2. End(t) /\ UNCHANGED <<names, content, owed, accident>>
  BY DEF LoadReturns, files
<1>3. Steady(t) /\ Follows(t)
  BY <1>1, <1>2, OnlyTask
<1>4. \/ UNCHANGED set
      \/ set' = [set EXCEPT !.path = task[t].dst, !.local = TRUE, !.model = task[t].model]
  BY DEF LoadReturns, settings, Save
<1>5. set'.dir = set.dir /\ (set'.local /\ set'.path # None => Is(set.path, set.model)')
  <2>1. CASE UNCHANGED set
    <3>1. Holder(t) = set.path
      BY <1>1, <1>3 DEF Steady, Holder
    <3> QED  BY <2>1, <3>1, <1>2, <1>3 DEF Follows, Is, Exists
  <2>2. CASE set' = [set EXCEPT !.path = task[t].dst, !.local = TRUE, !.model = task[t].model]
    <3>1. set'.dir = set.dir /\ set'.path = task[t].dst /\ set'.model = task[t].model
      BY <2>2 DEF IInv, TypeOK, Settings
    <3>2. Is(task[t].dst, task[t].model)
      BY <1>1, <1>3 DEF Steady
    <3> QED  BY <3>1, <3>2, <1>2 DEF Is, Exists
  <2> QED  BY <1>4, <2>1, <2>2
<1>6. \A m \in owed' : m \in owed /\ \A p \in Paths : Is(p, m) => Is(p, m)'
  BY <1>2 DEF Is, Exists
<1> QED  BY <1>1, <1>2, <1>5, <1>6, CalmEnds DEF Migrating

\* All files are at their new places; so is the saved path.
LEMMA CalmMigrated ==
    ASSUME IInv, Calm, NEW t, Migrated(t)
    PROVE  Calm'
<1> SUFFICES ASSUME accident' = "none"  PROVE Calm'
  BY DEF Calm
<1>1. t \in DOMAIN task /\ task[t] \in Task /\ task[t].pc = "choose" /\ task[t].todo = {}
      /\ Migrating(t)
  BY DEF Migrated, At, IInv, TypeOK, Shape
<1>2. End(t) /\ UNCHANGED <<names, content, owed, accident>>
  BY DEF Migrated, files
<1>3. DOMAIN task = {t} /\ Steady(t) /\ Follows(t) /\ Reached(t)
  BY <1>1, <1>2, OnlyTask
<1>4. DOMAIN task' = {}
  BY <1>2, <1>3, EndTasks
<1>5. PICK old, new, to : old = task[t].old /\ new = task[t].new /\ to = task[t].to
  OBVIOUS
<1>6. set \in Settings
  BY DEF IInv, TypeOK
<1>7. \A p \in Paths : p \in Reach(t) => p[1] \in ListedDirs'
  <2> SUFFICES ASSUME NEW p \in Paths, p \in Reach(t)  PROVE p[1] \in ListedDirs'
    OBVIOUS
  <2>1. CASE task[t].op = "all"
    <3>1. set'.dir = to
      BY <2>1, <1>3, <1>5, <1>6 DEF Migrated, Steady, Save, Settings
    <3>2. p \in (AppDirs \cup {to}) \X Names
      BY <2>1, <1>1, <1>3, <1>5, StoreAssumption DEF Reach, Steady
    <3> QED  BY <3>1, <3>2 DEF ListedDirs
  <2>2. CASE task[t].op # "all"
    <3>1. task[t].op = "one" /\ task[t].live
      BY <2>2, <1>1, <1>3 DEF Migrating, Steady
    <3>2. set' = set \/ set' = [set EXCEPT !.path = new]
      BY <3>1, <1>5 DEF Migrated, Save, settings
    <3>3. set'.dir = set.dir
      BY <3>2, <1>6 DEF Settings
    <3> QED  BY <2>2, <3>3 DEF Reach, ListedDirs
  <2> QED  BY <2>1, <2>2
<1>8. \A m \in owed' : \E p \in Paths : Is(p, m)' /\ p[1] \in ListedDirs'
  BY <1>2, <1>3, <1>7 DEF Reached, Is, Exists
<1>9. set'.local /\ set'.path # None => Is(set.path, set.model)'
  <2> SUFFICES ASSUME set'.local, set'.path # None  PROVE Is(set.path, set.model)'
    OBVIOUS
  <2>1. CASE task[t].op = "all"
    <3> DEFINE path == UpdatedLocalModelPath(old, t)
    <3>1. set' = [set EXCEPT !.dir = task[t].to, !.path = path]
      BY <2>1, <1>3, <1>5 DEF Migrated, Steady, Save
    <3>2. set.path = old /\ path = IF new # None THEN new
                                   ELSE IF old # None /\ Exists(old) THEN old ELSE None
      BY <2>1, <1>3, <1>5 DEF Steady, UpdatedLocalModelPath
    <3> HIDE DEF path
    <3>3. set'.path = path /\ set'.local = set.local /\ set'.model = set.model
      BY <3>1, <1>6 DEF Settings
    <3>4. old # None
      BY <3>2, <3>3, <1>3, <1>5, StoreAssumption DEF Steady
    <3>5. Is(Holder(t), set.model)
      BY <3>2, <3>3, <3>4, <1>3 DEF Follows
    <3>6. path = Holder(t)
      BY <3>2, <3>4, <3>5, <1>5 DEF Holder, Is
    <3> QED  BY <3>3, <3>5, <3>6, <1>2 DEF Is, Exists
  <2>2. CASE task[t].op = "one"
    <3>1. new # None
      BY <2>2, <1>1, <1>3, <1>5 DEF Steady
    <3>2. IF set.local /\ set.path = old THEN set' = [set EXCEPT !.path = new] ELSE set' = set
      BY <2>2, <1>3, <1>5 DEF Migrated, Steady, Save, settings, IsCurrent
    <3>3. set'.local = set.local /\ set'.model = set.model
          /\ set'.path = IF set.local /\ set.path = old THEN new ELSE set.path
      BY <3>2, <1>6 DEF Settings
    <3>4. set.path # None
      BY <2>2, <3>3, <1>3, <1>5, StoreAssumption DEF Steady
    <3>5. Is(Holder(t), set.model) /\ set'.path = Holder(t)
      BY <3>1, <3>3, <3>4, <1>3, <1>5 DEF Follows, Holder
    <3> QED  BY <3>3, <3>5, <1>2 DEF Is, Exists
  <2> QED  BY <1>1, <2>1, <2>2 DEF Migrating
<1> QED  BY <1>4, <1>8, <1>9, CalmRests

\* What happens to the whole screen, or only to what is on the disk.
LEMMA CalmScreen ==
    ASSUME Calm, OnStop \/ DestroyScreen \/ Crash
    PROVE  Calm'
<1>1. CASE OnStop
  <2>1. UNCHANGED <<names, content, task, set, owed, accident>>
    BY <1>1 DEF OnStop, files
  <2>2. \A t : /\ Steady(t)' = Steady(t) /\ Follows(t)' = Follows(t)
               /\ Reached(t)' = Reached(t)
    BY <2>1 DEF Steady, Follows, Reached, Reach, Holder, Is, Exists, Migrating, IsCurrent,
                ListedDirs
  <2>3. PathFollowsModel' = PathFollowsModel /\ AllListed' = AllListed
    BY <2>1 DEF PathFollowsModel, AllListed, Is, Exists, ListedDirs
  <2> QED  BY <2>1, <2>2, <2>3 DEF Calm
<1>2. CASE DestroyScreen \/ Crash
  <2>1. accident' # "none"
    BY <1>2 DEF DestroyScreen, Crash, Happens
  <2> QED  BY <2>1 DEF Calm
<1> QED  BY <1>1, <1>2

LEMMA CalmStep == IInv /\ Calm /\ [Next]_vars => Calm'
<1> SUFFICES ASSUME IInv, Calm, [Next]_vars  PROVE Calm'
  OBVIOUS
<1>1. CASE UNCHANGED vars
  <2>1. UNCHANGED <<names, content, task, set, disk, owed, accident>>
    BY <1>1 DEF vars
  <2>2. \A t : /\ Steady(t)' = Steady(t) /\ Follows(t)' = Follows(t)
               /\ Reached(t)' = Reached(t)
    BY <2>1 DEF Steady, Follows, Reached, Reach, Holder, Is, Exists, Migrating, IsCurrent,
                ListedDirs
  <2>3. PathFollowsModel' = PathFollowsModel /\ AllListed' = AllListed
    BY <2>1 DEF PathFollowsModel, AllListed, Is, Exists, ListedDirs
  <2> QED  BY <2>1, <2>2, <2>3 DEF Calm
<1>2. CASE \/ \E b \in Backups : RestoreState(b)
           \/ UnloadModel \/ UseRemote \/ ForgetMissing
  BY <1>2, CalmSettings, CalmUseRemote
<1>3. ASSUME NEW t \in Threads, User(t)  PROVE Calm'
  BY <1>3, CalmUser
<1>4. ASSUME NEW t \in Threads, Work(t)  PROVE Calm'
  <2>1. CASE ListFiles(t) \/ Choose(t) \/ Rename(t) \/ RenameFails(t)
    BY <2>1, CalmListFiles, CalmChoose, CalmRename, CalmRenameFails
  <2>2. CASE OpenSource(t) \/ Open(t) \/ CopyDone(t) \/ Remove(t)
    BY <2>2, CalmOpenSource, CalmOpen, CalmCopyDone, CalmRemove
  <2>3. CASE CopyFails(t) \/ DeleteFails(t) \/ LoadFails(t)
    BY <2>3, CalmFails
  <2>4. CASE Migrated(t) \/ Delete(t) \/ EngineLoads(t) \/ LoadReturns(t)
    BY <2>4, CalmMigrated, CalmDelete, CalmEngineLoads, CalmLoadReturns
  <2> QED  BY <1>4, <2>1, <2>2, <2>3, <2>4 DEF Work
<1>5. CASE OnStop \/ DestroyScreen \/ Crash
  BY <1>5, CalmScreen
<1> QED  BY <1>1, <1>2, <1>3, <1>4, <1>5 DEF Next

LEMMA Calmness == Spec => []Calm
BY InitHolds, StepHolds, CalmInit, CalmStep, PTL DEF Spec

\* The saved path of migrateInstalledModels and migrateInstalledModel goes with
\* its file, also to another name, and a path that loadModel saved names the model
\* that was loaded, until an operation is cut short, two overlap, or restoreState
\* brings settings that the files do not fit.
THEOREM PathIsFollowed == Spec => []PathFollowsModel
<1>1. Calm => PathFollowsModel
  BY DEF Calm, PathFollowsModel
<1> QED  BY Calmness, <1>1, PTL

\* Until an operation is cut short, two overlap, or restoreState brings settings
\* that the files do not fit, listInstalledModels shows every model that was
\* installed and neither deleted nor replaced, whatever was migrated where and
\* under which name.
THEOREM ModelsAreListed == Spec => []AllListed
<1>1. Calm => AllListed
  BY DEF Calm, AllListed
<1> QED  BY Calmness, <1>1, PTL
===============================================================================
