------------------------------ MODULE ModelStore ------------------------------
(***************************************************************************)
(* The installed models: importing, deleting and moving their files        *)
(* (ModelRepository.kt) and the settings that follow them                  *)
(* (MainActivity.kt, localModelPath and modelStoragePath).                 *)
(*                                                                         *)
(* The blocking part of an operation runs on a thread of Dispatchers.IO    *)
(* and is not interrupted when its screen is destroyed: only what the      *)
(* screen would have done with the result is lost.  Files are inodes.  All *)
(* names here are variants of one name, since only those meet.             *)
(*                                                                         *)
(* isBusy excludes nothing here: renderEngineState, finishGeneration,      *)
(* loadHubModels and showError clear it under whatever runs, and dialogs   *)
(* and results of activities do not look at it again.                      *)
(***************************************************************************)
EXTENDS Integers, Sequences

CONSTANTS
    Models,     \* contents of model files
    Dirs,       \* directories models may be kept in
    AppDirs,    \* filesDir and the external files directory, always listed
    Default,    \* defaultModelsDir
    Names,      \* file names
    Installed,  \* what is installed at first: a sequence of paths and models
    Imports,    \* what the user may import: models with the names they have
    Backups,    \* settings in the backups the user may restore
    Threads,    \* threads of Dispatchers.IO
    None,
    MaxInodes,  \* bound of the model: files that exist or are open at once
    MaxBegun    \* bound of the model: operations begun

Paths  == Dirs \X Names
Inodes == 1 .. MaxInodes

ASSUME StoreAssumption ==
    /\ AppDirs \subseteq Dirs /\ Default \in AppDirs
    /\ Installed \in Seq([path : Paths, model : Models])
    /\ \A i, j \in DOMAIN Installed : i # j => Installed[i].path # Installed[j].path
    /\ Imports \subseteq Models \X Names
    /\ Backups \subseteq [dir : Dirs, path : Paths \cup {None}, local : BOOLEAN]
    /\ None \notin Models /\ None \notin Paths /\ None \notin Dirs
    /\ MaxInodes \in Nat /\ MaxBegun \in Nat
    /\ Len(Installed) <= MaxInodes

\* An installed model is one that the lists show.
ASSUME InstalledAssumption ==
    \A i \in DOMAIN Installed : Installed[i].path[1] \in AppDirs

VARIABLES
    names,     \* paths to the inode there, 0 if there is none
    content,   \* inodes to what was written to them: a model, whole or not
    task,      \* the running operations: threads to their local variables
    set,       \* appSettings: directory, path, provider; model: history, the one chosen
    disk,      \* what is in the preferences
    owed,      \* history: models installed and neither deleted nor replaced
    accident,  \* history: the worst that happened so far
    begun      \* history: number of operations begun

vars == <<names, content, task, set, disk, owed, accident, begun>>

files    == <<names, content>>
settings == <<set, disk>>

At(t, pc) == t \in DOMAIN task /\ task[t].pc = pc
Exists(p) == names[p] # 0
Is(p, m)  == Exists(p) /\ content[names[p]] = [model |-> m, whole |-> TRUE]
Loading(t) == task[t].pc \in {"load", "loaded"}

\* installedModelDirs
ListedDirs == {set.dir} \cup AppDirs

\* Someone but t works at path p, and does not just load it.
Contended(t, p) ==
    \E u \in DOMAIN task \ {t} : ~Loading(u) /\ p \in {task[u].src, task[u].dst}

Free(i) ==
    /\ \A p \in Paths : names[p] # i
    /\ \A t \in DOMAIN task : i \notin {task[t].in, task[t].out}

Local == [op |-> "none", live |-> TRUE, pc |-> "none", todo |-> {},
          src |-> None, dst |-> None, in |-> 0, out |-> 0,
          to |-> None, model |-> None, old |-> None, new |-> None]

Run(t, l) == task' = [u \in DOMAIN task \cup {t} |-> IF u = t THEN l ELSE task[u]]
End(t)    == task' = [u \in DOMAIN task \ {t} |-> task[u]]
Save(s)   == set' = s /\ disk' = s

Unset(s)  == [s EXCEPT !.path = None, !.model = None]

\* An operation was cut short, overlaps another one or met the file another
\* one works at; settings were restored that the files do not fit.
Accidents == {"none", "cut", "overlap", "collided", "restored"}
Happens(what) ==
    accident' = IF accident = "collided" \/ what = "none" THEN accident ELSE what
Overlap == IF DOMAIN task = {} THEN "none" ELSE "overlap"

Init ==
    /\ names = [p \in Paths |->
                   IF \E i \in DOMAIN Installed : Installed[i].path = p
                   THEN CHOOSE i \in DOMAIN Installed : Installed[i].path = p ELSE 0]
    /\ content = [i \in Inodes |->
                     IF i \in DOMAIN Installed
                     THEN [model |-> Installed[i].model, whole |-> TRUE]
                     ELSE [model |-> None, whole |-> FALSE]]
    /\ task = [t \in {} |-> Local]
    /\ set = [dir |-> Default, path |-> None, local |-> TRUE, model |-> None]
    /\ disk = set
    /\ owed = {Installed[i].model : i \in DOMAIN Installed}
    /\ accident = "none" /\ begun = 0

------------------------------------------------------------------------------
(* The user.  Lists and dialogs may be older than the files and the        *)
(* settings: an operation may be called for any path.                      *)

\* isCurrentLocalModel
IsCurrent(p) == set.local /\ set.path = p

\* unloadInstalledModel
UnloadModel ==
    /\ set.local /\ set.path # None
    /\ Save(Unset(set)) /\ Happens(Overlap)
    /\ UNCHANGED <<files, task, owed, begun>>

\* showOpenAiModelDialog
UseRemote ==
    /\ set.local
    /\ Save([set EXCEPT !.local = FALSE])
    /\ UNCHANGED <<files, task, owed, accident, begun>>

\* loadLocalModelForChat, when the saved file is not there any more.
ForgetMissing ==
    /\ set.local /\ set.path # None /\ ~Exists(set.path)
    /\ Save(Unset(set)) /\ Happens(Overlap)
    /\ UNCHANGED <<files, task, owed, begun>>

\* The directory of the backup is the present one, its model is there.
Fits(b) ==
    /\ b.dir = set.dir
    /\ b.path = None \/ (Exists(b.path) /\ content[names[b.path]].whole)

\* restoreState: the settings are replaced, the files stay where they are.
RestoreState(b) ==
    /\ Save([dir |-> b.dir, path |-> b.path, local |-> b.local,
             model |-> IF b.path # None /\ Exists(b.path) THEN content[names[b.path]].model
                       ELSE None])
    /\ Happens(IF Fits(b) THEN Overlap ELSE "restored")
    /\ UNCHANGED <<files, task, owed, begun>>

Begin(t) ==
    /\ t \notin DOMAIN task
    /\ begun < MaxBegun /\ begun' = begun + 1
    /\ Happens(Overlap)

\* loadModel of a file of a list, or of the saved one.
LoadModel(t, p) ==
    /\ Begin(t)
    /\ Run(t, [Local EXCEPT !.op = "load", !.pc = "load", !.dst = p])
    /\ UNCHANGED <<files, settings, owed>>

\* changeModelStorage: every file of the old directory goes to the new one.
ChangeModelStorage(t, d) ==
    /\ Begin(t) /\ d # set.dir
    /\ Run(t, [Local EXCEPT !.op = "all", !.pc = "list", !.to = d,
                  !.todo = {p \in Paths : p[1] = set.dir}, !.old = set.path])
    /\ UNCHANGED <<files, settings, owed>>

\* migrateInstalledModel, of a file that is not there already.
MigrateModel(t, p) ==
    /\ Begin(t)
    /\ p[1] # set.dir
    /\ Run(t, [Local EXCEPT !.op = "one", !.pc = "list", !.to = set.dir,
                  !.todo = {p}, !.old = p])
    /\ UNCHANGED <<files, settings, owed>>

\* deleteInstalledModel of the screen: the setting is cleared first, and saved
\* when the file is gone.
DeleteModel(t, p) ==
    /\ Begin(t)
    /\ Run(t, [Local EXCEPT !.op = "delete", !.pc = "delete", !.src = p])
    /\ set' = IF IsCurrent(p) THEN Unset(set) ELSE set
    /\ UNCHANGED <<files, disk, owed>>

\* importModel: under the name the file has, whatever is there.
ImportModel(t, m, n) ==
    /\ Begin(t)
    /\ Run(t, [Local EXCEPT !.op = "import", !.pc = "open", !.model = m,
                  !.dst = <<set.dir, n>>])
    /\ UNCHANGED <<files, settings, owed>>

------------------------------------------------------------------------------
(* What the threads do.                                                    *)

Migrating(t) == task[t].op \in {"all", "one"}

\* An exception ends the operation.
Fail(t) == End(t) /\ Happens(IF Migrating(t) THEN "cut" ELSE "none")

\* listFiles of a directory, which may give nothing although there is something;
\* isFile of a single file.
ListFiles(t) ==
    /\ At(t, "list")
    /\ LET there == {p \in task[t].todo : Exists(p)}
       IN \/ /\ task[t].op = "all" \/ there # {}
             /\ Run(t, [task[t] EXCEPT !.pc = "choose", !.todo = there])
             /\ UNCHANGED accident
          \/ /\ task[t].op = "all"
             /\ Run(t, [task[t] EXCEPT !.pc = "choose", !.todo = {}])
             /\ Happens("cut")
          \/ task[t].op = "one" /\ there = {} /\ End(t) /\ UNCHANGED accident
    /\ UNCHANGED <<files, settings, owed, begun>>

\* availableModelFile: the name itself, or a variant that is free.
Choose(t) ==
    /\ At(t, "choose")
    /\ \E p \in task[t].todo, q \in {task[t].to} \X Names :
           /\ ~Exists(q) /\ (Exists(<<q[1], p[2]>>) \/ q[2] = p[2])
           /\ Run(t, [task[t] EXCEPT !.pc = "rename", !.src = p, !.dst = q, !.todo = @ \ {p}])
    /\ UNCHANGED <<files, settings, owed, accident, begun>>

\* The entry of the map from old paths to new ones that anyone asks for.
Moved(t) ==
    Run(t, [task[t] EXCEPT !.pc = "choose", !.src = None, !.dst = None, !.in = 0, !.out = 0,
                !.model = None, !.new = IF task[t].src = task[t].old THEN task[t].dst ELSE @])

\* renameTo replaces what has the name meanwhile.
Rename(t) ==
    /\ At(t, "rename") /\ Exists(task[t].src)
    /\ names' = [names EXCEPT ![task[t].dst] = names[task[t].src], ![task[t].src] = 0]
    /\ Happens(IF Contended(t, task[t].src) \/ Exists(task[t].dst) THEN "collided" ELSE "none")
    /\ Moved(t)
    /\ UNCHANGED <<content, settings, owed, begun>>

\* Another file system, or the file is gone.
RenameFails(t) ==
    /\ At(t, "rename")
    /\ Run(t, [task[t] EXCEPT !.pc = "openSource"])
    /\ UNCHANGED <<files, settings, owed, accident, begun>>

OpenSource(t) ==
    /\ At(t, "openSource") /\ Exists(task[t].src)
    /\ LET i == names[task[t].src]
       IN Run(t, [task[t] EXCEPT !.pc = "open", !.in = i, !.model = content[i].model])
    /\ Happens(IF Contended(t, task[t].src) THEN "collided" ELSE "none")
    /\ UNCHANGED <<files, settings, owed, begun>>

\* FileOutputStream empties a file that is there: by an import it is replaced.
Open(t) ==
    /\ At(t, "open")
    /\ \E i \in Inodes :
           /\ IF Exists(task[t].dst) THEN i = names[task[t].dst]
              ELSE Free(i) /\ \A j \in 1 .. i - 1 : ~Free(j)
           /\ names' = [names EXCEPT ![task[t].dst] = i]
           /\ content' = [content EXCEPT ![i] = [model |-> task[t].model, whole |-> FALSE]]
           /\ Run(t, [task[t] EXCEPT !.pc = "copy", !.out = i])
    /\ owed' = IF Exists(task[t].dst) /\ content[names[task[t].dst]].whole /\ ~Migrating(t)
               THEN owed \ {content[names[task[t].dst]].model} ELSE owed
    /\ IF Contended(t, task[t].dst) \/ (Exists(task[t].dst) /\ Migrating(t))
       THEN Happens("collided")
       ELSE Happens(IF task[t].dst \in {set.path, disk.path} THEN "cut" ELSE "none")
    /\ UNCHANGED <<settings, begun>>

\* Mutant: the end of the copy is not waited for.
CopyFails_Ignored(t) ==
    /\ At(t, "copy") /\ Migrating(t)
    /\ Run(t, [task[t] EXCEPT !.pc = "remove"])
    /\ UNCHANGED <<files, settings, owed, accident, begun>>

\* Opening, reading or writing fails; what was written stays.
CopyFails(t) ==
    /\ \E pc \in {"openSource", "open", "copy"} : At(t, pc)
    /\ Fail(t)
    /\ UNCHANGED <<files, settings, owed, begun>>

\* An import is in the directory now; the rest is loadModel's.
CopyDone(t) ==
    /\ At(t, "copy")
    /\ IF Migrating(t)
       THEN /\ content' = [content EXCEPT ![task[t].out] = content[task[t].in]]
            /\ Run(t, [task[t] EXCEPT !.pc = "remove"])
            /\ UNCHANGED owed
       ELSE /\ content' = [content EXCEPT ![task[t].out].whole = TRUE]
            /\ Run(t, [task[t] EXCEPT !.pc = "load"])
            /\ owed' = owed \cup {task[t].model}
    /\ UNCHANGED <<names, settings, accident, begun>>

Remove(t) ==
    /\ At(t, "remove")
    /\ \/ /\ Exists(task[t].src)
          /\ names' = [names EXCEPT ![task[t].src] = 0]
          /\ Happens(IF Contended(t, task[t].src) THEN "collided" ELSE "none")
          /\ Moved(t)
       \/ Fail(t) /\ UNCHANGED names
    /\ UNCHANGED <<content, settings, owed, begun>>

Delete(t) ==
    /\ At(t, "delete")
    /\ IF Exists(task[t].src)
       THEN /\ names' = [names EXCEPT ![task[t].src] = 0]
            /\ owed' = IF content[names[task[t].src]].whole
                       THEN owed \ {content[names[task[t].src]].model} ELSE owed
            /\ Happens(IF Contended(t, task[t].src) THEN "collided" ELSE "none")
       ELSE UNCHANGED <<names, owed, accident>>
    /\ disk' = IF task[t].live THEN set ELSE disk
    /\ End(t)
    /\ UNCHANGED <<content, set, begun>>

\* The file cannot be deleted: the setting is cleared and not saved.
DeleteFails(t) ==
    /\ At(t, "delete") /\ Exists(task[t].src)
    /\ Fail(t)
    /\ UNCHANGED <<files, settings, owed, begun>>

\* Mutant: the name in the new directory is taken for the old one.
UpdatedLocalModelPath_SameName(old, t) ==
    IF task[t].new # None THEN <<task[t].to, old[2]>>
    ELSE IF old # None /\ Exists(old) THEN old ELSE None

UpdatedLocalModelPath(old, t) ==
    IF task[t].new # None THEN task[t].new
    ELSE IF old # None /\ Exists(old) THEN old ELSE None

\* Mutant: the old directory remains the one for models.
Migrated_OldDirectory(t) ==
    /\ At(t, "choose") /\ task[t].todo = {}
    /\ CASE ~task[t].live -> UNCHANGED settings
         [] task[t].live /\ task[t].op = "all" ->
              Save([set EXCEPT !.path = UpdatedLocalModelPath(task[t].old, t)])
         [] task[t].live /\ task[t].op = "one" ->
              IF IsCurrent(task[t].old) THEN Save([set EXCEPT !.path = task[t].new])
              ELSE UNCHANGED settings
    /\ End(t)
    /\ UNCHANGED <<files, owed, accident, begun>>

\* Back on the screen, if it is still there, with all files moved.
Migrated(t) ==
    /\ At(t, "choose") /\ task[t].todo = {}
    /\ CASE ~task[t].live -> UNCHANGED settings
         [] task[t].live /\ task[t].op = "all" ->
              Save([set EXCEPT !.dir = task[t].to,
                               !.path = UpdatedLocalModelPath(task[t].old, t)])
         [] task[t].live /\ task[t].op = "one" ->
              IF IsCurrent(task[t].old) THEN Save([set EXCEPT !.path = task[t].new])
              ELSE UNCHANGED settings
    /\ End(t)
    /\ UNCHANGED <<files, owed, accident, begun>>

\* The engine reads the metadata and the model; what is not whole it refuses.
EngineLoads(t) ==
    /\ At(t, "load") /\ Exists(task[t].dst)
    /\ LET file == content[names[task[t].dst]]
       IN file.whole /\ Run(t, [task[t] EXCEPT !.pc = "loaded", !.model = file.model])
    /\ UNCHANGED <<files, settings, owed, accident, begun>>

\* Anything else that loadModel throws.
LoadFails(t) ==
    /\ At(t, "load")
    /\ Fail(t)
    /\ UNCHANGED <<files, settings, owed, begun>>

\* Back on the screen: the path is saved now.
LoadReturns(t) ==
    /\ At(t, "loaded")
    /\ IF task[t].live
       THEN Save([set EXCEPT !.path = task[t].dst, !.local = TRUE, !.model = task[t].model])
       ELSE UNCHANGED settings
    /\ End(t)
    /\ UNCHANGED <<files, owed, accident, begun>>

------------------------------------------------------------------------------
\* The screen goes to the background.
OnStop ==
    /\ disk' = set
    /\ UNCHANGED <<files, set, task, owed, accident, begun>>

\* Rotation or back: onStop saves the settings, the coroutines are cancelled.
DestroyScreen ==
    /\ \E t \in DOMAIN task : task[t].live
    /\ task' = [t \in DOMAIN task |-> [task[t] EXCEPT !.live = FALSE]]
    /\ disk' = set
    /\ Happens("cut")
    /\ UNCHANGED <<files, set, owed, begun>>

\* The process dies.
Crash ==
    /\ DOMAIN task # {}
    /\ task' = [t \in {} |-> Local]
    /\ set' = disk
    /\ Happens("cut")
    /\ UNCHANGED <<files, disk, owed, begun>>

User(t) ==
    \/ \E d \in Dirs : ChangeModelStorage(t, d)
    \/ \E p \in Paths : LoadModel(t, p) \/ MigrateModel(t, p) \/ DeleteModel(t, p)
    \/ \E i \in Imports : ImportModel(t, i[1], i[2])

Work(t) ==
    \/ ListFiles(t) \/ Choose(t) \/ Rename(t) \/ RenameFails(t)
    \/ OpenSource(t) \/ Open(t) \/ CopyFails(t) \/ CopyDone(t)
    \/ Remove(t) \/ Migrated(t)
    \/ Delete(t) \/ DeleteFails(t)
    \/ EngineLoads(t) \/ LoadFails(t) \/ LoadReturns(t)

Next ==
    \/ UnloadModel \/ UseRemote \/ ForgetMissing \/ \E b \in Backups : RestoreState(b)
    \/ \E t \in Threads : User(t) \/ Work(t)
    \/ OnStop \/ DestroyScreen \/ Crash

Spec == Init /\ [][Next]_vars

------------------------------------------------------------------------------
\* Types, and what an operation knows at each of its steps.
Task == [op : {"none", "all", "one", "delete", "import", "load"}, live : BOOLEAN,
         pc : {"none", "list", "choose", "rename", "openSource", "open", "copy", "remove",
               "delete", "load", "loaded"},
         todo : SUBSET Paths, src : Paths \cup {None}, dst : Paths \cup {None},
         in : Nat, out : Nat, to : Dirs \cup {None}, model : Models \cup {None},
         old : Paths \cup {None}, new : Paths \cup {None}]

Settings == [dir : Dirs, path : Paths \cup {None}, local : BOOLEAN, model : Models \cup {None}]

TypeOK ==
    /\ names \in [Paths -> {0} \cup Inodes]
    /\ content \in [Inodes -> [model : Models \cup {None}, whole : BOOLEAN]]
    /\ task \in [DOMAIN task -> Task] /\ DOMAIN task \subseteq Threads
    /\ set \in Settings /\ disk \in Settings
    /\ owed \subseteq Models
    /\ accident \in Accidents
    /\ begun \in Nat

(***************************************************************************)
(* No model is lost: through failures at every step, the death of the      *)
(* process, screens destroyed in the middle and operations side by side, a *)
(* model that was installed and neither deleted nor replaced by the user   *)
(* is whole in some directory, unless two operations met at one file.      *)
(***************************************************************************)
NoModelLost ==
    accident # "collided" => \A m \in owed : \E p \in Paths : Is(p, m)

(***************************************************************************)
(* The saved path follows its file, also to another name: until an         *)
(* operation is cut short, two overlap, or settings are restored that the  *)
(* files do not fit, the file it names is the model that was chosen.       *)
(***************************************************************************)
PathFollowsModel ==
    accident = "none" /\ DOMAIN task = {} /\ set.local /\ set.path # None =>
        Is(set.path, set.model)

(***************************************************************************)
(* Until an operation is cut short, two overlap, or settings are restored  *)
(* that the files do not fit, every installed model is in a directory that *)
(* the lists show.                                                         *)
(***************************************************************************)
AllListed ==
    accident = "none" /\ DOMAIN task = {} =>
        \A m \in owed : \E p \in ListedDirs \X Names : Is(p, m)
===============================================================================
