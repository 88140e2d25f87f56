------------------------------ MODULE GraphStore ------------------------------
(***************************************************************************)
(* LiteStore, the outreach engine's graph kept in memory and rewritten as a   *)
(* whole to disk: graph.json, its .snapshot.json, .bak and .tmp, and the      *)
(* archives.  A save is synchronous in the process but writes one file after  *)
(* another, and writeFileSync truncates before it writes: the process may be  *)
(* killed inside each write, a write may fail and a rename may be refused.    *)
(*                                                                           *)
(* A graph is abstracted to the number of its entities, which is all load()   *)
(* compares, and a version that every change of the graph increments.         *)
(* Entities are never deleted.  One process uses the directory.               *)
(***************************************************************************)
EXTENDS Naturals

CONSTANTS
    ArchiveThreshold,    \* maybeArchive keeps graphs of so many entities
    MaxVersion, MaxEntities, MaxFaults, MaxRestarts   \* model-checking bounds

ASSUME StoreAssumption ==
    {ArchiveThreshold, MaxEntities, MaxFaults, MaxRestarts} \subseteq Nat /\ MaxVersion \in Nat \ {0}

VARIABLES
    memory,        \* data
    lastWritten,   \* version of lastWrittenJson, 0 when it is ""
    files,         \* what each file holds
    archive,       \* the newest archive; older ones have no more entities
    step,          \* where the process is in saveNow, or "idle", or "down"
    closing,       \* close() has been called
    saved,         \* history: the last graph whose save went through
    faults, restarts

storeVars == <<memory, lastWritten, files, archive, step, closing, saved, faults, restarts>>

Graph == [entities : 0..MaxEntities, version : 1..MaxVersion]
Empty == [entities |-> 0, version |-> 1]
Absent == [kind |-> "absent"]
Corrupt == [kind |-> "corrupt"]

Names == {"main", "snapshot", "bak", "tmp"}
SaveSteps == {"down", "idle", "backup", "tmp", "snapshot", "archive", "bak", "rename",
          "direct", "unlink", "failed"}

Readable(f) == f \notin {Absent, Corrupt}

EntityCount(f) == IF Readable(f) THEN f.entities ELSE 0

StoreTypeOK ==
    /\ {memory, saved} \subseteq Graph
    /\ lastWritten \in 0..MaxVersion
    /\ files \in [Names -> Graph \cup {Absent, Corrupt}]
    /\ archive \in Graph \cup {Absent}
    /\ step \in SaveSteps /\ closing \in BOOLEAN
    /\ faults \in 0..MaxFaults /\ restarts \in 0..MaxRestarts

-------------------------------------------------------------------------------
(* load: the file with most entities, the earlier one of the list when two     *)
(* have as many; a graph without entities is not loaded.                      *)
Candidates ==
    <<files["main"], files["snapshot"], files["bak"], files["tmp"], archive>>

MostEntities ==
    {i \in 1..5 :
        /\ EntityCount(Candidates[i]) > 0
        /\ \A j \in 1..5 : EntityCount(Candidates[j]) <= EntityCount(Candidates[i])
        /\ \A j \in 1..(i - 1) : EntityCount(Candidates[j]) < EntityCount(Candidates[i])}

Loaded ==
    IF MostEntities = {} THEN Empty
    ELSE Candidates[CHOOSE i \in MostEntities : TRUE]

StoreInit ==
    /\ memory = Empty /\ saved = Empty
    /\ lastWritten = 0
    /\ files = [n \in Names |-> Absent]
    /\ archive = Absent
    /\ step = "down" /\ closing = FALSE
    /\ faults = 0 /\ restarts = 0

(* constructor, then migrate: it saves at once what it has loaded, or an empty *)
(* graph when there is none.                                                  *)
Start ==
    /\ step = "down"
    /\ memory' = Loaded
    /\ lastWritten' = 0
    /\ closing' = FALSE
    /\ step' = IF Loaded.entities > 0
                  \/ (files["main"] = Absent /\ files["snapshot"] = Absent)
               THEN "tmp" ELSE "idle"
    /\ UNCHANGED <<files, archive, saved, faults, restarts>>

(* An upsert, an outreach event, a score: the graph changes, a new entity or   *)
(* not, and a save is scheduled.                                              *)
Change ==
    /\ step = "idle" /\ ~closing
    /\ memory.version < MaxVersion
    /\ \E n \in {memory.entities, memory.entities + 1} :
          /\ n <= MaxEntities
          /\ memory' = [entities |-> n, version |-> memory.version + 1]
    /\ UNCHANGED <<lastWritten, files, archive, step, closing, saved, faults, restarts>>

(* The timers of scheduleSave and of the autosave call saveNow.                *)
SaveDue ==
    /\ step = "idle" /\ ~closing
    /\ memory.version # lastWritten
    /\ step' = "tmp"
    /\ UNCHANGED <<memory, lastWritten, files, archive, closing, saved, faults, restarts>>

AfterBackup == IF memory.version = lastWritten THEN "down" ELSE "tmp"

(* close: stop the timers, copy main over .bak, save, and the process ends.    *)
Close ==
    /\ step = "idle" /\ ~closing
    /\ restarts < MaxRestarts
    /\ closing' = TRUE /\ restarts' = restarts + 1
    /\ step' = IF files["main"] = Absent THEN AfterBackup ELSE "backup"
    /\ UNCHANGED <<memory, lastWritten, files, archive, saved, faults>>

Resting == IF closing THEN "down" ELSE "idle"

Write(name, content) == files' = [files EXCEPT ![name] = content]

(* A step of saveNow that fails: a file being written is cut short or was      *)
(* never opened, and what follows depends on who catches the error.           *)
Fails(name, next) ==
    /\ faults < MaxFaults /\ faults' = faults + 1
    /\ Write(name, Corrupt) \/ UNCHANGED files
    /\ step' = next
    /\ UNCHANGED <<memory, lastWritten, archive, closing, saved, restarts>>

Proceeds(next) ==
    /\ step' = next
    /\ UNCHANGED <<memory, lastWritten, closing, saved, faults, restarts>>

Backup ==
    /\ step = "backup"
    /\ \/ Write("bak", files["main"]) /\ Proceeds(AfterBackup) /\ UNCHANGED archive
       \/ Fails("bak", AfterBackup)

WriteTmp ==
    /\ step = "tmp"
    /\ \/ Write("tmp", memory) /\ Proceeds("snapshot") /\ UNCHANGED archive
       \/ Fails("tmp", "failed")

(* Mutant: an equally large graph does not replace the snapshot.               *)
SnapshotOnlyGrows == memory.entities > EntityCount(files["snapshot"])

SnapshotTakes == memory.entities >= EntityCount(files["snapshot"])

(* The snapshot never loses entities, and only a graph that made it there is   *)
(* archived.                                                                  *)
WriteSnapshot ==
    /\ step = "snapshot"
    /\ IF SnapshotTakes
       THEN \/ Write("snapshot", memory) /\ Proceeds("archive") /\ UNCHANGED archive
            \/ Fails("snapshot", "failed")
       ELSE Proceeds("bak") /\ UNCHANGED <<files, archive>>

(* maybeArchive, at most every five minutes; pruning drops the smallest.       *)
Archive ==
    /\ step = "archive"
    /\ \/ Proceeds("bak") /\ UNCHANGED <<files, archive>>
       \/ /\ memory.entities >= ArchiveThreshold
          /\ \/ archive' = memory /\ Proceeds("bak") /\ UNCHANGED files
             \/ /\ faults < MaxFaults /\ faults' = faults + 1
                /\ step' = "failed"
                /\ UNCHANGED <<memory, lastWritten, files, archive, closing, saved, restarts>>

(* .bak takes the last main that is intact and not larger; an error is         *)
(* swallowed.                                                                 *)
BakTakes == Readable(files["main"]) /\ memory.entities >= EntityCount(files["main"])

CopyBak ==
    /\ step = "bak"
    /\ IF BakTakes
       THEN \/ Write("bak", files["main"]) /\ Proceeds("rename") /\ UNCHANGED archive
            \/ Fails("bak", "rename")
       ELSE Proceeds("rename") /\ UNCHANGED <<files, archive>>

Written ==
    /\ step' = Resting
    /\ lastWritten' = memory.version
    /\ saved' = memory
    /\ UNCHANGED <<memory, archive, closing, restarts>>

Rename ==
    /\ step = "rename"
    /\ \/ /\ files' = [files EXCEPT !["main"] = files["tmp"], !["tmp"] = Absent]
          /\ Written /\ UNCHANGED faults
       \/ /\ faults < MaxFaults /\ faults' = faults + 1
          /\ step' = "direct"
          /\ UNCHANGED <<memory, lastWritten, files, archive, closing, saved, restarts>>

(* A refused rename falls back to writing main in place.                       *)
WriteDirect ==
    /\ step = "direct"
    /\ \/ Write("main", memory) /\ Proceeds("unlink") /\ UNCHANGED archive
       \/ Fails("main", "failed")

UnlinkTmp ==
    /\ step = "unlink"
    /\ Write("tmp", Absent) \/ UNCHANGED files
    /\ Written /\ UNCHANGED faults

(* Mutant: a save that failed is not tried again.                              *)
GiveUp ==
    /\ step = "failed"
    /\ Write("tmp", Absent)
    /\ step' = Resting
    /\ lastWritten' = memory.version
    /\ UNCHANGED <<memory, archive, closing, saved, faults, restarts>>

(* The outer catch removes the temporary file and leaves lastWrittenJson, so   *)
(* that the next autosave tries again.                                        *)
GiveUpThisTime ==
    /\ step = "failed"
    /\ Write("tmp", Absent)
    /\ Proceeds(Resting)
    /\ UNCHANGED archive

(* The file a write of the present step, if it writes, would cut short.        *)
Target ==
    CASE step = "backup" -> {"bak"}
      [] step = "bak" /\ BakTakes -> {"bak"}
      [] step = "tmp" -> {"tmp"}
      [] step = "snapshot" /\ SnapshotTakes -> {"snapshot"}
      [] step = "direct" -> {"main"}
      [] OTHER -> {}

(* The process is killed, before the present step or inside its write.         *)
Crash ==
    /\ step # "down"
    /\ restarts < MaxRestarts /\ restarts' = restarts + 1
    /\ step' = "down"
    /\ \/ UNCHANGED files
       \/ \E name \in Target : Write(name, Corrupt)
    /\ UNCHANGED <<memory, lastWritten, archive, closing, saved, faults>>

SaveStep ==
    Backup \/ WriteTmp \/ WriteSnapshot \/ Archive \/ CopyBak \/ Rename
      \/ WriteDirect \/ UnlinkTmp \/ GiveUpThisTime

StoreNext == Start \/ Change \/ SaveDue \/ Close \/ SaveStep \/ Crash

(* The event loop runs due timers and a synchronous save runs to its end;      *)
(* nobody is bound to change the graph, to close or to start the process.     *)
Fairness == WF_storeVars(SaveDue) /\ WF_storeVars(SaveStep)

StoreSpec == StoreInit /\ [][StoreNext]_storeVars /\ Fairness

-------------------------------------------------------------------------------
(* At every point of a save a restart finds a graph at least as new as the     *)
(* last one saved, however often the process was killed in a write, as long    *)
(* as at most one write or rename was refused.  (Two, a refused copy of .bak   *)
(* and a refused rename, leave main and .bak cut short together.)              *)
SavedIsLoadable ==
    faults <= 1 /\ saved.entities > 0 => Loaded.version >= saved.version

(* Every change is saved unless the process ends first: a failed save is tried *)
(* again by a later timer.                                                    *)
ChangesGetSaved ==
    \A n \in 1..MaxVersion :
       (step = "idle" /\ memory.version = n) ~> (saved.version >= n \/ step = "down")
===============================================================================
