------------------------- MODULE ProjectStore_proofs -------------------------
(***************************************************************************)
(* Proofs about ProjectStore, for any blocks, file names, depth of the     *)
(* undo stack and of the journal.  Each theorem says which of the faults   *)
(* it excludes; the runs that expect a violation, and the configurations   *)
(* beside them, show that it would not hold with those.                    *)
(***************************************************************************)
EXTENDS ProjectStore, SequenceTheorems, TLAPS

USE PathAssumption, BoundAssumption, SentinelAssumption, NoFileAssumption
USE DEF Docs

SavingAs == dest # NoPath

(* Which files exist at which point of an operation.                       *)
Phases ==
    /\ pc # "closed" => path \in Paths
    /\ pc \notin {"closed", "movedAway"} => Open # NoFile
    /\ SavingAs => /\ dest # path
                   /\ files[dest] # NoFile
                   /\ pc \in {"copied", "dropped", "compacting", "compactCopied",
                              "movedAway", "movedIn", "compacted", "notCompacted"}
    /\ pc \in {"copied", "dropped"} => SavingAs
    /\ pc \in {"compactCopied", "movedAway"} => temps[path] # NoFile
    /\ pc \in {"movedAway", "movedIn"} => backs[path] # NoFile
    /\ Editing \/ SavingAs => current >= 0
    /\ pc \in {"compacting", "compactCopied", "movedAway", "movedIn", "notCompacted"}
           => SavingAs \/ lastSaved # NoDoc

TypeInv == TypeOK /\ Phases

FileOrNone == {NoFile} \cup File

-----------------------------------------------------------------------------
(* What the operations on a file return.                                   *)

LEMMA FieldTypes ==
  ASSUME NEW f \in File
  PROVE  /\ f.rows \in Docs /\ f.journal \in Seq(Docs)
         /\ f.project \in {NoDoc} \cup Docs /\ f.autosave \in {NoDoc} \cup Docs
BY DEF File

LEMMA NewFileFields ==
  /\ NewFile \in File
  /\ NewFile.rows = {} /\ NewFile.project = NoDoc /\ NewFile.autosave = NoDoc
BY DEF NewFile, File

LEMMA JournalledType ==
  ASSUME NEW j \in Seq(Docs), NEW d \in Docs
  PROVE  Journalled(j, d) \in Seq(Docs)
<1> DEFINE all == Append(j, d)
           excess == Len(all) - JournalDepth
<1>1. all \in Seq(Docs) /\ Len(all) \in Nat
  BY AppendProperties
<1>2. CASE excess > 0
  <2>1. excess + 1 \in 1 .. Len(all) + 1 /\ Len(all) \in excess .. Len(all)
    BY <1>1, <1>2, JournalAssumption
  <2>2. SubSeq(all, excess + 1, Len(all)) \in Seq(Docs)
    BY <1>1, <2>1, SubSeqProperties
  <2> QED
    BY <1>2, <2>2 DEF Journalled
<1>3. CASE ~(excess > 0)
  BY <1>1, <1>3 DEF Journalled
<1> QED
  BY <1>2, <1>3

LEMMA WriteAutosaveFields ==
  ASSUME NEW f \in File, NEW d \in Docs
  PROVE  LET g == WriteAutosave(f, d)
         IN  g \in File /\ g.rows = f.rows /\ g.project = f.project /\ g.autosave = d
BY DEF WriteAutosave, File

LEMMA WriteProjectFields ==
  ASSUME NEW f \in File, NEW d \in Docs
  PROVE  LET g == WriteProject(f, d)
         IN  g \in File /\ g.rows = f.rows /\ g.project = d /\ g.autosave = f.autosave
<1>1. Journalled(f.journal, d) \in Seq(Docs)
  BY FieldTypes, JournalledType
<1> QED
  BY <1>1 DEF WriteProject, File

LEMMA AutoSaveDeleteFields ==
  ASSUME NEW f \in File
  PROVE  LET g == AutoSaveDelete(f)
         IN  g \in File /\ g.rows = f.rows /\ g.project = f.project /\ g.autosave = NoDoc
BY DEF AutoSaveDelete, File

LEMMA InsertFields ==
  ASSUME NEW f \in File, NEW bs \in Docs
  PROVE  LET g == InsertBlocks(f, bs)
         IN  /\ g \in File /\ g.rows = f.rows \cup bs
             /\ g.project = f.project /\ g.autosave = f.autosave
BY DEF InsertBlocks, File

LEMMA DeleteFields ==
  ASSUME NEW f \in File, NEW bs
  PROVE  LET g == DeleteBlocks(f, bs)
         IN  /\ g \in File /\ g.rows = f.rows \ bs
             /\ g.project = f.project /\ g.autosave = f.autosave
BY DEF DeleteBlocks, File

LEMMA ReleasedFields ==
  ASSUME NEW f \in File, NEW kept
  PROVE  LET g == Released(f, kept)
         IN  /\ g \in File /\ g.rows = f.rows \ (LiveBlocks \ kept)
             /\ g.project = f.project /\ g.autosave = f.autosave
BY DeleteFields DEF Released

LEMMA CopiedFields ==
  ASSUME NEW f \in File, NEW keep, NEW d \in Docs
  PROVE  LET g == Copied(f, keep, d)
         IN  /\ g \in File /\ g.rows = f.rows \cap keep
             /\ g.project = d /\ g.autosave = NoDoc
BY DEF Copied, File

LEMMA CopiedOverFields ==
  ASSUME NEW f \in File, NEW keep, NEW d \in Docs, NEW old \in FileOrNone
  PROVE  LET g == CopiedOver(f, keep, d, old)
         IN  /\ g \in File /\ f.rows \cap keep \subseteq g.rows
             /\ g.project = d /\ g.autosave = NoDoc
<1> DEFINE c == Copied(f, keep, d)
<1>1. c \in File /\ c.rows = f.rows \cap keep /\ c.project = d /\ c.autosave = NoDoc
  BY CopiedFields
<1>2. CASE old = NoFile
  BY <1>1, <1>2 DEF CopiedOver
<1>3. CASE old # NoFile
  <2>1. old.rows \in Docs
    BY <1>3, FieldTypes DEF FileOrNone
  <2> HIDE DEF c
  <2> QED
    BY <1>1, <1>3, <2>1, InsertFields DEF CopiedOver, c
<1> QED
  BY <1>2, <1>3

-----------------------------------------------------------------------------
(* Types                                                                   *)

DiskTypes ==
    /\ files \in [Paths -> FileOrNone]
    /\ temps \in [Paths -> FileOrNone]
    /\ backs \in [Paths -> FileOrNone]
    /\ committed \in [Paths -> {NoDoc} \cup Docs]

HistoryTypes ==
    /\ stack \in Seq(Docs)
    /\ current \in -1 .. Len(stack) - 1
    /\ saved \in -1 .. Len(stack) - 1
    /\ left \in {NoDoc} \cup Docs

RestTypes ==
    /\ pc \in PCs
    /\ path \in Paths \cup {NoPath}
    /\ dest \in Paths \cup {NoPath}
    /\ tracks \in Docs
    /\ lastSaved \in {NoDoc} \cup Docs
    /\ clip \in Docs
    /\ flags \in [recovered : BOOLEAN, modified : BOOLEAN, temporary : BOOLEAN]

LEMMA TypeParts == TypeOK <=> DiskTypes /\ HistoryTypes /\ RestTypes
BY DEF TypeOK, DiskTypes, HistoryTypes, RestTypes, FileOrNone

LEMMA FlagTypes ==
  /\ \A r, m, t \in BOOLEAN :
        Flags(r, m, t) \in [recovered : BOOLEAN, modified : BOOLEAN, temporary : BOOLEAN]
  /\ NoFlags \in [recovered : BOOLEAN, modified : BOOLEAN, temporary : BOOLEAN]
BY DEF Flags, NoFlags

(* The open file is a file wherever an operation writes to it.             *)
LEMMA OpenIsFile ==
  ASSUME TypeInv, pc \notin {"closed", "movedAway"}
  PROVE  path \in Paths /\ Open \in File
BY TypeParts DEF TypeInv, Phases, DiskTypes, FileOrNone, Open

(* Writing one file, or two, changes only those.                           *)
LEMMA HereChanges ==
  ASSUME DiskTypes, path \in Paths, NEW f \in FileOrNone, Here(f)
  PROVE  /\ files' \in [Paths -> FileOrNone]
         /\ files'[path] = f
         /\ \A q \in Paths \ {path} : files'[q] = files[q]
BY DEF DiskTypes, Here

LEMMA InitTypeInv == Init => TypeInv
<1> SUFFICES ASSUME Init
             PROVE  TypeInv
  OBVIOUS
<1>1. DiskTypes
  BY DEF Init, DiskTypes, FileOrNone
<1>2. HistoryTypes
  BY DEF Init, HistoryTypes
<1>3. RestTypes
  BY FlagTypes DEF Init, RestTypes, PCs
<1>4. Phases
  BY DEF Init, Phases, Editing, SavingAs
<1> QED
  BY <1>1, <1>2, <1>3, <1>4, TypeParts DEF TypeInv

LEMMA StepKeepsTypes == TypeInv /\ [Next]_vars => TypeInv'
<1> SUFFICES ASSUME TypeInv, [Next]_vars
             PROVE  DiskTypes' /\ HistoryTypes' /\ RestTypes' /\ Phases'
  BY TypeParts DEF TypeInv, TypeOK, DiskTypes, HistoryTypes, RestTypes, FileOrNone
<1>0. DiskTypes /\ HistoryTypes /\ RestTypes /\ Phases
  BY TypeParts DEF TypeInv
<1> USE <1>0
<1> USE DEF disk, history, memory
<1>1. CASE NewProject
  <2>1. DiskTypes'
    BY <1>1, NewFileFields DEF NewProject, DiskTypes, FileOrNone
  <2>2. HistoryTypes'
    BY <1>1 DEF NewProject, OpenedWith, HistoryTypes
  <2>3. RestTypes'
    BY <1>1, FlagTypes DEF NewProject, OpenedWith, RestTypes, PCs
  <2>4. Phases'
    BY <1>1, NewFileFields
    DEF NewProject, OpenedWith, Phases, Editing, SavingAs, DiskTypes, Open
  <2> QED
    BY <2>1, <2>2, <2>3, <2>4
<1>2. ASSUME NEW p \in Paths, Load(p)
      PROVE  DiskTypes' /\ HistoryTypes' /\ RestTypes' /\ Phases'
  <2> DEFINE d == LoadedDoc(files[p])
  <2>1. d \in Docs
    BY <1>2, FieldTypes DEF Load, CanLoad, LoadedDoc, DiskTypes, FileOrNone
  <2> HIDE DEF d
  <2>2. \E fl \in [recovered : BOOLEAN, modified : BOOLEAN, temporary : BOOLEAN] :
            OpenedWith(p, d, d, fl)
    BY <1>2, FlagTypes DEF Load, d
  <2>3. HistoryTypes'
    BY <2>1, <2>2 DEF OpenedWith, HistoryTypes
  <2>4. RestTypes'
    BY <1>2, <2>1, <2>2 DEF Load, OpenedWith, RestTypes, PCs
  <2>5. DiskTypes'
    BY <1>2 DEF Load, DiskTypes
  <2>6. Phases'
    BY <1>2, <2>2 DEF Load, OpenedWith, Phases, Editing, SavingAs, Open
  <2> QED
    BY <2>3, <2>4, <2>5, <2>6
<1>3. ASSUME NEW p \in Paths, RemoveUnsavedData(p)
      PROVE  DiskTypes' /\ HistoryTypes' /\ RestTypes' /\ Phases'
  <2>1. files[p] \in File
    BY <1>3 DEF RemoveUnsavedData, DiskTypes, FileOrNone
  <2>2. DiskTypes'
    BY <1>3, <2>1, AutoSaveDeleteFields DEF RemoveUnsavedData, DiskTypes, FileOrNone
  <2>3. HistoryTypes'
    BY <1>3 DEF RemoveUnsavedData, HistoryTypes
  <2>4. RestTypes'
    BY <1>3, <2>1, FieldTypes, FlagTypes DEF RemoveUnsavedData, RestTypes, PCs
  <2>5. Phases'
    <3>1. /\ pc = "closed" /\ pc' \in {"closed", "closing"} /\ dest' = dest
          /\ pc' = "closing" => path' = p /\ files'[p] = AutoSaveDelete(files[p])
      BY <1>3 DEF RemoveUnsavedData, DiskTypes
    <3>2. AutoSaveDelete(files[p]) # NoFile
      BY <2>1, AutoSaveDeleteFields
    <3> QED
      BY <3>1, <3>2 DEF Phases, Editing, SavingAs, Open
  <2> QED
    BY <2>2, <2>3, <2>4, <2>5
<1>4. CASE Edit
  <2>1. PICK d \in Docs, new \in Docs :
          /\ tracks' = d
          /\ Here(InsertBlocks(Released(Open, Refs(stack, d, clip, lastSaved)), new))
    <3>1. PICK keep \in SUBSET tracks, paste \in {{}, clip},
               new \in {{}} \cup {{b} : b \in FreshBlocks} :
            LET d == keep \cup paste \cup new IN
            /\ tracks' = d
            /\ Here(InsertBlocks(Released(Open, Refs(stack, d, clip, lastSaved)), new))
      BY <1>4 DEF Edit
    <3>2. new \in Docs /\ keep \cup paste \cup new \in Docs
      BY DEF FreshBlocks, RestTypes
    <3> QED
      BY <3>1, <3>2
  <2>2. path \in Paths /\ Open \in File
    BY <1>4, OpenIsFile DEF Edit
  <2>3. InsertBlocks(Released(Open, Refs(stack, d, clip, lastSaved)), new) \in File
    BY <2>2, ReleasedFields, InsertFields
  <2>4. /\ files' \in [Paths -> FileOrNone] /\ files'[path] # NoFile
        /\ \A q \in Paths \ {path} : files'[q] = files[q]
    BY <2>1, <2>2, <2>3, HereChanges DEF FileOrNone
  <2>5. DiskTypes' /\ HistoryTypes'
    BY <1>4, <2>4 DEF Edit, DiskTypes, HistoryTypes
  <2>6. RestTypes'
    BY <1>4, <2>1 DEF Edit, RestTypes, PCs
  <2>7. Phases'
    BY <1>4, <2>2, <2>4 DEF Edit, Phases, Editing, SavingAs, Open
  <2> QED
    BY <2>5, <2>6, <2>7
<1>5. CASE AutoSave
  <2>1. path \in Paths /\ Open \in File
    BY <1>5, OpenIsFile DEF AutoSave
  <2>2. WriteAutosave(Open, tracks) \in File
    BY <2>1, WriteAutosaveFields DEF RestTypes
  <2>3. /\ files' \in [Paths -> FileOrNone] /\ files'[path] # NoFile
        /\ \A q \in Paths \ {path} : files'[q] = files[q]
    BY <1>5, <2>1, <2>2, HereChanges DEF AutoSave, FileOrNone
  <2>4. DiskTypes' /\ HistoryTypes'
    BY <1>5, <2>3 DEF AutoSave, DiskTypes, HistoryTypes
  <2>5. RestTypes'
    BY <1>5 DEF AutoSave, RestTypes, PCs
  <2>6. Phases'
    BY <1>5, <2>1, <2>3 DEF AutoSave, Phases, Editing, SavingAs, Open
  <2> QED
    BY <2>4, <2>5, <2>6
<1>6. CASE PushState
  <2>1. path \in Paths /\ Open \in File /\ current >= 0
    BY <1>6, OpenIsFile DEF PushState, Phases, Editing
  <2>2. /\ files' \in [Paths -> FileOrNone] /\ files'[path] # NoFile
        /\ \A q \in Paths \ {path} : files'[q] = files[q]
    BY <1>6, <2>1, ReleasedFields, HereChanges DEF PushState, FileOrNone
  <2>3. /\ SubSeq(stack, 1, current + 1) \in Seq(Docs)
        /\ Len(SubSeq(stack, 1, current + 1)) = current + 1
    BY <2>1, SubSeqProperties DEF HistoryTypes
  <2>4. stack' \in Seq(Docs) /\ Len(stack') = current + 2
    BY <1>6, <2>1, <2>3, AppendProperties DEF PushState, RestTypes, HistoryTypes
  <2>5. HistoryTypes'
    BY <1>6, <2>1, <2>4 DEF PushState, HistoryTypes
  <2>6. DiskTypes'
    BY <1>6, <2>2 DEF PushState, DiskTypes
  <2>7. RestTypes'
    BY <1>6 DEF PushState, RestTypes, PCs
  <2>8. Phases'
    BY <1>6, <2>1, <2>2 DEF PushState, Phases, Editing, SavingAs, Open, HistoryTypes
  <2> QED
    BY <2>5, <2>6, <2>7, <2>8
<1>7. ASSUME NEW i \in {current - 1, current + 1}, UndoRedo(i)
      PROVE  DiskTypes' /\ HistoryTypes' /\ RestTypes' /\ Phases'
  <2>1. path \in Paths /\ Open \in File
    BY <1>7, OpenIsFile DEF UndoRedo
  <2>2. WriteAutosave(Open, tracks) \in File
    BY <2>1, WriteAutosaveFields DEF RestTypes
  <2>3. /\ files' \in [Paths -> FileOrNone] /\ files'[path] # NoFile
        /\ \A q \in Paths \ {path} : files'[q] = files[q]
    BY <1>7, <2>1, <2>2, ReleasedFields, HereChanges DEF UndoRedo, FileOrNone
  <2>4. DiskTypes'
    BY <1>7, <2>3 DEF UndoRedo, DiskTypes
  <2>5. HistoryTypes'
    BY <1>7 DEF UndoRedo, HistoryTypes, RestTypes
  <2>6. stack[i + 1] \in Docs
    BY <1>7 DEF UndoRedo, HistoryTypes
  <2>7. RestTypes'
    BY <1>7, <2>6 DEF UndoRedo, RestTypes
  <2>8. Phases'
    BY <1>7, <2>1, <2>3 DEF UndoRedo, Phases, Editing, SavingAs, Open
  <2> QED
    BY <2>4, <2>5, <2>7, <2>8
<1>8. ASSUME NEW b \in Blocks, Copy(b)
      PROVE  DiskTypes' /\ HistoryTypes' /\ RestTypes' /\ Phases'
  <2>1. path \in Paths /\ Open \in File
    BY <1>8, OpenIsFile DEF Copy
  <2>2. /\ files' \in [Paths -> FileOrNone] /\ files'[path] # NoFile
        /\ \A q \in Paths \ {path} : files'[q] = files[q]
    BY <1>8, <2>1, ReleasedFields, HereChanges DEF Copy, FileOrNone
  <2>3. DiskTypes' /\ HistoryTypes'
    BY <1>8, <2>2 DEF Copy, DiskTypes, HistoryTypes
  <2>4. RestTypes'
    BY <1>8 DEF Copy, RestTypes
  <2>5. Phases'
    BY <1>8, <2>1, <2>2 DEF Copy, Phases, Editing, SavingAs, Open
  <2> QED
    BY <2>3, <2>4, <2>5
<1>9. ASSUME NEW p \in Paths, MoveProject(p)
      PROVE  DiskTypes' /\ HistoryTypes' /\ RestTypes' /\ Phases'
  <2>1. path \in Paths /\ Open \in File
    BY <1>9, OpenIsFile DEF MoveProject
  <2>2. DiskTypes' /\ files'[p] # NoFile
    BY <1>9, <2>1 DEF MoveProject, DiskTypes, FileOrNone
  <2>3. HistoryTypes'
    BY <1>9 DEF MoveProject, HistoryTypes
  <2>4. RestTypes'
    BY <1>9 DEF MoveProject, RestTypes, PCs
  <2>5. Phases'
    BY <1>9, <2>2 DEF MoveProject, Phases, Editing, SavingAs, Open
  <2> QED
    BY <2>2, <2>3, <2>4, <2>5
(* A save that failed releases what the last saved tracks held.            *)
<1>10. CASE MoveProjectFails \/ SaveAsFails \/ SaveFails
  <2>1. path \in Paths /\ Open \in File
    BY <1>10, OpenIsFile DEF MoveProjectFails, SaveAsFails, SaveFails
  <2>2. /\ UpdateSavedState(Open)
        /\ pc' \in {pc, "idle"} /\ Editing
        /\ UNCHANGED <<temps, backs, committed, path, dest, history, tracks, clip, flags>>
    BY <1>10 DEF MoveProjectFails, SaveAsFails, SaveFails, Editing
  <2>3. /\ files' \in [Paths -> FileOrNone] /\ files'[path] # NoFile
        /\ \A q \in Paths \ {path} : files'[q] = files[q]
    BY <2>1, <2>2, ReleasedFields, HereChanges DEF UpdateSavedState, FileOrNone
  <2>4. DiskTypes' /\ HistoryTypes'
    BY <2>2, <2>3 DEF DiskTypes, HistoryTypes
  <2>5. RestTypes'
    BY <2>2 DEF UpdateSavedState, RestTypes, PCs
  <2>6. ~SavingAs
    BY <1>10 DEF Phases, MoveProjectFails, SaveAsFails, SaveFails, SavingAs
  <2>7. pc' \in {"idle"}
    BY <1>10 DEF MoveProjectFails, SaveAsFails, SaveFails
  <2>8. Phases'
    BY <2>1, <2>2, <2>3, <2>6, <2>7 DEF Phases, Editing, SavingAs, Open
  <2> QED
    BY <2>4, <2>5, <2>8
(* Steps that only move on.                                                *)
<1>11. CASE AutoSaveFails \/ Save \/ CloseNew \/ CompactOnClose \/ SetBypass
  <2>1. UNCHANGED <<disk, path, dest, memory>> /\ pc' \in PCs
    BY <1>11 DEF AutoSaveFails, Save, CloseNew, CompactOnClose, SetBypass, PCs
  <2>2. DiskTypes' /\ HistoryTypes' /\ RestTypes'
    BY <2>1 DEF DiskTypes, HistoryTypes, RestTypes
  <2>3. Phases'
    BY <1>11, <2>1
    DEF AutoSaveFails, Save, CloseNew, CompactOnClose, SetBypass, Phases,
        Editing, SavingAs, Open
  <2> QED
    BY <2>2, <2>3
<1>12. CASE UpdateSaved
  <2>1. path \in Paths /\ Open \in File
    BY <1>12, OpenIsFile DEF UpdateSaved
  <2>2. WriteProject(Open, tracks) \in File
    BY <2>1, WriteProjectFields DEF RestTypes
  <2>3. /\ files' \in [Paths -> FileOrNone] /\ files'[path] # NoFile
        /\ \A q \in Paths \ {path} : files'[q] = files[q]
    BY <1>12, <2>1, <2>2, HereChanges DEF UpdateSaved, FileOrNone
  <2>4. DiskTypes' /\ HistoryTypes'
    BY <1>12, <2>3 DEF UpdateSaved, DiskTypes, HistoryTypes, RestTypes
  <2>5. RestTypes'
    BY <1>12 DEF UpdateSaved, RestTypes, PCs
  <2>6. Phases'
    BY <1>12, <2>1, <2>3 DEF UpdateSaved, Phases, Editing, SavingAs, Open
  <2> QED
    BY <2>4, <2>5, <2>6
<1>13. CASE FinishSave
  <2>1. path \in Paths /\ Open \in File
    BY <1>13, OpenIsFile DEF FinishSave
  <2>2. AutoSaveDelete(Open) \in File
    BY <2>1, AutoSaveDeleteFields
  <2>3. /\ files' \in [Paths -> FileOrNone] /\ files'[path] # NoFile
        /\ \A q \in Paths \ {path} : files'[q] = files[q]
    BY <1>13, <2>1, <2>2, ReleasedFields, HereChanges
    DEF FinishSave, UpdateSavedState, FileOrNone
  <2>4. DiskTypes' /\ HistoryTypes'
    BY <1>13, <2>3 DEF FinishSave, DiskTypes, HistoryTypes
  <2>5. RestTypes'
    BY <1>13, FlagTypes DEF FinishSave, UpdateSavedState, RestTypes, PCs
  <2>6. Phases'
    BY <1>13, <2>1, <2>3
    DEF FinishSave, UpdateSavedState, Phases, Editing, SavingAs, Open
  <2> QED
    BY <2>4, <2>5, <2>6
<1>14. ASSUME NEW p \in Paths, SaveAs(p)
      PROVE  DiskTypes' /\ HistoryTypes' /\ RestTypes' /\ Phases'
  <2>1. path \in Paths /\ Open \in File
    BY <1>14, OpenIsFile DEF SaveAs
  <2>2. Copied(Open, Blocks, tracks) \in File
    BY <2>1, CopiedFields DEF RestTypes
  <2>3. DiskTypes' /\ files'[p] # NoFile /\ files'[path] = files[path]
    BY <1>14, <2>1, <2>2 DEF SaveAs, DiskTypes, FileOrNone, RestTypes
  <2>4. HistoryTypes' /\ RestTypes'
    BY <1>14 DEF SaveAs, HistoryTypes, RestTypes, PCs
  <2>5. Phases'
    BY <1>14, <2>1, <2>3 DEF SaveAs, Phases, Editing, SavingAs, Open
  <2> QED
    BY <2>3, <2>4, <2>5
(* Steps that only delete the autosave of the open file, or rows.          *)
<1>15. CASE DropOriginalAutosave \/ PruneOriginal \/ CloseRecovered
            \/ SkipCompaction \/ RewriteSavedAutosave
  <2>1. path \in Paths /\ Open \in File
    BY <1>15, OpenIsFile
    DEF DropOriginalAutosave, PruneOriginal, CloseRecovered, SkipCompaction,
        RewriteSavedAutosave
  <2>2. /\ \E f \in File : Here(f)
        /\ UNCHANGED <<temps, backs, committed, path, dest, history, tracks,
                       lastSaved, clip>>
    BY <1>15, <2>1, AutoSaveDeleteFields, DeleteFields
    DEF DropOriginalAutosave, PruneOriginal, CloseRecovered, SkipCompaction,
        RewriteSavedAutosave
  <2>3. /\ files' \in [Paths -> FileOrNone] /\ files'[path] # NoFile
        /\ \A q \in Paths \ {path} : files'[q] = files[q]
    BY <2>1, <2>2, HereChanges DEF FileOrNone
  <2>4. DiskTypes' /\ HistoryTypes'
    BY <2>2, <2>3 DEF DiskTypes, HistoryTypes
  <2>5. RestTypes'
    BY <1>15, <2>2
    DEF DropOriginalAutosave, PruneOriginal, CloseRecovered, SkipCompaction,
        RewriteSavedAutosave, RestTypes, PCs
  <2>6. \/ pc = "copied" /\ pc' = "dropped"
        \/ pc = "dropped" /\ pc' = "compacting"
        \/ pc = "closing" /\ pc' \in {"clearing", "bypassing"}
        \/ pc = "closing" /\ pc' = "notCompacted" /\ lastSaved # NoDoc
        \/ pc = "rewritten" /\ pc' = "reverted"
    BY <1>15
    DEF DropOriginalAutosave, PruneOriginal, CloseRecovered, SkipCompaction,
        RewriteSavedAutosave
  <2>7. path' = path /\ Open' # NoFile /\ UNCHANGED <<temps, backs, dest, current, lastSaved>>
    BY <2>1, <2>2, <2>3 DEF Open
  <2>8. SavingAs => SavingAs' /\ files'[dest] = files[dest] /\ dest # path
    BY <2>2, <2>3, <2>7 DEF SavingAs, Phases, RestTypes
  <2>9. SavingAs' => SavingAs
    BY <2>7 DEF SavingAs
  <2>10. Phases'
    BY <2>1, <2>6, <2>7, <2>8, <2>9 DEF Phases, Editing
  <2> QED
    BY <2>4, <2>5, <2>10
<1>16. CASE DropOriginalAutosaveFails
  <2>1. path \in Paths /\ Open \in File
    BY <1>16, OpenIsFile DEF DropOriginalAutosaveFails
  <2>2. \E f \in File : HereAndThere(f, dest, NoFile)
    BY <1>16, <2>1, ReleasedFields DEF DropOriginalAutosaveFails
  <2>3. /\ files' \in [Paths -> FileOrNone] /\ files'[path] # NoFile
    BY <1>16, <2>1, <2>2
    DEF HereAndThere, DiskTypes, FileOrNone, Phases, SavingAs, DropOriginalAutosaveFails
  <2>4. DiskTypes' /\ HistoryTypes'
    BY <1>16, <2>3 DEF DropOriginalAutosaveFails, DiskTypes, HistoryTypes
  <2>5. RestTypes'
    BY <1>16 DEF DropOriginalAutosaveFails, RestTypes, PCs
  <2>6. Phases'
    BY <1>16, <2>1, <2>3
    DEF DropOriginalAutosaveFails, Phases, Editing, SavingAs, Open
  <2> QED
    BY <2>4, <2>5, <2>6
<1>17. CASE SwitchToCopy
  <2>1. UNCHANGED <<disk, memory>> /\ pc' = "saving" /\ path' = dest /\ dest' = NoPath
    BY <1>17 DEF SwitchToCopy
  <2>2. DiskTypes' /\ HistoryTypes' /\ RestTypes'
    BY <2>1 DEF DiskTypes, HistoryTypes, RestTypes, PCs
  <2>3. Phases'
    BY <1>17, <2>1 DEF SwitchToCopy, Phases, Editing, SavingAs, Open, RestTypes
  <2> QED
    BY <2>2, <2>3
<1>18. CASE Compact
  <2>1. path \in Paths /\ Open \in File
    BY <1>18, OpenIsFile DEF Compact
  <2>2. CopiedOver(Open, Blocks_(lastSaved), Blocks_(lastSaved), temps[path]) \in File
    BY <2>1, CopiedOverFields DEF RestTypes, Blocks_, DiskTypes
  <2>3. temps' \in [Paths -> FileOrNone] /\ temps'[path] # NoFile
    BY <1>18, <2>1, <2>2 DEF Compact, DiskTypes, FileOrNone
  <2>4. DiskTypes' /\ HistoryTypes' /\ RestTypes'
    BY <1>18, <2>3 DEF Compact, DiskTypes, HistoryTypes, RestTypes, PCs
  <2>5. Phases'
    BY <1>18, <2>1, <2>3 DEF Compact, Phases, Editing, SavingAs, Open
  <2> QED
    BY <2>4, <2>5
<1>19. CASE CompactFails \/ KeepOriginal
  <2>1. /\ CompactionStops /\ pc \in {"compacting", "compactCopied"}
        /\ UNCHANGED <<files, backs, committed, path, dest, memory>>
    BY <1>19 DEF CompactFails, KeepOriginal
  <2>2. DiskTypes' /\ HistoryTypes' /\ RestTypes'
    BY <2>1 DEF CompactionStops, DiskTypes, FileOrNone, HistoryTypes, RestTypes, PCs
  <2>3. Phases'
    BY <2>1 DEF CompactionStops, Phases, Editing, SavingAs, Open
  <2> QED
    BY <2>2, <2>3
<1>20. CASE MoveOriginalAway
  <2>1. path \in Paths /\ Open \in File
    BY <1>20, OpenIsFile DEF MoveOriginalAway
  <2>2. DiskTypes' /\ backs'[path] # NoFile
        /\ \A q \in Paths \ {path} : files'[q] = files[q]
    BY <1>20, <2>1 DEF MoveOriginalAway, Here, DiskTypes, FileOrNone
  <2>3. HistoryTypes' /\ RestTypes'
    BY <1>20 DEF MoveOriginalAway, HistoryTypes, RestTypes, PCs
  <2>4. Phases'
    BY <1>20, <2>1, <2>2 DEF MoveOriginalAway, Phases, Editing, SavingAs, Open, RestTypes
  <2> QED
    BY <2>2, <2>3, <2>4
<1>21. CASE MoveCopyIn \/ MoveOriginalBack
  <2>1. path \in Paths /\ pc \in {"movedAway", "movedIn"}
    BY <1>21 DEF MoveCopyIn, MoveOriginalBack, Phases
  <2>2. /\ \E f \in File : Here(f)
        /\ temps' = [temps EXCEPT ![path] = NoFile]
        /\ \/ backs' = backs /\ pc' = "movedIn"
           \/ backs' = [backs EXCEPT ![path] = NoFile] /\ pc' = "notCompacted"
        /\ UNCHANGED <<committed, path, dest, memory>>
    BY <1>21, <2>1
    DEF MoveCopyIn, MoveOriginalBack, CompactionStops, Phases, DiskTypes, FileOrNone
  <2>3. /\ files' \in [Paths -> FileOrNone] /\ files'[path] # NoFile
        /\ \A q \in Paths \ {path} : files'[q] = files[q]
    BY <2>1, <2>2, HereChanges DEF FileOrNone
  <2>4. DiskTypes' /\ HistoryTypes' /\ RestTypes'
    BY <2>2, <2>3 DEF DiskTypes, FileOrNone, HistoryTypes, RestTypes, PCs
  <2>5. Phases'
    BY <2>1, <2>2, <2>3 DEF Phases, Editing, SavingAs, Open, RestTypes
  <2> QED
    BY <2>4, <2>5
<1>22. CASE FinishCompact
  <2>1. DiskTypes' /\ HistoryTypes' /\ RestTypes'
    BY <1>22 DEF FinishCompact, DiskTypes, FileOrNone, HistoryTypes, RestTypes, PCs
  <2>2. Phases'
    BY <1>22 DEF FinishCompact, Phases, Editing, SavingAs, Open
  <2> QED
    BY <2>1, <2>2
<1>23. CASE Close
  <2>1. path \in Paths /\ Open \in File
    BY <1>23, OpenIsFile DEF Close
  <2>2. /\ files' \in [Paths -> FileOrNone] /\ files'[path] # NoFile
        /\ \A q \in Paths \ {path} : files'[q] = files[q]
    BY <1>23, <2>1, ReleasedFields, HereChanges DEF Close, FileOrNone
  <2>3. DiskTypes'
    BY <1>23, <2>2 DEF Close, DiskTypes
  <2>4. HistoryTypes' /\ tracks' \in Docs
    BY <1>23 DEF Close, HistoryTypes, RestTypes
  <2>5. RestTypes'
    BY <1>23, <2>4 DEF Close, RestTypes, PCs
  <2>6. Phases'
    BY <1>23, <2>1, <2>2 DEF Close, Phases, Editing, SavingAs, Open
  <2> QED
    BY <2>3, <2>4, <2>5, <2>6
<1>24. CASE RewriteSaved
  <2>1. path \in Paths /\ Open \in File
    BY <1>24, OpenIsFile DEF RewriteSaved
  <2>2. lastSaved \in Docs
    BY <1>24 DEF RewriteSaved, Phases, SavingAs, RestTypes
  <2>3. WriteProject(Open, lastSaved) \in File
    BY <2>1, <2>2, WriteProjectFields
  <2>4. /\ files' \in [Paths -> FileOrNone] /\ files'[path] # NoFile
        /\ \A q \in Paths \ {path} : files'[q] = files[q]
    BY <1>24, <2>1, <2>3, HereChanges DEF RewriteSaved, FileOrNone
  <2>5. DiskTypes' /\ HistoryTypes' /\ RestTypes'
    BY <1>24, <2>4 DEF RewriteSaved, DiskTypes, HistoryTypes, RestTypes, PCs
  <2>6. Phases'
    BY <1>24, <2>1, <2>4 DEF RewriteSaved, Phases, Editing, SavingAs, Open
  <2> QED
    BY <2>5, <2>6
<1>25. CASE FinishClose
  <2>1. path \in Paths /\ Open \in File
    BY <1>25, OpenIsFile DEF FinishClose
  <2>2. \E f \in FileOrNone : Here(f)
    BY <1>25, <2>1, ReleasedFields DEF FinishClose, FileOrNone
  <2>3. files' \in [Paths -> FileOrNone]
    BY <2>1, <2>2, HereChanges
  <2>4. DiskTypes'
    BY <1>25, <2>3 DEF FinishClose, DiskTypes
  <2>5. HistoryTypes' /\ RestTypes' /\ Phases'
    BY <1>25, FlagTypes
    DEF FinishClose, Forget, HistoryTypes, RestTypes, PCs, Phases, Editing, SavingAs
  <2> QED
    BY <2>4, <2>5
<1>26. CASE Crash
  <2>1. DiskTypes'
    BY <1>26 DEF Crash, DiskTypes
  <2>2. HistoryTypes' /\ RestTypes' /\ Phases'
    BY <1>26, FlagTypes
    DEF Crash, Forget, HistoryTypes, RestTypes, PCs, Phases, Editing, SavingAs
  <2> QED
    BY <2>1, <2>2
<1>27. CASE UNCHANGED vars
  BY <1>27
  DEF vars, DiskTypes, HistoryTypes, RestTypes, Phases, Editing, SavingAs, Open
<1> QED
  BY <1>1, <1>2, <1>3, <1>4, <1>5, <1>6, <1>7, <1>8, <1>9, <1>10, <1>11, <1>12,
     <1>13, <1>14, <1>15, <1>16, <1>17, <1>18, <1>19, <1>20, <1>21, <1>22, <1>23,
     <1>24, <1>25, <1>26, <1>27
  DEF Next

(* Every variable keeps its type, whatever goes wrong: in particular the   *)
(* undo index stays on the stack, and no operation reads a file that is    *)
(* not there.                                                              *)
THEOREM TypesHold == Spec => []TypeOK
<1>1. TypeInv => TypeOK
  BY DEF TypeInv
<1> QED
  BY <1>1, InitTypeInv, StepKeepsTypes, PTL DEF Spec

-----------------------------------------------------------------------------
(* Blocks in memory                                                        *)

(* While the project is used, and until its closing decides what to do     *)
(* with the file, the file has every block that memory refers to; so has   *)
(* the copy that a Save As is making.  Nothing is left in memory when no   *)
(* project is open.                                                        *)
Stored ==
    /\ Editing \/ pc = "closing" => LiveBlocks \subseteq Open.rows
    /\ SavingAs => LiveBlocks \subseteq files[dest].rows
    /\ pc = "closed" => stack = <<>> /\ clip = {}

LEMMA StackHolds ==
  ASSUME NEW s \in Seq(Docs), NEW i \in 1 .. Len(s)
  PROVE  s[i] \subseteq StackBlocks(s)
BY DEF StackBlocks

LEMMA OneState ==
  ASSUME NEW d \in Docs
  PROVE  StackBlocks(<<d>>) = d
<1>1. <<d>> \in Seq(Docs) /\ Len(<<d>>) = 1 /\ <<d>>[1] = d
  OBVIOUS
<1>2. 1 .. Len(<<d>>) = {1}
  BY <1>1
<1> QED
  BY <1>1, <1>2, Zenon DEF StackBlocks

(* What a push leaves on the stack.                                        *)
LEMMA PushedStack ==
  ASSUME NEW s \in Seq(Docs), NEW n \in 0 .. Len(s), NEW d \in Docs
  PROVE  LET t == Append(SubSeq(s, 1, n), d)
         IN  /\ t \in Seq(Docs) /\ Len(t) = n + 1 /\ t[n + 1] = d
             /\ \A i \in 1 .. n : t[i] = s[i]
<1> DEFINE u == SubSeq(s, 1, n)
<1>1. u \in Seq(Docs) /\ Len(u) = n /\ \A i \in 1 .. n : u[i] = s[i]
  BY SubSeqProperties
<1> HIDE DEF u
<1>2. Append(u, d) \in Seq(Docs) /\ Len(Append(u, d)) = n + 1
  BY <1>1, AppendProperties
<1>3. Append(u, d)[n + 1] = d /\ \A i \in 1 .. n : Append(u, d)[i] = u[i]
  BY <1>1, AppendProperties
<1> QED
  BY <1>1, <1>2, <1>3 DEF u

LEMMA PushedBlocks ==
  ASSUME NEW s \in Seq(Docs), NEW n \in 0 .. Len(s), NEW d \in Docs
  PROVE  StackBlocks(Append(SubSeq(s, 1, n), d)) \subseteq StackBlocks(s) \cup d
<1> DEFINE t == Append(SubSeq(s, 1, n), d)
<1>1. /\ Len(t) = n + 1 /\ t[n + 1] = d
      /\ \A i \in 1 .. n : t[i] = s[i]
  BY PushedStack
<1> HIDE DEF t
<1>2. \A i \in 1 .. Len(t) : t[i] = d \/ (i \in 1 .. Len(s) /\ t[i] = s[i])
  <2>1. Len(s) \in Nat
    OBVIOUS
  <2> QED
    BY <1>1, <2>1
<1>3. StackBlocks(t) \subseteq StackBlocks(s) \cup d
  BY <1>2 DEF StackBlocks
<1> QED
  BY <1>3 DEF t

LEMMA LiveBlocksNext == LiveBlocks' = Refs(stack', tracks', clip', lastSaved')
BY DEF LiveBlocks

(* Each part of memory is part of what is live.                            *)
LEMMA LiveParts ==
  /\ StackBlocks(stack) \subseteq LiveBlocks /\ tracks \subseteq LiveBlocks
  /\ clip \subseteq LiveBlocks /\ Blocks_(lastSaved) \subseteq LiveBlocks
BY DEF LiveBlocks, Refs

(* Releasing what is no longer referred to keeps what still is.            *)
LEMMA ReleaseKeeps ==
  ASSUME NEW f \in File, NEW kept, kept \subseteq f.rows
  PROVE  kept \subseteq Released(f, kept).rows
BY ReleasedFields

LEMMA InitStored == Init => Stored
BY DEF Init, Stored, Editing, SavingAs

LEMMA StepKeepsStored == TypeInv /\ Stored /\ [Next]_vars => Stored'
<1> SUFFICES ASSUME TypeInv, Stored, [Next]_vars
             PROVE  Stored'
  OBVIOUS
<1>0. DiskTypes /\ HistoryTypes /\ RestTypes /\ Phases
  BY TypeParts DEF TypeInv
<1> USE <1>0
<1> USE DEF disk, history, memory
(* Editing steps: the new references are old ones or newly stored.         *)
<1>a. ASSUME Editing, ~SavingAs, path \in Paths, Open \in File,
             path' = path, dest' = dest, pc' # "closed",
             NEW f \in File, f.rows = Open.rows, NEW new \in Docs,
             LiveBlocks' \subseteq LiveBlocks \cup new,
             Here(InsertBlocks(Released(f, LiveBlocks'), new))
      PROVE  Stored'
  <2>1. Released(f, LiveBlocks') \in File
    BY ReleasedFields
  <2>2. /\ InsertBlocks(Released(f, LiveBlocks'), new) \in File
        /\ InsertBlocks(Released(f, LiveBlocks'), new).rows
              = (f.rows \ (LiveBlocks \ LiveBlocks')) \cup new
    BY <2>1, ReleasedFields, InsertFields
  <2>3. files'[path] = InsertBlocks(Released(f, LiveBlocks'), new)
    BY <1>a, <2>2, HereChanges DEF FileOrNone
  <2>4. LiveBlocks \subseteq f.rows
    BY <1>a DEF Stored
  <2>5. LiveBlocks' \subseteq Open'.rows
    BY <1>a, <2>2, <2>3, <2>4 DEF Open
  <2> QED
    BY <1>a, <2>5 DEF Stored, SavingAs
<1>b. ASSUME Editing, ~SavingAs, path \in Paths, Open \in File,
             path' = path, dest' = dest, pc' # "closed",
             NEW f \in File, f.rows = Open.rows,
             LiveBlocks' \subseteq LiveBlocks,
             Here(Released(f, LiveBlocks'))
      PROVE  Stored'
  <2>1. Released(f, LiveBlocks') \in File
    BY ReleasedFields
  <2>2. files'[path] = Released(f, LiveBlocks')
    BY <1>b, <2>1, HereChanges DEF FileOrNone
  <2>3. LiveBlocks' \subseteq f.rows
    BY <1>b DEF Stored
  <2>4. LiveBlocks' \subseteq Open'.rows
    BY <1>b, <2>2, <2>3, ReleaseKeeps DEF Open
  <2> QED
    BY <1>b, <2>4 DEF Stored, SavingAs
<1>1. CASE NewProject
  <2>1. LiveBlocks' = {}
    BY <1>1, LiveBlocksNext, OneState DEF NewProject, OpenedWith, Stored, Refs, Blocks_
  <2> QED
    BY <1>1, <2>1 DEF NewProject, OpenedWith, Stored, Phases, SavingAs, Editing
<1>2. ASSUME NEW p \in Paths, Load(p)
      PROVE  Stored'
  <2> DEFINE d == LoadedDoc(files[p])
  <2>1. d \in Docs /\ d \subseteq files[p].rows
    BY <1>2, FieldTypes DEF Load, CanLoad, LoadedDoc, DiskTypes, FileOrNone
  <2> HIDE DEF d
  <2>2. /\ stack' = <<d>> /\ tracks' = d /\ lastSaved' = d /\ clip' = {}
        /\ path' = p /\ dest' = dest /\ files' = files /\ pc' = "idle"
    BY <1>2 DEF Load, OpenedWith, Stored, d
  <2>3. LiveBlocks' = d
    BY <2>1, <2>2, LiveBlocksNext, OneState DEF Refs, Blocks_
  <2>4. ~SavingAs
    BY <1>2 DEF Load, Phases
  <2> QED
    BY <2>1, <2>2, <2>3, <2>4 DEF Stored, SavingAs, Open
<1>3. ASSUME NEW p \in Paths, RemoveUnsavedData(p)
      PROVE  Stored'
  <2>1. files[p] \in File /\ ~SavingAs /\ pc = "closed" /\ stack = <<>> /\ clip = {}
    BY <1>3 DEF RemoveUnsavedData, Phases, DiskTypes, FileOrNone, Stored
  <2>2. CASE files[p].project = NoDoc
    BY <1>3, <2>1, <2>2 DEF RemoveUnsavedData, Stored, SavingAs, Editing
  <2>3. CASE files[p].project # NoDoc
    <3>1. /\ files' = [files EXCEPT ![p] = AutoSaveDelete(@)]
          /\ path' = p /\ tracks' = files[p].project /\ lastSaved' = files[p].project
          /\ pc' = "closing" /\ UNCHANGED <<dest, stack, clip>>
      BY <1>3, <2>3 DEF RemoveUnsavedData
    <3>2. files[p].project \in Docs /\ files[p].project \subseteq files[p].rows
      BY <1>3, <2>1, <2>3, FieldTypes DEF RemoveUnsavedData, ProjectDocComplete
    <3>3. files'[p].rows = files[p].rows
      BY <2>1, <3>1, AutoSaveDeleteFields DEF DiskTypes
    <3>4. StackBlocks(<<>>) = {}
      BY DEF StackBlocks
    <3>5. LiveBlocks' = files[p].project
      BY <2>1, <3>1, <3>2, <3>4, LiveBlocksNext DEF Refs, Blocks_
    <3> QED
      BY <2>1, <3>1, <3>2, <3>3, <3>5 DEF Stored, SavingAs, Open
  <2> QED
    BY <2>2, <2>3
<1>4. CASE Edit
  <2>1. PICK d \in Docs, new \in Docs :
          /\ d \subseteq tracks \cup clip \cup new
          /\ tracks' = d
          /\ Here(InsertBlocks(Released(Open, Refs(stack, d, clip, lastSaved)), new))
    <3>1. PICK keep \in SUBSET tracks, paste \in {{}, clip},
               new \in {{}} \cup {{b} : b \in FreshBlocks} :
            LET d == keep \cup paste \cup new IN
            /\ tracks' = d
            /\ Here(InsertBlocks(Released(Open, Refs(stack, d, clip, lastSaved)), new))
      BY <1>4 DEF Edit
    <3>2. new \in Docs /\ keep \cup paste \cup new \in Docs
      BY DEF FreshBlocks, RestTypes
    <3> QED
      BY <3>1, <3>2
  <2>2. path \in Paths /\ Open \in File /\ Editing /\ ~SavingAs
    BY <1>4, OpenIsFile DEF Edit, Phases, Editing
  <2>3. LiveBlocks' = Refs(stack, d, clip, lastSaved)
    BY <1>4, <2>1, LiveBlocksNext DEF Edit
  <2>4. LiveBlocks' \subseteq LiveBlocks \cup new
    BY <2>1, <2>3 DEF LiveBlocks, Refs
  <2>5. path' = path /\ dest' = dest /\ pc' # "closed"
    BY <1>4 DEF Edit
  <2> QED
    BY <1>a, <2>1, <2>2, <2>3, <2>4, <2>5
<1>5. CASE AutoSave
  <2>1. path \in Paths /\ Open \in File /\ Editing /\ ~SavingAs
    BY <1>5, OpenIsFile DEF AutoSave, Phases, Editing
  <2>2. /\ WriteAutosave(Open, tracks) \in File
        /\ WriteAutosave(Open, tracks).rows = Open.rows
    BY <2>1, WriteAutosaveFields DEF RestTypes
  <2>3. files'[path].rows = Open.rows
    BY <1>5, <2>1, <2>2, HereChanges DEF AutoSave, FileOrNone
  <2>4. LiveBlocks' = LiveBlocks
    BY <1>5, LiveBlocksNext DEF AutoSave, LiveBlocks
  <2> QED
    BY <1>5, <2>1, <2>3, <2>4 DEF AutoSave, Stored, SavingAs, Open
<1>6. CASE PushState
  <2>1. path \in Paths /\ Open \in File /\ Editing /\ ~SavingAs /\ current >= 0
    BY <1>6, OpenIsFile DEF PushState, Phases, Editing
  <2>2. StackBlocks(stack') \subseteq StackBlocks(stack) \cup tracks
    BY <1>6, <2>1, PushedBlocks DEF PushState, HistoryTypes, RestTypes
  <2>3. LiveBlocks' = Refs(stack', tracks, clip, lastSaved)
    BY <1>6, LiveBlocksNext DEF PushState
  <2>4. LiveBlocks' \subseteq LiveBlocks
    BY <2>2, <2>3 DEF LiveBlocks, Refs
  <2>5. Here(Released(Open, LiveBlocks'))
    BY <1>6, <2>3 DEF PushState
  <2>6. path' = path /\ dest' = dest /\ pc' # "closed"
    BY <1>6 DEF PushState
  <2> QED
    BY <1>b, <2>1, <2>4, <2>5, <2>6
<1>7. ASSUME NEW i \in {current - 1, current + 1}, UndoRedo(i)
      PROVE  Stored'
  <2>1. path \in Paths /\ Open \in File /\ Editing /\ ~SavingAs
    BY <1>7, OpenIsFile DEF UndoRedo, Phases, Editing
  <2>2. /\ WriteAutosave(Open, tracks) \in File
        /\ WriteAutosave(Open, tracks).rows = Open.rows
    BY <2>1, WriteAutosaveFields DEF RestTypes
  <2>3. LiveBlocks' = Refs(stack, tracks', clip, lastSaved)
    BY <1>7, LiveBlocksNext DEF UndoRedo
  <2>4. tracks' \subseteq StackBlocks(stack)
    BY <1>7, StackHolds DEF UndoRedo, HistoryTypes
  <2>5. LiveBlocks' \subseteq LiveBlocks
    BY <2>3, <2>4 DEF LiveBlocks, Refs
  <2>6. Here(Released(WriteAutosave(Open, tracks), LiveBlocks'))
    BY <1>7, <2>3 DEF UndoRedo
  <2>7. path' = path /\ dest' = dest /\ pc' # "closed"
    BY <1>7 DEF UndoRedo
  <2> QED
    BY <1>b, <2>1, <2>2, <2>5, <2>6, <2>7
<1>8. ASSUME NEW b \in Blocks, Copy(b)
      PROVE  Stored'
  <2>1. path \in Paths /\ Open \in File /\ Editing /\ ~SavingAs
    BY <1>8, OpenIsFile DEF Copy, Phases, Editing
  <2>2. LiveBlocks' = Refs(stack, tracks, clip', lastSaved)
    BY <1>8, LiveBlocksNext DEF Copy
  <2>3. LiveBlocks' \subseteq LiveBlocks
    BY <1>8, <2>2 DEF Copy, LiveBlocks, Refs
  <2>4. Here(Released(Open, LiveBlocks')) /\ path' = path /\ dest' = dest /\ pc' # "closed"
    BY <1>8, <2>2 DEF Copy
  <2> QED
    BY <1>b, <2>1, <2>3, <2>4
<1>9. ASSUME NEW p \in Paths, MoveProject(p)
      PROVE  Stored'
  <2>1. path \in Paths /\ Editing /\ ~SavingAs
    BY <1>9, OpenIsFile DEF MoveProject, Phases, Editing
  <2>2. path' = p /\ dest' = dest /\ pc' = "saving" /\ files'[p] = Open
    BY <1>9, <2>1 DEF MoveProject, DiskTypes
  <2>3. LiveBlocks' = LiveBlocks
    BY <1>9, LiveBlocksNext DEF MoveProject, LiveBlocks
  <2> QED
    BY <2>1, <2>2, <2>3 DEF Stored, SavingAs, Open
(* The end of a save, good or bad: the last saved tracks are the tracks.   *)
<1>10. CASE MoveProjectFails \/ SaveAsFails \/ SaveFails \/ FinishSave
  <2>1. path \in Paths /\ Open \in File /\ Editing /\ ~SavingAs
    BY <1>10, OpenIsFile
    DEF MoveProjectFails, SaveAsFails, SaveFails, FinishSave, Phases, Editing
  <2>2. PICK f \in File : f.rows = Open.rows /\ UpdateSavedState(f)
    <3>1. AutoSaveDelete(Open) \in File /\ AutoSaveDelete(Open).rows = Open.rows
      BY <2>1, AutoSaveDeleteFields
    <3> QED
      BY <1>10, <2>1, <3>1 DEF MoveProjectFails, SaveAsFails, SaveFails, FinishSave
  <2>3. /\ path' = path /\ dest' = dest /\ pc' # "closed"
        /\ UNCHANGED <<stack, tracks, clip>>
    BY <1>10 DEF MoveProjectFails, SaveAsFails, SaveFails, FinishSave
  <2>4. LiveBlocks' = Refs(stack, tracks, clip, tracks)
    BY <2>2, <2>3, LiveBlocksNext DEF UpdateSavedState
  <2>5. Blocks_(tracks) = tracks
    BY DEF RestTypes, Blocks_
  <2>6. LiveBlocks' \subseteq LiveBlocks
    BY <2>4, <2>5 DEF LiveBlocks, Refs
  <2>7. Here(Released(f, LiveBlocks'))
    BY <2>2, <2>4 DEF UpdateSavedState
  <2> QED
    BY <1>b, <2>1, <2>2, <2>3, <2>6, <2>7
(* Steps that only move on.                                                *)
<1>11. CASE AutoSaveFails \/ Save \/ CloseNew \/ CompactOnClose \/ SetBypass
  <2>1. UNCHANGED <<disk, path, dest, memory>>
    BY <1>11 DEF AutoSaveFails, Save, CloseNew, CompactOnClose, SetBypass
  <2>2. LiveBlocks' = LiveBlocks
    BY <2>1, LiveBlocksNext DEF LiveBlocks
  <2>3. /\ Editing' => Editing
        /\ pc' \notin {"closing", "closed"}
    BY <1>11 DEF AutoSaveFails, Save, CloseNew, CompactOnClose, SetBypass, Editing
  <2> QED
    BY <2>1, <2>2, <2>3 DEF Stored, SavingAs, Open
<1>12. CASE UpdateSaved
  <2>1. path \in Paths /\ Open \in File /\ Editing /\ ~SavingAs
    BY <1>12, OpenIsFile DEF UpdateSaved, Phases, Editing
  <2>2. /\ WriteProject(Open, tracks) \in File
        /\ WriteProject(Open, tracks).rows = Open.rows
    BY <2>1, WriteProjectFields DEF RestTypes
  <2>3. files'[path].rows = Open.rows
    BY <1>12, <2>1, <2>2, HereChanges DEF UpdateSaved, FileOrNone
  <2>4. LiveBlocks' = LiveBlocks
    BY <1>12, LiveBlocksNext DEF UpdateSaved, LiveBlocks
  <2> QED
    BY <1>12, <2>1, <2>3, <2>4 DEF UpdateSaved, Stored, SavingAs, Open
<1>14. ASSUME NEW p \in Paths, SaveAs(p)
      PROVE  Stored'
  <2>1. path \in Paths /\ Open \in File /\ Editing
    BY <1>14, OpenIsFile DEF SaveAs, Editing
  <2>2. Copied(Open, Blocks, tracks) \in File
        /\ Copied(Open, Blocks, tracks).rows = Open.rows
    <3>1. Open.rows \cap Blocks = Open.rows
      BY <2>1, FieldTypes
    <3>2. tracks \in Docs
      BY DEF RestTypes
    <3>3. /\ Copied(Open, Blocks, tracks) \in File
          /\ Copied(Open, Blocks, tracks).rows = Open.rows \cap Blocks
      BY <2>1, <3>2, CopiedFields
    <3> QED
      BY <3>1, <3>3
  <2>3. files'[p].rows = Open.rows /\ files'[path] = Open
    BY <1>14, <2>1, <2>2 DEF SaveAs, DiskTypes, Open
  <2>4. LiveBlocks' = LiveBlocks
    BY <1>14, LiveBlocksNext DEF SaveAs, LiveBlocks
  <2> QED
    BY <1>14, <2>1, <2>3, <2>4 DEF SaveAs, Stored, SavingAs, Open
<1>15. CASE DropOriginalAutosave
  <2>1. path \in Paths /\ Open \in File /\ Editing /\ SavingAs
    BY <1>15, OpenIsFile DEF DropOriginalAutosave, Phases, Editing
  <2>2. /\ files' \in [Paths -> FileOrNone]
        /\ \A q \in Paths \ {path} : files'[q] = files[q]
    BY <1>15, <2>1, AutoSaveDeleteFields, HereChanges DEF DropOriginalAutosave, FileOrNone
  <2>3. LiveBlocks' = LiveBlocks
    BY <1>15, LiveBlocksNext DEF DropOriginalAutosave, LiveBlocks
  <2>4. dest \in Paths \ {path}
    BY <2>1 DEF SavingAs, Phases, RestTypes
  <2> QED
    BY <1>15, <2>1, <2>2, <2>3, <2>4 DEF DropOriginalAutosave, Stored, SavingAs, Editing
<1>16. CASE DropOriginalAutosaveFails
  <2> DEFINE kept == Refs(stack, tracks, clip, tracks)
  <2>1. path \in Paths /\ Open \in File /\ Editing /\ SavingAs
    BY <1>16, OpenIsFile DEF DropOriginalAutosaveFails, Phases, Editing
  <2>2. /\ HereAndThere(Released(Open, kept), dest, NoFile)
        /\ dest' = NoPath /\ pc' = "idle" /\ path' = path
    BY <1>16 DEF DropOriginalAutosaveFails
  <2>3. LiveBlocks' = kept
    BY <1>16, LiveBlocksNext DEF DropOriginalAutosaveFails
  <2>4. Blocks_(tracks) = tracks
    BY DEF RestTypes, Blocks_
  <2>5. kept \subseteq LiveBlocks
    BY <2>4 DEF LiveBlocks, Refs
  <2> HIDE DEF kept
  <2>6. kept \subseteq Open.rows
    BY <2>1, <2>5 DEF Stored
  <2>7. files'[path] = Released(Open, kept)
    BY <2>1, <2>2 DEF HereAndThere, DiskTypes, Phases, SavingAs
  <2>8. kept \subseteq Open'.rows
    BY <2>1, <2>2, <2>6, <2>7, ReleaseKeeps DEF Open
  <2> QED
    BY <2>2, <2>3, <2>8 DEF Stored, SavingAs
<1>17. CASE SwitchToCopy
  <2>1. SavingAs /\ files' = files /\ path' = dest /\ dest' = NoPath /\ pc' = "saving"
    BY <1>17 DEF SwitchToCopy, SavingAs
  <2>2. LiveBlocks' = LiveBlocks
    BY <1>17, LiveBlocksNext DEF SwitchToCopy, LiveBlocks
  <2> QED
    BY <2>1, <2>2 DEF Stored, SavingAs, Open
(* Pruning and compaction leave the copy alone.                            *)
<1>18. CASE PruneOriginal \/ Compact \/ CompactFails \/ MoveOriginalAway
            \/ KeepOriginal \/ MoveCopyIn \/ MoveOriginalBack \/ FinishCompact
  <2>1. /\ UNCHANGED <<dest, memory>>
        /\ files' = files \/ \E f \in FileOrNone : Here(f)
        /\ pc' # "closed" /\ pc' # "closing" /\ ~Editing'
    <3>1. path \in Paths
      BY <1>18
      DEF PruneOriginal, Compact, CompactFails, MoveOriginalAway, KeepOriginal,
          MoveCopyIn, MoveOriginalBack, FinishCompact, Phases
    <3>2. temps[path] \in FileOrNone /\ backs[path] \in FileOrNone
      BY <3>1 DEF DiskTypes
    <3>3. PruneOriginal => \E f \in FileOrNone : Here(f)
      BY OpenIsFile, DeleteFields DEF PruneOriginal, FileOrNone
    <3> QED
      BY <1>18, <3>2, <3>3
      DEF PruneOriginal, Compact, CompactFails, MoveOriginalAway, KeepOriginal,
          MoveCopyIn, MoveOriginalBack, FinishCompact, CompactionStops, Editing,
          FileOrNone
  <2>2. path \in Paths
    BY <1>18
    DEF PruneOriginal, Compact, CompactFails, MoveOriginalAway, KeepOriginal,
        MoveCopyIn, MoveOriginalBack, FinishCompact, Phases
  <2>3. SavingAs => files'[dest] = files[dest]
    BY <2>1, <2>2, HereChanges DEF Phases, SavingAs, RestTypes
  <2>4. LiveBlocks' = LiveBlocks
    BY <2>1, LiveBlocksNext DEF LiveBlocks
  <2> QED
    BY <2>1, <2>3, <2>4 DEF Stored, SavingAs
<1>23. CASE Close
  <2>1. path \in Paths /\ Open \in File /\ Editing /\ ~SavingAs
    BY <1>23, OpenIsFile DEF Close, Phases, Editing
  <2>2. tracks' \subseteq StackBlocks(stack) \cup tracks
    BY <1>23, StackHolds DEF Close, HistoryTypes
  <2>3. LiveBlocks' = Refs(stack, tracks', {}, lastSaved)
    BY <1>23, LiveBlocksNext DEF Close
  <2>4. LiveBlocks' \subseteq LiveBlocks
    BY <2>2, <2>3 DEF LiveBlocks, Refs
  <2>5. Here(Released(Open, LiveBlocks')) /\ path' = path /\ dest' = dest /\ pc' # "closed"
    BY <1>23, <2>3 DEF Close
  <2> QED
    BY <1>b, <2>1, <2>4, <2>5
(* Nothing is promised while a project is closing.                         *)
<1>24. CASE CloseRecovered \/ SkipCompaction \/ RewriteSaved \/ RewriteSavedAutosave
  <2>1. /\ pc' \in {"clearing", "bypassing", "notCompacted", "rewritten", "reverted"}
        /\ dest' = dest /\ ~SavingAs
    BY <1>24
    DEF CloseRecovered, SkipCompaction, RewriteSaved, RewriteSavedAutosave, Phases,
        SavingAs
  <2> QED
    BY <2>1 DEF Stored, SavingAs, Editing
<1>25. CASE FinishClose \/ Crash
  BY <1>25 DEF FinishClose, Crash, Forget, Stored, SavingAs, Editing
<1>26. CASE UNCHANGED vars
  BY <1>26 DEF vars, Stored, SavingAs, Editing, Open, LiveBlocks
<1> QED
  BY <1>1, <1>2, <1>3, <1>4, <1>5, <1>6, <1>7, <1>8, <1>9, <1>10, <1>11, <1>12,
     <1>14, <1>15, <1>16, <1>17, <1>18, <1>23, <1>24, <1>25, <1>26
  DEF Next

LEMMA StoredAlways == Spec => [](TypeInv /\ Stored)
BY InitTypeInv, InitStored, StepKeepsTypes, StepKeepsStored, PTL DEF Spec

(* Whatever fails, and wherever it crashes, every block that an undo, a    *)
(* redo, a paste or the tracks could need is in the open file while the    *)
(* user works.                                                             *)
THEOREM UndoNeverMissesABlock == Spec => []LiveBlocksStored
<1>1. Stored => LiveBlocksStored
  BY DEF Stored, LiveBlocksStored
<1> QED
  BY <1>1, StoredAlways, PTL

-----------------------------------------------------------------------------
(* What was saved.  The invariant needs saves that do not fail, and no     *)
(* Save As of a recovered project: with either, lastSaved is not what the  *)
(* file shows, and pruning, compaction or a release around it deletes the  *)
(* blocks of the saved document.                                           *)

SavesWork == Faults \cap {"save", "recovered"} = {}

(* File f shows what was saved under p, with all its blocks.               *)
Shows(f, p) == f.project = committed[p] /\ Blocks_(f.project) \subseteq f.rows

Shown ==
    /\ \A p \in Paths : files[p] # NoFile => Shows(files[p], p)
    /\ \A p \in Paths : files[p] = NoFile /\ committed[p] # NoDoc
                            => backs[p] # NoFile /\ Shows(backs[p], p)

(* So do the two files of a compaction.                                    *)
InFlight ==
    /\ pc \in {"movedAway", "movedIn"} => Shows(backs[path], path)
    /\ pc \in {"compactCopied", "movedAway"} => Shows(temps[path], path)

(* Nothing is ever saved under the name in the temporary directory.        *)
Names ==
    /\ committed[TempPath] = NoDoc
    /\ path = TempPath => flags.temporary
    /\ pc \in {"saving", "saved"} => path # TempPath
    /\ SavingAs => dest # TempPath

Permanent == ~flags.temporary /\ ~flags.recovered

(* Of the blocks of the saved document those in memory are held by the     *)
(* last saved tracks, which are that document in a permanent project.      *)
Anchored ==
    /\ pc = "saved" => Open.project = tracks
    /\ pc \notin {"closed", "saving", "saved", "movedAway"}
           => Blocks_(Open.project) \cap LiveBlocks \subseteq Blocks_(lastSaved)
    /\ pc \notin {"closed", "saving", "saved"} /\ Permanent
           => lastSaved # NoDoc /\ lastSaved = committed[path]

(* Only a permanent project is pruned, compacted or written on closing.    *)
Marks ==
    /\ pc \in {"copied", "dropped", "compacting", "compactCopied", "movedAway",
               "movedIn"} => Permanent
    /\ pc \in {"idle", "edited", "autosaved"} /\ ~Permanent => saved = 0
    /\ pc = "closing" \/ (pc = "notCompacted" /\ ~SavingAs)
           => Permanent \/ saved = current

SavedInv == Shown /\ InFlight /\ Names /\ Anchored /\ Marks

LEMMA CompleteIsStored ==
  ASSUME NEW f
  PROVE  ProjectDocComplete(f) <=> Blocks_(f.project) \subseteq f.rows
BY DEF ProjectDocComplete, Blocks_

(* Fresh blocks are in no document of the open file and not in memory.     *)
LEMMA FreshIsNew ==
  ASSUME TypeInv, pc \notin {"closed", "movedAway"}, NEW b \in FreshBlocks
  PROVE  /\ b \in Blocks /\ b \notin LiveBlocks /\ b \notin Open.rows
         /\ b \notin Blocks_(Open.project) /\ b \notin Blocks_(Open.autosave)
<1> DEFINE Used(f) == IF f = NoFile THEN {}
                      ELSE f.rows \cup Blocks_(f.project) \cup Blocks_(f.autosave)
                           \cup StackBlocks(f.journal)
           used == UNION {Used(files[p]) \cup Used(temps[p]) \cup Used(backs[p]) : p \in Paths}
<1>1. b \in Blocks \ (LiveBlocks \cup used)
  BY DEF FreshBlocks
<1>2. path \in Paths /\ Open \in File
  BY OpenIsFile
<1>3. Used(files[path]) \subseteq used
  BY <1>2
<1>4. Used(files[path]) = Open.rows \cup Blocks_(Open.project) \cup Blocks_(Open.autosave)
                               \cup StackBlocks(Open.journal)
  BY <1>2 DEF Open
<1> HIDE DEF Used, used
<1> QED
  BY <1>1, <1>3, <1>4

(* The open file may change as long as it shows what it showed.            *)
LEMMA HereKeepsShown ==
  ASSUME DiskTypes, Shown, path \in Paths, Open # NoFile, NEW f \in File, Here(f),
         f.project = Open.project, Blocks_(f.project) \subseteq f.rows,
         UNCHANGED <<backs, committed>>
  PROVE  Shown'
<1>1. /\ files'[path] = f /\ \A q \in Paths \ {path} : files'[q] = files[q]
  BY HereChanges DEF FileOrNone
<1>2. Shows(Open, path)
  BY DEF Shown, Open
<1>3. f # NoFile
  OBVIOUS
<1> QED
  BY <1>1, <1>2, <1>3 DEF Shown, Shows

LEMMA ReleaseKeepsShown ==
  ASSUME DiskTypes, Shown, path \in Paths, Open # NoFile, NEW f \in File, NEW kept,
         f.rows = Open.rows, f.project = Open.project,
         Blocks_(Open.project) \cap LiveBlocks \subseteq kept,
         Here(Released(f, kept)), UNCHANGED <<backs, committed>>
  PROVE  Shown' /\ files'[path].project = Open.project
<1>1. /\ Released(f, kept) \in File
      /\ Released(f, kept).rows = f.rows \ (LiveBlocks \ kept)
      /\ Released(f, kept).project = f.project
  BY ReleasedFields
<1>2. Blocks_(Open.project) \subseteq Open.rows
  BY DEF Shown, Shows, Open
<1>3. Blocks_(Released(f, kept).project) \subseteq Released(f, kept).rows
  BY <1>1, <1>2
<1>4. files'[path] = Released(f, kept)
  BY <1>1, HereChanges DEF FileOrNone
<1> QED
  BY <1>1, <1>3, <1>4, HereKeepsShown

LEMMA SameKeepsShown ==
  ASSUME Shown, UNCHANGED <<files, backs, committed>>
  PROVE  Shown'
BY DEF Shown, Shows

LEMMA InitSavedInv == Init => SavedInv
<1> SUFFICES ASSUME Init
             PROVE  SavedInv
  OBVIOUS
<1>1. Shown /\ InFlight /\ Anchored /\ Marks
  BY DEF Init, Shown, InFlight, Anchored, Marks, Permanent, SavingAs
<1>2. Names
  BY DEF Init, Names, SavingAs
<1> QED
  BY <1>1, <1>2 DEF SavedInv

LEMMA StepKeepsSaved ==
  ASSUME SavesWork, TypeInv, Stored, SavedInv, [Next]_vars
  PROVE  SavedInv'
<1>0. /\ DiskTypes /\ HistoryTypes /\ RestTypes /\ Phases
      /\ Shown /\ InFlight /\ Names /\ Anchored /\ Marks
      /\ "save" \notin Faults /\ "recovered" \notin Faults
  BY TypeParts DEF TypeInv, SavedInv, SavesWork
<1> SUFFICES Shown' /\ InFlight' /\ Names' /\ Anchored' /\ Marks'
  BY DEF SavedInv
<1> USE <1>0
<1> USE DEF disk, history, memory
<1>1. CASE NewProject
  <2>1. Shown'
    BY <1>1, NewFileFields DEF NewProject, Shown, Shows, DiskTypes, Names, Blocks_
  <2>2. InFlight' /\ Names' /\ Marks'
    BY <1>1, FlagTypes
    DEF NewProject, OpenedWith, InFlight, Names, Marks, SavingAs, Phases, Permanent, Flags
  <2>3. Open'.project = NoDoc
    BY <1>1, NewFileFields DEF NewProject, OpenedWith, DiskTypes, Open
  <2>4. Anchored'
    BY <1>1, <2>3 DEF NewProject, OpenedWith, Anchored, Permanent, Flags, Blocks_
  <2> QED
    BY <2>1, <2>2, <2>4
<1>2. ASSUME NEW p \in Paths, Load(p)
      PROVE  Shown' /\ InFlight' /\ Names' /\ Anchored' /\ Marks'
  <2> DEFINE d == LoadedDoc(files[p])
             recovered == files[p].autosave # NoDoc
  <2>1. /\ d \in Docs /\ d # NoDoc
        /\ ~recovered => d = files[p].project
    BY <1>2, FieldTypes DEF Load, CanLoad, LoadedDoc, DiskTypes, FileOrNone
  <2>2. files[p].project = committed[p]
    BY <1>2 DEF Load, Shown, Shows
  <2>3. /\ stack' = <<d>> /\ tracks' = d /\ lastSaved' = d /\ clip' = {} /\ saved' = 0
        /\ path' = p /\ dest' = dest /\ pc' = "idle"
        /\ flags' = Flags(recovered, recovered, files[p].project = NoDoc)
        /\ UNCHANGED disk
    BY <1>2 DEF Load, OpenedWith, Stored
  <2> HIDE DEF d, recovered
  <2>4. LiveBlocks' = d /\ Blocks_(lastSaved') = d
    BY <2>1, <2>3, LiveBlocksNext, OneState DEF Refs, Blocks_
  <2>5. /\ flags'.recovered = recovered
        /\ flags'.temporary = (files[p].project = NoDoc)
    BY <2>3 DEF Flags
  <2>6. Shown'
    BY <2>3, SameKeepsShown
  <2>7. InFlight' /\ Marks'
    BY <2>3 DEF InFlight, Marks
  <2>8. Names'
    BY <1>2, <2>2, <2>3, <2>5 DEF Load, Names, SavingAs, Phases
  <2>9. Anchored'
    BY <2>1, <2>2, <2>3, <2>4, <2>5 DEF Anchored, Permanent
  <2> QED
    BY <2>6, <2>7, <2>8, <2>9
<1>3. ASSUME NEW p \in Paths, RemoveUnsavedData(p)
      PROVE  Shown' /\ InFlight' /\ Names' /\ Anchored' /\ Marks'
  <2>1. /\ files[p] \in File /\ ~SavingAs /\ pc = "closed" /\ stack = <<>> /\ clip = {}
        /\ files[p].project = committed[p]
    BY <1>3 DEF RemoveUnsavedData, Phases, DiskTypes, FileOrNone, Stored, Shown, Shows
  <2>2. CASE files[p].project = NoDoc
    <3>1. /\ files' = [files EXCEPT ![p] = NoFile]
          /\ UNCHANGED <<temps, backs, committed, pc, path, dest, memory>>
      BY <1>3, <2>2 DEF RemoveUnsavedData
    <3>2. Shown'
      BY <2>1, <2>2, <3>1 DEF Shown, Shows, DiskTypes
    <3> QED
      BY <2>1, <3>1, <3>2 DEF InFlight, Names, SavingAs, Anchored, Marks
  <2>3. CASE files[p].project # NoDoc
    <3>1. /\ files' = [files EXCEPT ![p] = AutoSaveDelete(@)]
          /\ path' = p /\ tracks' = files[p].project /\ lastSaved' = files[p].project
          /\ flags' = Flags(FALSE, FALSE, FALSE)
          /\ pc' = "closing" /\ UNCHANGED <<dest, stack, clip, current, saved>>
          /\ UNCHANGED <<temps, backs, committed>>
      BY <1>3, <2>3 DEF RemoveUnsavedData
    <3>2. files[p].project \in Docs
      BY <2>1, <2>3, FieldTypes
    <3>3. /\ files'[p].rows = files[p].rows /\ files'[p].project = files[p].project
          /\ files'[p] # NoFile /\ \A q \in Paths \ {p} : files'[q] = files[q]
      BY <2>1, <3>1, AutoSaveDeleteFields DEF DiskTypes
    <3>4. Shown'
      BY <2>1, <3>1, <3>3 DEF Shown, Shows
    <3>5. Blocks_(lastSaved') = files[p].project /\ Open'.project = files[p].project
      BY <3>1, <3>2, <3>3 DEF Blocks_, Open
    <3>6. Anchored'
      BY <2>1, <2>3, <3>1, <3>5 DEF Anchored, Blocks_
    <3>7. flags'.temporary = FALSE /\ flags'.recovered = FALSE
      BY <3>1 DEF Flags
    <3>8. Names' /\ InFlight' /\ Marks'
      BY <2>1, <2>3, <3>1, <3>7 DEF Names, SavingAs, InFlight, Marks, Permanent
    <3> QED
      BY <3>4, <3>6, <3>8
  <2> QED
    BY <2>2, <2>3
<1>4. CASE Edit
  <2>1. PICK d \in Docs, new \in SUBSET FreshBlocks :
          /\ d \subseteq tracks \cup clip \cup new
          /\ tracks' = d
          /\ Here(InsertBlocks(Released(Open, Refs(stack, d, clip, lastSaved)), new))
    <3>1. PICK keep \in SUBSET tracks, paste \in {{}, clip},
               new \in {{}} \cup {{b} : b \in FreshBlocks} :
            LET d == keep \cup paste \cup new IN
            /\ tracks' = d
            /\ Here(InsertBlocks(Released(Open, Refs(stack, d, clip, lastSaved)), new))
      BY <1>4 DEF Edit
    <3>2. new \in SUBSET FreshBlocks /\ keep \cup paste \cup new \in Docs
      BY DEF FreshBlocks, RestTypes
    <3> QED
      BY <3>1, <3>2
  <2> DEFINE kept == Refs(stack, d, clip, lastSaved)
             f == Released(Open, kept)
             g == InsertBlocks(f, new)
  <2>2. path \in Paths /\ Open \in File /\ ~SavingAs /\ pc = "idle" /\ pc' = "edited"
    BY <1>4, OpenIsFile DEF Edit, Phases
  <2>3. new \in Docs /\ new \cap Blocks_(Open.project) = {} /\ new \cap LiveBlocks = {}
    BY <2>1, <2>2, FreshIsNew
  <2>4. Blocks_(Open.project) \cap LiveBlocks \subseteq Blocks_(lastSaved)
    BY <2>2 DEF Anchored
  <2>5. Blocks_(lastSaved) \subseteq kept
    BY DEF Refs
  <2>6. LiveBlocks' = kept /\ kept \subseteq LiveBlocks \cup new
    BY <1>4, <2>1, LiveBlocksNext DEF Edit, LiveBlocks, Refs
  <2> HIDE DEF kept
  <2>7. /\ f \in File /\ f.rows = Open.rows \ (LiveBlocks \ kept)
        /\ f.project = Open.project
    BY <2>2, ReleasedFields
  <2>8. g \in File /\ g.rows = f.rows \cup new /\ g.project = f.project
    BY <2>3, <2>7, InsertFields
  <2>9. Here(g)
    BY <2>1 DEF kept
  <2>10. UNCHANGED <<temps, backs, committed, path, dest, saved, lastSaved, flags>>
    BY <1>4 DEF Edit
  <2> HIDE DEF f, g
  <2>11. Blocks_(Open.project) \subseteq Open.rows
    BY <2>2 DEF Shown, Shows, Open
  <2>12. Shown'
    BY <2>2, <2>4, <2>5, <2>7, <2>8, <2>9, <2>10, <2>11, HereKeepsShown
  <2>13. Open'.project = Open.project
    BY <2>2, <2>7, <2>8, <2>9, <2>10, HereChanges DEF FileOrNone, Open
  <2>14. Anchored'
    BY <2>2, <2>3, <2>4, <2>6, <2>10, <2>13 DEF Anchored, Permanent
  <2>15. InFlight' /\ Names' /\ Marks'
    BY <2>2, <2>10 DEF InFlight, Names, SavingAs, Marks, Permanent
  <2> QED
    BY <2>12, <2>14, <2>15
<1>5. CASE AutoSave
  <2> DEFINE g == WriteAutosave(Open, tracks)
  <2>1. path \in Paths /\ Open \in File /\ ~SavingAs
    BY <1>5, OpenIsFile DEF AutoSave, Phases
  <2>2. g \in File /\ g.rows = Open.rows /\ g.project = Open.project
    BY <2>1, WriteAutosaveFields DEF RestTypes
  <2>3. Blocks_(Open.project) \subseteq Open.rows
    BY <2>1 DEF Shown, Shows, Open
  <2>4. /\ Here(g) /\ pc = "edited" /\ pc' = "autosaved"
        /\ flags'.temporary = flags.temporary /\ flags'.recovered = flags.recovered
        /\ UNCHANGED <<temps, backs, committed, path, dest, history, tracks, lastSaved, clip>>
    BY <1>5 DEF AutoSave, RestTypes
  <2> HIDE DEF g
  <2>5. Shown' /\ Open'.project = Open.project
    BY <2>1, <2>2, <2>3, <2>4, HereKeepsShown, HereChanges DEF FileOrNone, Open
  <2>6. LiveBlocks' = LiveBlocks
    BY <2>4, LiveBlocksNext DEF LiveBlocks
  <2>7. Anchored'
    BY <2>4, <2>5, <2>6 DEF Anchored, Permanent
  <2>8. InFlight' /\ Names' /\ Marks'
    BY <2>1, <2>4 DEF InFlight, Names, SavingAs, Marks, Permanent
  <2> QED
    BY <2>5, <2>7, <2>8
<1>6. CASE PushState
  <2>1. path \in Paths /\ Open \in File /\ ~SavingAs /\ current >= 0
    BY <1>6, OpenIsFile DEF PushState, Phases, Editing
  <2>2. /\ LiveBlocks' = Refs(stack', tracks, clip, lastSaved)
        /\ StackBlocks(stack') \subseteq StackBlocks(stack) \cup tracks
    BY <1>6, <2>1, PushedBlocks, LiveBlocksNext DEF PushState, HistoryTypes, RestTypes
  <2>3. LiveBlocks' \subseteq LiveBlocks /\ Blocks_(lastSaved) \subseteq LiveBlocks'
    BY <2>2 DEF LiveBlocks, Refs
  <2>4. /\ pc = "autosaved" /\ pc' = "idle" /\ Here(Released(Open, LiveBlocks'))
        /\ saved' = IF saved > current THEN -1 ELSE saved
        /\ UNCHANGED <<temps, backs, committed, path, dest, lastSaved, flags>>
    BY <1>6, <2>2 DEF PushState
  <2>5. Blocks_(Open.project) \cap LiveBlocks \subseteq Blocks_(lastSaved)
    BY <2>4 DEF Anchored
  <2>6. Shown' /\ Open'.project = Open.project
    BY <2>1, <2>3, <2>4, <2>5, ReleaseKeepsShown DEF Open
  <2>7. Anchored'
    BY <2>3, <2>4, <2>5, <2>6 DEF Anchored, Permanent
  <2>8. saved = 0 => saved' = 0
    BY <2>1, <2>4 DEF HistoryTypes
  <2>9. InFlight' /\ Names' /\ Marks'
    BY <2>1, <2>4, <2>8 DEF InFlight, Names, SavingAs, Marks, Permanent
  <2> QED
    BY <2>6, <2>7, <2>9
<1>7. ASSUME NEW i \in {current - 1, current + 1}, UndoRedo(i)
      PROVE  Shown' /\ InFlight' /\ Names' /\ Anchored' /\ Marks'
  <2> DEFINE g == WriteAutosave(Open, tracks)
  <2>1. path \in Paths /\ Open \in File /\ ~SavingAs
    BY <1>7, OpenIsFile DEF UndoRedo, Phases
  <2>2. g \in File /\ g.rows = Open.rows /\ g.project = Open.project
    BY <2>1, WriteAutosaveFields DEF RestTypes
  <2>3. /\ LiveBlocks' = Refs(stack, tracks', clip, lastSaved)
        /\ tracks' \subseteq StackBlocks(stack)
    <3>1. i + 1 \in 1 .. Len(stack) /\ tracks' = stack[i + 1]
      BY <1>7 DEF UndoRedo, HistoryTypes
    <3>2. tracks' \subseteq StackBlocks(stack)
      BY <3>1, StackHolds DEF HistoryTypes
    <3> QED
      BY <1>7, <3>2, LiveBlocksNext DEF UndoRedo
  <2>4. LiveBlocks' \subseteq LiveBlocks /\ Blocks_(lastSaved) \subseteq LiveBlocks'
    BY <2>3 DEF LiveBlocks, Refs
  <2>5. /\ pc = "idle" /\ pc' = "idle" /\ Here(Released(g, LiveBlocks'))
        /\ flags'.temporary = flags.temporary /\ flags'.recovered = flags.recovered
        /\ UNCHANGED <<temps, backs, committed, path, dest, saved, lastSaved>>
    BY <1>7, <2>3 DEF UndoRedo, RestTypes
  <2>6. Blocks_(Open.project) \cap LiveBlocks \subseteq Blocks_(lastSaved)
    BY <2>5 DEF Anchored
  <2> HIDE DEF g
  <2>7. Shown' /\ Open'.project = Open.project
    BY <2>1, <2>2, <2>4, <2>5, <2>6, ReleaseKeepsShown DEF Open
  <2>8. Anchored'
    BY <2>4, <2>5, <2>6, <2>7 DEF Anchored, Permanent
  <2>9. InFlight' /\ Names' /\ Marks'
    BY <2>1, <2>5 DEF InFlight, Names, SavingAs, Marks, Permanent
  <2> QED
    BY <2>7, <2>8, <2>9
<1>8. ASSUME NEW b \in Blocks, Copy(b)
      PROVE  Shown' /\ InFlight' /\ Names' /\ Anchored' /\ Marks'
  <2>1. path \in Paths /\ Open \in File /\ ~SavingAs
    BY <1>8, OpenIsFile DEF Copy, Phases
  <2>2. LiveBlocks' = Refs(stack, tracks, clip', lastSaved)
    BY <1>8, LiveBlocksNext DEF Copy
  <2>3. LiveBlocks' \subseteq LiveBlocks /\ Blocks_(lastSaved) \subseteq LiveBlocks'
    BY <1>8, <2>2 DEF Copy, LiveBlocks, Refs
  <2>4. /\ pc = "idle" /\ pc' = "idle" /\ Here(Released(Open, LiveBlocks'))
        /\ UNCHANGED <<temps, backs, committed, path, dest, history, lastSaved, flags>>
    BY <1>8, <2>2 DEF Copy
  <2>5. Blocks_(Open.project) \cap LiveBlocks \subseteq Blocks_(lastSaved)
    BY <2>4 DEF Anchored
  <2>6. Shown' /\ Open'.project = Open.project
    BY <2>1, <2>3, <2>4, <2>5, ReleaseKeepsShown DEF Open
  <2>7. Anchored'
    BY <2>3, <2>4, <2>5, <2>6 DEF Anchored, Permanent
  <2>8. InFlight' /\ Names' /\ Marks'
    BY <2>1, <2>4 DEF InFlight, Names, SavingAs, Marks, Permanent
  <2> QED
    BY <2>6, <2>7, <2>8
<1>9. ASSUME NEW p \in Paths, MoveProject(p)
      PROVE  Shown' /\ InFlight' /\ Names' /\ Anchored' /\ Marks'
  <2>1. path \in Paths /\ Open \in File /\ ~SavingAs
    BY <1>9, OpenIsFile DEF MoveProject, Phases
  <2>2. /\ files' = [files EXCEPT ![path] = NoFile, ![p] = Open]
        /\ committed' = [committed EXCEPT ![path] = NoDoc, ![p] = committed[path]]
        /\ p # path /\ p # TempPath /\ path' = p /\ pc' = "saving"
        /\ UNCHANGED <<temps, backs, dest>>
    BY <1>9 DEF MoveProject
  <2>3. /\ files'[p] = Open /\ committed'[p] = committed[path]
        /\ files'[path] = NoFile /\ committed'[path] = NoDoc
        /\ \A q \in Paths \ {p, path} : files'[q] = files[q] /\ committed'[q] = committed[q]
    BY <2>1, <2>2 DEF DiskTypes
  <2>4. Shows(Open, path)
    BY <2>1 DEF Shown, Open
  <2>5. Shown'
    <3>1. Open # NoFile
      BY <2>1
    <3>2. ASSUME NEW q \in Paths \ {p, path}
          PROVE  /\ files'[q] # NoFile => Shows(files[q], q)'
                 /\ files'[q] = NoFile /\ committed'[q] # NoDoc
                        => backs'[q] # NoFile /\ Shows(backs[q], q)'
      BY <2>2, <2>3, <3>2 DEF Shown, Shows
    <3>3. Shows(files[p], p)'
      BY <2>3, <2>4 DEF Shows
    <3> QED
      BY <2>1, <2>2, <2>3, <3>1, <3>2, <3>3 DEF Shown
  <2>6. committed'[TempPath] = NoDoc
    BY <2>2, <2>3 DEF Names
  <2>7. InFlight' /\ Names' /\ Anchored' /\ Marks'
    BY <2>1, <2>2, <2>6 DEF InFlight, Names, SavingAs, Anchored, Marks
  <2> QED
    BY <2>5, <2>7
<1>10. CASE FinishSave
  <2> DEFINE g == AutoSaveDelete(Open)
  <2>1. path \in Paths /\ Open \in File /\ ~SavingAs
    BY <1>10, OpenIsFile DEF FinishSave, Phases
  <2>2. g \in File /\ g.rows = Open.rows /\ g.project = Open.project
    BY <2>1, AutoSaveDeleteFields
  <2>3. Blocks_(tracks) = tracks /\ tracks # NoDoc
    BY DEF RestTypes, Blocks_
  <2>4. LiveBlocks' = Refs(stack, tracks, clip, tracks)
    BY <1>10, LiveBlocksNext DEF FinishSave, UpdateSavedState
  <2>5. tracks \subseteq LiveBlocks'
    BY <2>4 DEF Refs
  <2>6. /\ pc = "saved" /\ pc' = "idle" /\ Here(Released(g, LiveBlocks'))
        /\ flags'.temporary = FALSE /\ flags'.recovered = FALSE
        /\ lastSaved' = tracks
        /\ UNCHANGED <<temps, backs, committed, path, dest>>
    BY <1>10, <2>4 DEF FinishSave, UpdateSavedState, Flags
  <2>7. Open.project = tracks
    BY <2>6 DEF Anchored
  <2> HIDE DEF g
  <2>8. Shown' /\ Open'.project = tracks
    BY <2>1, <2>2, <2>3, <2>5, <2>6, <2>7, ReleaseKeepsShown DEF Open
  <2>9. committed[path] = tracks
    BY <2>1, <2>7 DEF Shown, Shows, Open
  <2>10. Anchored'
    BY <2>3, <2>6, <2>8, <2>9 DEF Anchored
  <2>11. InFlight' /\ Names' /\ Marks'
    BY <2>1, <2>6 DEF InFlight, Names, SavingAs, Marks, Permanent
  <2> QED
    BY <2>8, <2>10, <2>11
(* Saves do not fail.                                                      *)
<1>11. CASE MoveProjectFails \/ SaveAsFails \/ SaveFails \/ DropOriginalAutosaveFails
  BY <1>11 DEF MoveProjectFails, SaveAsFails, SaveFails, DropOriginalAutosaveFails
(* Steps that only move on.                                                *)
<1>12. CASE AutoSaveFails \/ Save \/ CloseNew \/ CompactOnClose \/ SetBypass
  <2>1. UNCHANGED <<disk, path, dest, memory>>
    BY <1>12 DEF AutoSaveFails, Save, CloseNew, CompactOnClose, SetBypass
  <2>2. LiveBlocks' = LiveBlocks
    BY <2>1, LiveBlocksNext DEF LiveBlocks
  <2>3. \/ pc = "edited" /\ pc' = "idle"
        \/ pc = "idle" /\ pc' = "saving" /\ path # TempPath
        \/ pc = "closing" /\ pc' = "compacting" /\ Permanent
        \/ /\ pc \in {"closing", "compacted", "reverted", "notCompacted"}
           /\ pc' \in {"clearing", "bypassing"}
    BY <1>12
    DEF AutoSaveFails, Save, CloseNew, CompactOnClose, SetBypass, Permanent,
        RevertsRecovery
  <2>4. Shown'
    BY <2>1, SameKeepsShown
  <2>5. InFlight' /\ Names'
    BY <2>1, <2>3 DEF InFlight, Names, SavingAs
  <2>6. Marks'
    BY <2>1, <2>3 DEF Marks, SavingAs, Permanent
  <2>7. Open' = Open
    BY <2>1 DEF Open
  <2>8. Anchored'
    BY <2>1, <2>2, <2>3, <2>7 DEF Anchored, Permanent
  <2> QED
    BY <2>4, <2>5, <2>6, <2>8
<1>13. CASE UpdateSaved
  <2> DEFINE g == WriteProject(Open, tracks)
  <2>1. path \in Paths /\ Open \in File /\ ~SavingAs /\ path # TempPath
    BY <1>13, OpenIsFile DEF UpdateSaved, Phases, Names
  <2>2. g \in File /\ g.rows = Open.rows /\ g.project = tracks /\ tracks # NoDoc
    BY <2>1, WriteProjectFields DEF RestTypes
  <2>3. tracks \subseteq Open.rows
    BY <1>13, LiveParts DEF UpdateSaved, Stored, Editing
  <2>4. /\ Here(g) /\ committed' = [committed EXCEPT ![path] = tracks]
        /\ pc' = "saved" /\ UNCHANGED <<temps, backs, path, dest, memory>>
    BY <1>13 DEF UpdateSaved
  <2> HIDE DEF g
  <2>5. /\ files'[path] = g /\ committed'[path] = tracks
        /\ \A q \in Paths \ {path} : files'[q] = files[q] /\ committed'[q] = committed[q]
    BY <2>1, <2>2, <2>4, HereChanges DEF FileOrNone, DiskTypes
  <2>6. Shown'
    BY <2>1, <2>2, <2>3, <2>4, <2>5 DEF Shown, Shows, Blocks_
  <2>7. Anchored'
    BY <2>2, <2>4, <2>5 DEF Anchored, Open
  <2>8. InFlight' /\ Names' /\ Marks'
    BY <2>1, <2>4, <2>5 DEF InFlight, Names, SavingAs, Marks, Permanent
  <2> QED
    BY <2>6, <2>7, <2>8
<1>14. ASSUME NEW p \in Paths, SaveAs(p)
      PROVE  Shown' /\ InFlight' /\ Names' /\ Anchored' /\ Marks'
  <2> DEFINE g == Copied(Open, Blocks, tracks)
  <2>1. path \in Paths /\ Open \in File /\ Permanent
    BY <1>14, OpenIsFile DEF SaveAs, Permanent
  <2>2. g \in File /\ g.rows = Open.rows \cap Blocks /\ g.project = tracks
    BY <2>1, CopiedFields DEF RestTypes
  <2>3. tracks \subseteq Open.rows /\ tracks \in Docs /\ tracks # NoDoc
    BY <1>14, LiveParts DEF SaveAs, Stored, Editing, RestTypes
  <2>4. /\ files' = [files EXCEPT ![p] = g] /\ committed' = [committed EXCEPT ![p] = tracks]
        /\ p # path /\ p # TempPath /\ dest' = p /\ pc = "idle" /\ pc' = "copied"
        /\ UNCHANGED <<temps, backs, path, memory>>
    BY <1>14 DEF SaveAs
  <2> HIDE DEF g
  <2>5. /\ files'[p] = g /\ committed'[p] = tracks
        /\ \A q \in Paths \ {p} : files'[q] = files[q] /\ committed'[q] = committed[q]
    BY <2>4 DEF DiskTypes
  <2>6. Shown'
    BY <2>2, <2>3, <2>4, <2>5 DEF Shown, Shows, Blocks_
  <2>7. LiveBlocks' = LiveBlocks /\ Open' = Open
    BY <2>1, <2>4, <2>5, LiveBlocksNext DEF LiveBlocks, Open
  <2>8. Anchored'
    BY <2>1, <2>4, <2>5, <2>7 DEF Anchored, Permanent
  <2>9. InFlight' /\ Names' /\ Marks'
    BY <2>1, <2>4, <2>5 DEF InFlight, Names, SavingAs, Marks, Permanent
  <2> QED
    BY <2>6, <2>8, <2>9
(* Deletions of the autosave keep everything else.                         *)
<1>15. CASE DropOriginalAutosave \/ CloseRecovered \/ SkipCompaction
            \/ RewriteSavedAutosave
  <2>1. path \in Paths /\ Open \in File
    BY <1>15, OpenIsFile
    DEF DropOriginalAutosave, CloseRecovered, SkipCompaction, RewriteSavedAutosave
  <2>2. PICK f \in File : f.rows = Open.rows /\ f.project = Open.project /\ Here(f)
    BY <1>15, <2>1, AutoSaveDeleteFields
    DEF DropOriginalAutosave, CloseRecovered, SkipCompaction, RewriteSavedAutosave
  <2>3. /\ flags'.temporary = flags.temporary /\ flags'.recovered = flags.recovered
        /\ UNCHANGED <<temps, backs, committed, path, dest, history, tracks, lastSaved, clip>>
    BY <1>15
    DEF DropOriginalAutosave, CloseRecovered, SkipCompaction, RewriteSavedAutosave,
        RestTypes
  <2>4. \/ pc = "copied" /\ pc' = "dropped"
        \/ pc = "closing" /\ pc' \in {"clearing", "bypassing", "notCompacted"}
        \/ pc = "rewritten" /\ pc' = "reverted"
    BY <1>15
    DEF DropOriginalAutosave, CloseRecovered, SkipCompaction, RewriteSavedAutosave
  <2>5. Blocks_(Open.project) \subseteq Open.rows
    BY <2>1 DEF Shown, Shows, Open
  <2>6. Shown' /\ Open'.project = Open.project
    BY <2>1, <2>2, <2>3, <2>5, HereKeepsShown, HereChanges DEF FileOrNone, Open
  <2>7. LiveBlocks' = LiveBlocks
    BY <2>3, LiveBlocksNext DEF LiveBlocks
  <2>8. Anchored'
    BY <2>3, <2>4, <2>6, <2>7 DEF Anchored, Permanent
  <2>9. InFlight' /\ Names'
    BY <2>3, <2>4 DEF InFlight, Names, SavingAs
  <2>10. Marks'
    BY <2>3, <2>4 DEF Marks, SavingAs, Permanent
  <2> QED
    BY <2>6, <2>8, <2>9, <2>10
<1>16. CASE PruneOriginal
  <2> DEFINE g == DeleteBlocks(Open, Blocks \ Blocks_(lastSaved))
  <2>1. path \in Paths /\ Open \in File
    BY <1>16, OpenIsFile DEF PruneOriginal
  <2>2. /\ g \in File /\ g.rows = Open.rows \ (Blocks \ Blocks_(lastSaved))
        /\ g.project = Open.project
    BY <2>1, DeleteFields
  <2>3. /\ Here(g) /\ pc = "dropped" /\ pc' = "compacting"
        /\ UNCHANGED <<temps, backs, committed, path, dest, memory>>
    BY <1>16 DEF PruneOriginal
  <2>4. Open.project = lastSaved /\ Blocks_(Open.project) \subseteq Open.rows /\ Permanent
    BY <2>1, <2>3 DEF Shown, Shows, Anchored, Marks, Open
  <2> HIDE DEF g
  <2>5. Blocks_(g.project) \subseteq g.rows
    BY <2>2, <2>4
  <2>6. Shown' /\ Open'.project = Open.project
    BY <2>1, <2>2, <2>3, <2>5, HereKeepsShown, HereChanges DEF FileOrNone, Open
  <2>7. LiveBlocks' = LiveBlocks
    BY <2>3, LiveBlocksNext DEF LiveBlocks
  <2>8. Anchored'
    BY <2>3, <2>6, <2>7 DEF Anchored, Permanent
  <2>9. InFlight' /\ Names' /\ Marks'
    BY <2>3, <2>4 DEF InFlight, Names, SavingAs, Marks, Permanent
  <2> QED
    BY <2>6, <2>8, <2>9
<1>17. CASE SwitchToCopy
  <2>1. /\ SavingAs /\ UNCHANGED <<disk, memory>> /\ path' = dest
        /\ dest' = NoPath /\ pc' = "saving"
    BY <1>17 DEF SwitchToCopy, SavingAs
  <2>2. Shown'
    BY <2>1, SameKeepsShown
  <2>3. InFlight' /\ Names' /\ Anchored' /\ Marks'
    BY <2>1 DEF InFlight, Names, SavingAs, Anchored, Marks
  <2> QED
    BY <2>2, <2>3
<1>18. CASE Compact
  <2> DEFINE k == Blocks_(lastSaved)
             old == temps[path]
             copy == CopiedOver(Open, k, k, old)
  <2>1. path \in Paths /\ Open \in File /\ old \in FileOrNone /\ k \in Docs
    BY <1>18, OpenIsFile DEF Compact, DiskTypes, RestTypes, Blocks_
  <2>2. /\ temps' = [temps EXCEPT ![path] = copy] /\ pc = "compacting" /\ pc' = "compactCopied"
        /\ UNCHANGED <<files, backs, committed, path, dest, memory>>
    BY <1>18 DEF Compact
  <2>3. /\ Permanent /\ lastSaved \in Docs /\ lastSaved = committed[path]
        /\ k \subseteq Open.rows
    BY <2>1, <2>2 DEF Shown, Shows, Anchored, Marks, Open, RestTypes
  <2>4. k = lastSaved
    BY <2>3 DEF Blocks_
  <2> HIDE DEF k, old
  <2>5. /\ copy \in File /\ Open.rows \cap k \subseteq copy.rows
        /\ copy.project = k
    BY <2>1, CopiedOverFields
  <2> HIDE DEF copy
  <2>6. temps'[path] = copy
    BY <2>1, <2>2 DEF DiskTypes
  <2>7. InFlight'
    BY <2>5, <2>2, <2>3, <2>6, <2>4 DEF InFlight, Shows, Blocks_
  <2>8. Shown' /\ LiveBlocks' = LiveBlocks /\ Open' = Open
    BY <2>2, SameKeepsShown, LiveBlocksNext DEF LiveBlocks, Open
  <2>9. Anchored'
    BY <2>2, <2>8 DEF Anchored, Permanent
  <2>10. Names' /\ Marks'
    BY <2>2, <2>3 DEF Names, SavingAs, Marks, Permanent
  <2> QED
    BY <2>7, <2>8, <2>9, <2>10
<1>19. CASE CompactFails \/ KeepOriginal
  <2>1. /\ pc \in {"compacting", "compactCopied"} /\ pc' = "notCompacted" /\ Permanent
        /\ UNCHANGED <<files, backs, committed, path, dest, memory>>
    BY <1>19 DEF CompactFails, KeepOriginal, CompactionStops, Marks
  <2>2. Shown' /\ LiveBlocks' = LiveBlocks /\ Open' = Open
    BY <2>1, SameKeepsShown, LiveBlocksNext DEF LiveBlocks, Open
  <2>3. Anchored'
    BY <2>1, <2>2 DEF Anchored, Permanent
  <2>4. InFlight' /\ Names' /\ Marks'
    BY <2>1 DEF InFlight, Names, SavingAs, Marks, Permanent
  <2> QED
    BY <2>2, <2>3, <2>4
<1>20. CASE MoveOriginalAway
  <2>1. path \in Paths /\ Open \in File
    BY <1>20, OpenIsFile DEF MoveOriginalAway
  <2>2. /\ backs' = [backs EXCEPT ![path] = Open] /\ Here(NoFile)
        /\ pc = "compactCopied" /\ pc' = "movedAway"
        /\ UNCHANGED <<temps, committed, path, dest, memory>>
    BY <1>20 DEF MoveOriginalAway
  <2>3. /\ backs'[path] = Open /\ files'[path] = NoFile
        /\ \A q \in Paths \ {path} : files'[q] = files[q] /\ backs'[q] = backs[q]
    BY <2>1, <2>2, HereChanges DEF FileOrNone, DiskTypes
  <2>4. Shows(Open, path) /\ Open # NoFile
    BY <2>1 DEF Shown, Open
  <2>5. Shows(backs[path], path)'
    BY <2>2, <2>3, <2>4 DEF Shows
  <2>6. Shown'
    BY <2>2, <2>3, <2>4, <2>5 DEF Shown, Shows
  <2>7. Shows(temps[path], path)'
    BY <2>2 DEF InFlight, Shows
  <2>8. InFlight'
    BY <2>5, <2>7 DEF InFlight
  <2>9. Names' /\ Anchored' /\ Marks'
    BY <2>2 DEF Names, SavingAs, Anchored, Marks, Permanent
  <2> QED
    BY <2>6, <2>8, <2>9
<1>21. CASE MoveCopyIn \/ MoveOriginalBack
  <2>1. path \in Paths /\ pc \in {"movedAway", "movedIn"} /\ Permanent
    BY <1>21 DEF MoveCopyIn, MoveOriginalBack, Phases, Marks
  <2>2. PICK f \in File : Here(f) /\ Shows(f, path)
    BY <1>21, <2>1
    DEF MoveCopyIn, MoveOriginalBack, Phases, DiskTypes, FileOrNone, InFlight
  <2>3. /\ \/ backs' = backs /\ pc' = "movedIn"
           \/ backs' = [backs EXCEPT ![path] = NoFile] /\ pc' = "notCompacted"
        /\ UNCHANGED <<committed, path, dest, memory>>
    BY <1>21 DEF MoveCopyIn, MoveOriginalBack, CompactionStops
  <2>4. /\ files'[path] = f /\ f # NoFile
        /\ \A q \in Paths \ {path} : files'[q] = files[q] /\ backs'[q] = backs[q]
    BY <2>1, <2>2, <2>3, HereChanges DEF FileOrNone, DiskTypes
  <2>5. Shown'
    BY <2>2, <2>3, <2>4 DEF Shown, Shows
  <2>6. InFlight'
    BY <2>1, <2>3 DEF InFlight, Shows
  <2>7. LiveBlocks' = LiveBlocks
    BY <2>3, LiveBlocksNext DEF LiveBlocks
  <2>8. Open'.project = committed[path] /\ lastSaved = committed[path]
    BY <2>1, <2>2, <2>3, <2>4 DEF Open, Shows, Anchored
  <2>9. Anchored'
    BY <2>1, <2>3, <2>7, <2>8 DEF Anchored, Permanent
  <2>10. Names' /\ Marks'
    BY <2>1, <2>3 DEF Names, SavingAs, Marks, Permanent
  <2> QED
    BY <2>5, <2>6, <2>9, <2>10
<1>22. CASE FinishCompact
  <2>1. /\ path \in Paths /\ Open # NoFile /\ Permanent
        /\ backs' = [backs EXCEPT ![path] = NoFile]
        /\ pc = "movedIn" /\ pc' = "compacted"
        /\ UNCHANGED <<files, temps, committed, path, dest, memory>>
    BY <1>22 DEF FinishCompact, Phases, Marks
  <2>2. \A q \in Paths \ {path} : backs'[q] = backs[q]
    BY <2>1 DEF DiskTypes
  <2>3. Shown'
    BY <2>1, <2>2 DEF Shown, Shows, Open
  <2>4. LiveBlocks' = LiveBlocks /\ Open' = Open
    BY <2>1, LiveBlocksNext DEF LiveBlocks, Open
  <2>5. Anchored'
    BY <2>1, <2>4 DEF Anchored, Permanent
  <2>6. InFlight' /\ Names' /\ Marks'
    BY <2>1 DEF InFlight, Names, SavingAs, Marks, Permanent
  <2> QED
    BY <2>3, <2>5, <2>6
<1>23. CASE Close
  <2>1. path \in Paths /\ Open \in File /\ ~SavingAs
    BY <1>23, OpenIsFile DEF Close, Phases
  <2>2. LiveBlocks' = Refs(stack, tracks', {}, lastSaved)
    BY <1>23, LiveBlocksNext DEF Close
  <2>3. tracks' \subseteq StackBlocks(stack) \cup tracks
    BY <1>23, StackHolds DEF Close, HistoryTypes
  <2>4. LiveBlocks' \subseteq LiveBlocks /\ Blocks_(lastSaved) \subseteq LiveBlocks'
    BY <2>2, <2>3 DEF LiveBlocks, Refs
  <2>5. /\ pc = "idle" /\ pc' = "closing" /\ Here(Released(Open, LiveBlocks'))
        /\ UNCHANGED <<temps, backs, committed, path, dest, saved, lastSaved, flags>>
        /\ saved = 0 => current' = saved'
    BY <1>23, <2>2 DEF Close
  <2>6. Blocks_(Open.project) \cap LiveBlocks \subseteq Blocks_(lastSaved)
    BY <2>5 DEF Anchored
  <2>7. Shown' /\ Open'.project = Open.project
    BY <2>1, <2>4, <2>5, <2>6, ReleaseKeepsShown DEF Open
  <2>8. Anchored'
    BY <2>4, <2>5, <2>6, <2>7 DEF Anchored, Permanent
  <2>9. InFlight' /\ Names' /\ Marks'
    BY <2>1, <2>5 DEF InFlight, Names, SavingAs, Marks, Permanent
  <2> QED
    BY <2>7, <2>8, <2>9
<1>24. CASE RewriteSaved
  <2> DEFINE g == WriteProject(Open, lastSaved)
  <2>1. /\ path \in Paths /\ Open \in File /\ ~SavingAs /\ Permanent
        /\ lastSaved \in Docs
    BY <1>24, OpenIsFile DEF RewriteSaved, Phases, SavingAs, RestTypes, Marks
  <2>2. g \in File /\ g.rows = Open.rows /\ g.project = lastSaved
    BY <2>1, WriteProjectFields
  <2>3. /\ Here(g) /\ pc = "notCompacted" /\ pc' = "rewritten"
        /\ UNCHANGED <<temps, backs, committed, path, dest, memory>>
    BY <1>24 DEF RewriteSaved
  <2>4. Open.project = lastSaved /\ Blocks_(Open.project) \subseteq Open.rows
    BY <2>1, <2>3 DEF Shown, Shows, Anchored, Open
  <2> HIDE DEF g
  <2>5. Shown' /\ Open'.project = Open.project
    BY <2>1, <2>2, <2>3, <2>4, HereKeepsShown, HereChanges DEF FileOrNone, Open
  <2>6. LiveBlocks' = LiveBlocks
    BY <2>3, LiveBlocksNext DEF LiveBlocks
  <2>7. Anchored'
    BY <2>3, <2>5, <2>6 DEF Anchored, Permanent
  <2>8. InFlight' /\ Names' /\ Marks'
    BY <2>1, <2>3 DEF InFlight, Names, SavingAs, Marks, Permanent
  <2> QED
    BY <2>5, <2>7, <2>8
<1>25. CASE FinishClose
  <2>1. path \in Paths /\ Open \in File
    BY <1>25, OpenIsFile DEF FinishClose
  <2>2. /\ pc' = "closed" /\ path' = NoPath /\ dest' = NoPath
        /\ UNCHANGED <<temps, backs, committed>>
    BY <1>25 DEF FinishClose, Forget
  <2>3. InFlight' /\ Names' /\ Anchored' /\ Marks'
    BY <2>2 DEF InFlight, Names, SavingAs, Anchored, Marks
  <2>4. CASE path = TempPath /\ Here(NoFile)
    <3>1. files'[path] = NoFile /\ \A q \in Paths \ {path} : files'[q] = files[q]
      BY <2>1, <2>4, HereChanges DEF FileOrNone
    <3>2. Shown'
      BY <2>2, <2>4, <3>1 DEF Shown, Shows, Names
    <3> QED
      BY <2>3, <3>2
  <2>5. CASE Here(Released(Open, Blocks_(lastSaved))) /\ pc = "clearing"
    <3>1. Blocks_(Open.project) \cap LiveBlocks \subseteq Blocks_(lastSaved)
      BY <2>5 DEF Anchored
    <3>2. Shown'
      BY <2>1, <2>2, <2>5, <3>1, ReleaseKeepsShown
    <3> QED
      BY <2>3, <3>2
  <2>6. CASE Here(Open)
    <3>1. Blocks_(Open.project) \subseteq Open.rows
      BY <2>1 DEF Shown, Shows, Open
    <3>2. Shown'
      BY <2>1, <2>2, <2>6, <3>1, HereKeepsShown
    <3> QED
      BY <2>3, <3>2
  <2> QED
    BY <1>25, <2>4, <2>5, <2>6 DEF FinishClose
<1>26. CASE Crash
  <2>1. /\ pc' = "closed" /\ path' = NoPath /\ dest' = NoPath
        /\ UNCHANGED <<files, temps, backs, committed>>
    BY <1>26 DEF Crash, Forget
  <2>2. Shown'
    BY <2>1, SameKeepsShown
  <2>3. InFlight' /\ Names' /\ Anchored' /\ Marks'
    BY <2>1 DEF InFlight, Names, SavingAs, Anchored, Marks
  <2> QED
    BY <2>2, <2>3
<1>27. CASE UNCHANGED vars
  <2>1. UNCHANGED <<disk, pc, path, dest, memory>> /\ LiveBlocks' = LiveBlocks
    BY <1>27, LiveBlocksNext DEF vars, LiveBlocks
  <2>2. Shown'
    BY <2>1, SameKeepsShown
  <2>3. InFlight' /\ Names' /\ Anchored' /\ Marks'
    BY <2>1 DEF InFlight, Shows, Names, SavingAs, Anchored, Marks, Permanent, Open
  <2> QED
    BY <2>2, <2>3
<1> QED
  BY <1>1, <1>2, <1>3, <1>4, <1>5, <1>6, <1>7, <1>8, <1>9, <1>10, <1>11, <1>12,
     <1>13, <1>14, <1>15, <1>16, <1>17, <1>18, <1>19, <1>20, <1>21, <1>22, <1>23,
     <1>24, <1>25, <1>26, <1>27
  DEF Next

LEMMA SavedInvAlways == SavesWork => (Spec => []SavedInv)
<1>1. SavesWork => (TypeInv /\ Stored /\ SavedInv /\ [Next]_vars => SavedInv')
  BY StepKeepsSaved
<1>2. CASE SavesWork
  <2>1. TypeInv /\ Stored /\ SavedInv /\ [Next]_vars => SavedInv'
    BY <1>1, <1>2
  <2> QED
    BY <2>1, InitSavedInv, StoredAlways, PTL DEF Spec
<1> QED
  BY <1>2

(* Autosaves may fail, compaction may fail, be cancelled or be cut short,  *)
(* and the process may crash between any two transactions: what the user   *)
(* saved under a name is still there, with all its blocks, as long as no   *)
(* save fails and no recovered project is saved under a new name.          *)
THEOREM SavedIsNeverLost == SavesWork => (Spec => []SavedNeverLost)
<1>1. TypeInv /\ SavedInv => SavedNeverLost
  <2> SUFFICES ASSUME TypeInv, SavedInv, NEW p \in Paths, committed[p] # NoDoc
               PROVE  \E f \in {files[p], backs[p]} \ {NoFile} :
                          f.project = committed[p] /\ ProjectDocComplete(f)
    BY DEF SavedNeverLost
  <2>1. CASE files[p] # NoFile
    BY <2>1, CompleteIsStored DEF SavedInv, Shown, Shows
  <2>2. CASE files[p] = NoFile
    BY <2>2, CompleteIsStored DEF SavedInv, Shown, Shows
  <2> QED
    BY <2>1, <2>2
<1>2. CASE SavesWork
  BY <1>1, <1>2, SavedInvAlways, StoredAlways, PTL
<1> QED
  BY <1>2

(* Under the same conditions no file shows a document that was not saved   *)
(* under its name.                                                         *)
THEOREM NothingIsCommittedSilently == SavesWork => (Spec => []NothingCommittedSilently)
<1>1. SavedInv => NothingCommittedSilently
  BY DEF SavedInv, Shown, Shows, NothingCommittedSilently
<1>2. CASE SavesWork
  BY <1>1, <1>2, SavedInvAlways, PTL
<1> QED
  BY <1>2

-----------------------------------------------------------------------------
(* What a crash leaves of the session.  Without a failing autosave the     *)
(* tracks are the current state of the history between two edits, what an  *)
(* undo left is a state of it, and the open file shows, as autosave or as  *)
(* project document, one of these or the tracks.                           *)

AutosavesWork == "autosave" \notin Faults

OnStack == {stack[i] : i \in 1 .. Len(stack)}

TracksAreCurrent ==
    pc \in {"idle", "saving", "saved"} \/ SavingAs => tracks = stack[current + 1]

CopyIsOfTracks ==
    SavingAs => files[dest].project = tracks /\ files[dest].autosave = NoDoc

Autosaved ==
    /\ pc = "autosaved" => Open.autosave = tracks
    /\ Editing \/ pc = "closing" => Open.autosave \in {NoDoc, tracks} \cup OnStack

LeftIsKept == left \in {NoDoc} \cup OnStack

Projected == pc = "saved" => Open.project = tracks

Recoverable == Editing => Blocks_(LoadedDoc(Open)) \in SessionDocs

SessionInv ==
    /\ TracksAreCurrent /\ CopyIsOfTracks
    /\ Autosaved /\ Projected /\ LeftIsKept /\ Recoverable

LEMMA CurrentOnStack ==
  ASSUME HistoryTypes, current >= 0
  PROVE  stack[current + 1] \in OnStack
BY DEF HistoryTypes, OnStack

LEMMA InitSessionInv == Init => SessionInv
BY DEF Init, SessionInv, TracksAreCurrent, CopyIsOfTracks, Autosaved, Projected,
       LeftIsKept, Recoverable, Editing, SavingAs

LEMMA StepKeepsSession ==
  ASSUME AutosavesWork, TypeInv, SessionInv, [Next]_vars
  PROVE  SessionInv'
<1>0. /\ DiskTypes /\ HistoryTypes /\ RestTypes /\ Phases
      /\ TracksAreCurrent /\ CopyIsOfTracks
      /\ Autosaved /\ Projected /\ LeftIsKept /\ Recoverable
  BY TypeParts DEF TypeInv, SessionInv
<1> USE <1>0
<1> USE DEF disk, history, memory
<1> DEFINE Goal == /\ TracksAreCurrent' /\ CopyIsOfTracks'
                   /\ Autosaved' /\ Projected' /\ LeftIsKept' /\ Recoverable'
<1> SUFFICES Goal
  BY DEF SessionInv
(* A release changes neither document.                                     *)
<1>a. ASSUME path \in Paths, NEW f \in File, NEW kept, Here(Released(f, kept))
      PROVE  /\ files'[path].project = f.project /\ files'[path].autosave = f.autosave
             /\ files'[path] # NoFile
  BY <1>a, ReleasedFields, HereChanges DEF FileOrNone
(* Where the tracks are the current state they are on the stack.           *)
<1>b. ASSUME pc \in {"idle", "saving", "saved"} \/ SavingAs
      PROVE  tracks \in OnStack /\ tracks = stack[current + 1]
  <2>1. current >= 0
    BY <1>b DEF Phases, Editing
  <2> QED
    BY <1>b, <2>1, CurrentOnStack DEF TracksAreCurrent
(* A step that changes neither document keeps what is recoverable, one that *)
(* writes the tracks makes it the tracks.                                   *)
<1>c. ASSUME Editing, SessionDocs \subseteq SessionDocs',
             Open'.project = Open.project, Open'.autosave = Open.autosave
      PROVE  Recoverable'
  BY <1>c DEF Recoverable, LoadedDoc
<1>d. ASSUME tracks \in Docs, tracks \in SessionDocs',
             \/ Open'.autosave = tracks
             \/ Open'.autosave = NoDoc /\ Open'.project = tracks
      PROVE  Recoverable'
  BY <1>d DEF Recoverable, LoadedDoc, Blocks_
<1>1. CASE NewProject
  <2>1. /\ pc' = "idle" /\ path' = TempPath /\ dest' = dest /\ pc = "closed"
        /\ stack' = <<{}>> /\ tracks' = {} /\ current' = 0 /\ left' = NoDoc
    BY <1>1 DEF NewProject, OpenedWith
  <2>2. stack'[current' + 1] = tracks' /\ Len(stack') = 1
    BY <2>1
  <2>3. Open'.autosave = NoDoc /\ Open'.project = NoDoc
    BY <1>1, <2>1, NewFileFields DEF NewProject, DiskTypes, Open
  <2>4. Recoverable'
    BY <2>1, <2>3 DEF Recoverable, LoadedDoc, Blocks_, SessionDocs
  <2> QED
    BY <2>1, <2>2, <2>3, <2>4
    DEF TracksAreCurrent, CopyIsOfTracks, Autosaved, Projected, LeftIsKept, SavingAs, Phases
<1>2. ASSUME NEW p \in Paths, Load(p)
      PROVE  Goal
  <2> DEFINE d == LoadedDoc(files[p])
  <2>1. files[p].autosave \in {NoDoc, d}
    BY DEF LoadedDoc
  <2>2. /\ pc' = "idle" /\ path' = p /\ dest' = dest /\ pc = "closed" /\ files' = files
        /\ stack' = <<d>> /\ tracks' = d /\ current' = 0 /\ left' = NoDoc
        /\ d # NoDoc
    BY <1>2 DEF Load, OpenedWith, CanLoad
  <2>5. LoadedDoc(Open)' = d
    BY <2>2 DEF LoadedDoc, Open
  <2>6. Recoverable'
    BY <2>2, <2>5 DEF Recoverable, Blocks_, SessionDocs
  <2> HIDE DEF d
  <2>3. stack'[current' + 1] = tracks' /\ Len(stack') = 1
    BY <2>2
  <2>4. Open'.autosave \in {NoDoc, tracks'}
    BY <2>1, <2>2 DEF Open
  <2> QED
    BY <2>2, <2>3, <2>4, <2>6
    DEF TracksAreCurrent, CopyIsOfTracks, Autosaved, Projected, LeftIsKept, SavingAs, Phases
<1>3. ASSUME NEW p \in Paths, RemoveUnsavedData(p)
      PROVE  Goal
  <2>1. /\ files[p] \in File /\ ~SavingAs /\ pc = "closed" /\ dest' = dest
        /\ UNCHANGED <<stack, left>>
    BY <1>3 DEF RemoveUnsavedData, Phases, DiskTypes, FileOrNone
  <2>2. OnStack' = OnStack
    BY <2>1 DEF OnStack
  <2>3. CASE pc' = "closed"
    BY <2>1, <2>2, <2>3
    DEF TracksAreCurrent, CopyIsOfTracks, Autosaved, Projected, LeftIsKept,
        Recoverable, SavingAs, Editing
  <2>4. CASE files' = [files EXCEPT ![p] = AutoSaveDelete(@)] /\ path' = p /\ pc' = "closing"
    <3>1. Open'.autosave = NoDoc
      BY <2>1, <2>4, AutoSaveDeleteFields DEF DiskTypes, Open
    <3> QED
      BY <2>1, <2>2, <2>4, <3>1
      DEF TracksAreCurrent, CopyIsOfTracks, Autosaved, Projected, LeftIsKept,
          Recoverable, SavingAs, Editing
  <2> QED
    BY <1>3, <2>1, <2>3, <2>4 DEF RemoveUnsavedData
<1>4. CASE Edit
  <2>1. path \in Paths /\ Open \in File /\ ~SavingAs /\ tracks \in OnStack
    BY <1>4, <1>b, OpenIsFile DEF Edit, Phases
  <2>2. PICK new, kept :
          new \in Docs /\ Here(InsertBlocks(Released(Open, kept), new))
    <3>1. \A b \in FreshBlocks : {b} \in Docs
      BY DEF FreshBlocks
    <3> QED
      BY <1>4, <3>1 DEF Edit
  <2>3. /\ pc = "idle" /\ pc' = "edited"
        /\ UNCHANGED <<path, dest, stack, current, left>>
    BY <1>4 DEF Edit
  <2>4. /\ InsertBlocks(Released(Open, kept), new) \in File
        /\ InsertBlocks(Released(Open, kept), new).project = Open.project
        /\ InsertBlocks(Released(Open, kept), new).autosave = Open.autosave
    BY <2>1, <2>2, ReleasedFields, InsertFields
  <2>5. Open'.project = Open.project /\ Open'.autosave = Open.autosave
    BY <2>1, <2>2, <2>3, <2>4, HereChanges DEF FileOrNone, Open
  <2>6. OnStack' = OnStack
    BY <2>3 DEF OnStack
  <2>7. Recoverable'
    <3>1. SessionDocs \subseteq SessionDocs' /\ Editing
      BY <1>b, <2>3 DEF SessionDocs, Editing
    <3> QED
      BY <1>c, <2>5, <3>1
  <2> QED
    BY <2>1, <2>3, <2>5, <2>6, <2>7
    DEF TracksAreCurrent, CopyIsOfTracks, Autosaved, Projected, LeftIsKept, SavingAs, Editing
<1>5. CASE AutoSave
  <2>1. path \in Paths /\ Open \in File /\ ~SavingAs /\ tracks \in Docs
    BY <1>5, OpenIsFile DEF AutoSave, Phases, RestTypes
  <2>2. WriteAutosave(Open, tracks) \in File /\ WriteAutosave(Open, tracks).autosave = tracks
    BY <2>1, WriteAutosaveFields
  <2>3. Open'.autosave = tracks /\ tracks # NoDoc
    BY <1>5, <2>1, <2>2, HereChanges DEF AutoSave, FileOrNone, Open
  <2>4. UNCHANGED <<stack, left, tracks>> /\ OnStack' = OnStack
    BY <1>5 DEF AutoSave, OnStack
  <2>5. Recoverable'
    BY <1>d, <2>1, <2>3, <2>4 DEF SessionDocs
  <2> QED
    BY <1>5, <2>1, <2>3, <2>4, <2>5
    DEF AutoSave, TracksAreCurrent, CopyIsOfTracks, Autosaved, Projected, LeftIsKept, SavingAs
<1>6. CASE AutoSaveFails
  BY <1>6 DEF AutoSaveFails, AutosavesWork
<1>7. CASE PushState
  <2>1. path \in Paths /\ Open \in File /\ ~SavingAs /\ tracks \in Docs /\ current >= 0
    BY <1>7, OpenIsFile DEF PushState, Phases, Editing, RestTypes
  <2>2. Len(stack') = current' + 1 /\ stack'[current' + 1] = tracks
    BY <1>7, <2>1, PushedStack DEF PushState, HistoryTypes
  <2>3. /\ pc = "autosaved" /\ pc' = "idle"
        /\ UNCHANGED <<path, dest, tracks>> /\ left' = NoDoc
        /\ \E kept : Here(Released(Open, kept))
    BY <1>7 DEF PushState
  <2>4. Open'.autosave = tracks /\ tracks # NoDoc
    BY <2>1, <2>3, <1>a DEF Open, Autosaved
  <2>5. Recoverable'
    BY <1>d, <2>1, <2>3, <2>4 DEF SessionDocs
  <2> QED
    BY <2>1, <2>2, <2>3, <2>4, <2>5
    DEF TracksAreCurrent, CopyIsOfTracks, Autosaved, Projected, LeftIsKept, SavingAs
<1>8. ASSUME NEW i \in {current - 1, current + 1}, UndoRedo(i)
      PROVE  Goal
  <2>1. /\ path \in Paths /\ Open \in File /\ ~SavingAs
        /\ tracks \in Docs /\ tracks \in OnStack
    BY <1>8, <1>b, OpenIsFile DEF UndoRedo, Phases, RestTypes
  <2>2. WriteAutosave(Open, tracks) \in File /\ WriteAutosave(Open, tracks).autosave = tracks
    BY <2>1, WriteAutosaveFields
  <2>3. /\ pc' = "idle" /\ tracks' = stack[i + 1] /\ current' = i
        /\ UNCHANGED <<path, dest, stack>> /\ left' = tracks
        /\ \E kept : Here(Released(WriteAutosave(Open, tracks), kept))
    BY <1>8 DEF UndoRedo
  <2>4. Open'.autosave = tracks /\ tracks # NoDoc
    BY <2>1, <2>2, <2>3, <1>a DEF Open
  <2>5. OnStack' = OnStack
    BY <2>3 DEF OnStack
  <2>6. Recoverable'
    BY <1>d, <2>1, <2>3, <2>4 DEF SessionDocs
  <2> QED
    BY <2>1, <2>3, <2>4, <2>5, <2>6
    DEF TracksAreCurrent, CopyIsOfTracks, Autosaved, Projected, LeftIsKept, SavingAs
(* Steps that leave both documents and the history alone.                  *)
<1>9. CASE (\E b \in Blocks : Copy(b)) \/ MoveProjectFails \/ SaveAsFails \/ SaveFails
  <2>1. path \in Paths /\ Open \in File /\ ~SavingAs
    BY <1>9, OpenIsFile DEF Copy, MoveProjectFails, SaveAsFails, SaveFails, Phases
  <2>2. /\ pc \in {"idle", "saving", "saved"} /\ pc' = "idle"
        /\ UNCHANGED <<path, dest, stack, current, left, tracks>>
        /\ \E kept : Here(Released(Open, kept))
    BY <1>9 DEF Copy, MoveProjectFails, SaveAsFails, SaveFails, UpdateSavedState
  <2>3. Open'.project = Open.project /\ Open'.autosave = Open.autosave
    BY <2>1, <2>2, <1>a DEF Open
  <2>4. OnStack' = OnStack
    BY <2>2 DEF OnStack
  <2>5. Recoverable'
    BY <1>c, <2>2, <2>3 DEF SessionDocs, Editing
  <2> QED
    BY <2>1, <2>2, <2>3, <2>4, <2>5
    DEF TracksAreCurrent, CopyIsOfTracks, Autosaved, Projected, LeftIsKept, SavingAs, Editing
<1>10. ASSUME NEW p \in Paths, MoveProject(p)
      PROVE  Goal
  <2>1. path \in Paths /\ ~SavingAs
    BY <1>10, OpenIsFile DEF MoveProject, Phases
  <2>2. /\ pc = "idle" /\ pc' = "saving" /\ Open' = Open
        /\ UNCHANGED <<dest, stack, current, left, tracks>>
    BY <1>10, <2>1 DEF MoveProject, DiskTypes, Open
  <2>3. OnStack' = OnStack
    BY <2>2 DEF OnStack
  <2>4. Recoverable'
    BY <1>c, <2>2, <2>2 DEF SessionDocs, Editing
  <2> QED
    BY <2>1, <2>2, <2>3, <2>4
    DEF TracksAreCurrent, CopyIsOfTracks, Autosaved, Projected, LeftIsKept, SavingAs, Editing
<1>11. CASE Save
  <2>1. /\ pc = "idle" /\ pc' = "saving" /\ UNCHANGED <<disk, path, dest, memory>> /\ ~SavingAs
    BY <1>11 DEF Save, Phases
  <2>2. OnStack' = OnStack /\ Open' = Open
    BY <2>1 DEF OnStack, Open
  <2>3. Recoverable'
    BY <1>c, <2>1, <2>2 DEF SessionDocs, Editing
  <2> QED
    BY <2>1, <2>2, <2>3
    DEF TracksAreCurrent, CopyIsOfTracks, Autosaved, Projected, LeftIsKept, SavingAs, Editing
<1>12. CASE UpdateSaved
  <2> DEFINE written == WriteProject(Open, tracks)
  <2>1. path \in Paths /\ Open \in File /\ ~SavingAs /\ tracks \in Docs
    BY <1>12, OpenIsFile DEF UpdateSaved, Phases, RestTypes
  <2>2. written \in File /\ written.project = tracks /\ written.autosave = Open.autosave
    BY <2>1, WriteProjectFields
  <2>3. /\ pc = "saving" /\ pc' = "saved" /\ Here(written) /\ UNCHANGED <<path, dest, memory>>
    BY <1>12 DEF UpdateSaved
  <2> HIDE DEF written
  <2>4. Open'.project = tracks /\ Open'.autosave = Open.autosave
    BY <2>1, <2>2, <2>3, HereChanges DEF FileOrNone, Open
  <2>5. OnStack' = OnStack
    BY <2>3 DEF OnStack
  <2>6. Recoverable'
    <3>1. SessionDocs \subseteq SessionDocs' /\ tracks \in SessionDocs' /\ Editing
      BY <2>3 DEF SessionDocs, Editing
    <3>2. CASE Open.autosave = NoDoc
      BY <1>d, <2>1, <2>4, <3>1, <3>2
    <3>3. CASE Open.autosave # NoDoc
      BY <2>4, <3>1, <3>3 DEF Recoverable, LoadedDoc
    <3> QED
      BY <3>2, <3>3
  <2> QED
    BY <2>1, <2>3, <2>4, <2>5, <2>6
    DEF TracksAreCurrent, CopyIsOfTracks, Autosaved, Projected, LeftIsKept, SavingAs, Editing
<1>13. CASE FinishSave
  <2> DEFINE written == AutoSaveDelete(Open)
  <2>1. path \in Paths /\ Open \in File /\ ~SavingAs /\ tracks \in Docs
    BY <1>13, OpenIsFile DEF FinishSave, Phases, RestTypes
  <2>2. written \in File /\ written.project = Open.project /\ written.autosave = NoDoc
    BY <2>1, AutoSaveDeleteFields
  <2>3. /\ pc = "saved" /\ pc' = "idle" /\ \E kept : Here(Released(written, kept))
        /\ UNCHANGED <<path, dest, stack, current, tracks>> /\ left' = NoDoc
    BY <1>13 DEF FinishSave, UpdateSavedState
  <2> HIDE DEF written
  <2>4. Open'.project = tracks /\ Open'.autosave = NoDoc
    BY <2>1, <2>2, <2>3, <1>a DEF Open, Projected
  <2>5. Recoverable'
    BY <1>d, <2>1, <2>3, <2>4 DEF SessionDocs
  <2> QED
    BY <2>1, <2>3, <2>4, <2>5
    DEF TracksAreCurrent, CopyIsOfTracks, Autosaved, Projected, LeftIsKept, SavingAs, Editing
<1>14. ASSUME NEW p \in Paths, SaveAs(p)
      PROVE  Goal
  <2> DEFINE copy == Copied(Open, Blocks, tracks)
  <2>1. path \in Paths /\ Open \in File /\ tracks \in Docs
    BY <1>14, OpenIsFile DEF SaveAs, RestTypes
  <2>2. copy \in File /\ copy.project = tracks /\ copy.autosave = NoDoc
    BY <2>1, CopiedFields
  <2>3. /\ pc = "idle" /\ pc' = "copied" /\ dest' = p /\ p # path
        /\ files' = [files EXCEPT ![p] = copy] /\ UNCHANGED <<path, memory>>
    BY <1>14 DEF SaveAs
  <2> HIDE DEF copy
  <2>4. Open' = Open /\ files'[p] = copy
    BY <2>1, <2>3 DEF DiskTypes, Open
  <2>5. OnStack' = OnStack
    BY <2>3 DEF OnStack
  <2>6. Recoverable'
    BY <1>c, <2>3, <2>4 DEF SessionDocs, Editing
  <2> QED
    BY <2>2, <2>3, <2>4, <2>5, <2>6
    DEF TracksAreCurrent, CopyIsOfTracks, Autosaved, Projected, LeftIsKept, SavingAs, Editing
<1>15. CASE DropOriginalAutosaveFails
  <2> DEFINE kept == Refs(stack, tracks, clip, tracks)
             freed == Released(Open, kept)
  <2>1. path \in Paths /\ Open \in File /\ SavingAs /\ dest # path
    BY <1>15, OpenIsFile DEF DropOriginalAutosaveFails, Phases
  <2>2. freed \in File /\ freed.project = Open.project /\ freed.autosave = Open.autosave
    BY <2>1, ReleasedFields
  <2>3. /\ HereAndThere(freed, dest, NoFile) /\ pc = "copied" /\ pc' = "idle"
        /\ dest' = NoPath /\ UNCHANGED <<path, stack, current, left, tracks>>
    BY <1>15 DEF DropOriginalAutosaveFails
  <2> HIDE DEF kept, freed
  <2>4. Open'.project = Open.project /\ Open'.autosave = Open.autosave
    BY <2>1, <2>2, <2>3 DEF HereAndThere, DiskTypes, Open
  <2>5. OnStack' = OnStack
    BY <2>3 DEF OnStack
  <2>6. Recoverable'
    BY <1>c, <2>3, <2>4 DEF SessionDocs, Editing
  <2> QED
    BY <2>1, <2>3, <2>4, <2>5, <2>6
    DEF TracksAreCurrent, CopyIsOfTracks, Autosaved, Projected, LeftIsKept, SavingAs, Editing
<1>16. CASE SwitchToCopy
  <2>1. /\ SavingAs /\ UNCHANGED <<disk, memory>> /\ path' = dest
        /\ dest' = NoPath /\ pc' = "saving"
    BY <1>16 DEF SwitchToCopy, SavingAs
  <2>2. Open'.project = tracks /\ Open'.autosave = NoDoc
    BY <2>1 DEF CopyIsOfTracks, Open
  <2>3. Recoverable'
    BY <1>d, <2>1, <2>2 DEF SessionDocs, RestTypes
  <2>4. OnStack' = OnStack
    BY <2>1 DEF OnStack
  <2> QED
    BY <2>1, <2>2, <2>3, <2>4
    DEF TracksAreCurrent, CopyIsOfTracks, Autosaved, Projected, LeftIsKept, SavingAs, Editing
(* Nothing is promised of the original during pruning and compaction.      *)
<1>17. CASE DropOriginalAutosave \/ PruneOriginal \/ Compact \/ CompactFails
            \/ MoveOriginalAway \/ KeepOriginal \/ MoveCopyIn \/ MoveOriginalBack
            \/ FinishCompact
  <2>1. path \in Paths
    BY <1>17
    DEF DropOriginalAutosave, PruneOriginal, Compact, CompactFails, MoveOriginalAway,
        KeepOriginal, MoveCopyIn, MoveOriginalBack, FinishCompact, Phases
  <2>2. /\ UNCHANGED <<dest, stack, current, left, tracks>>
        /\ files' = files \/ \E f : Here(f)
        /\ pc' \in {"dropped", "compacting", "compactCopied", "movedAway", "movedIn",
                    "compacted", "notCompacted"}
    BY <1>17
    DEF DropOriginalAutosave, PruneOriginal, Compact, CompactFails, MoveOriginalAway,
        KeepOriginal, MoveCopyIn, MoveOriginalBack, FinishCompact, CompactionStops
  <2>3. SavingAs => files'[dest] = files[dest]
    BY <2>1, <2>2 DEF Here, DiskTypes, Phases, SavingAs, RestTypes
  <2>4. OnStack' = OnStack
    BY <2>2 DEF OnStack
  <2> QED
    BY <2>2, <2>3, <2>4
    DEF TracksAreCurrent, CopyIsOfTracks, Autosaved, Projected, LeftIsKept,
        Recoverable, SavingAs, Editing
<1>18. CASE Close
  <2>1. path \in Paths /\ Open \in File /\ ~SavingAs /\ tracks \in OnStack
    BY <1>18, <1>b, OpenIsFile DEF Close, Phases
  <2>2. /\ pc = "idle" /\ pc' = "closing" /\ \E kept : Here(Released(Open, kept))
        /\ UNCHANGED <<path, dest, stack, left>>
    BY <1>18 DEF Close
  <2>3. Open'.autosave = Open.autosave /\ OnStack' = OnStack
    BY <2>1, <2>2, <1>a DEF Open, OnStack
  <2> QED
    BY <2>1, <2>2, <2>3
    DEF TracksAreCurrent, CopyIsOfTracks, Autosaved, Projected, LeftIsKept,
        Recoverable, SavingAs, Editing
<1>19. CASE CloseRecovered \/ CloseNew \/ CompactOnClose \/ SkipCompaction
            \/ RewriteSaved \/ RewriteSavedAutosave \/ SetBypass \/ FinishClose \/ Crash
  <2>1. /\ pc' \in {"clearing", "bypassing", "compacting", "notCompacted", "rewritten",
                    "reverted", "closed"}
        /\ ~SavingAs' /\ (UNCHANGED <<stack, left>> \/ left' = NoDoc)
    BY <1>19
    DEF CloseRecovered, CloseNew, CompactOnClose, SkipCompaction, RewriteSaved,
        RewriteSavedAutosave, SetBypass, FinishClose, Crash, Forget, Phases, SavingAs
  <2>2. LeftIsKept'
    BY <2>1 DEF LeftIsKept, OnStack
  <2> QED
    BY <2>1, <2>2
    DEF TracksAreCurrent, CopyIsOfTracks, Autosaved, Projected, Recoverable, Editing
<1>20. CASE UNCHANGED vars
  BY <1>20
  DEF vars, TracksAreCurrent, CopyIsOfTracks, Autosaved, Projected, LeftIsKept,
      Recoverable, SessionDocs, SavingAs, Editing,
      Open, OnStack
<1> QED
  BY <1>1, <1>2, <1>3, <1>4, <1>5, <1>6, <1>7, <1>8, <1>9, <1>10, <1>11, <1>12,
     <1>13, <1>14, <1>15, <1>16, <1>17, <1>18, <1>19, <1>20
  DEF Next

LEMMA SessionInvAlways == AutosavesWork => (Spec => []SessionInv)
<1>1. CASE AutosavesWork
  <2>1. TypeInv /\ SessionInv /\ [Next]_vars => SessionInv'
    BY <1>1, StepKeepsSession
  <2> QED
    BY <2>1, InitSessionInv, StoredAlways, PTL DEF Spec
<1> QED
  BY <1>1

(* What a crash may be recovered with is in memory, and so is stored.      *)
LEMMA SessionDocsAreLive ==
  ASSUME TypeInv, SessionInv, Editing \/ SavingAs, NEW d \in SessionDocs
  PROVE  d \subseteq LiveBlocks
<1>1. HistoryTypes /\ current >= 0
  BY TypeParts DEF TypeInv, Phases
<1>2. d = tracks \/ d \in OnStack
  BY <1>1, CurrentOnStack DEF SessionInv, LeftIsKept, SessionDocs
<1>3. CASE d = tracks
  BY <1>3, LiveParts
<1>4. CASE d \in OnStack
  BY <1>1, <1>4, LiveParts, StackHolds DEF OnStack, HistoryTypes
<1> QED
  BY <1>2, <1>3, <1>4

(* Saves and compactions may fail, and a recovered project may be saved    *)
(* under a new name: as long as no autosave fails, a crash while the user  *)
(* works or saves is recovered from with the tracks, the current state of  *)
(* the history, or what an undo or redo left that no edit has followed.    *)
THEOREM CrashCostsOneEdit == AutosavesWork => (Spec => []CrashKeepsSession)
<1>1. TypeInv /\ Stored /\ SessionInv => CrashKeepsSession
  <2> SUFFICES ASSUME TypeInv, Stored, SessionInv, Editing \/ SavingAs
               PROVE  \E f \in SessionFiles :
                        LET d == Blocks_(LoadedDoc(f))
                        IN  d \in SessionDocs /\ d \subseteq f.rows
    BY DEF CrashKeepsSession, SavingAs
  <2>1. DiskTypes /\ RestTypes /\ Phases
    BY TypeParts DEF TypeInv
  <2>2. CASE Editing
    <3>1. Open \in SessionFiles
      BY <2>1, <2>2 DEF SessionFiles, Phases, Editing, Open
    <3>2. Blocks_(LoadedDoc(Open)) \in SessionDocs
      BY <2>2 DEF SessionInv, Recoverable
    <3>3. LiveBlocks \subseteq Open.rows
      BY <2>2 DEF Stored
    <3> QED
      BY <3>1, <3>2, <3>3, SessionDocsAreLive
  <2>3. CASE SavingAs
    <3>1. files[dest] \in SessionFiles
      BY <2>1, <2>3 DEF SessionFiles, Phases, SavingAs
    <3>2. Blocks_(LoadedDoc(files[dest])) = tracks
      BY <2>1, <2>3 DEF SessionInv, CopyIsOfTracks, LoadedDoc, Blocks_, RestTypes
    <3>3. tracks \in SessionDocs /\ LiveBlocks \subseteq files[dest].rows
      BY <2>3 DEF SessionDocs, Stored
    <3> QED
      BY <3>1, <3>2, <3>3, SessionDocsAreLive
  <2> QED
    BY <2>2, <2>3
<1>2. CASE AutosavesWork
  BY <1>1, <1>2, SessionInvAlways, StoredAlways, PTL
<1> QED
  BY <1>2

-----------------------------------------------------------------------------
(* The autosave has its blocks: while the project is used, because it is   *)
(* a state in memory and those are stored; after that, because it is       *)
(* deleted before rows are.  A compaction that stops half way, or that     *)
(* keeps the original because its copy is not smaller, would break the     *)
(* second, so neither may happen; nor may an autosave fail.                *)

NothingInterrupts == Faults \cap {"autosave", "compaction"} = {}

(* Where rows may go next, or have gone, the autosave has gone before.     *)
DroppedFirst ==
    /\ pc \in {"dropped", "movedIn", "compacted", "notCompacted", "rewritten",
               "reverted", "clearing"} => Open.autosave = NoDoc
    /\ SavingAs /\ pc \in {"compacting", "compactCopied"} => Open.autosave = NoDoc
    /\ Editing \/ pc = "closing" => (Open.autosave # NoDoc => flags.modified)

(* No compaction leaves anything behind.                                   *)
TempsClean ==
    /\ \A p \in Paths : temps[p] # NoFile
            => p = path /\ pc \in {"compactCopied", "movedAway"}
    /\ pc \in {"compactCopied", "movedAway"} => temps[path].autosave = NoDoc

AutosaveInv == AutosaveHasBlocks /\ DroppedFirst /\ TempsClean

(* In memory, the autosave is covered by what is stored.                   *)
LEMMA SessionAutosaveComplete ==
  TypeInv /\ Stored /\ SessionInv /\ (Editing \/ pc = "closing")
      => AutosaveDocComplete(Open)
<1> SUFFICES ASSUME TypeInv, Stored, SessionInv, Editing \/ pc = "closing"
             PROVE  AutosaveDocComplete(Open)
  OBVIOUS
<1>1. LiveBlocks \subseteq Open.rows /\ Open.autosave \in {NoDoc, tracks} \cup OnStack
  BY DEF Stored, SessionInv, Autosaved
<1>2. HistoryTypes
  BY TypeParts DEF TypeInv
<1>3. \A d \in {tracks} \cup OnStack : d \subseteq LiveBlocks
  BY <1>2, LiveParts, StackHolds DEF OnStack, HistoryTypes
<1> QED
  BY <1>1, <1>3 DEF AutosaveDocComplete

LEMMA SessionAutosaveCompleteNext ==
  (TypeInv /\ Stored /\ SessionInv /\ (Editing \/ pc = "closing")
      => AutosaveDocComplete(Open))'
BY SessionAutosaveComplete, PTL

(* A step that writes at most the open file, and leaves its autosave with  *)
(* all its blocks, keeps all autosaves complete.                           *)
LEMMA HereKeepsAutosaves ==
  ASSUME DiskTypes, AutosaveHasBlocks, path \in Paths, NEW f \in FileOrNone, Here(f),
         f # NoFile => AutosaveDocComplete(f)
  PROVE  AutosaveHasBlocks'
<1>1. files'[path] = f /\ \A q \in Paths \ {path} : files'[q] = files[q]
  BY HereChanges
<1>2. AutosaveDocComplete(f)' <=> AutosaveDocComplete(f)
  BY DEF AutosaveDocComplete
<1> QED
  BY <1>1 DEF AutosaveHasBlocks, AutosaveDocComplete

LEMMA InitAutosaveInv == Init => AutosaveInv
BY DEF Init, AutosaveInv, AutosaveHasBlocks, DroppedFirst, TempsClean, Editing, SavingAs

LEMMA StepKeepsAutosaves ==
  ASSUME NothingInterrupts, TypeInv, Stored, SessionInv, AutosaveInv, [Next]_vars,
         TypeInv', Stored', SessionInv'
  PROVE  AutosaveInv'
<1>0. /\ DiskTypes /\ HistoryTypes /\ RestTypes /\ Phases /\ DiskTypes' /\ Phases'
      /\ AutosaveHasBlocks /\ DroppedFirst /\ TempsClean
      /\ "autosave" \notin Faults /\ "compaction" \notin Faults
  <2>1. (TypeOK <=> DiskTypes /\ HistoryTypes /\ RestTypes)'
    BY TypeParts, PTL
  <2> QED
    BY <2>1, TypeParts DEF TypeInv, AutosaveInv, NothingInterrupts
<1> USE <1>0
<1> USE DEF disk, history, memory
<1> SUFFICES AutosaveHasBlocks' /\ DroppedFirst' /\ TempsClean'
  BY DEF AutosaveInv
(* While the project is used there is nothing to prove of the open file.   *)
<1>a. ASSUME Editing' \/ pc' = "closing",
             path' \in Paths,
             \A q \in Paths \ {path'} :
                 files'[q] # NoFile => AutosaveDocComplete(files'[q])
      PROVE  AutosaveHasBlocks'
  <2>1. AutosaveDocComplete(Open)'
    BY <1>a, SessionAutosaveCompleteNext
  <2>2. AutosaveDocComplete(files'[path'])
    BY <2>1 DEF Open, AutosaveDocComplete
  <2> QED
    BY <1>a, <2>2 DEF AutosaveHasBlocks, AutosaveDocComplete
(* Without leftovers, before the copy of a compaction is made.             *)
<1>b. ASSUME pc \notin {"compactCopied", "movedAway"}, temps' = temps,
             pc' \notin {"compactCopied", "movedAway"}
      PROVE  TempsClean'
  BY <1>b DEF TempsClean
(* A step that only moves on.                                              *)
<1>c. ASSUME files' = files
      PROVE  AutosaveHasBlocks'
  BY <1>c DEF AutosaveHasBlocks, AutosaveDocComplete
(* A step that deletes the autosave of the open file, or finds none.       *)
<1>d. ASSUME path \in Paths, NEW f \in FileOrNone, Here(f), f = NoFile \/ f.autosave = NoDoc
      PROVE  AutosaveHasBlocks' /\ files'[path] = f
  BY <1>d, HereKeepsAutosaves, HereChanges DEF AutosaveDocComplete
(* Steps of the user's work, and the start of a close.                     *)
<1>1. ASSUME pc \in {"closed", "idle", "edited", "autosaved", "saving", "saved"},
             pc' \in {"idle", "edited", "autosaved", "saving", "saved", "closing"},
             path' \in Paths, files'[path'] \in File, temps' = temps,
             \A q \in Paths \ {path'} : files'[q] = files[q],
             files'[path'].autosave # NoDoc => flags'.modified
      PROVE  AutosaveHasBlocks' /\ DroppedFirst' /\ TempsClean'
  <2>1. AutosaveHasBlocks'
    BY <1>1, <1>a DEF Editing, AutosaveHasBlocks
  <2>2. DroppedFirst'
    BY <1>1 DEF DroppedFirst, Open
  <2> QED
    BY <1>1, <1>b, <2>1, <2>2
<1>2. CASE NewProject
  <2>1. /\ pc' = "idle" /\ path' = TempPath /\ pc = "closed" /\ temps' = temps
        /\ files' = [files EXCEPT ![TempPath] = NewFile]
    BY <1>2 DEF NewProject, OpenedWith
  <2> QED
    BY <2>1, <1>1, NewFileFields DEF DiskTypes
<1>3. ASSUME NEW p \in Paths, Load(p)
      PROVE  AutosaveHasBlocks' /\ DroppedFirst' /\ TempsClean'
  <2>1. /\ pc' = "idle" /\ path' = p /\ pc = "closed" /\ UNCHANGED <<files, temps>>
        /\ files[p] # NoFile /\ flags'.modified = (files[p].autosave # NoDoc)
    BY <1>3 DEF Load, OpenedWith, Flags
  <2> QED
    BY <2>1, <1>1 DEF DiskTypes, FileOrNone
<1>4. ASSUME NEW p \in Paths, RemoveUnsavedData(p)
      PROVE  AutosaveHasBlocks' /\ DroppedFirst' /\ TempsClean'
  <2> DEFINE cleared == AutoSaveDelete(files[p])
  <2>1. /\ files[p] \in File /\ pc = "closed" /\ temps' = temps
        /\ \/ pc' = "closed" /\ files' = [files EXCEPT ![p] = NoFile]
           \/ pc' = "closing" /\ path' = p /\ files' = [files EXCEPT ![p] = cleared]
    BY <1>4 DEF RemoveUnsavedData, DiskTypes, FileOrNone
  <2>2. cleared \in File /\ cleared.autosave = NoDoc
    BY <2>1, AutoSaveDeleteFields
  <2> HIDE DEF cleared
  <2>3. AutosaveHasBlocks'
    BY <2>1, <2>2 DEF AutosaveHasBlocks, AutosaveDocComplete, DiskTypes
  <2>4. DroppedFirst'
    BY <2>1, <2>2 DEF DroppedFirst, DiskTypes, Open, Editing
  <2> QED
    BY <2>1, <2>3, <2>4, <1>b
<1>5. CASE Edit
  <2>1. path \in Paths /\ Open \in File
    BY <1>5, OpenIsFile DEF Edit
  <2>2. PICK new, kept :
          new \in Docs /\ Here(InsertBlocks(Released(Open, kept), new))
    <3>1. \A b \in FreshBlocks : {b} \in Docs
      BY DEF FreshBlocks
    <3> QED
      BY <1>5, <3>1 DEF Edit
  <2>3. /\ InsertBlocks(Released(Open, kept), new) \in File
        /\ InsertBlocks(Released(Open, kept), new).autosave = Open.autosave
    BY <2>1, <2>2, ReleasedFields, InsertFields
  <2>4. pc = "idle" /\ pc' = "edited" /\ UNCHANGED <<temps, path, flags>>
    BY <1>5 DEF Edit
  <2> QED
    BY <2>1, <2>2, <2>3, <2>4, <1>1, HereChanges DEF FileOrNone, DroppedFirst, Editing, Open
<1>6. CASE AutoSave
  <2>1. path \in Paths /\ Open \in File /\ tracks \in Docs
    BY <1>6, OpenIsFile DEF AutoSave, RestTypes
  <2>2. WriteAutosave(Open, tracks) \in File
    BY <2>1, WriteAutosaveFields
  <2>3. /\ pc = "edited" /\ pc' = "autosaved" /\ UNCHANGED <<temps, path>>
        /\ Here(WriteAutosave(Open, tracks)) /\ flags'.modified
    BY <1>6 DEF AutoSave, RestTypes
  <2> QED
    BY <2>1, <2>2, <2>3, <1>1, HereChanges DEF FileOrNone
<1>7. CASE AutoSaveFails
  BY <1>7 DEF AutoSaveFails
(* A release keeps the autosave.                                           *)
<1>8. CASE PushState \/ (\E b \in Blocks : Copy(b)) \/ MoveProjectFails \/ SaveAsFails
           \/ SaveFails \/ Close
  <2>1. path \in Paths /\ Open \in File
    BY <1>8, OpenIsFile DEF PushState, Copy, MoveProjectFails, SaveAsFails, SaveFails, Close
  <2>2. /\ pc \in {"idle", "autosaved", "saving", "saved"} /\ pc' \in {"idle", "closing"}
        /\ UNCHANGED <<temps, path, flags>>
    BY <1>8
    DEF PushState, Copy, MoveProjectFails, SaveAsFails, SaveFails, Close, UpdateSavedState
  <2>3. PICK kept : Here(Released(Open, kept))
    BY <1>8
    DEF PushState, Copy, MoveProjectFails, SaveAsFails, SaveFails, Close, UpdateSavedState
  <2>4. Released(Open, kept) \in File /\ Released(Open, kept).autosave = Open.autosave
    BY <2>1, ReleasedFields
  <2> QED
    BY <2>1, <2>2, <2>3, <2>4, <1>1, HereChanges
    DEF FileOrNone, DroppedFirst, Editing, Open
<1>9. ASSUME NEW i \in {current - 1, current + 1}, UndoRedo(i)
      PROVE  AutosaveHasBlocks' /\ DroppedFirst' /\ TempsClean'
  <2>1. path \in Paths /\ Open \in File /\ tracks \in Docs
    BY <1>9, OpenIsFile DEF UndoRedo, RestTypes
  <2>2. PICK kept : Here(Released(WriteAutosave(Open, tracks), kept))
    BY <1>9 DEF UndoRedo
  <2>3. Released(WriteAutosave(Open, tracks), kept) \in File
    BY <2>1, WriteAutosaveFields, ReleasedFields
  <2>4. pc = "idle" /\ pc' = "idle" /\ UNCHANGED <<temps, path>> /\ flags'.modified
    BY <1>9 DEF UndoRedo, RestTypes
  <2> QED
    BY <2>1, <2>2, <2>3, <2>4, <1>1, HereChanges DEF FileOrNone
<1>10. ASSUME NEW p \in Paths, MoveProject(p)
       PROVE  AutosaveHasBlocks' /\ DroppedFirst' /\ TempsClean'
  <2>1. path \in Paths /\ Open \in File
    BY <1>10, OpenIsFile DEF MoveProject
  <2>2. /\ pc = "idle" /\ pc' = "saving" /\ path' = p /\ temps' = temps /\ p # path
        /\ files' = [files EXCEPT ![path] = NoFile, ![p] = Open]
        /\ flags'.modified = flags.modified
    BY <1>10 DEF MoveProject, RestTypes
  <2>3. /\ files'[p] = Open /\ files'[path] = NoFile
        /\ \A q \in Paths \ {path, p} : files'[q] = files[q]
    BY <2>1, <2>2 DEF DiskTypes
  <2>4. AutosaveHasBlocks'
    BY <2>2, <2>3, <1>a DEF Editing, AutosaveHasBlocks
  <2>5. DroppedFirst'
    BY <2>2, <2>3 DEF DroppedFirst, Open, Editing
  <2> QED
    BY <2>2, <2>4, <2>5, <1>b
<1>11. CASE Save
  <2>1. pc = "idle" /\ pc' = "saving" /\ UNCHANGED <<files, temps, path, flags>>
    BY <1>11 DEF Save
  <2> QED
    BY <2>1, <1>1, OpenIsFile DEF DroppedFirst, Editing, Open
<1>12. CASE UpdateSaved
  <2>1. path \in Paths /\ Open \in File /\ tracks \in Docs
    BY <1>12, OpenIsFile DEF UpdateSaved, RestTypes
  <2>2. /\ WriteProject(Open, tracks) \in File
        /\ WriteProject(Open, tracks).autosave = Open.autosave
    BY <2>1, WriteProjectFields
  <2>3. /\ pc = "saving" /\ pc' = "saved" /\ UNCHANGED <<temps, path, flags>>
        /\ Here(WriteProject(Open, tracks))
    BY <1>12 DEF UpdateSaved
  <2> QED
    BY <2>1, <2>2, <2>3, <1>1, HereChanges DEF FileOrNone, DroppedFirst, Editing, Open
<1>13. CASE FinishSave
  <2> DEFINE written == AutoSaveDelete(Open)
  <2>1. path \in Paths /\ Open \in File
    BY <1>13, OpenIsFile DEF FinishSave
  <2>2. written \in File /\ written.autosave = NoDoc
    BY <2>1, AutoSaveDeleteFields
  <2>3. PICK kept : Here(Released(written, kept))
    BY <1>13 DEF FinishSave, UpdateSavedState
  <2>4. pc = "saved" /\ pc' = "idle" /\ UNCHANGED <<temps, path>>
    BY <1>13 DEF FinishSave
  <2> HIDE DEF written
  <2>5. Released(written, kept) \in File /\ Released(written, kept).autosave = NoDoc
    BY <2>2, ReleasedFields
  <2> QED
    BY <2>1, <2>3, <2>4, <2>5, <1>1, HereChanges DEF FileOrNone
<1>14. ASSUME NEW p \in Paths, SaveAs(p)
       PROVE  AutosaveHasBlocks' /\ DroppedFirst' /\ TempsClean'
  <2> DEFINE copy == Copied(Open, Blocks, tracks)
  <2>1. path \in Paths /\ Open \in File /\ tracks \in Docs
    BY <1>14, OpenIsFile DEF SaveAs, RestTypes
  <2>2. copy \in File /\ copy.autosave = NoDoc
    BY <2>1, CopiedFields
  <2>3. /\ pc = "idle" /\ pc' = "copied" /\ dest' = p /\ p # path
        /\ files' = [files EXCEPT ![p] = copy] /\ UNCHANGED <<temps, path, flags>>
    BY <1>14 DEF SaveAs
  <2> HIDE DEF copy
  <2>4. AutosaveHasBlocks'
    BY <2>2, <2>3 DEF AutosaveHasBlocks, AutosaveDocComplete, DiskTypes
  <2>5. DroppedFirst'
    BY <2>1, <2>3 DEF DroppedFirst, DiskTypes, Open, Editing
  <2> QED
    BY <2>3, <2>4, <2>5, <1>b
<1>15. CASE DropOriginalAutosaveFails
  <2> DEFINE kept == Refs(stack, tracks, clip, tracks)
             freed == Released(Open, kept)
  <2>1. path \in Paths /\ Open \in File /\ SavingAs /\ dest # path
    BY <1>15, OpenIsFile DEF DropOriginalAutosaveFails, Phases
  <2>2. freed \in File /\ freed.autosave = Open.autosave
    BY <2>1, ReleasedFields
  <2>3. /\ HereAndThere(freed, dest, NoFile) /\ pc = "copied" /\ pc' = "idle"
        /\ UNCHANGED <<temps, path, flags>>
    BY <1>15 DEF DropOriginalAutosaveFails
  <2> HIDE DEF kept, freed
  <2>4. /\ files'[path] = freed
        /\ \A q \in Paths \ {path} : files'[q] \in {files[q], NoFile}
    BY <2>1, <2>2, <2>3 DEF HereAndThere, DiskTypes
  <2>5. AutosaveHasBlocks'
    BY <2>1, <2>3, <2>4, <1>a DEF Editing, AutosaveHasBlocks
  <2>6. DroppedFirst'
    BY <2>2, <2>3, <2>4 DEF DroppedFirst, Open, Editing
  <2> QED
    BY <2>3, <2>5, <2>6, <1>b
(* Deletions of the autosave.                                              *)
<1>16. CASE DropOriginalAutosave \/ CloseRecovered \/ RewriteSavedAutosave
  <2>1. path \in Paths /\ Open \in File
    BY <1>16, OpenIsFile DEF DropOriginalAutosave, CloseRecovered, RewriteSavedAutosave
  <2>2. AutoSaveDelete(Open) \in File /\ AutoSaveDelete(Open).autosave = NoDoc
    BY <2>1, AutoSaveDeleteFields
  <2>3. /\ Here(AutoSaveDelete(Open)) /\ UNCHANGED <<temps, path>>
        /\ pc \in {"copied", "closing", "rewritten"}
        /\ pc' \in {"dropped", "clearing", "bypassing", "reverted"}
    BY <1>16 DEF DropOriginalAutosave, CloseRecovered, RewriteSavedAutosave
  <2>4. AutosaveHasBlocks' /\ Open'.autosave = NoDoc
    BY <2>1, <2>2, <2>3, <1>d DEF FileOrNone, Open
  <2> QED
    BY <2>3, <2>4, <1>b DEF DroppedFirst, Editing
<1>17. CASE SkipCompaction
  <2> DEFINE written == IF flags.modified THEN AutoSaveDelete(Open) ELSE Open
  <2>1. path \in Paths /\ Open \in File
    BY <1>17, OpenIsFile DEF SkipCompaction
  <2>2. /\ pc = "closing" /\ pc' = "notCompacted" /\ Here(written)
        /\ UNCHANGED <<temps, path>>
    BY <1>17 DEF SkipCompaction
  <2>3. written \in File /\ written.autosave = NoDoc
    BY <2>1, <2>2, AutoSaveDeleteFields DEF DroppedFirst
  <2> HIDE DEF written
  <2>4. AutosaveHasBlocks' /\ Open'.autosave = NoDoc
    BY <2>1, <2>2, <2>3, <1>d DEF FileOrNone, Open
  <2> QED
    BY <2>2, <2>4, <1>b DEF DroppedFirst, Editing
(* Rows are deleted, and documents written, where there is no autosave.    *)
<1>18. CASE PruneOriginal
  <2> DEFINE unused == Blocks \ Blocks_(lastSaved)
             pruned == DeleteBlocks(Open, unused)
  <2>1. path \in Paths /\ Open \in File
    BY <1>18, OpenIsFile DEF PruneOriginal
  <2>2. /\ pc = "dropped" /\ pc' = "compacting" /\ Here(pruned)
        /\ UNCHANGED <<temps, path>>
    BY <1>18 DEF PruneOriginal
  <2>3. pruned \in File /\ pruned.autosave = NoDoc
    BY <2>1, <2>2, DeleteFields DEF DroppedFirst
  <2> HIDE DEF pruned, unused
  <2>4. AutosaveHasBlocks' /\ Open'.autosave = NoDoc
    BY <2>1, <2>2, <2>3, <1>d DEF FileOrNone, Open
  <2> QED
    BY <2>2, <2>4, <1>b DEF DroppedFirst, Editing
<1>19. CASE RewriteSaved
  <2>1. path \in Paths /\ Open \in File /\ lastSaved \in Docs
    BY <1>19, OpenIsFile DEF RewriteSaved, Phases, SavingAs, RestTypes
  <2>2. /\ pc = "notCompacted" /\ pc' = "rewritten" /\ Here(WriteProject(Open, lastSaved))
        /\ UNCHANGED <<temps, path>>
    BY <1>19 DEF RewriteSaved
  <2>3. /\ WriteProject(Open, lastSaved) \in File
        /\ WriteProject(Open, lastSaved).autosave = NoDoc
    BY <2>1, <2>2, WriteProjectFields DEF DroppedFirst
  <2>4. AutosaveHasBlocks' /\ Open'.autosave = NoDoc
    BY <2>1, <2>2, <2>3, <1>d DEF FileOrNone, Open
  <2> QED
    BY <2>2, <2>4, <1>b DEF DroppedFirst, Editing
<1>20. CASE SwitchToCopy
  <2>1. /\ pc \in {"compacted", "notCompacted"} /\ pc' = "saving" /\ path' = dest
        /\ dest # NoPath /\ UNCHANGED <<files, temps>>
    BY <1>20 DEF SwitchToCopy
  <2>2. Open'.autosave = NoDoc
    BY <2>1 DEF CopyIsOfTracks, SavingAs, SessionInv, Open
  <2> QED
    BY <2>1, <2>2, <1>b, <1>c DEF DroppedFirst
(* Compaction: no leftover is in the way, and none stays.                  *)
<1>21. CASE Compact
  <2> DEFINE k == Blocks_(lastSaved)
             old == temps[path]
             copy == CopiedOver(Open, k, k, old)
  <2>1. /\ pc = "compacting" /\ pc' = "compactCopied" /\ UNCHANGED <<files, path, dest>>
        /\ temps' = [temps EXCEPT ![path] = copy]
    BY <1>21 DEF Compact
  <2>2. path \in Paths /\ Open \in File
    BY <2>1, OpenIsFile
  <2>3. k \in Docs /\ old \in FileOrNone
    BY <2>2 DEF RestTypes, Blocks_, DiskTypes
  <2> HIDE DEF k, old
  <2>4. copy \in File /\ Open.rows \cap k \subseteq copy.rows /\ copy.autosave = NoDoc
    BY <2>2, <2>3, CopiedOverFields
  <2> HIDE DEF copy
  <2>5. TempsClean'
    BY <2>1, <2>2, <2>4 DEF TempsClean, DiskTypes
  <2>6. DroppedFirst'
    BY <2>1 DEF DroppedFirst, SavingAs, Editing, Open
  <2> QED
    BY <2>1, <2>5, <2>6, <1>c
<1>22. CASE CompactFails
  <2>1. pc = "compacting" /\ Collides(Open, Blocks_(lastSaved), temps[path])
    BY <1>22 DEF CompactFails
  <2>2. temps[path] = NoFile
    BY <2>1 DEF TempsClean, Phases
  <2> QED
    BY <2>1, <2>2 DEF Collides
<1>23. CASE MoveOriginalAway
  <2>1. path \in Paths
    BY <1>23 DEF MoveOriginalAway, Phases
  <2>2. /\ pc = "compactCopied" /\ pc' = "movedAway" /\ Here(NoFile)
        /\ UNCHANGED <<temps, path>>
    BY <1>23 DEF MoveOriginalAway
  <2>3. AutosaveHasBlocks'
    BY <2>1, <2>2, <1>d DEF FileOrNone
  <2> QED
    BY <2>2, <2>3 DEF DroppedFirst, TempsClean, Editing
<1>24. CASE KeepOriginal
  <2>1. /\ pc = "compactCopied" /\ SavingAs /\ UNCHANGED <<files, path>>
        /\ pc' = "notCompacted" /\ temps' = [temps EXCEPT ![path] = NoFile]
    BY <1>24 DEF KeepOriginal, CompactionStops, SavingAs
  <2>2. TempsClean'
    BY <2>1 DEF TempsClean, DiskTypes
  <2>3. DroppedFirst'
    BY <2>1 DEF DroppedFirst, Open, Editing
  <2> QED
    BY <2>1, <2>2, <2>3, <1>c
<1>25. CASE MoveCopyIn
  <2>1. path \in Paths /\ temps[path] \in File /\ temps[path].autosave = NoDoc
    BY <1>25 DEF MoveCopyIn, Phases, DiskTypes, FileOrNone, TempsClean
  <2>2. /\ pc = "movedAway" /\ pc' = "movedIn" /\ Here(temps[path]) /\ path' = path
        /\ temps' = [temps EXCEPT ![path] = NoFile]
    BY <1>25 DEF MoveCopyIn
  <2>3. AutosaveHasBlocks' /\ Open'.autosave = NoDoc
    BY <2>1, <2>2, <1>d DEF FileOrNone, Open
  <2>4. TempsClean'
    BY <2>1, <2>2 DEF TempsClean, DiskTypes
  <2> QED
    BY <2>2, <2>3, <2>4 DEF DroppedFirst, Editing
<1>26. CASE MoveOriginalBack
  BY <1>26 DEF MoveOriginalBack
<1>27. CASE FinishCompact \/ CloseNew \/ CompactOnClose \/ SetBypass
  <2>1. /\ UNCHANGED <<files, temps, path, dest, flags>>
        /\ pc \in {"movedIn", "closing", "compacted", "reverted", "notCompacted"}
        /\ pc' \in {"compacted", "bypassing", "compacting", "clearing"}
        /\ pc' = "clearing" => pc \in {"reverted", "notCompacted"}
        /\ pc' = "compacting" => pc = "closing"
        /\ pc' = "compacted" => pc = "movedIn"
    BY <1>27 DEF FinishCompact, CloseNew, CompactOnClose, SetBypass
  <2>2. Open' = Open
    BY <2>1 DEF Open
  <2>3. DroppedFirst'
    BY <2>1, <2>2 DEF DroppedFirst, Editing, Phases, SavingAs
  <2> QED
    BY <2>1, <2>3, <1>b, <1>c
<1>28. CASE FinishClose
  <2>1. path \in Paths /\ Open \in File
    BY <1>28, OpenIsFile DEF FinishClose
  <2>2. pc' = "closed" /\ temps' = temps /\ pc \in {"clearing", "bypassing"}
    BY <1>28 DEF FinishClose
  <2>3. \/ Here(NoFile)
        \/ Here(Open)
        \/ pc = "clearing" /\ Here(Released(Open, Blocks_(lastSaved)))
    BY <1>28 DEF FinishClose
  <2>4. /\ Released(Open, Blocks_(lastSaved)) \in File
        /\ Released(Open, Blocks_(lastSaved)).autosave = Open.autosave
    BY <2>1, ReleasedFields
  <2>5. AutosaveDocComplete(Open)
    BY <2>1 DEF AutosaveHasBlocks, Open, DiskTypes
  <2>6. AutosaveHasBlocks'
    <3>1. CASE Here(NoFile)
      BY <2>1, <3>1, <1>d DEF FileOrNone
    <3>2. CASE Here(Open)
      BY <2>1, <2>5, <3>2, HereKeepsAutosaves DEF FileOrNone
    <3>3. CASE pc = "clearing" /\ Here(Released(Open, Blocks_(lastSaved)))
      BY <2>1, <2>4, <3>3, <1>d DEF FileOrNone, DroppedFirst
    <3> QED
      BY <2>3, <3>1, <3>2, <3>3
  <2> QED
    BY <2>2, <2>6, <1>b DEF DroppedFirst, Editing
<1>29. CASE Crash
  <2>1. pc' = "closed" /\ UNCHANGED <<files, temps>> /\ pc \notin {"compactCopied", "movedAway"}
    BY <1>29 DEF Crash, InCompaction
  <2> QED
    BY <2>1, <1>b, <1>c DEF DroppedFirst, Editing
<1>30. CASE UNCHANGED vars
  BY <1>30
  DEF vars, AutosaveHasBlocks, AutosaveDocComplete, DroppedFirst, TempsClean, SavingAs,
      Editing, Open
<1> QED
  BY <1>2, <1>3, <1>4, <1>5, <1>6, <1>7, <1>8, <1>9, <1>10, <1>11, <1>12, <1>13,
     <1>14, <1>15, <1>16, <1>17, <1>18, <1>19, <1>20, <1>21, <1>22, <1>23, <1>24,
     <1>25, <1>26, <1>27, <1>28, <1>29, <1>30
  DEF Next

LEMMA AutosaveInvAlways == NothingInterrupts => (Spec => []AutosaveInv)
<1>1. CASE NothingInterrupts
  <2>1. AutosavesWork
    BY <1>1 DEF NothingInterrupts, AutosavesWork
  <2>2. /\ TypeInv /\ Stored /\ SessionInv /\ AutosaveInv /\ [Next]_vars
        /\ TypeInv' /\ Stored' /\ SessionInv'
        => AutosaveInv'
    BY <1>1, StepKeepsAutosaves
  <2> QED
    BY <2>1, <2>2, InitAutosaveInv, SessionInvAlways, StoredAlways, PTL DEF Spec
<1> QED
  BY <1>1

(* As long as no autosave fails and no compaction is stopped half way, the *)
(* autosave a crash leaves names no block that the file has lost: saves    *)
(* may fail and recovered projects may be saved under new names.           *)
THEOREM AutosaveIsUsable == NothingInterrupts => (Spec => []AutosaveHasBlocks)
<1>1. AutosaveInv => AutosaveHasBlocks
  BY DEF AutosaveInv
<1>2. CASE NothingInterrupts
  BY <1>1, <1>2, AutosaveInvAlways, PTL
<1> QED
  BY <1>2

-----------------------------------------------------------------------------
(* A project that looks saved is saved.  A save that fails half way leaves *)
(* a file that is not the state the saved mark stands for; an autosave     *)
(* that fails leaves tracks that are not the current state of the history. *)

MarksWork == Faults \cap {"autosave", "save"} = {}

Working == pc \in {"idle", "edited", "autosaved"}

SavedMark ==
    /\ Working /\ flags.recovered => flags.modified
    /\ Working /\ ~flags.temporary /\ ~flags.recovered /\ saved >= 0
           => Open.project = stack[saved + 1]

LEMMA InitSavedMark == Init => SavedMark
BY DEF Init, SavedMark, Working

LEMMA StepKeepsSavedMark ==
  ASSUME MarksWork, TypeInv, SessionInv, SavedMark, [Next]_vars
  PROVE  SavedMark'
<1>0. /\ DiskTypes /\ HistoryTypes /\ RestTypes /\ Phases
      /\ TracksAreCurrent /\ Projected
      /\ "autosave" \notin Faults /\ "save" \notin Faults
  BY TypeParts DEF TypeInv, SessionInv, MarksWork
<1> USE <1>0
<1> USE DEF disk, history, memory
(* Steps that keep the saved state, its mark and its document.             *)
<1>a. ASSUME Working, UNCHANGED <<path, saved>>,
             Open'.project = Open.project,
             flags' = flags \/ flags' = [flags EXCEPT !.modified = TRUE],
             saved >= 0 => stack'[saved + 1] = stack[saved + 1]
      PROVE  SavedMark'
  BY <1>a DEF SavedMark, RestTypes
<1>b. ASSUME path \in Paths, NEW f \in File, f.project = Open.project, Here(f), path' = path
      PROVE  Open'.project = Open.project
  BY <1>b, HereChanges DEF FileOrNone, Open
<1>1. CASE NewProject
  <2>1. flags' = Flags(FALSE, FALSE, TRUE)
    BY <1>1 DEF NewProject, OpenedWith
  <2> QED
    BY <2>1 DEF SavedMark, Flags
<1>2. ASSUME NEW p \in Paths, Load(p)
      PROVE  SavedMark'
  <2> DEFINE d == LoadedDoc(files[p])
  <2>1. files[p].autosave = NoDoc => d = files[p].project
    BY DEF LoadedDoc
  <2>2. /\ path' = p /\ files' = files /\ stack' = <<d>> /\ saved' = 0
        /\ flags'.recovered = (files[p].autosave # NoDoc)
        /\ flags'.modified = (files[p].autosave # NoDoc)
    BY <1>2 DEF Load, OpenedWith, Flags
  <2> HIDE DEF d
  <2>3. stack'[saved' + 1] = d
    BY <2>2
  <2> QED
    BY <2>1, <2>2, <2>3 DEF SavedMark, Open
<1>3. CASE Edit
  <2>1. path \in Paths /\ Open \in File
    BY <1>3, OpenIsFile DEF Edit
  <2>2. PICK new, kept :
          new \in Docs /\ Here(InsertBlocks(Released(Open, kept), new))
    <3>1. \A b \in FreshBlocks : {b} \in Docs
      BY DEF FreshBlocks
    <3> QED
      BY <1>3, <3>1 DEF Edit
  <2>3. /\ InsertBlocks(Released(Open, kept), new) \in File
        /\ InsertBlocks(Released(Open, kept), new).project = Open.project
    BY <2>1, <2>2, ReleasedFields, InsertFields
  <2>4. pc = "idle" /\ UNCHANGED <<path, stack, saved, flags>>
    BY <1>3 DEF Edit
  <2> QED
    BY <2>1, <2>2, <2>3, <2>4, <1>a, <1>b DEF Working
<1>4. CASE AutoSave
  <2>1. path \in Paths /\ Open \in File /\ tracks \in Docs
    BY <1>4, OpenIsFile DEF AutoSave, RestTypes
  <2>2. /\ WriteAutosave(Open, tracks) \in File
        /\ WriteAutosave(Open, tracks).project = Open.project
    BY <2>1, WriteAutosaveFields
  <2>3. /\ pc = "edited" /\ Here(WriteAutosave(Open, tracks)) /\ UNCHANGED <<path, stack, saved>>
        /\ flags' = [flags EXCEPT !.modified = TRUE]
    BY <1>4 DEF AutoSave
  <2> QED
    BY <2>1, <2>2, <2>3, <1>a, <1>b DEF Working
<1>5. CASE PushState
  <2>1. path \in Paths /\ Open \in File /\ current >= 0
    BY <1>5, OpenIsFile DEF PushState, Phases, Editing
  <2>2. PICK kept : Here(Released(Open, kept))
    BY <1>5 DEF PushState
  <2>3. Released(Open, kept) \in File /\ Released(Open, kept).project = Open.project
    BY <2>1, ReleasedFields
  <2>4. /\ pc = "autosaved" /\ UNCHANGED <<path, flags>>
        /\ stack' = Append(SubSeq(stack, 1, current + 1), tracks)
        /\ saved' = IF saved > current THEN -1 ELSE saved
    BY <1>5 DEF PushState
  <2>5. Open'.project = Open.project
    BY <2>1, <2>2, <2>3, <2>4, <1>b
  <2>6. CASE saved > current
    BY <2>4, <2>6 DEF SavedMark, Working
  <2>7. CASE saved <= current /\ saved >= 0
    <3>1. saved + 1 \in 1 .. current + 1
      BY <2>1, <2>7 DEF HistoryTypes
    <3>2. stack'[saved + 1] = stack[saved + 1]
      BY <2>1, <2>4, <3>1, PushedStack DEF HistoryTypes, RestTypes
    <3>3. saved' = saved
      BY <2>4, <2>7 DEF HistoryTypes
    <3> QED
      BY <2>4, <2>5, <3>2, <3>3, <1>a DEF Working
  <2>8. CASE saved < 0
    BY <2>1, <2>4, <2>5, <2>8, <1>a DEF Working, HistoryTypes
  <2> QED
    BY <2>6, <2>7, <2>8 DEF HistoryTypes
<1>6. ASSUME NEW i \in {current - 1, current + 1}, UndoRedo(i)
      PROVE  SavedMark'
  <2>1. path \in Paths /\ Open \in File /\ tracks \in Docs
    BY <1>6, OpenIsFile DEF UndoRedo, RestTypes
  <2>2. PICK kept : Here(Released(WriteAutosave(Open, tracks), kept))
    BY <1>6 DEF UndoRedo
  <2>3. /\ Released(WriteAutosave(Open, tracks), kept) \in File
        /\ Released(WriteAutosave(Open, tracks), kept).project = Open.project
    BY <2>1, WriteAutosaveFields, ReleasedFields
  <2>4. /\ pc = "idle" /\ UNCHANGED <<path, stack, saved>>
        /\ flags' = [flags EXCEPT !.modified = TRUE]
    BY <1>6 DEF UndoRedo
  <2> QED
    BY <2>1, <2>2, <2>3, <2>4, <1>a, <1>b DEF Working
<1>7. ASSUME NEW b \in Blocks, Copy(b)
      PROVE  SavedMark'
  <2>1. path \in Paths /\ Open \in File
    BY <1>7, OpenIsFile DEF Copy
  <2>2. PICK kept : Here(Released(Open, kept))
    BY <1>7 DEF Copy
  <2>3. Released(Open, kept) \in File /\ Released(Open, kept).project = Open.project
    BY <2>1, ReleasedFields
  <2>4. pc = "idle" /\ UNCHANGED <<path, stack, saved, flags>>
    BY <1>7 DEF Copy
  <2> QED
    BY <2>1, <2>2, <2>3, <2>4, <1>a, <1>b DEF Working
(* The end of a save makes the mark, the document and the tracks agree.    *)
<1>8. CASE FinishSave
  <2> DEFINE written == AutoSaveDelete(Open)
  <2>1. path \in Paths /\ Open \in File /\ Open.project = tracks
    BY <1>8, OpenIsFile DEF FinishSave, Projected
  <2>2. written \in File /\ written.project = Open.project
    BY <2>1, AutoSaveDeleteFields
  <2>3. PICK kept : Here(Released(written, kept))
    BY <1>8 DEF FinishSave, UpdateSavedState
  <2>4. /\ pc = "saved" /\ UNCHANGED <<path, stack>> /\ saved' = current
        /\ flags' = Flags(FALSE, FALSE, FALSE)
    BY <1>8 DEF FinishSave
  <2> HIDE DEF written
  <2>5. Released(written, kept) \in File /\ Released(written, kept).project = Open.project
    BY <2>2, ReleasedFields
  <2>6. Open'.project = tracks
    BY <2>1, <2>3, <2>4, <2>5, <1>b
  <2>7. tracks = stack[current + 1]
    BY <2>4 DEF TracksAreCurrent
  <2> QED
    BY <2>4, <2>6, <2>7 DEF SavedMark, Flags
<1>9. CASE AutoSaveFails \/ MoveProjectFails \/ SaveFails \/ SaveAsFails
           \/ DropOriginalAutosaveFails
  BY <1>9
  DEF AutoSaveFails, MoveProjectFails, SaveFails, SaveAsFails, DropOriginalAutosaveFails
(* Elsewhere the mark means nothing.                                       *)
<1>10. CASE \/ \E p \in Paths : RemoveUnsavedData(p) \/ MoveProject(p) \/ SaveAs(p)
            \/ Save \/ UpdateSaved \/ DropOriginalAutosave \/ PruneOriginal
            \/ SwitchToCopy \/ Compact \/ CompactFails \/ MoveOriginalAway \/ KeepOriginal
            \/ MoveCopyIn \/ MoveOriginalBack \/ FinishCompact
  <2>1. pc' \in {"closed", "closing", "saving", "copied", "saved", "dropped", "compacting",
                 "compactCopied", "notCompacted", "movedAway", "movedIn", "compacted"}
    BY <1>10
    DEF RemoveUnsavedData, MoveProject, SaveAs, Save, UpdateSaved, DropOriginalAutosave,
        PruneOriginal, SwitchToCopy, Compact, CompactFails, MoveOriginalAway, KeepOriginal,
        MoveCopyIn, MoveOriginalBack, FinishCompact, CompactionStops
  <2> QED
    BY <2>1 DEF SavedMark, Working
<1>11. CASE Close \/ CloseRecovered \/ CloseNew \/ CompactOnClose \/ SkipCompaction
            \/ RewriteSaved \/ RewriteSavedAutosave \/ SetBypass \/ FinishClose \/ Crash
  <2>1. pc' \in {"closing", "clearing", "bypassing", "compacting", "notCompacted",
                 "rewritten", "reverted", "closed"}
    BY <1>11
    DEF Close, CloseRecovered, CloseNew, CompactOnClose, SkipCompaction, RewriteSaved,
        RewriteSavedAutosave, SetBypass, FinishClose, Crash
  <2> QED
    BY <2>1 DEF SavedMark, Working
<1>12. CASE UNCHANGED vars
  BY <1>12 DEF vars, SavedMark, Working, Open
<1> QED
  BY <1>1, <1>2, <1>3, <1>4, <1>5, <1>6, <1>7, <1>8, <1>9, <1>10, <1>11, <1>12
  DEF Next

(* As long as no save and no autosave fails, a project that is closed      *)
(* without a question has its tracks in its file, whatever compactions and *)
(* crashes came before.                                                    *)
THEOREM ClosingWithoutAQuestionIsSafe == MarksWork => (Spec => []CleanMeansSaved)
<1>1. TypeInv /\ SessionInv /\ SavedMark => CleanMeansSaved
  <2> SUFFICES ASSUME TypeInv, SessionInv, SavedMark, pc = "idle", ~flags.temporary,
                      ~HasUnsavedChanges
               PROVE  Open.project = tracks
    BY DEF CleanMeansSaved
  <2>1. saved = current /\ ~flags.recovered
    BY DEF HasUnsavedChanges, SavedMark, Working
  <2>2. current >= 0 /\ tracks = stack[current + 1]
    BY DEF TypeInv, Phases, Editing, SessionInv, TracksAreCurrent
  <2> QED
    BY <2>1, <2>2 DEF SavedMark, Working
<1>2. CASE MarksWork
  <2>1. AutosavesWork
    BY <1>2 DEF MarksWork, AutosavesWork
  <2>2. TypeInv /\ SessionInv /\ SavedMark /\ [Next]_vars => SavedMark'
    BY <1>2, StepKeepsSavedMark
  <2> QED
    BY <1>1, <2>1, <2>2, InitSavedMark, SessionInvAlways, StoredAlways, PTL DEF Spec
<1> QED
  BY <1>2
=============================================================================
