---------------------------- MODULE ProjectStore ----------------------------
(***************************************************************************)
(* The life of the sample blocks of a project: created by edits, kept      *)
(* alive by the undo history, the tracks, the clipboard and the copy of    *)
(* the last saved tracks, deleted with their last reference, and named by  *)
(* the documents in the project files.  Save, Save As, compaction, close   *)
(* and loading are sequences of transactions and renames; the process may  *)
(* crash between any two of them.                                          *)
(***************************************************************************)
EXTENDS ProjectFile

CONSTANTS
    Paths,      \* file names
    TempPath,   \* the unsaved project in the temporary directory
    NoPath,     \* no file name
    MaxStates,  \* bound: states on the undo stack
    Faults      \* which of the hazards in FaultKinds can happen

FaultKinds ==
    { "autosave",   \* the autosave after an edit fails
      "save",       \* a step of a save fails, or a Save As is cancelled
      "compaction", \* compaction fails, is cancelled or is interrupted, or one
                    \* on close makes a copy that is not smaller
      "recovered" } \* a recovered project is saved under a new name

ASSUME PathAssumption == TempPath \in Paths /\ NoPath \notin Paths
ASSUME BoundAssumption == MaxStates \in Nat \ {0}
ASSUME FaultAssumption == Faults \subseteq FaultKinds

VARIABLES
    files,     \* project files by name
    temps,     \* the "_compact_temp" file next to each
    backs,     \* the "_compact_back" file next to each
    committed, \* history: the document last saved under each name
    pc,        \* the operation in progress
    path,      \* ProjectFileIO::mFileName
    dest,      \* where Save As is saving, NoPath otherwise
    stack,     \* the documents on the undo stack
    current,   \* UndoManager::current
    saved,     \* UndoManager::saved
    left,      \* history: what undo or redo left, NoDoc after an edit or a save
    tracks,    \* the live tracks
    lastSaved, \* Au3ProjectAccessor::m_lastSavedTracks
    clip,      \* the clipboard
    flags      \* mRecovered, mModified, mTemporary

disk == <<files, temps, backs, committed>>
history == <<stack, current, saved, left>>
memory == <<history, tracks, lastSaved, clip, flags>>
vars == <<disk, pc, path, dest, memory>>

-----------------------------------------------------------------------------
(* References: a block object lives as long as a document in memory names  *)
(* it, and its destructor deletes the row unless it is locked or the       *)
(* connection bypasses deletions.                                          *)

Blocks_(d) == IF d = NoDoc THEN {} ELSE d
StackBlocks(s) == UNION {s[i] : i \in 1 .. Len(s)}
Refs(s, t, c, l) == StackBlocks(s) \cup t \cup c \cup Blocks_(l)
LiveBlocks == Refs(stack, tracks, clip, lastSaved)

Open == files[path]
Here(f) == files' = [files EXCEPT ![path] = f]
HereAndThere(f, p, g) == files' = [files EXCEPT ![path] = f, ![p] = g]

(* The open file after f once only the references in kept are left.        *)
Released(f, kept) == DeleteBlocks(f, LiveBlocks \ kept)

FreshBlocks ==
    LET Used(f) == IF f = NoFile THEN {}
                   ELSE f.rows \cup Blocks_(f.project) \cup Blocks_(f.autosave)
                        \cup StackBlocks(f.journal)
    IN  Blocks \ (LiveBlocks \cup UNION {Used(files[p]) \cup Used(temps[p])
                                          \cup Used(backs[p]) : p \in Paths})

Flags(r, m, t) == [recovered |-> r, modified |-> m, temporary |-> t]
NoFlags == Flags(FALSE, FALSE, TRUE)

(* ClearStates, tracks cleared, the project object gone.                   *)
Forget ==
    /\ path' = NoPath
    /\ dest' = NoPath
    /\ stack' = <<>>
    /\ current' = -1
    /\ saved' = -1
    /\ left' = NoDoc
    /\ tracks' = {}
    /\ lastSaved' = NoDoc
    /\ clip' = {}
    /\ flags' = NoFlags

(* The project at p is open with document d and one state of history.      *)
OpenedWith(p, d, last, fl) ==
    /\ path' = p
    /\ stack' = <<d>>
    /\ current' = 0
    /\ saved' = 0
    /\ left' = NoDoc
    /\ tracks' = d
    /\ lastSaved' = last
    /\ flags' = fl
    /\ UNCHANGED <<dest, clip>>

Init ==
    /\ files = [p \in Paths |-> NoFile]
    /\ temps = files
    /\ backs = files
    /\ committed = [p \in Paths |-> NoDoc]
    /\ pc = "closed"
    /\ path = NoPath
    /\ dest = NoPath
    /\ stack = <<>>
    /\ current = -1
    /\ saved = -1
    /\ left = NoDoc
    /\ tracks = {}
    /\ lastSaved = NoDoc
    /\ clip = {}
    /\ flags = NoFlags

-----------------------------------------------------------------------------
(* Opening                                                                 *)

(* A new project starts in a file in the temporary directory.              *)
NewProject ==
    /\ pc = "closed"
    /\ files[TempPath] = NoFile
    /\ files' = [files EXCEPT ![TempPath] = NewFile]
    /\ OpenedWith(TempPath, {}, NoDoc, Flags(FALSE, FALSE, TRUE))
    /\ pc' = "idle"
    /\ UNCHANGED <<temps, backs, committed>>

(* Mutant: the recovery is not remembered.                                 *)
LoadQuietly(p) ==
    /\ pc = "closed"
    /\ files[p] # NoFile
    /\ CanLoad(files[p])
    /\ LET d == LoadedDoc(files[p])
       IN  OpenedWith(p, d, d, Flags(FALSE, FALSE, files[p].project = NoDoc))
    /\ pc' = "idle"
    /\ UNCHANGED disk

(* Load: the autosave if there is one; a file whose document names a       *)
(* missing block does not open.                                            *)
Load(p) ==
    /\ pc = "closed"
    /\ files[p] # NoFile
    /\ CanLoad(files[p])
    /\ LET d == LoadedDoc(files[p])
           recovered == files[p].autosave # NoDoc
       IN  OpenedWith(p, d, d, Flags(recovered, recovered, files[p].project = NoDoc))
    /\ pc' = "idle"
    /\ UNCHANGED disk

(* The user declines to restore: the file is loaded from its project       *)
(* document, loses its autosave and is closed; a file that was never saved *)
(* is removed.                                                             *)
RemoveUnsavedData(p) ==
    /\ pc = "closed"
    /\ files[p] # NoFile
    /\ \/ /\ files[p].project = NoDoc
          /\ files' = [files EXCEPT ![p] = NoFile]
          /\ UNCHANGED <<pc, path, dest, memory>>
       \/ /\ files[p].project # NoDoc
          /\ ProjectDocComplete(files[p])
          /\ files' = [files EXCEPT ![p] = AutoSaveDelete(@)]
          /\ path' = p
          /\ tracks' = files[p].project
          /\ lastSaved' = files[p].project
          /\ flags' = Flags(FALSE, FALSE, FALSE)
          /\ pc' = "closing"
          /\ UNCHANGED <<dest, history, clip>>
    /\ UNCHANGED <<temps, backs, committed>>

-----------------------------------------------------------------------------
(* Editing: the edit creates its blocks, then the document is autosaved,   *)
(* then the state is pushed and the redo branch abandoned.                 *)

(* Mutant: what an edit takes from the tracks is deleted at once.          *)
EditDeletingBlocks ==
    /\ pc = "idle"
    /\ current + 1 < MaxStates
    /\ \E keep \in SUBSET tracks, new \in {{}} \cup {{b} : b \in FreshBlocks} :
            /\ keep \cup new # tracks
            /\ tracks' = keep \cup new
            /\ Here(InsertBlocks(DeleteBlocks(Open, tracks \ keep), new))
    /\ pc' = "edited"
    /\ UNCHANGED <<temps, backs, committed, path, dest, history, lastSaved, clip, flags>>

Edit ==
    /\ pc = "idle"
    /\ current + 1 < MaxStates
    /\ \E keep \in SUBSET tracks, paste \in {{}, clip},
          new \in {{}} \cup {{b} : b \in FreshBlocks} :
            LET d == keep \cup paste \cup new IN
            /\ d # tracks
            /\ tracks' = d
            /\ Here(InsertBlocks(Released(Open, Refs(stack, d, clip, lastSaved)), new))
    /\ pc' = "edited"
    /\ UNCHANGED <<temps, backs, committed, path, dest, history, lastSaved, clip, flags>>

(* Mutant: a modified project is not autosaved again.                      *)
AutoSaveOnce ==
    /\ pc = "edited"
    /\ Here(IF flags.modified THEN Open ELSE WriteAutosave(Open, tracks))
    /\ flags' = [flags EXCEPT !.modified = TRUE]
    /\ pc' = "autosaved"
    /\ UNCHANGED <<temps, backs, committed, path, dest, history, tracks, lastSaved, clip>>

AutoSave ==
    /\ pc = "edited"
    /\ Here(WriteAutosave(Open, tracks))
    /\ flags' = [flags EXCEPT !.modified = TRUE]
    /\ pc' = "autosaved"
    /\ UNCHANGED <<temps, backs, committed, path, dest, history, tracks, lastSaved, clip>>

(* The hook throws: the state is not pushed, the tracks stay as they are.  *)
AutoSaveFails ==
    /\ "autosave" \in Faults
    /\ pc = "edited"
    /\ pc' = "idle"
    /\ UNCHANGED <<disk, path, dest, memory>>

(* Mutant: the saved mark survives the redo branch it is on.               *)
PushStateKeepingSaved ==
    /\ pc = "autosaved"
    /\ stack' = Append(SubSeq(stack, 1, current + 1), tracks)
    /\ current' = current + 1
    /\ left' = NoDoc
    /\ Here(Released(Open, Refs(stack', tracks, clip, lastSaved)))
    /\ pc' = "idle"
    /\ UNCHANGED <<temps, backs, committed, path, dest, saved, tracks, lastSaved, clip, flags>>

PushState ==
    /\ pc = "autosaved"
    /\ stack' = Append(SubSeq(stack, 1, current + 1), tracks)
    /\ current' = current + 1
    /\ saved' = IF saved > current THEN -1 ELSE saved
    /\ left' = NoDoc
    /\ Here(Released(Open, Refs(stack', tracks, clip, lastSaved)))
    /\ pc' = "idle"
    /\ UNCHANGED <<temps, backs, committed, path, dest, tracks, lastSaved, clip, flags>>

(* Undo and redo autosave the document they leave, then restore the other. *)
UndoRedo(i) ==
    /\ pc = "idle"
    /\ i # current
    /\ 0 <= i /\ i < Len(stack)
    /\ tracks' = stack[i + 1]
    /\ current' = i
    /\ left' = tracks
    /\ Here(Released(WriteAutosave(Open, tracks), Refs(stack, tracks', clip, lastSaved)))
    /\ flags' = [flags EXCEPT !.modified = TRUE]
    /\ UNCHANGED <<temps, backs, committed, pc, path, dest, stack, saved, lastSaved, clip>>

Copy(b) ==
    /\ pc = "idle"
    /\ b \in tracks
    /\ clip' = {b}
    /\ Here(Released(Open, Refs(stack, tracks, clip', lastSaved)))
    /\ UNCHANGED <<temps, backs, committed, pc, path, dest, history, tracks, lastSaved, flags>>

-----------------------------------------------------------------------------
(* Saving                                                                  *)

(* Au3ProjectAccessor::save ends with updateSavedState(), also when        *)
(* SaveProject failed: the live tracks become the last saved tracks.       *)
UpdateSavedState(f) ==
    /\ lastSaved' = tracks
    /\ Here(Released(f, Refs(stack, tracks, clip, tracks)))

(* A project in a temporary file is renamed to the chosen name.            *)
MoveProject(p) ==
    /\ pc = "idle"
    /\ flags.temporary
    /\ p # path /\ p # TempPath
    /\ files[p] = NoFile
    /\ files' = [files EXCEPT ![path] = NoFile, ![p] = Open]
    /\ committed' = [committed EXCEPT ![path] = NoDoc, ![p] = committed[path]]
    /\ path' = p
    /\ flags' = [flags EXCEPT !.temporary = FALSE]
    /\ pc' = "saving"
    /\ UNCHANGED <<temps, backs, dest, history, tracks, lastSaved, clip>>

(* The rename fails, for instance to another device.                       *)
MoveProjectFails ==
    /\ "save" \in Faults
    /\ pc = "idle"
    /\ flags.temporary
    /\ UpdateSavedState(Open)
    /\ UNCHANGED <<temps, backs, committed, pc, path, dest, history, tracks, clip, flags>>

Save ==
    /\ pc = "idle"
    /\ path # TempPath
    /\ pc' = "saving"
    /\ UNCHANGED <<disk, path, dest, memory>>

(* UpdateSaved, first transaction: the project document.                   *)
UpdateSaved ==
    /\ pc = "saving"
    /\ Here(WriteProject(Open, tracks))
    /\ committed' = [committed EXCEPT ![path] = tracks]
    /\ pc' = "saved"
    /\ UNCHANGED <<temps, backs, path, dest, memory>>

(* UpdateSaved, second transaction, and the no-fail end of a save.         *)
FinishSave ==
    /\ pc = "saved"
    /\ saved' = current
    /\ left' = NoDoc
    /\ flags' = Flags(FALSE, FALSE, FALSE)
    /\ UpdateSavedState(AutoSaveDelete(Open))
    /\ pc' = "idle"
    /\ UNCHANGED <<temps, backs, committed, path, dest, stack, current, tracks, clip>>

(* Either transaction fails.                                               *)
SaveFails ==
    /\ "save" \in Faults
    /\ pc \in {"saving", "saved"}
    /\ UpdateSavedState(Open)
    /\ pc' = "idle"
    /\ UNCHANGED <<temps, backs, committed, path, dest, history, tracks, clip, flags>>

(* Save As: all rows and the live document go to the new file.             *)
SaveAs(p) ==
    /\ pc = "idle"
    /\ ~flags.temporary
    /\ flags.recovered => "recovered" \in Faults
    /\ p # path /\ p # TempPath
    /\ files[p] = NoFile
    /\ files' = [files EXCEPT ![p] = Copied(Open, Blocks, tracks)]
    /\ committed' = [committed EXCEPT ![p] = tracks]
    /\ dest' = p
    /\ pc' = "copied"
    /\ UNCHANGED <<temps, backs, path, memory>>

(* The copy fails or is cancelled.                                         *)
SaveAsFails ==
    /\ "save" \in Faults
    /\ pc = "idle"
    /\ ~flags.temporary
    /\ UpdateSavedState(Open)
    /\ UNCHANGED <<temps, backs, committed, pc, path, dest, history, tracks, clip, flags>>

(* The autosave of the original goes, then the rows that its last saved    *)
(* document does not name.                                                 *)
DropOriginalAutosave ==
    /\ pc = "copied"
    /\ Here(AutoSaveDelete(Open))
    /\ flags' = [flags EXCEPT !.modified = FALSE]
    /\ pc' = "dropped"
    /\ UNCHANGED <<temps, backs, committed, path, dest, history, tracks, lastSaved, clip>>

(* That deletion fails: the copy is removed again.                         *)
DropOriginalAutosaveFails ==
    /\ "save" \in Faults
    /\ pc = "copied"
    /\ lastSaved' = tracks
    /\ HereAndThere(Released(Open, Refs(stack, tracks, clip, tracks)), dest, NoFile)
    /\ committed' = [committed EXCEPT ![dest] = NoDoc]
    /\ dest' = NoPath
    /\ pc' = "idle"
    /\ UNCHANGED <<temps, backs, path, history, tracks, clip, flags>>

(* Mutant: pruned around the live tracks.                                  *)
PruneOriginalToTracks ==
    /\ pc = "dropped"
    /\ Here(DeleteBlocks(Open, Blocks \ tracks))
    /\ pc' = "compacting"
    /\ UNCHANGED <<temps, backs, committed, path, dest, memory>>

PruneOriginal ==
    /\ pc = "dropped"
    /\ Here(DeleteBlocks(Open, Blocks \ Blocks_(lastSaved)))
    /\ pc' = "compacting"
    /\ UNCHANGED <<temps, backs, committed, path, dest, memory>>

(* The new file becomes the project; UpdateSaved follows as in any save.   *)
SwitchToCopy ==
    /\ pc \in {"compacted", "notCompacted"}
    /\ dest # NoPath
    /\ path' = dest
    /\ dest' = NoPath
    /\ pc' = "saving"
    /\ UNCHANGED <<disk, memory>>

-----------------------------------------------------------------------------
(* Compaction around the last saved tracks: copy, then two renames.  Save  *)
(* As forces it on the original file, close asks for it.                   *)

ShouldCompact == Open.rows # {} \* and at most 80% of the bytes are in use

CompactionStops ==
    /\ pc' = "notCompacted"
    /\ temps' = [temps EXCEPT ![path] = NoFile]

(* Mutant: compaction around the live tracks.                              *)
CompactLiveTracks ==
    /\ pc = "compacting"
    /\ ~Collides(Open, tracks, temps[path])
    /\ temps' = [temps EXCEPT ![path] = CopiedOver(Open, tracks, tracks, @)]
    /\ pc' = "compactCopied"
    /\ UNCHANGED <<files, backs, committed, path, dest, memory>>

Compact ==
    /\ pc = "compacting"
    /\ ~Collides(Open, Blocks_(lastSaved), temps[path])
    /\ temps' = [temps EXCEPT ![path] =
                    CopiedOver(Open, Blocks_(lastSaved), Blocks_(lastSaved), @)]
    /\ pc' = "compactCopied"
    /\ UNCHANGED <<files, backs, committed, path, dest, memory>>

(* The copy fails, or the user cancels it, or the leftover of an earlier   *)
(* one is in the way.                                                      *)
CompactFails ==
    /\ pc = "compacting"
    /\ \/ "compaction" \in Faults
       \/ Collides(Open, Blocks_(lastSaved), temps[path])
    /\ CompactionStops
    /\ UNCHANGED <<files, backs, committed, path, dest, memory>>

MoveOriginalAway ==
    /\ pc = "compactCopied"
    /\ backs' = [backs EXCEPT ![path] = Open]
    /\ Here(NoFile)
    /\ pc' = "movedAway"
    /\ UNCHANGED <<temps, committed, path, dest, memory>>

(* The copy is not smaller, as a forced one may be, or the first rename    *)
(* fails.  On close about a fifth of the audio is unused and the copy      *)
(* leaves the autosave out, so that a copy that is not smaller is close to *)
(* impossible; the code tests for it all the same, and here it counts with *)
(* the failures of a compaction.                                           *)
KeepOriginal ==
    /\ "compaction" \in Faults \/ dest # NoPath
    /\ pc = "compactCopied"
    /\ CompactionStops
    /\ UNCHANGED <<files, backs, committed, path, dest, memory>>

MoveCopyIn ==
    /\ pc = "movedAway"
    /\ Here(temps[path])
    /\ temps' = [temps EXCEPT ![path] = NoFile]
    /\ pc' = "movedIn"
    /\ UNCHANGED <<backs, committed, path, dest, memory>>

(* Mutant: the backup is removed where it should be renamed back.          *)
RemoveBackup ==
    /\ "compaction" \in Faults
    /\ pc \in {"movedAway", "movedIn"}
    /\ backs' = [backs EXCEPT ![path] = NoFile]
    /\ CompactionStops
    /\ UNCHANGED <<files, committed, path, dest, memory>>

(* The second rename fails, or the new file cannot be opened.              *)
MoveOriginalBack ==
    /\ "compaction" \in Faults
    /\ pc \in {"movedAway", "movedIn"}
    /\ Here(backs[path])
    /\ backs' = [backs EXCEPT ![path] = NoFile]
    /\ CompactionStops
    /\ UNCHANGED <<committed, path, dest, memory>>

FinishCompact ==
    /\ pc = "movedIn"
    /\ backs' = [backs EXCEPT ![path] = NoFile]
    /\ pc' = "compacted"
    /\ UNCHANGED <<files, temps, committed, path, dest, memory>>

-----------------------------------------------------------------------------
(* Closing without saving, or after it                                     *)

(* The clipboard is cleared and the saved state restored, if there is one. *)
Close ==
    /\ pc = "idle"
    /\ clip' = {}
    /\ tracks' = IF saved >= 0 THEN stack[saved + 1] ELSE tracks
    /\ current' = IF saved >= 0 THEN saved ELSE current
    /\ Here(Released(Open, Refs(stack, tracks', {}, lastSaved)))
    /\ pc' = "closing"
    /\ UNCHANGED <<temps, backs, committed, path, dest, stack, saved, left, lastSaved,
                   flags>>

RevertsRecovery == flags.recovered /\ ~flags.temporary

(* A recovered project: dropping the autosave is reverting.  Whether rows  *)
(* are deleted after that depends on two flags nobody has initialised.     *)
CloseRecovered ==
    /\ pc = "closing"
    /\ RevertsRecovery
    /\ Here(AutoSaveDelete(Open))
    /\ flags' = [flags EXCEPT !.modified = FALSE]
    /\ pc' \in {"clearing", "bypassing"}
    /\ UNCHANGED <<temps, backs, committed, path, dest, history, tracks, lastSaved, clip>>

(* A new project that was never saved has nothing to compact around.       *)
CloseNew ==
    /\ pc = "closing"
    /\ ~RevertsRecovery
    /\ lastSaved = NoDoc
    /\ pc' = "bypassing"
    /\ UNCHANGED <<disk, path, dest, memory>>

CompactOnClose ==
    /\ pc = "closing"
    /\ ~RevertsRecovery
    /\ lastSaved # NoDoc
    /\ ~flags.temporary
    /\ ShouldCompact
    /\ pc' = "compacting"
    /\ UNCHANGED <<disk, path, dest, memory>>

(* Mutant: the early return leaves the autosave.                           *)
SkipCompactionOnly ==
    /\ pc = "closing"
    /\ ~RevertsRecovery
    /\ lastSaved # NoDoc
    /\ pc' = "notCompacted"
    /\ UNCHANGED <<disk, path, dest, memory>>

(* Compact() returns early and deletes the autosave on the way.            *)
SkipCompaction ==
    /\ pc = "closing"
    /\ ~RevertsRecovery
    /\ lastSaved # NoDoc
    /\ Here(IF flags.modified THEN AutoSaveDelete(Open) ELSE Open)
    /\ flags' = [flags EXCEPT !.modified = FALSE]
    /\ pc' = "notCompacted"
    /\ UNCHANGED <<temps, backs, committed, path, dest, history, tracks, lastSaved, clip>>

(* Not compacted and unsaved: the last saved document is written again,    *)
(* then the autosave is deleted.                                           *)
RewriteSaved ==
    /\ pc = "notCompacted"
    /\ dest = NoPath
    /\ saved # current
    /\ Here(WriteProject(Open, lastSaved))
    /\ pc' = "rewritten"
    /\ UNCHANGED <<temps, backs, committed, path, dest, memory>>

RewriteSavedAutosave ==
    /\ pc = "rewritten"
    /\ Here(AutoSaveDelete(Open))
    /\ flags' = [flags EXCEPT !.modified = FALSE]
    /\ pc' = "reverted"
    /\ UNCHANGED <<temps, backs, committed, path, dest, history, tracks, lastSaved, clip>>

(* mHadUnused: assumed of a file without blocks, counted otherwise.        *)
HadUnused == Open.rows = {} \/ Cardinality(Open.rows) > Cardinality(lastSaved)

(* SetBypass: deletions are needed only in a permanent file that still has *)
(* unused rows and was not compacted.                                      *)
SetBypass ==
    /\ dest = NoPath
    /\ \/ pc = "compacted"
       \/ pc = "reverted"
       \/ pc = "notCompacted" /\ saved = current
    /\ pc' = IF pc # "compacted" /\ ~flags.temporary /\ HadUnused
             THEN "clearing" ELSE "bypassing"
    /\ UNCHANGED <<disk, path, dest, memory>>

(* ClearStates, Clear, CloseProject.  The blocks of the last saved tracks  *)
(* are locked.                                                             *)
FinishClose ==
    /\ pc \in {"clearing", "bypassing"}
    /\ Here(IF flags.temporary /\ path = TempPath THEN NoFile
            ELSE IF pc = "clearing" THEN Released(Open, Blocks_(lastSaved))
            ELSE Open)
    /\ Forget
    /\ pc' = "closed"
    /\ UNCHANGED <<temps, backs, committed>>

-----------------------------------------------------------------------------
(* The process dies between two transactions.                              *)

InCompaction ==
    pc \in {"compactCopied", "movedAway", "movedIn"}

Crash ==
    /\ pc # "closed"
    /\ InCompaction => "compaction" \in Faults
    /\ Forget
    /\ pc' = "closed"
    /\ UNCHANGED disk

Next ==
    \/ NewProject
    \/ \E p \in Paths : Load(p)
    \/ \E p \in Paths : RemoveUnsavedData(p)
    \/ Edit \/ AutoSave \/ AutoSaveFails \/ PushState
    \/ \E i \in {current - 1, current + 1} : UndoRedo(i)
    \/ \E b \in Blocks : Copy(b)
    \/ \E p \in Paths : MoveProject(p)
    \/ MoveProjectFails
    \/ Save \/ UpdateSaved \/ FinishSave \/ SaveFails
    \/ \E p \in Paths : SaveAs(p)
    \/ SaveAsFails \/ DropOriginalAutosave \/ DropOriginalAutosaveFails
    \/ PruneOriginal \/ SwitchToCopy
    \/ Compact \/ CompactFails \/ MoveOriginalAway \/ KeepOriginal
    \/ MoveCopyIn \/ MoveOriginalBack \/ FinishCompact
    \/ Close \/ CloseRecovered \/ CloseNew \/ CompactOnClose \/ SkipCompaction
    \/ RewriteSaved \/ RewriteSavedAutosave \/ SetBypass \/ FinishClose
    \/ Crash

Spec == Init /\ [][Next]_vars

-----------------------------------------------------------------------------
PCs == {"closed", "idle", "edited", "autosaved", "saving", "saved", "copied",
        "dropped", "compacting", "compactCopied", "movedAway", "movedIn",
        "compacted", "notCompacted", "closing", "rewritten", "reverted",
        "clearing", "bypassing"}

(* Every variable has its type.                                            *)
TypeOK ==
    /\ {files, temps, backs} \subseteq [Paths -> {NoFile} \cup File]
    /\ committed \in [Paths -> {NoDoc} \cup Docs]
    /\ pc \in PCs
    /\ path \in Paths \cup {NoPath}
    /\ dest \in Paths \cup {NoPath}
    /\ stack \in Seq(Docs)
    /\ current \in -1 .. Len(stack) - 1
    /\ saved \in -1 .. Len(stack) - 1
    /\ left \in {NoDoc} \cup Docs
    /\ tracks \in Docs
    /\ lastSaved \in {NoDoc} \cup Docs
    /\ clip \in Docs
    /\ flags \in [recovered : BOOLEAN, modified : BOOLEAN, temporary : BOOLEAN]

(* The autosave a crash would be recovered from has all its blocks, so     *)
(* that the file opens again.                                              *)
AutosaveHasBlocks ==
    \A p \in Paths : files[p] # NoFile => AutosaveDocComplete(files[p])

(* A document written to the project table, kept in the journal so that    *)
(* the file can be rolled back to it, has its blocks.                      *)
JournalUsable ==
    \A p \in Paths : files[p] # NoFile => JournalComplete(files[p])

Editing == pc \in {"idle", "edited", "autosaved", "saving", "saved", "copied"}

(* While the user works, everything the history, the tracks, the clipboard *)
(* and the last saved tracks refer to is in the open file: an undo, a      *)
(* redo or a paste never meets a missing block.                            *)
LiveBlocksStored == Editing => LiveBlocks \subseteq Open.rows

(* What the user saved under a name is in the file of that name or, in the *)
(* middle of a compaction, in its backup, with all its blocks: nothing but *)
(* a save replaces it, and no deletion, compaction or crash takes a block. *)
SavedNeverLost ==
    \A p \in Paths : committed[p] # NoDoc =>
        \E f \in {files[p], backs[p]} \ {NoFile} :
            f.project = committed[p] /\ ProjectDocComplete(f)

(* No file shows a saved document that the user did not save there: closing *)
(* without saving, Save As and compaction commit nothing by themselves.    *)
NothingCommittedSilently ==
    \A p \in Paths : files[p] # NoFile => files[p].project = committed[p]

(* A project closed without the "save changes?" question has its tracks in *)
(* its file (hasUnsavedChanges).                                           *)
HasUnsavedChanges == saved # current \/ (flags.recovered /\ flags.modified)
CleanMeansSaved ==
    pc = "idle" /\ ~flags.temporary /\ ~HasUnsavedChanges => Open.project = tracks

(* A crash costs at most the edit in progress or, before the next edit,    *)
(* the undo or redo just made: while the user works, and until a Save As   *)
(* has switched files, what the next start loads from the open file or the *)
(* copy being made is the tracks, the current state of the history, or     *)
(* what that undo or redo left, with all its blocks.                       *)
SessionDocs == {tracks, stack[current + 1]} \cup ({left} \ {NoDoc})
SessionFiles == {files[p] : p \in {path, dest} \ {NoPath}} \ {NoFile}

CrashKeepsSession ==
    Editing \/ dest # NoPath =>
        \E f \in SessionFiles :
            LET d == Blocks_(LoadedDoc(f)) IN d \in SessionDocs /\ d \subseteq f.rows

=============================================================================
