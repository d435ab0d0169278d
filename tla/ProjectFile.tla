---------------------------- MODULE ProjectFile ----------------------------
(***************************************************************************)
(* One project file (.aup4, a SQLite database) and what ProjectFileIO does *)
(* to it in one transaction.  A document is the set of the sample blocks   *)
(* it refers to; a block is the identity of its audio data.                *)
(***************************************************************************)
EXTENDS Integers, Sequences, FiniteSets

CONSTANTS
    Blocks,       \* sample blocks
    NoDoc,        \* the table holds no document
    NoFile,       \* no file of that name exists
    JournalDepth  \* kProjectHistoryDepth, 0 leaves the journal out

ASSUME SentinelAssumption == \A d \in SUBSET Blocks : d # NoDoc
ASSUME JournalAssumption == JournalDepth \in Nat

Docs == SUBSET Blocks

(* The tables sampleblocks, project, autosave and project_history.         *)
File == [rows : SUBSET Blocks,
         project : {NoDoc} \cup Docs,
         autosave : {NoDoc} \cup Docs,
         journal : Seq(Docs)]

ASSUME NoFileAssumption == NoFile \notin File

NewFile == [rows |-> {}, project |-> NoDoc, autosave |-> NoDoc, journal |-> <<>>]

(* The document that opening the file loads.                               *)
LoadedDoc(f) == IF f.autosave # NoDoc THEN f.autosave ELSE f.project

(* A document can be loaded only when every block it names has its row:    *)
(* SqliteSampleBlock::Load throws otherwise.                               *)
CanLoad(f) == LoadedDoc(f) # NoDoc /\ LoadedDoc(f) \subseteq f.rows

Journalled(j, d) ==
    LET all == Append(j, d)
        excess == Len(all) - JournalDepth
    IN  IF excess > 0 THEN SubSeq(all, excess + 1, Len(all)) ELSE all

WriteAutosave(f, d) == [f EXCEPT !.autosave = d]
WriteProject(f, d) == [f EXCEPT !.project = d, !.journal = Journalled(@, d)]
AutoSaveDelete(f) == [f EXCEPT !.autosave = NoDoc]
InsertBlocks(f, bs) == [f EXCEPT !.rows = @ \cup bs]
DeleteBlocks(f, bs) == [f EXCEPT !.rows = @ \ bs]

(* CopyTo: the rows named by keep and the journal of f go to a new file    *)
(* whose project document is d.                                            *)
Copied(f, keep, d) ==
    [f EXCEPT !.rows = @ \cap keep, !.project = d, !.autosave = NoDoc]

(* A block inserted twice violates the primary key and fails the copy; so  *)
(* does a journal entry, whose generation the model does not keep.         *)
Collides(f, keep, old) == old # NoFile /\ old.rows \cap f.rows \cap keep # {}

(* What a copy over the leftover of an interrupted one gives.              *)
CopiedOver(f, keep, d, old) ==
    IF old = NoFile
    THEN Copied(f, keep, d)
    ELSE InsertBlocks(Copied(f, keep, d), old.rows)

(* No document of the file names a block the file does not hold.           *)
ProjectDocComplete(f) == f.project # NoDoc => f.project \subseteq f.rows
AutosaveDocComplete(f) == f.autosave # NoDoc => f.autosave \subseteq f.rows
JournalComplete(f) == \A i \in 1 .. Len(f.journal) : f.journal[i] \subseteq f.rows

=============================================================================
