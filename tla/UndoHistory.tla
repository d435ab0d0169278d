---------------------------- MODULE UndoHistory ----------------------------
(***************************************************************************)
(* The undo history of one project: UndoManager (the stack and its two     *)
(* indices), ProjectHistory (autosave, then the stack) and the             *)
(* Au3ProjectHistory facade (the interaction flag that protects a drag).   *)
(*                                                                         *)
(* What a project contains is a record of its audio (everything whose loss *)
(* the user would notice) and its view (selection and the like, captured   *)
(* by the same extensions but never a reason to ask "save changes?").      *)
(***************************************************************************)
EXTENDS Integers, Sequences

CONSTANTS
    Audio,       \* the audible contents a project can have
    EmptyAudio,  \* the content of a project without tracks
    View,        \* selection states
    NoView,      \* the selection of a project just cleared
    Descs,       \* long descriptions of edits
    CreatedDesc, \* "Created new project"
    NoDesc,      \* the empty description
    MaxStates,   \* bound: number of states the stack may hold
    Faults       \* which of the hazards in FaultKinds can happen

FaultKinds ==
    { "autosave",    \* the AutoSave hook throws
      "completion",  \* the call that should complete a drag fails
      "slider",      \* live edits without startUserInteraction()
      "shortcut" }   \* a keyboard command arrives in the middle of a drag

ASSUME ContentAssumption == EmptyAudio \in Audio /\ NoView \in View
ASSUME DescAssumption == /\ CreatedDesc \notin Descs
                         /\ NoDesc \notin Descs
                         /\ CreatedDesc # NoDesc
ASSUME BoundAssumption == MaxStates \in Nat \ {0}
ASSUME FaultAssumption == Faults \subseteq FaultKinds

Doc == [audio : Audio, view : View]
EmptyDoc == [audio |-> EmptyAudio, view |-> NoView]

VARIABLES
    stack,          \* UndoManager::stack, the captured documents
    current,        \* UndoManager::current, -1 when the stack is empty
    saved,          \* UndoManager::saved, -1 when no state is the saved one
    lastAction,     \* UndoManager::lastAction
    mayConsolidate, \* UndoManager::mayConsolidate
    interaction,    \* Au3ProjectHistory::m_interactionOngoing
    tracks,         \* the live document the user is editing
    disk            \* the document the last successful save wrote

manager == <<stack, current, saved, lastAction, mayConsolidate>>
vars == <<manager, interaction, tracks, disk>>

-----------------------------------------------------------------------------
(* The stack is indexed from 0 in the code and from 1 here.                *)

At(i) == stack[i + 1]
IsOpen == stack # <<>>
UnsavedChanges == saved # current
CheckAvailable(i) == 0 <= i /\ i < Len(stack)
UndoAvailable == CheckAvailable(current - 1)
RedoAvailable == CheckAvailable(current + 1)

(* Nothing has been edited since the current state was captured.           *)
Settled == At(current).audio = tracks.audio

(* Mutant: the current state is left as it was.                            *)
NotRecaptured(d) == stack

(* ModifyState(): capture the live document d again, in place.             *)
Recaptured(d) == IF current = -1 THEN stack ELSE [stack EXCEPT ![current + 1] = d]

(* Mutants: the redo branch is kept; the current state goes with it.       *)
PushedAboveRedo(d) == Append(stack, d)
PushedOverCurrent(d) == Append(SubSeq(stack, 1, current), d)

(* AbandonRedo(), then push_back: what lies above the current state goes.  *)
Pushed(d) == Append(SubSeq(stack, 1, current + 1), d)
SavedAfterAbandon == IF saved > current THEN -1 ELSE saved

Consolidates(desc, consolidate) ==
    consolidate /\ lastAction = desc /\ mayConsolidate

(* Mutant: the index moves, consolidation stays on.                        *)
MoveStillConsolidating(i) ==
    /\ current' = i
    /\ lastAction' = NoDesc
    /\ UNCHANGED <<stack, saved, mayConsolidate>>

(* SetStateTo, Undo and Redo move the index and forget the last action.    *)
MoveTo(i) ==
    /\ current' = i
    /\ lastAction' = NoDesc
    /\ mayConsolidate' = FALSE
    /\ UNCHANGED <<stack, saved>>

(* Mutant: a consolidated edit leaves the saved mark where it is.          *)
PushStateKeepingSaved(d, desc, consolidate) ==
    \/ /\ Consolidates(desc, consolidate)
       /\ stack' = Recaptured(d)
       /\ UNCHANGED <<current, saved, lastAction, mayConsolidate>>
    \/ /\ ~Consolidates(desc, consolidate)
       /\ stack' = Pushed(d)
       /\ current' = current + 1
       /\ saved' = SavedAfterAbandon
       /\ lastAction' = desc
       /\ mayConsolidate' = TRUE

(* UndoManager::PushState.                                                 *)
PushState(d, desc, consolidate) ==
    \/ /\ Consolidates(desc, consolidate)
       /\ stack' = Recaptured(d)
       /\ saved' = IF current = saved THEN -1 ELSE saved
       /\ UNCHANGED <<current, lastAction, mayConsolidate>>
    \/ /\ ~Consolidates(desc, consolidate)
       /\ stack' = Pushed(d)
       /\ current' = current + 1
       /\ saved' = SavedAfterAbandon
       /\ lastAction' = desc
       /\ mayConsolidate' = TRUE

(* Mutant: modifyState() does not look at the interaction flag.            *)
ModifyStateAlways(d) == stack' = Recaptured(d)

(* Au3ProjectHistory::modifyState: refused while an interaction is ongoing *)
ModifyState(d) == stack' = IF interaction THEN stack ELSE Recaptured(d)

-----------------------------------------------------------------------------
(* Init: the project was just opened and InitialState() pushed one state.  *)

Init ==
    \E a \in Audio, v \in View :
        LET d == [audio |-> a, view |-> v] IN
        /\ stack = <<d>>
        /\ current = 0
        /\ saved = 0
        /\ lastAction = CreatedDesc
        /\ mayConsolidate = TRUE
        /\ interaction = FALSE
        /\ tracks = d
        /\ disk = d

(* An editing command changes the audio and pushes a state; it also        *)
(* completes a drag in progress.                                           *)
PushHistoryState(a, desc, consolidate) ==
    LET d == [tracks EXCEPT !.audio = a] IN
    /\ IsOpen
    /\ Consolidates(desc, consolidate) \/ current + 1 < MaxStates
    /\ tracks' = d
    /\ PushState(d, desc, consolidate)
    /\ interaction' = FALSE
    /\ UNCHANGED disk

(* The autosave hook throws before the history is touched; the edit itself *)
(* stays (projecteditobject.cpp logs "committed but finalization failed"). *)
PushHistoryStateFails(a) ==
    /\ IsOpen
    /\ "autosave" \in Faults
    /\ tracks' = [tracks EXCEPT !.audio = a]
    /\ UNCHANGED <<manager, interaction, disk>>

(* A selection change recaptures the current state.                        *)
ChangeSelection(v) ==
    LET d == [tracks EXCEPT !.view = v] IN
    /\ IsOpen
    /\ tracks' = d
    /\ ModifyState(d)
    /\ UNCHANGED <<current, saved, lastAction, mayConsolidate, interaction, disk>>

(* Mute, solo, an effect parameter: modifyState() and markUnsaved().       *)
ChangeParameter(a) ==
    LET d == [tracks EXCEPT !.audio = a] IN
    /\ IsOpen
    /\ ~interaction \/ "shortcut" \in Faults
    /\ tracks' = d
    /\ ModifyState(d)
    /\ saved' = -1
    /\ UNCHANGED <<current, lastAction, mayConsolidate, interaction, disk>>

StartUserInteraction ==
    /\ IsOpen
    /\ ~interaction
    /\ ModifyState(tracks)
    /\ interaction' = TRUE
    /\ UNCHANGED <<current, saved, lastAction, mayConsolidate, tracks, disk>>

(* One mouse move of a drag: the live tracks change, nothing is captured.  *)
(* A volume or pan slider does the same without startUserInteraction().    *)
LiveEdit(a) ==
    /\ IsOpen
    /\ interaction \/ "slider" \in Faults
    /\ tracks' = [tracks EXCEPT !.audio = a]
    /\ UNCHANGED <<manager, interaction, disk>>

(* Edits that no state holds outlast a drag when the completing call fails *)
(* (with or without its autosave), or when a command changed something in  *)
(* the middle of a drag that moved nothing and so has nothing to complete. *)
LeavesEdits == Faults \cap {"autosave", "completion", "shortcut"} # {}

(* endUserInteraction(): every caller passes modifyState = false.  A drag  *)
(* that moved something has been completed by PushHistoryState.            *)
EndUserInteraction ==
    /\ IsOpen
    /\ interaction
    /\ Settled \/ LeavesEdits
    /\ interaction' = FALSE
    /\ UNCHANGED <<manager, tracks, disk>>

(* RollbackState(): SetStateTo(current, false), by a paste that failed     *)
(* halfway (ending = FALSE) or by a drag cancelled with Escape.            *)
RollbackState(ending) ==
    /\ IsOpen
    /\ ending => interaction
    /\ MoveTo(current)
    /\ tracks' = At(current)
    /\ interaction' = (interaction /\ ~ending)
    /\ UNCHANGED disk

(* Undo and Redo: the index moves first, then PopState() autosaves and     *)
(* restores the captured document.                                         *)
UndoRedo(i) ==
    /\ MoveTo(i)
    /\ tracks' = At(i)
    /\ interaction' = FALSE
    /\ UNCHANGED disk

(* ... and when the autosave throws, the restore and all that follows is   *)
(* skipped, but the index has moved.                                       *)
UndoRedoFails(i) ==
    /\ "autosave" \in Faults
    /\ MoveTo(i)
    /\ UNCHANGED <<tracks, interaction, disk>>

Undo == UndoAvailable /\ (UndoRedo(current - 1) \/ UndoRedoFails(current - 1))
Redo == RedoAvailable /\ (UndoRedo(current + 1) \/ UndoRedoFails(current + 1))

(* The history panel: repeated undo or redo; the interaction flag stays.   *)
UndoRedoToIndex(i) ==
    /\ CheckAvailable(i)
    /\ i # current
    /\ MoveTo(i)
    /\ tracks' = At(i)
    /\ UNCHANGED <<interaction, disk>>

(* A successful save writes the live document and calls StateSaved().      *)
(* Nothing in the code keeps it from running in the middle of a drag.      *)
Save ==
    /\ IsOpen
    /\ Settled \/ LeavesEdits
    /\ disk' = tracks
    /\ saved' = current
    /\ UNCHANGED <<stack, current, lastAction, mayConsolidate, interaction, tracks>>

(* close(): back to the saved state, ClearStates(), and the tracks go.     *)
Close ==
    /\ IsOpen
    /\ stack' = <<>>
    /\ current' = -1
    /\ saved' = -1
    /\ lastAction' = IF saved >= 0 THEN NoDesc ELSE lastAction
    /\ mayConsolidate' = (saved < 0 /\ mayConsolidate)
    /\ tracks' = EmptyDoc
    /\ UNCHANGED <<interaction, disk>>

(* Loading the file again: a new UndoManager and its InitialState().       *)
InitialState ==
    /\ ~IsOpen
    /\ tracks' = disk
    /\ stack' = <<disk>>
    /\ current' = 0
    /\ saved' = 0
    /\ lastAction' = CreatedDesc
    /\ mayConsolidate' = TRUE
    /\ UNCHANGED <<interaction, disk>>

Next ==
    \/ \E a \in Audio, desc \in Descs, consolidate \in BOOLEAN :
           PushHistoryState(a, desc, consolidate)
    \/ \E a \in Audio : PushHistoryStateFails(a)
    \/ \E v \in View : ChangeSelection(v)
    \/ \E a \in Audio : ChangeParameter(a)
    \/ StartUserInteraction
    \/ \E a \in Audio : LiveEdit(a)
    \/ EndUserInteraction
    \/ \E ending \in BOOLEAN : RollbackState(ending)
    \/ Undo
    \/ Redo
    \/ \E i \in 0 .. MaxStates - 1 : UndoRedoToIndex(i)
    \/ Save
    \/ Close
    \/ InitialState

Spec == Init /\ [][Next]_vars

-----------------------------------------------------------------------------
(* Types: every variable has the type of its field in the code.            *)
TypeOK ==
    /\ stack \in Seq(Doc)
    /\ current \in Int
    /\ saved \in Int
    /\ lastAction \in Descs \cup {CreatedDesc, NoDesc}
    /\ mayConsolidate \in BOOLEAN
    /\ interaction \in BOOLEAN
    /\ tracks \in Doc
    /\ disk \in Doc

(* The two signed indices always name states of the stack, or none: the    *)
(* code stores them next to a vector it erases from and grows (Undo, Redo, *)
(* AbandonRedo, ClearStates) and dereferences stack[current] unchecked.    *)
IndexOK ==
    /\ -1 <= current /\ current < Len(stack)
    /\ current = -1 <=> stack = <<>>
    /\ -1 <= saved /\ saved < Len(stack)

(* The state marked as saved has the audio the file has, however many      *)
(* undos, abandoned redo branches and consolidated edits came in between:  *)
(* close() goes back to it and UnsavedChanges() compares with it.          *)
SavedStateIsSaved == saved >= 0 => At(saved).audio = disk.audio

(* Between edits the current state is what the user sees, so that an undo  *)
(* followed by a redo, or a rollback, loses nothing.                       *)
CurrentMatchesTracks == IsOpen /\ ~interaction => Settled

(* A project that may be closed without the "save changes?" question       *)
(* (UnsavedChanges() is false, no drag is going on) has nothing to lose.   *)
CleanMeansSaved ==
    IsOpen /\ ~interaction /\ ~UnsavedChanges => tracks.audio = disk.audio

(* Consolidation rewrites the current state without abandoning the redo    *)
(* branch: it may be on only while there is none.                          *)
ConsolidateOnlyAtTop == mayConsolidate => current = Len(stack) - 1

(* While an interaction is ongoing nothing recaptures the state a cancel   *)
(* has to go back to (the reason startUserInteraction() exists).           *)
InteractionFreezesState ==
    [][interaction /\ interaction' /\ IsOpen' /\ current' = current
        => stack' = stack]_vars

(* No step of an open project rewrites a state below the one it leaves     *)
(* current: what undo leads to is what was there.                          *)
PastIsImmutable ==
    [][IsOpen /\ IsOpen' =>
        \A i \in 1 .. current' : i <= Len(stack) /\ stack'[i] = stack[i]]_vars

(* The history implements the timeline: a drag in progress is not on it,   *)
(* and a closed project is a timeline of the stored content alone.         *)
TimelineOfStack == [i \in 1 .. Len(stack) |-> stack[i].audio]

T == INSTANCE Timeline WITH
        line <- IF IsOpen THEN TimelineOfStack ELSE <<disk.audio>>,
        present <- IF IsOpen THEN current + 1 ELSE 1,
        stored <- disk.audio,
        clean <- ~UnsavedChanges

ImplementsTimeline == T!Spec

=============================================================================
