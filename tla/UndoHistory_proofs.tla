------------------------- MODULE UndoHistory_proofs -------------------------
(***************************************************************************)
(* Proofs about UndoHistory, for every set of contents and descriptions    *)
(* and every bound on the stack.                                           *)
(*                                                                         *)
(* StackInv holds whatever fails; ContentInv, which relates the stack to   *)
(* the live document and to the file, needs the absence of faults: each of *)
(* them alone breaks each part of it.                                      *)
(***************************************************************************)
EXTENDS UndoHistory, SequenceTheorems, TLAPS

StackInv == TypeOK /\ IndexOK /\ ConsolidateOnlyAtTop

(* A history of one state, which is the current and the saved one.         *)
LEMMA InitStack == Init => StackInv
<1> SUFFICES ASSUME Init PROVE StackInv
  OBVIOUS
<1>1. PICK a \in Audio, v \in View :
          /\ tracks = [audio |-> a, view |-> v]
          /\ stack = <<tracks>> /\ disk = tracks /\ current = 0 /\ saved = 0
          /\ lastAction = CreatedDesc /\ mayConsolidate = TRUE
          /\ interaction = FALSE
  BY DEF Init
<1>2. tracks \in Doc
  BY <1>1 DEF Doc
<1>3. stack \in Seq(Doc) /\ Len(stack) = 1 /\ stack # <<>>
  BY <1>1, <1>2
<1>4. /\ disk \in Doc /\ current = 0 /\ saved = 0
      /\ lastAction = CreatedDesc /\ mayConsolidate = TRUE
      /\ interaction = FALSE
  BY <1>1, <1>2
<1>5. TypeOK
  <2>1. mayConsolidate \in BOOLEAN /\ interaction \in BOOLEAN
    BY <1>4
  <2>2. lastAction \in Descs \cup {CreatedDesc, NoDesc}
    BY <1>4
  <2>3. current \in Int /\ saved \in Int
    BY <1>4
  <2>4. QED
    BY <1>2, <1>3, <1>4, <2>1, <2>2, <2>3 DEF TypeOK
<1>6. IndexOK /\ ConsolidateOnlyAtTop
  BY <1>3, <1>4 DEF IndexOK, ConsolidateOnlyAtTop
<1>7. QED
  BY <1>5, <1>6 DEF StackInv

(* Capturing a document in place keeps the stack's type and length.        *)
LEMMA RecapturedFacts ==
    ASSUME TypeOK, IndexOK, NEW d \in Doc
    PROVE  /\ Recaptured(d) \in Seq(Doc)
           /\ Len(Recaptured(d)) = Len(stack)
           /\ \A i \in 1 .. Len(stack) :
                 Recaptured(d)[i] = IF i = current + 1 THEN d ELSE stack[i]
BY DEF Recaptured, TypeOK, IndexOK

(* Pushing leaves the states up to the current one and adds d above it.    *)
LEMMA PushedFacts ==
    ASSUME TypeOK, IndexOK, NEW d \in Doc
    PROVE  /\ Pushed(d) \in Seq(Doc)
           /\ Len(Pushed(d)) = current + 2
           /\ Pushed(d)[current + 2] = d
           /\ \A i \in 1 .. current + 1 : Pushed(d)[i] = stack[i]
<1>1. current + 1 \in 0 .. Len(stack)
  BY DEF TypeOK, IndexOK
<1>2. /\ SubSeq(stack, 1, current + 1) \in Seq(Doc)
      /\ Len(SubSeq(stack, 1, current + 1)) = current + 1
      /\ \A i \in 1 .. current + 1 : SubSeq(stack, 1, current + 1)[i] = stack[i]
  BY <1>1 DEF TypeOK
<1>3. ASSUME NEW s \in Seq(Doc)
      PROVE  /\ Append(s, d) \in Seq(Doc) /\ Len(Append(s, d)) = Len(s) + 1
             /\ Append(s, d)[Len(s) + 1] = d
             /\ \A i \in 1 .. Len(s) : Append(s, d)[i] = s[i]
  OBVIOUS
<1>4. current \in Int
  BY DEF TypeOK
<1>5. QED
  BY <1>1, <1>2, <1>3, <1>4 DEF Pushed

(* An open project has a current state, and that state is a document.      *)
LEMMA OpenFacts ==
    ASSUME TypeOK, IndexOK, IsOpen
    PROVE  current \in 0 .. Len(stack) - 1 /\ At(current) \in Doc
BY DEF TypeOK, IndexOK, IsOpen, At

LEMMA PushStateKeepsStack ==
    ASSUME StackInv, NEW d \in Doc, NEW desc \in Descs,
           NEW consolidate \in BOOLEAN, PushState(d, desc, consolidate)
    PROVE  /\ stack' \in Seq(Doc) /\ current' \in Int /\ saved' \in Int
           /\ lastAction' \in Descs \cup {CreatedDesc, NoDesc}
           /\ mayConsolidate' \in BOOLEAN
           /\ IndexOK' /\ ConsolidateOnlyAtTop'
<1>1. CASE Consolidates(desc, consolidate)
  BY <1>1, RecapturedFacts
     DEF StackInv, PushState, TypeOK, IndexOK, ConsolidateOnlyAtTop
<1>2. CASE ~Consolidates(desc, consolidate)
  <2>1. /\ stack' = Pushed(d) /\ current' = current + 1
        /\ saved' = SavedAfterAbandon
        /\ lastAction' = desc /\ mayConsolidate' = TRUE
    BY <1>2 DEF PushState
  <2>2. stack' \in Seq(Doc) /\ Len(stack') = current + 2
    BY <2>1, PushedFacts DEF StackInv
  <2>3. saved' \in Int /\ -1 <= saved' /\ saved' <= current
    BY <2>1 DEF SavedAfterAbandon, StackInv, TypeOK, IndexOK
  <2>4. QED
    BY <2>1, <2>2, <2>3 DEF StackInv, TypeOK, IndexOK, ConsolidateOnlyAtTop
<1>3. QED
  BY <1>1, <1>2

LEMMA MoveToKeepsStack ==
    ASSUME StackInv, NEW i \in 0 .. Len(stack) - 1, MoveTo(i)
    PROVE  /\ stack' \in Seq(Doc) /\ current' \in Int /\ saved' \in Int
           /\ lastAction' \in Descs \cup {CreatedDesc, NoDesc}
           /\ mayConsolidate' \in BOOLEAN
           /\ IndexOK' /\ ConsolidateOnlyAtTop'
           /\ At(i) \in Doc
<1>1. stack \in Seq(Doc) /\ i + 1 \in 1 .. Len(stack)
  BY DEF StackInv, TypeOK
<1>2. At(i) \in Doc
  BY <1>1 DEF At
<1>3. stack # <<>>
  BY <1>1
<1>4. /\ current' = i /\ stack' = stack /\ saved' = saved
      /\ lastAction' = NoDesc /\ mayConsolidate' = FALSE
  BY DEF MoveTo
<1>5. IndexOK' /\ ConsolidateOnlyAtTop'
  BY <1>1, <1>3, <1>4 DEF StackInv, IndexOK, ConsolidateOnlyAtTop
<1>6. current' \in Int /\ saved' \in Int /\ stack' \in Seq(Doc)
  BY <1>1, <1>4 DEF StackInv, TypeOK
<1>7. mayConsolidate' \in BOOLEAN /\ lastAction' \in Descs \cup {CreatedDesc, NoDesc}
  BY <1>4
<1>8. QED
  BY <1>2, <1>5, <1>6, <1>7

LEMMA StackStep == StackInv /\ [Next]_vars => StackInv'
<1> SUFFICES ASSUME StackInv, [Next]_vars PROVE StackInv'
  OBVIOUS
<1> USE DEF StackInv
<1>a. ASSUME NEW x \in Audio PROVE [tracks EXCEPT !.audio = x] \in Doc
  BY DEF TypeOK, Doc
<1>b. ASSUME NEW v \in View PROVE [tracks EXCEPT !.view = v] \in Doc
  BY DEF TypeOK, Doc
<1>1. ASSUME NEW x \in Audio, NEW desc \in Descs, NEW consolidate \in BOOLEAN,
             PushHistoryState(x, desc, consolidate)
      PROVE  StackInv'
  <2> DEFINE d == [tracks EXCEPT !.audio = x]
  <2>1. d \in Doc /\ PushState(d, desc, consolidate)
        /\ tracks' = d /\ interaction' = FALSE /\ disk' = disk
    BY <1>1, <1>a DEF PushHistoryState
  <2> HIDE DEF d
  <2>2. QED
    BY <2>1, PushStateKeepsStack DEF TypeOK
<1>2. ASSUME NEW x \in Audio, PushHistoryStateFails(x) PROVE StackInv'
  BY <1>2, <1>a DEF PushHistoryStateFails, manager, TypeOK, IndexOK,
     ConsolidateOnlyAtTop
<1>3. ASSUME NEW v \in View, ChangeSelection(v) PROVE StackInv'
  <2> DEFINE d == [tracks EXCEPT !.view = v]
  <2>1. d \in Doc /\ tracks' = d /\ ModifyState(d)
        /\ UNCHANGED <<current, saved, lastAction, mayConsolidate, interaction, disk>>
    BY <1>3, <1>b DEF ChangeSelection
  <2> HIDE DEF d
  <2>2. stack' \in Seq(Doc) /\ Len(stack') = Len(stack)
    BY <2>1, RecapturedFacts DEF ModifyState, TypeOK
  <2>3. QED
    BY <2>1, <2>2 DEF TypeOK, IndexOK, ConsolidateOnlyAtTop
<1>4. ASSUME NEW x \in Audio, ChangeParameter(x) PROVE StackInv'
  <2> DEFINE d == [tracks EXCEPT !.audio = x]
  <2>1. d \in Doc /\ tracks' = d /\ ModifyState(d) /\ saved' = -1
        /\ UNCHANGED <<current, lastAction, mayConsolidate, interaction, disk>>
    BY <1>4, <1>a DEF ChangeParameter
  <2> HIDE DEF d
  <2>2. stack' \in Seq(Doc) /\ Len(stack') = Len(stack)
    BY <2>1, RecapturedFacts DEF ModifyState, TypeOK
  <2>3. QED
    BY <2>1, <2>2 DEF TypeOK, IndexOK, ConsolidateOnlyAtTop
<1>5. ASSUME StartUserInteraction PROVE StackInv'
  <2>1. stack' \in Seq(Doc) /\ Len(stack') = Len(stack)
    BY <1>5, RecapturedFacts DEF StartUserInteraction, ModifyState, TypeOK
  <2>2. QED
    BY <1>5, <2>1 DEF StartUserInteraction, TypeOK, IndexOK, ConsolidateOnlyAtTop
<1>6. ASSUME NEW x \in Audio, LiveEdit(x) PROVE StackInv'
  BY <1>6, <1>a DEF LiveEdit, manager, TypeOK, IndexOK, ConsolidateOnlyAtTop
<1>7. ASSUME EndUserInteraction PROVE StackInv'
  BY <1>7 DEF EndUserInteraction, manager, TypeOK, IndexOK, ConsolidateOnlyAtTop
<1>8. ASSUME NEW ending \in BOOLEAN, RollbackState(ending) PROVE StackInv'
  BY <1>8, OpenFacts, MoveToKeepsStack DEF RollbackState, TypeOK
<1>9. ASSUME NEW i \in 0 .. Len(stack) - 1, UndoRedo(i) \/ UndoRedoFails(i)
      PROVE  StackInv'
  BY <1>9, MoveToKeepsStack DEF UndoRedo, UndoRedoFails, TypeOK
<1>10. ASSUME Undo PROVE StackInv'
  BY <1>10, <1>9 DEF Undo, UndoAvailable, CheckAvailable, TypeOK
<1>11. ASSUME Redo PROVE StackInv'
  BY <1>11, <1>9 DEF Redo, RedoAvailable, CheckAvailable, TypeOK
<1>12. ASSUME NEW i \in 0 .. MaxStates - 1, UndoRedoToIndex(i) PROVE StackInv'
  <2>1. i \in 0 .. Len(stack) - 1
    BY <1>12, BoundAssumption DEF UndoRedoToIndex, CheckAvailable, TypeOK
  <2>2. QED
    BY <1>12, <2>1, MoveToKeepsStack DEF UndoRedoToIndex, TypeOK
<1>13. ASSUME Save PROVE StackInv'
  BY <1>13 DEF Save, TypeOK, IndexOK, ConsolidateOnlyAtTop, IsOpen
<1>14. ASSUME Close PROVE StackInv'
  BY <1>14, ContentAssumption
     DEF Close, TypeOK, IndexOK, ConsolidateOnlyAtTop, EmptyDoc, Doc
<1>15. ASSUME InitialState PROVE StackInv'
  BY <1>15 DEF InitialState, TypeOK, IndexOK, ConsolidateOnlyAtTop
<1>16. ASSUME UNCHANGED vars PROVE StackInv'
  BY <1>16 DEF vars, manager, TypeOK, IndexOK, ConsolidateOnlyAtTop
<1>17. QED
  BY <1>1, <1>2, <1>3, <1>4, <1>5, <1>6, <1>7, <1>8, <1>10, <1>11, <1>12,
     <1>13, <1>14, <1>15, <1>16 DEF Next

(* Whatever fails, the variables keep their types and the two indices name *)
(* states of the stack, and consolidation is on at the top only.           *)
THEOREM StackSafety == Spec => [](TypeOK /\ IndexOK /\ ConsolidateOnlyAtTop)
<1>1. StackInv => TypeOK /\ IndexOK /\ ConsolidateOnlyAtTop
  BY DEF StackInv
<1>2. QED
  BY <1>1, InitStack, StackStep, PTL DEF Spec

(* In particular every operation keeps the stack a sequence of documents   *)
(* and its indices numbers, whatever fails (UndoManager).                  *)
THEOREM TypesHold == Spec => []TypeOK
BY StackSafety, PTL

(* In particular PushState rewrites no state that has others above it.     *)
THEOREM ConsolidationIsAtTop == Spec => []ConsolidateOnlyAtTop
BY StackSafety, PTL

-----------------------------------------------------------------------------
(* What relates the stack to the live document and to the file.            *)
ContentInv == SavedStateIsSaved /\ CurrentMatchesTracks

LEMMA InitContent == Init => ContentInv
<1> SUFFICES ASSUME Init PROVE ContentInv
  OBVIOUS
<1>1. stack = <<tracks>> /\ disk = tracks /\ current = 0 /\ saved = 0
  BY DEF Init
<1>2. At(0) = tracks
  BY <1>1 DEF At
<1>3. QED
  BY <1>1, <1>2 DEF ContentInv, SavedStateIsSaved, CurrentMatchesTracks, Settled

(* A new state above the current one, or the current one captured again.   *)
LEMMA PushStateKeepsContent ==
    ASSUME StackInv, ContentInv, IsOpen, NEW d \in Doc, NEW desc \in Descs,
           NEW consolidate \in BOOLEAN, PushState(d, desc, consolidate),
           tracks' = d, disk' = disk
    PROVE  ContentInv'
<1>1. current \in 0 .. Len(stack) - 1 /\ saved \in -1 .. Len(stack) - 1
  BY OpenFacts DEF StackInv, TypeOK, IndexOK
<1>2. stack'[current' + 1] = d /\ saved' <= current'
        /\ (saved' >= 0 => saved' = saved /\ stack'[saved + 1] = stack[saved + 1])
  <2>1. CASE Consolidates(desc, consolidate)
    <3>1. /\ stack' = Recaptured(d) /\ current' = current
          /\ saved' = IF current = saved THEN -1 ELSE saved
      BY <2>1 DEF PushState
    <3>2. current = Len(stack) - 1
      BY <2>1 DEF Consolidates, StackInv, ConsolidateOnlyAtTop
    <3>3. QED
      BY <1>1, <3>1, <3>2, RecapturedFacts DEF StackInv
  <2>2. CASE ~Consolidates(desc, consolidate)
    <3>1. /\ stack' = Pushed(d) /\ current' = current + 1
          /\ saved' = IF saved > current THEN -1 ELSE saved
      BY <2>2 DEF PushState, SavedAfterAbandon
    <3>2. QED
      BY <1>1, <3>1, PushedFacts DEF StackInv
  <2>3. QED
    BY <2>1, <2>2
<1>3. QED
  BY <1>2 DEF ContentInv, SavedStateIsSaved, CurrentMatchesTracks, Settled, At

(* Capturing the live document into the current state.                     *)
LEMMA RecapturedKeepsContent ==
    ASSUME StackInv, ContentInv, IsOpen, NEW d \in Doc,
           stack' = IF interaction THEN stack ELSE Recaptured(d),
           d.audio = tracks.audio \/ saved' = -1,
           tracks' = d, disk' = disk, current' = current,
           saved' \in {saved, -1}, interaction => interaction'
    PROVE  ContentInv'
<1>1. current \in 0 .. Len(stack) - 1 /\ saved \in -1 .. Len(stack) - 1
  BY OpenFacts DEF StackInv, TypeOK, IndexOK
<1>2. CASE interaction
  BY <1>2, <1>1 DEF ContentInv, SavedStateIsSaved, CurrentMatchesTracks, At
<1>3. CASE ~interaction
  <2>1. At(current).audio = tracks.audio
    BY <1>3 DEF ContentInv, CurrentMatchesTracks, Settled
  <2>2. stack'[current + 1] = d
    BY <1>1, <1>3, RecapturedFacts DEF StackInv
  <2>3. ASSUME saved' >= 0 PROVE stack'[saved' + 1].audio = disk'.audio
    <3>1. saved' = saved /\ stack[saved + 1].audio = disk.audio
      BY <2>3 DEF ContentInv, SavedStateIsSaved, At
    <3>2. CASE saved = current
      <4>1. d.audio = tracks.audio
        BY <1>1, <2>3, <3>1
      <4>2. stack'[saved' + 1] = d /\ d.audio = disk.audio
        BY <2>1, <2>2, <3>1, <3>2, <4>1 DEF At
      <4>3. QED
        BY <4>2
    <3>3. CASE saved # current
      <4>1. stack'[saved + 1] = stack[saved + 1]
        BY <1>1, <1>3, <2>3, <3>1, <3>3, RecapturedFacts DEF StackInv
      <4>2. QED
        BY <3>1, <4>1
    <3>4. QED
      BY <3>2, <3>3
  <2>4. QED
    BY <2>2, <2>3 DEF ContentInv, SavedStateIsSaved, CurrentMatchesTracks,
       Settled, At
<1>4. QED
  BY <1>2, <1>3

LEMMA MoveToKeepsContent ==
    ASSUME StackInv, ContentInv, NEW i \in 0 .. Len(stack) - 1, MoveTo(i),
           tracks' = At(i), disk' = disk
    PROVE  ContentInv'
BY DEF MoveTo, ContentInv, SavedStateIsSaved, CurrentMatchesTracks, Settled, At

LEMMA ContentStep ==
    ASSUME Faults = {}
    PROVE  StackInv /\ ContentInv /\ [Next]_vars => ContentInv'
<1> SUFFICES ASSUME StackInv, ContentInv, [Next]_vars PROVE ContentInv'
  OBVIOUS
<1>a. TypeOK /\ IndexOK
  BY DEF StackInv
<1>b. ASSUME NEW x \in Audio
      PROVE  [tracks EXCEPT !.audio = x] \in Doc
  BY <1>a DEF TypeOK, Doc
<1>c. ASSUME NEW v \in View
      PROVE  /\ [tracks EXCEPT !.view = v] \in Doc
             /\ [tracks EXCEPT !.view = v].audio = tracks.audio
  BY <1>a DEF TypeOK, Doc
<1>1. ASSUME NEW x \in Audio, NEW desc \in Descs, NEW consolidate \in BOOLEAN,
             PushHistoryState(x, desc, consolidate)
      PROVE  ContentInv'
  <2> DEFINE d == [tracks EXCEPT !.audio = x]
  <2>1. /\ d \in Doc /\ IsOpen /\ PushState(d, desc, consolidate)
        /\ tracks' = d /\ disk' = disk
    BY <1>1, <1>b DEF PushHistoryState
  <2> HIDE DEF d
  <2>2. QED
    BY <2>1, PushStateKeepsContent
<1>2. ASSUME NEW x \in Audio, PushHistoryStateFails(x) PROVE ContentInv'
  BY <1>2 DEF PushHistoryStateFails
<1>3. ASSUME NEW v \in View, ChangeSelection(v) PROVE ContentInv'
  <2> DEFINE d == [tracks EXCEPT !.view = v]
  <2>1. /\ d \in Doc /\ IsOpen /\ tracks' = d /\ d.audio = tracks.audio
        /\ ModifyState(d)
        /\ UNCHANGED <<current, saved, lastAction, mayConsolidate, interaction, disk>>
    BY <1>3, <1>c DEF ChangeSelection
  <2> HIDE DEF d
  <2>2. QED
    BY <2>1, RecapturedKeepsContent DEF ModifyState
<1>4. ASSUME NEW x \in Audio, ChangeParameter(x) PROVE ContentInv'
  <2> DEFINE d == [tracks EXCEPT !.audio = x]
  <2>1. /\ d \in Doc /\ IsOpen /\ tracks' = d /\ saved' = -1
        /\ ModifyState(d)
        /\ UNCHANGED <<current, lastAction, mayConsolidate, interaction, disk>>
    BY <1>4, <1>b DEF ChangeParameter
  <2> HIDE DEF d
  <2>2. QED
    BY <2>1, RecapturedKeepsContent DEF ModifyState
<1>5. ASSUME StartUserInteraction PROVE ContentInv'
  <2>1. tracks \in Doc
    BY <1>a DEF TypeOK
  <2>2. QED
    BY <1>5, <2>1, RecapturedKeepsContent DEF StartUserInteraction, ModifyState
<1>6. ASSUME NEW x \in Audio, LiveEdit(x) PROVE ContentInv'
  BY <1>6 DEF LiveEdit, manager, ContentInv, SavedStateIsSaved,
     CurrentMatchesTracks, At
<1>7. ASSUME EndUserInteraction PROVE ContentInv'
  BY <1>7 DEF EndUserInteraction, LeavesEdits, manager, ContentInv,
     SavedStateIsSaved, CurrentMatchesTracks, Settled, At
<1>8. ASSUME NEW ending \in BOOLEAN, RollbackState(ending) PROVE ContentInv'
  BY <1>8, <1>a, OpenFacts, MoveToKeepsContent DEF RollbackState
<1>9. ASSUME NEW i \in 0 .. Len(stack) - 1, UndoRedo(i) \/ UndoRedoFails(i)
      PROVE  ContentInv'
  BY <1>9, MoveToKeepsContent DEF UndoRedo, UndoRedoFails
<1>10. ASSUME Undo PROVE ContentInv'
  BY <1>10, <1>9, <1>a DEF Undo, UndoAvailable, CheckAvailable, TypeOK
<1>11. ASSUME Redo PROVE ContentInv'
  BY <1>11, <1>9, <1>a DEF Redo, RedoAvailable, CheckAvailable, TypeOK
<1>12. ASSUME NEW i \in 0 .. MaxStates - 1, UndoRedoToIndex(i) PROVE ContentInv'
  <2>1. i \in 0 .. Len(stack) - 1
    BY <1>12, <1>a, BoundAssumption DEF UndoRedoToIndex, CheckAvailable, TypeOK
  <2>2. QED
    BY <1>12, <2>1, MoveToKeepsContent DEF UndoRedoToIndex
<1>13. ASSUME Save PROVE ContentInv'
  BY <1>13 DEF Save, LeavesEdits, ContentInv, SavedStateIsSaved,
     CurrentMatchesTracks, Settled, At
<1>14. ASSUME Close PROVE ContentInv'
  BY <1>14 DEF Close, ContentInv, SavedStateIsSaved, CurrentMatchesTracks, IsOpen
<1>15. ASSUME InitialState PROVE ContentInv'
  <2>1. stack' = <<disk>> /\ current' = 0 /\ saved' = 0 /\ tracks' = disk /\ disk' = disk
    BY <1>15 DEF InitialState
  <2>2. QED
    BY <2>1 DEF ContentInv, SavedStateIsSaved, CurrentMatchesTracks, Settled, At
<1>16. ASSUME UNCHANGED vars PROVE ContentInv'
  BY <1>16 DEF vars, manager, ContentInv, SavedStateIsSaved,
     CurrentMatchesTracks, IsOpen, Settled, At
<1>17. QED
  BY <1>1, <1>2, <1>3, <1>4, <1>5, <1>6, <1>7, <1>8, <1>10, <1>11, <1>12,
     <1>13, <1>14, <1>15, <1>16 DEF Next

(* With autosaves that succeed, completions that succeed and inputs that   *)
(* do not overlap, the saved mark never names a state the file does not    *)
(* hold and the current state is what the user sees.                       *)
THEOREM ContentSafety ==
    ASSUME Faults = {}
    PROVE  Spec => [](SavedStateIsSaved /\ CurrentMatchesTracks)
<1>1. ContentInv => SavedStateIsSaved /\ CurrentMatchesTracks
  BY DEF ContentInv
<1>2. StackInv /\ ContentInv /\ [Next]_vars => ContentInv'
  BY ContentStep
<1>3. QED
  BY <1>1, <1>2, InitStack, StackStep, InitContent, PTL DEF Spec

(* In particular undo, redo and rollback lead to what the current state    *)
(* holds: between edits it has the audio of the live tracks.               *)
THEOREM CurrentIsLive ==
    ASSUME Faults = {}
    PROVE  Spec => []CurrentMatchesTracks
BY ContentSafety, PTL

(* Hence a project that is closed without a question has nothing to lose.  *)
THEOREM CleanSafety ==
    ASSUME Faults = {}
    PROVE  Spec => []CleanMeansSaved
<1>1. TypeOK /\ IndexOK /\ SavedStateIsSaved /\ CurrentMatchesTracks
        => CleanMeansSaved
  <2> SUFFICES ASSUME TypeOK, IndexOK, SavedStateIsSaved, CurrentMatchesTracks,
                      IsOpen, ~interaction, ~UnsavedChanges
               PROVE  tracks.audio = disk.audio
    BY DEF CleanMeansSaved
  <2>1. saved = current /\ current >= 0
    BY OpenFacts DEF UnsavedChanges
  <2>2. QED
    BY <2>1 DEF SavedStateIsSaved, CurrentMatchesTracks, Settled
<1>2. Spec => [](SavedStateIsSaved /\ CurrentMatchesTracks)
  BY ContentSafety
<1>3. QED
  BY <1>1, <1>2, StackSafety, PTL

-----------------------------------------------------------------------------
(* What no step may do, whatever fails.                                    *)
LEMMA StackAt ==
    ASSUME StackInv, IsOpen
    PROVE  /\ stack \in Seq(Doc) /\ Len(stack) \in Nat
           /\ current \in 0 .. Len(stack) - 1
BY OpenFacts DEF StackInv, TypeOK, IndexOK

LEMMA StepKeepsPast ==
    ASSUME StackInv, [Next]_vars, IsOpen, IsOpen', NEW k \in 1 .. current'
    PROVE  k <= Len(stack) /\ stack'[k] = stack[k]
<1>a. /\ stack \in Seq(Doc) /\ current \in 0 .. Len(stack) - 1
      /\ Len(stack) \in Nat
  BY StackAt
<1>b. ASSUME current' = current, stack' = stack
      PROVE  k <= Len(stack) /\ stack'[k] = stack[k]
  BY <1>a, <1>b
<1>c. ASSUME NEW d \in Doc, stack' = Recaptured(d), current' = current
      PROVE  k <= Len(stack) /\ stack'[k] = stack[k]
  BY <1>a, <1>c, RecapturedFacts DEF StackInv
<1>d. ASSUME NEW i \in 0 .. Len(stack) - 1, MoveTo(i)
      PROVE  k <= Len(stack) /\ stack'[k] = stack[k]
  BY <1>a, <1>d DEF MoveTo
<1>e. tracks \in Doc
  BY DEF StackInv, TypeOK
<1>1. ASSUME NEW a \in Audio, NEW desc \in Descs, NEW consolidate \in BOOLEAN,
             PushHistoryState(a, desc, consolidate)
      PROVE  k <= Len(stack) /\ stack'[k] = stack[k]
  <2> DEFINE d == [tracks EXCEPT !.audio = a]
  <2>1. d \in Doc
    BY <1>e DEF Doc
  <2>2. PushState(d, desc, consolidate)
    BY <1>1 DEF PushHistoryState
  <2> HIDE DEF d
  <2>3. CASE Consolidates(desc, consolidate)
    BY <1>c, <2>1, <2>2, <2>3 DEF PushState
  <2>4. CASE ~Consolidates(desc, consolidate)
    <3>1. stack' = Pushed(d) /\ current' = current + 1
      BY <2>2, <2>4 DEF PushState
    <3>2. k \in 1 .. current + 1
      BY <1>a, <3>1
    <3> QED BY <1>a, <2>1, <3>1, <3>2, PushedFacts DEF StackInv
  <2> QED BY <2>3, <2>4
<1>2. ASSUME NEW v \in View, ChangeSelection(v)
      PROVE  k <= Len(stack) /\ stack'[k] = stack[k]
  <2> DEFINE d == [tracks EXCEPT !.view = v]
  <2>1. d \in Doc
    BY <1>e DEF Doc
  <2>2. ModifyState(d) /\ current' = current
    BY <1>2 DEF ChangeSelection
  <2> HIDE DEF d
  <2> QED BY <1>b, <1>c, <2>1, <2>2 DEF ModifyState
<1>3. ASSUME NEW a \in Audio, ChangeParameter(a)
      PROVE  k <= Len(stack) /\ stack'[k] = stack[k]
  <2> DEFINE d == [tracks EXCEPT !.audio = a]
  <2>1. d \in Doc
    BY <1>e DEF Doc
  <2>2. ModifyState(d) /\ current' = current
    BY <1>3 DEF ChangeParameter
  <2> HIDE DEF d
  <2> QED BY <1>b, <1>c, <2>1, <2>2 DEF ModifyState
<1>4. ASSUME StartUserInteraction PROVE k <= Len(stack) /\ stack'[k] = stack[k]
  BY <1>4, <1>b, <1>c, <1>e DEF StartUserInteraction, ModifyState
<1>5. ASSUME Undo \/ Redo PROVE k <= Len(stack) /\ stack'[k] = stack[k]
  <2>1. PICK i \in 0 .. Len(stack) - 1 : MoveTo(i)
    BY <1>a, <1>5 DEF Undo, Redo, UndoAvailable, RedoAvailable, CheckAvailable,
       UndoRedo, UndoRedoFails
  <2> QED BY <1>d, <2>1
<1>6. ASSUME NEW i \in 0 .. MaxStates - 1, UndoRedoToIndex(i)
      PROVE  k <= Len(stack) /\ stack'[k] = stack[k]
  <2>1. i \in 0 .. Len(stack) - 1
    BY <1>a, <1>6, BoundAssumption DEF UndoRedoToIndex, CheckAvailable
  <2> QED BY <1>6, <1>d, <2>1 DEF UndoRedoToIndex
<1>7. ASSUME NEW ending \in BOOLEAN, RollbackState(ending)
      PROVE  k <= Len(stack) /\ stack'[k] = stack[k]
  BY <1>a, <1>7, <1>d DEF RollbackState
<1> QED
  BY <1>b, <1>1, <1>2, <1>3, <1>4, <1>5, <1>6, <1>7
     DEF Next, vars, manager, PushHistoryStateFails, LiveEdit, EndUserInteraction,
         Save, Close, InitialState, IsOpen

(* Whatever fails, an edit, an undo or a recapture (UndoManager::PushState, *)
(* ModifyState) leaves every state below the new current one as it was.    *)
THEOREM PastIsKept == Spec => PastIsImmutable
<1>1. StackInv /\ [Next]_vars =>
        [IsOpen /\ IsOpen' =>
           \A i \in 1 .. current' : i <= Len(stack) /\ stack'[i] = stack[i]]_vars
  BY StepKeepsPast
<1> QED
  BY <1>1, InitStack, StackStep, PTL DEF Spec, PastIsImmutable

LEMMA StepKeepsFrozen ==
    ASSUME StackInv, [Next]_vars, interaction, interaction', IsOpen',
           current' = current
    PROVE  stack' = stack
<1>1. ~IsOpen => current = -1
  BY DEF StackInv, IndexOK, IsOpen
<1>2. ASSUME Undo \/ Redo PROVE stack' = stack
  BY <1>2 DEF Undo, Redo, UndoRedo, UndoRedoFails, MoveTo
<1>3. ASSUME NEW v \in View, ChangeSelection(v) PROVE stack' = stack
  BY <1>3 DEF ChangeSelection, ModifyState
<1>4. ASSUME NEW a \in Audio, ChangeParameter(a) PROVE stack' = stack
  BY <1>4 DEF ChangeParameter, ModifyState
<1>5. ASSUME NEW a \in Audio, NEW desc \in Descs, NEW consolidate \in BOOLEAN,
             PushHistoryState(a, desc, consolidate)
      PROVE  stack' = stack
  BY <1>5 DEF PushHistoryState
<1>6. ASSUME NEW ending \in BOOLEAN, RollbackState(ending) PROVE stack' = stack
  BY <1>6 DEF RollbackState, MoveTo
<1>7. ASSUME NEW i \in 0 .. MaxStates - 1, UndoRedoToIndex(i) PROVE stack' = stack
  BY <1>7 DEF UndoRedoToIndex, MoveTo
<1>8. ~StartUserInteraction /\ ~EndUserInteraction /\ ~Close
  BY DEF StartUserInteraction, EndUserInteraction, Close, IsOpen
<1>9. ~InitialState
  BY <1>1 DEF InitialState
<1> QED
  BY <1>2, <1>3, <1>4, <1>5, <1>6, <1>7, <1>8, <1>9
     DEF Next, vars, manager, PushHistoryStateFails, LiveEdit, Save

(* Whatever fails, nothing recaptures the state a cancelled drag goes back *)
(* to while the drag lasts (Au3ProjectHistory::modifyState).               *)
THEOREM DragIsFrozen == Spec => InteractionFreezesState
<1>1. StackInv /\ [Next]_vars =>
        [interaction /\ interaction' /\ IsOpen' /\ current' = current
           => stack' = stack]_vars
  BY StepKeepsFrozen
<1> QED
  BY <1>1, InitStack, StackStep, PTL DEF Spec, InteractionFreezesState

-----------------------------------------------------------------------------
(* The history as a timeline: the audible contents of a stack.             *)
AudioOf(s) == [i \in 1 .. Len(s) |-> s[i].audio]

LEMMA AudioOfPushed ==
    ASSUME StackInv, IsOpen, NEW d \in Doc
    PROVE  AudioOf(Pushed(d))
             = Append(SubSeq(AudioOf(stack), 1, current + 1), d.audio)
<1> DEFINE left == AudioOf(Pushed(d))
           past == SubSeq(AudioOf(stack), 1, current + 1)
           right == Append(past, d.audio)
<1>1. /\ stack \in Seq(Doc) /\ current \in 0 .. Len(stack) - 1
      /\ Len(stack) \in Nat
  BY StackAt
<1>2. /\ Pushed(d) \in Seq(Doc) /\ Len(Pushed(d)) = current + 2
      /\ Pushed(d)[current + 2] = d
      /\ \A i \in 1 .. current + 1 : Pushed(d)[i] = stack[i]
  BY PushedFacts DEF StackInv
<1>3. ASSUME NEW s \in Seq(Doc)
      PROVE  /\ AudioOf(s) \in Seq(Audio) /\ Len(AudioOf(s)) = Len(s)
             /\ \A i \in 1 .. Len(s) : AudioOf(s)[i] = s[i].audio
  <2>1. \A i \in 1 .. Len(s) : s[i] \in Doc
    OBVIOUS
  <2>2. \A x \in Doc : x.audio \in Audio
    BY DEF Doc
  <2> QED BY <2>1, <2>2 DEF AudioOf
<1>4. /\ past \in Seq(Audio) /\ Len(past) = current + 1
      /\ \A i \in 1 .. current + 1 : past[i] = stack[i].audio
  <2> DEFINE all == AudioOf(stack)
  <2>1. all \in Seq(Audio) /\ Len(all) = Len(stack)
        /\ \A i \in 1 .. Len(stack) : all[i] = stack[i].audio
    BY <1>1, <1>3
  <2> HIDE DEF all
  <2>2. /\ SubSeq(all, 1, current + 1) \in Seq(Audio)
        /\ Len(SubSeq(all, 1, current + 1)) = current + 1
        /\ \A i \in 1 .. current + 1 : SubSeq(all, 1, current + 1)[i] = all[i]
    BY <1>1, <2>1
  <2> QED BY <1>1, <2>1, <2>2 DEF all
<1>5. d.audio \in Audio
  BY DEF Doc
<1>6. /\ right \in Seq(Audio) /\ Len(right) = current + 2
      /\ right[current + 2] = d.audio
      /\ \A i \in 1 .. current + 1 : right[i] = stack[i].audio
  <2> HIDE DEF past
  <2> QED BY <1>1, <1>4, <1>5
<1>7. /\ left \in Seq(Audio) /\ Len(left) = current + 2
      /\ \A i \in 1 .. current + 2 : left[i] = Pushed(d)[i].audio
  BY <1>2, <1>3
<1>8. \A i \in 1 .. Len(left) : left[i] = right[i]
  <2> HIDE DEF left, right
  <2> QED BY <1>1, <1>2, <1>6, <1>7
<1> HIDE DEF left, right
<1> QED BY <1>6, <1>7, <1>8, SeqEqual DEF left, right

LEMMA AudioOfRecaptured ==
    ASSUME StackInv, IsOpen, NEW d \in Doc
    PROVE  /\ AudioOf(Recaptured(d)) = [AudioOf(stack) EXCEPT ![current + 1] = d.audio]
           /\ d.audio = At(current).audio => AudioOf(Recaptured(d)) = AudioOf(stack)
BY StackAt, RecapturedFacts DEF StackInv, AudioOf, At

-----------------------------------------------------------------------------
(* What the timeline is while the project is open, and after it.           *)
LEMMA OpenTimeline ==
    ASSUME StackInv
    PROVE  /\ IsOpen => /\ stack \in Seq(Doc) /\ current \in 0 .. Len(stack) - 1
                        /\ AudioOf(stack)[current + 1] = At(current).audio
                        /\ Len(AudioOf(stack)) = Len(stack)
                        /\ TimelineOfStack = AudioOf(stack)
           /\ ~IsOpen => current = -1 /\ saved = -1
<1>1. ASSUME IsOpen
      PROVE  /\ stack \in Seq(Doc) /\ current \in 0 .. Len(stack) - 1
             /\ AudioOf(stack)[current + 1] = At(current).audio
             /\ Len(AudioOf(stack)) = Len(stack)
  BY <1>1, StackAt DEF AudioOf, At
<1>2. ASSUME ~IsOpen PROVE current = -1 /\ saved = -1
  BY <1>2 DEF StackInv, TypeOK, IndexOK, IsOpen
<1> QED BY <1>1, <1>2 DEF TimelineOfStack, AudioOf

(* The clean flag of the timeline is never wrong.                          *)
LEMMA CleanIsHonest ==
    ASSUME StackInv', ContentInv' PROVE T!NeverFalselyClean'
<1>1. CASE IsOpen'
  <2>1. stack' \in Seq(Doc) /\ current' \in 0 .. Len(stack') - 1
    BY <1>1 DEF StackInv, TypeOK, IndexOK, IsOpen
  <2>2. (~UnsavedChanges)' => stack'[current' + 1].audio = disk'.audio
    BY <2>1 DEF UnsavedChanges, ContentInv, SavedStateIsSaved, At
  <2>3. TimelineOfStack'[current' + 1] = stack'[current' + 1].audio
    <3>1. TimelineOfStack' = [i \in 1 .. Len(stack') |-> stack'[i].audio]
      BY DEF TimelineOfStack
    <3>2. Len(stack') \in Nat
      BY <2>1
    <3>3. \A n \in Nat, c \in Int : c \in 0 .. n - 1 => c + 1 \in 1 .. n
      OBVIOUS
    <3>4. current' \in Int
      BY DEF StackInv, TypeOK
    <3>5. current' + 1 \in 1 .. Len(stack')
      BY <2>1, <3>2, <3>3, <3>4, Zenon
    <3> QED BY <3>1, <3>5
  <2> QED
    BY <1>1, <2>2, <2>3 DEF T!NeverFalselyClean
<1>2. CASE ~IsOpen'
  BY <1>2 DEF T!NeverFalselyClean
<1> QED BY <1>1, <1>2

LEMMA TimelineStep ==
    ASSUME Faults = {}, StackInv, ContentInv, StackInv', ContentInv', [Next]_vars
    PROVE  [T!Next]_(T!vars)
<1> DEFINE Line == IF IsOpen THEN AudioOf(stack) ELSE <<disk.audio>>
           Present == IF IsOpen THEN current + 1 ELSE 1
           Same == Line' = Line /\ Present' = Present /\ disk' = disk
                     /\ (UnsavedChanges' <=> UnsavedChanges)
           Commits == /\ disk' = disk /\ Present' = Present + 1
                      /\ \E a \in Audio : Line' = Append(SubSeq(Line, 1, Present), a)
           Amends == /\ disk' = disk /\ Present' = Present
                     /\ \E a \in Audio : Line' = [Line EXCEPT ![Present] = a]
           Travels == disk' = disk /\ Line' = Line /\ Present' \in 1 .. Len(Line)
           Stores == disk'.audio = Line[Present] /\ Line' = Line /\ Present' = Present
           Reopens == disk' = disk /\ Line' = <<disk.audio>> /\ Present' = 1
<1>a. T!NeverFalselyClean' /\ (~UnsavedChanges)' \in BOOLEAN
  BY CleanIsHonest DEF UnsavedChanges
<1>b. /\ (IF IsOpen THEN TimelineOfStack ELSE <<disk.audio>>) = Line
      /\ (IF IsOpen' THEN TimelineOfStack' ELSE <<disk.audio>>') = Line'
  BY DEF TimelineOfStack, AudioOf
<1>c. ASSUME Commits \/ Amends \/ Travels \/ Stores \/ Reopens
      PROVE  T!Next
  <2>1. CASE Commits
    BY <2>1, <1>a, <1>b DEF T!Next, T!Commit
  <2>2. CASE Amends
    BY <2>2, <1>a, <1>b DEF T!Next, T!Amend
  <2>3. CASE Travels
    BY <2>3, <1>a, <1>b DEF T!Next, T!Travel
  <2>4. CASE Stores
    BY <2>4, <1>a, <1>b DEF T!Next, T!Store
  <2>5. CASE Reopens
    BY <2>5, <1>a, <1>b DEF T!Next, T!Reopen
  <2> QED BY <1>c, <2>1, <2>2, <2>3, <2>4, <2>5
<1>d. ASSUME Same PROVE UNCHANGED T!vars
  BY <1>d, <1>b DEF T!vars
<1> SUFFICES Commits \/ Amends \/ Travels \/ Stores \/ Reopens \/ Same
  BY <1>c, <1>d
<1>e. IsOpen => /\ stack \in Seq(Doc) /\ current \in 0 .. Len(stack) - 1
                /\ AudioOf(stack)[current + 1] = At(current).audio
                /\ Len(AudioOf(stack)) = Len(stack) /\ Len(stack) \in Nat
  BY OpenTimeline, StackAt
<1>f. tracks \in Doc /\ TypeOK /\ IndexOK
  BY DEF StackInv, TypeOK
<1>g. IsOpen /\ ~interaction => At(current).audio = tracks.audio
  BY DEF ContentInv, CurrentMatchesTracks, Settled
<1>h. ASSUME NEW i \in 0 .. Len(stack) - 1, MoveTo(i), IsOpen, disk' = disk
      PROVE  Travels
  <2>1. stack' = stack /\ current' = i /\ IsOpen'
    BY <1>h DEF MoveTo, IsOpen
  <2> QED BY <1>e, <1>h, <2>1
<1>i. ASSUME NEW d \in Doc, IsOpen, stack' = Recaptured(d), disk' = disk,
             current' = current
      PROVE  /\ Amends
             /\ d.audio = At(current).audio /\ saved' = saved => Same
  <2>1. IsOpen' /\ d.audio \in Audio
    BY <1>i, <1>e, <1>f, RecapturedFacts DEF IsOpen, Doc
  <2> QED
    BY <1>i, <2>1, AudioOfRecaptured DEF UnsavedChanges
<1>j. ASSUME UNCHANGED <<manager, disk>> PROVE Same
  BY <1>j DEF manager, IsOpen, UnsavedChanges, AudioOf
<1>1. ASSUME NEW a \in Audio, NEW desc \in Descs, NEW consolidate \in BOOLEAN,
             PushHistoryState(a, desc, consolidate)
      PROVE  Commits \/ Amends
  <2> DEFINE d == [tracks EXCEPT !.audio = a]
  <2>1. d \in Doc /\ d.audio = a
    BY <1>f DEF Doc
  <2>2. IsOpen /\ PushState(d, desc, consolidate) /\ disk' = disk
    BY <1>1 DEF PushHistoryState
  <2> HIDE DEF d
  <2>3. CASE Consolidates(desc, consolidate)
    <3>1. stack' = Recaptured(d) /\ current' = current
      BY <2>2, <2>3 DEF PushState
    <3> QED BY <1>i, <2>1, <2>2, <3>1
  <2>4. CASE ~Consolidates(desc, consolidate)
    <3>1. stack' = Pushed(d) /\ current' = current + 1
      BY <2>2, <2>4 DEF PushState
    <3>2. IsOpen'
      BY <1>e, <1>f, <2>1, <2>2, <3>1, PushedFacts DEF IsOpen
    <3> QED BY <1>e, <2>1, <2>2, <3>1, <3>2, AudioOfPushed
  <2> QED BY <2>3, <2>4
<1>2. ASSUME NEW v \in View, ChangeSelection(v) PROVE Same
  <2> DEFINE d == [tracks EXCEPT !.view = v]
  <2>1. d \in Doc /\ d.audio = tracks.audio
    BY <1>f DEF Doc
  <2>2. IsOpen /\ ModifyState(d) /\ UNCHANGED <<current, saved, lastAction, disk>>
        /\ mayConsolidate' = mayConsolidate
    BY <1>2 DEF ChangeSelection
  <2> HIDE DEF d
  <2> QED BY <1>g, <1>i, <1>j, <2>1, <2>2 DEF ModifyState, manager
<1>3. ASSUME NEW a \in Audio, ChangeParameter(a) PROVE Amends
  <2> DEFINE d == [tracks EXCEPT !.audio = a]
  <2>1. d \in Doc
    BY <1>f DEF Doc
  <2>2. IsOpen /\ ~interaction /\ ModifyState(d) /\ UNCHANGED <<current, disk>>
    BY <1>3 DEF ChangeParameter
  <2> HIDE DEF d
  <2> QED BY <1>i, <2>1, <2>2 DEF ModifyState
<1>4. ASSUME StartUserInteraction PROVE Same
  BY <1>4, <1>f, <1>g, <1>i DEF StartUserInteraction, ModifyState
<1>5. ASSUME NEW ending \in BOOLEAN, RollbackState(ending) PROVE Travels
  BY <1>5, <1>e, <1>h DEF RollbackState
<1>6. ASSUME Undo \/ Redo PROVE Travels
  <2>1. PICK i \in 0 .. Len(stack) - 1 : UndoRedo(i)
    BY <1>6, <1>f DEF Undo, Redo, UndoAvailable, RedoAvailable, CheckAvailable,
       UndoRedoFails, TypeOK
  <2>2. IsOpen
    BY <1>f, <2>1 DEF IsOpen, TypeOK
  <2> QED BY <1>h, <2>1, <2>2 DEF UndoRedo
<1>7. ASSUME NEW i \in 0 .. MaxStates - 1, UndoRedoToIndex(i) PROVE Travels
  <2>1. i \in 0 .. Len(stack) - 1 /\ IsOpen
    BY <1>7, <1>f, BoundAssumption DEF UndoRedoToIndex, CheckAvailable, IsOpen, TypeOK
  <2> QED BY <1>7, <1>h, <2>1 DEF UndoRedoToIndex
<1>8. ASSUME Save PROVE Stores
  <2>1. /\ IsOpen /\ Settled /\ disk' = tracks /\ stack' = stack
        /\ current' = current
    BY <1>8 DEF Save, LeavesEdits
  <2> QED BY <1>e, <2>1 DEF Settled, IsOpen
<1>9. ASSUME Close PROVE Reopens
  BY <1>9 DEF Close, IsOpen
<1>10. ASSUME InitialState PROVE Reopens
  <2>1. stack' = <<disk>> /\ current' = 0 /\ disk' = disk
    BY <1>10 DEF InitialState
  <2>2. AudioOf(stack') = <<disk.audio>>
    <3>1. AudioOf(stack') = [i \in 1 .. 1 |-> disk.audio]
      BY <2>1 DEF AudioOf
    <3> QED BY <3>1
  <2> QED BY <2>1, <2>2 DEF IsOpen
<1>11. \A a \in Audio : ~PushHistoryStateFails(a)
  BY DEF PushHistoryStateFails
<1>12. ASSUME UNCHANGED vars PROVE Same
  BY <1>12, <1>j DEF vars
<1>13. ASSUME NEW a \in Audio, LiveEdit(a) PROVE Same
  BY <1>13, <1>j DEF LiveEdit
<1>14. ASSUME EndUserInteraction PROVE Same
  BY <1>14, <1>j DEF EndUserInteraction
<1> HIDE DEF Commits, Amends, Travels, Stores, Reopens, Same
<1> QED
  BY <1>1, <1>2, <1>3, <1>4, <1>5, <1>6, <1>7, <1>8, <1>9, <1>10, <1>11, <1>12,
     <1>13, <1>14 DEF Next

(* Without faults the stack, its indices and the saved mark are a timeline *)
(* to the user: every operation of UndoManager and of the facade commits,  *)
(* amends, travels, stores or reopens it, or leaves it alone.              *)
THEOREM HistoryIsTimeline ==
    ASSUME Faults = {}
    PROVE  Spec => ImplementsTimeline
<1>1. Init => T!Init
  <2> SUFFICES ASSUME Init PROVE T!Init
    OBVIOUS
  <2>1. PICK a \in Audio, v \in View :
            /\ tracks = [audio |-> a, view |-> v]
            /\ stack = <<tracks>> /\ disk = tracks /\ current = 0 /\ saved = 0
    BY DEF Init
  <2>2. IsOpen /\ Len(stack) = 1 /\ stack[1].audio = a /\ disk.audio = a
    BY <2>1 DEF IsOpen
  <2>3. TimelineOfStack = <<a>>
    <3>1. TimelineOfStack = [i \in 1 .. 1 |-> a]
      BY <2>2 DEF TimelineOfStack
    <3> QED BY <3>1
  <2> QED BY <2>1, <2>2, <2>3 DEF T!Init, UnsavedChanges
<1>2. StackInv /\ ContentInv /\ StackInv' /\ ContentInv' /\ [Next]_vars
        => [T!Next]_(T!vars)
  BY TimelineStep
<1>3. StackInv /\ ContentInv /\ [Next]_vars => ContentInv'
  BY ContentStep
<1> QED
  BY <1>1, <1>2, <1>3, InitStack, StackStep, InitContent, PTL
     DEF Spec, ImplementsTimeline, T!Spec

=============================================================================
