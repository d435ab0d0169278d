------------------------ MODULE ExportRecipes_proofs ------------------------
(***************************************************************************)
(* Proofs about ExportRecipes, for any number of windows, identifiers,     *)
(* names and settings.                                                     *)
(***************************************************************************)
EXTENDS ExportRecipes, TLAPS

(* A window is inside the lock exactly from the read to the release. *)
Holder == \A w \in Windows :
    pc[w] \in {"read", "write", "release"} <=> lock = w

(* At every step of a call the window knows the call it is in. *)
Kinds == \A w \in Windows :
    /\ pc[w] = "lookup" => op[w] \in Requests /\ op[w].replace # NoId
    /\ pc[w] = "capture" => op[w] \in Requests
    /\ pc[w] \in {"acquire", "read", "write", "release"} =>
          op[w] \in Saves \cup Removals

(* What a window read under the lock is still what the file holds. *)
BaseIsFile == \A w \in Windows :
    pc[w] = "write" => file # Damaged /\ base[w] = file

(* A call has changed the file when it is about to report success, and at  *)
(* no earlier step, and reports nothing before it returns.                 *)
StoredLate == \A w \in Windows :
    /\ pc[w] = "release" => stored[w]
    /\ pc[w] \notin {"idle", "release"} => ~stored[w]
    /\ pc[w] # "idle" => answer[w] = "none"

(* The outcomes of the two checks are facts about the file until another   *)
(* window changes it.                                                      *)
NameChecked(w) ==
    IF op[w].kind = "request"
    THEN op[w].clash <=> Clash(file, op[w].replace, op[w].name)
    ELSE Clash(file, op[w].replace, op[w].recipe.name) => op[w].allow

CheckedSteps == {"lookup", "capture", "acquire", "read", "write"}

ChecksHoldFor(w) ==
    pc[w] \in CheckedSteps /\ op[w].kind # "remove" /\ ~raced[w] =>
        /\ file # Damaged
        /\ NameChecked(w)
        /\ pc[w] # "lookup" /\ op[w].replace # NoId => op[w].replace \in IdsIn(file)

ChecksHold == \A w \in Windows : ChecksHoldFor(w)

Inv == /\ TypeOK /\ UniqueIds /\ AnswersAreTrue
       /\ Holder /\ Kinds /\ BaseIsFile /\ StoredLate /\ ChecksHold

-----------------------------------------------------------------------------
(* The edit of a book keeps its recipes well formed and one per identifier.*)
LEMMA EditedBook ==
    ASSUME NEW b \in SUBSET Recipes, NEW o \in Saves \cup Removals,
           \A r, s \in b : r.id = s.id => r = s
    PROVE  /\ Edited(b, o) \in SUBSET Recipes
           /\ \A r, s \in Edited(b, o) : r.id = s.id => r = s
  <1>1. CASE o \in Saves
    <2>1. o.kind = "save" /\ o.recipe \in Recipes
      BY <1>1 DEF Saves
    <2>2. Edited(b, o) = {r \in b : r.id # o.recipe.id} \cup {o.recipe}
      BY <2>1 DEF Edited
    <2> QED BY <2>1, <2>2
  <1>2. CASE o \in Removals
    <2>1. o.kind # "save"
      BY <1>2 DEF Removals
    <2>2. Edited(b, o) = {r \in b : r.id # o.id}
      BY <2>1 DEF Edited
    <2> QED BY <2>2
  <1> QED BY <1>1, <1>2

(* createUuid() returns an identifier that nobody has. *)
LEMMA NewIdIsNew ==
    ASSUME minted \in SUBSET Ids, minted # Ids
    PROVE  NewId \in Ids \ minted
  <1>1. \E i \in Ids \ minted : TRUE
    OBVIOUS
  <1> QED BY <1>1 DEF NewId

LEMMA InitInv == Init => Inv
  <1> SUFFICES ASSUME Init PROVE Inv
    OBVIOUS
  <1>1. \A w \in Windows : pc[w] = "idle"
    BY DEF Init
  <1>2. ChecksHold
    BY <1>1 DEF ChecksHold, ChecksHoldFor, CheckedSteps
  <1> QED
    BY <1>2, RecipesAssumption DEF Init, Inv, TypeOK, UniqueIds, AnswersAreTrue, Holder,
       Kinds, BaseIsFile, StoredLate, Operations, Answers, Steps

(* Types, and the kinds of call the types depend on, are kept.             *)
LEMMA TypeStep == TypeOK /\ Kinds /\ UniqueIds /\ BaseIsFile /\ [Next]_vars => TypeOK'
  <1> SUFFICES ASSUME TypeOK, Kinds, UniqueIds, BaseIsFile, [Next]_vars PROVE TypeOK'
    OBVIOUS
  <1> USE RecipesAssumption
  <1>1. ASSUME NEW w \in Windows, NEW n \in Names, NEW i \in minted \cup {NoId},
               NEW leave \in BOOLEAN, SaveCurrent(w, n, i, leave)
        PROVE  TypeOK'
    <2>1. [kind |-> "request", replace |-> i, name |-> n,
           clash |-> Clash(file, i, n), allow |-> leave] \in Operations
      <3>1. Clash(file, i, n) \in BOOLEAN
        BY DEF Clash
      <3> QED BY <1>1, <3>1 DEF TypeOK, Operations, Requests
    <2>2. CASE Return(w, "failed")
      BY <1>1, <2>2 DEF TypeOK, SaveCurrent, Fresh, Return, Operations, Answers, Steps
    <2>3. CASE ~Return(w, "failed")
      <3>1. /\ op' = [op EXCEPT ![w] =
                      [kind |-> "request", replace |-> i, name |-> n,
                       clash |-> Clash(file, i, n), allow |-> leave]]
            /\ pc' = [pc EXCEPT ![w] = IF i = NoId THEN "capture" ELSE "lookup"]
            /\ answer' = [answer EXCEPT ![w] = "none"]
            /\ UNCHANGED <<lock, base, raced, file, minted>>
            /\ stored' = [stored EXCEPT ![w] = FALSE]
        BY <1>1, <2>3 DEF SaveCurrent, Fresh
      <3>2. op' \in [Windows -> Operations]
        BY <2>1, <3>1 DEF TypeOK
      <3>3. (IF i = NoId THEN "capture" ELSE "lookup") \in Steps
        BY DEF Steps
      <3>4. pc' \in [Windows -> Steps]
        BY <3>1, <3>3 DEF TypeOK
      <3> QED BY <3>1, <3>2, <3>4 DEF TypeOK, Answers
    <2> QED BY <2>2, <2>3
  <1>2. ASSUME NEW w \in Windows, LookUp(w) PROVE TypeOK'
    BY <1>2 DEF TypeOK, LookUp, Inside, Goto, Return, Operations, Answers, Steps
  <1>3. ASSUME NEW w \in Windows, Capture(w) PROVE TypeOK'
    <2>1. op[w] \in Requests
      BY <1>3 DEF Kinds, Capture
    <2>2. CASE Return(w, "failed") /\ UNCHANGED <<minted, file, stored>>
      BY <2>2 DEF TypeOK, Return, Operations, Answers, Steps
    <2>3. ASSUME NEW s \in Settings, NEW i \in Ids,
                 minted' = minted \cup {i},
                 op' = [op EXCEPT ![w] =
                         [kind |-> "save", replace |-> op[w].replace,
                          recipe |-> [id |-> i, name |-> op[w].name, settings |-> s],
                          allow |-> op[w].allow]],
                 Inside(w, "acquire"), UNCHANGED <<lock, base, file, stored>>
          PROVE  TypeOK'
      <3>1. [id |-> i, name |-> op[w].name, settings |-> s] \in Recipes
        BY <2>1 DEF Requests, Recipes
      <3>2. [kind |-> "save", replace |-> op[w].replace,
             recipe |-> [id |-> i, name |-> op[w].name, settings |-> s],
             allow |-> op[w].allow] \in Operations
        BY <2>1, <3>1 DEF Requests, Saves, Operations
      <3> QED BY <2>3, <3>2 DEF TypeOK, Inside, Goto, Steps
    <2>4. op[w].replace \in Ids \cup {NoId}
      BY <2>1 DEF Requests
    <2>5. minted # Ids => NewId \in Ids
      BY NewIdIsNew DEF TypeOK
    <2> QED BY <1>3, <2>2, <2>3, <2>4, <2>5 DEF Capture
  <1>4. ASSUME NEW w \in Windows, NEW i \in minted, Remove(w, i) PROVE TypeOK'
    <2>1. [kind |-> "remove", id |-> i] \in Operations
      BY DEF TypeOK, Operations, Removals
    <2> QED BY <1>4, <2>1 DEF TypeOK, Remove, Fresh, Steps, Answers
  <1>5. ASSUME NEW w \in Windows, Acquire(w) PROVE TypeOK'
    BY <1>5 DEF TypeOK, Acquire, Inside, Goto, Return, Operations, Answers, Steps
  <1>6. ASSUME NEW w \in Windows, Read(w) PROVE TypeOK'
    BY <1>6 DEF TypeOK, Read, Inside, Goto, Return, Operations, Answers, Steps
  <1>7. ASSUME NEW w \in Windows, Write(w) PROVE TypeOK'
    <2>1. op[w] \in Saves \cup Removals /\ base[w] \in SUBSET Recipes
      BY <1>7 DEF Kinds, Write, TypeOK
    <2>2. \A r, s \in base[w] : r.id = s.id => r = s
      BY <1>7 DEF BaseIsFile, UniqueIds, Write
    <2>3. Edited(base[w], op[w]) \in SUBSET Recipes
      BY <2>1, <2>2, EditedBook
    <2> QED BY <1>7, <2>3 DEF TypeOK, Write, Goto, Return, Operations, Answers, Steps
  <1>8. ASSUME NEW w \in Windows, Release(w) PROVE TypeOK'
    BY <1>8 DEF TypeOK, Release, Return, Operations, Answers, Steps
  <1>9. ASSUME NEW w \in Windows, Crash(w) PROVE TypeOK'
    BY <1>9 DEF TypeOK, Crash, Return, Operations, Answers, Steps
  <1>10. CASE Spoiled \/ MovedAway
    BY <1>10 DEF TypeOK, Spoiled, MovedAway, ByHand
  <1>11. CASE UNCHANGED vars
    BY <1>11 DEF TypeOK, vars
  <1> QED
    BY <1>1, <1>2, <1>3, <1>4, <1>5, <1>6, <1>7, <1>8, <1>9, <1>10, <1>11 DEF Next, Working

-----------------------------------------------------------------------------
(* What is left of Inv but the checks of the controller.                   *)
Rest == UniqueIds /\ AnswersAreTrue /\ Holder /\ Kinds /\ BaseIsFile /\ StoredLate

(* A call that returns early, with the file and the history as they were.  *)
LEMMA ReturnKeeps ==
    ASSUME TypeOK, Rest, NEW w \in Windows, NEW a \in {"failed", "none"},
           Return(w, a), file' = file,
           stored' = stored \/ stored' = [stored EXCEPT ![w] = FALSE],
           a = "failed" => ~stored'[w]
    PROVE  Rest'
  <1> USE RecipesAssumption DEF TypeOK, Return
  <1>1. \A v \in Windows : v # w => /\ pc'[v] = pc[v] /\ op'[v] = op[v] /\ base'[v] = base[v]
                                    /\ answer'[v] = answer[v] /\ stored'[v] = stored[v]
    OBVIOUS
  <1>2. pc'[w] = "idle" /\ answer'[w] = a
    OBVIOUS
  <1>3. UniqueIds' /\ BaseIsFile' /\ StoredLate' /\ Kinds'
    BY <1>1, <1>2 DEF Rest, UniqueIds, BaseIsFile, StoredLate, Kinds
  <1>4. AnswersAreTrue'
    BY <1>1, <1>2 DEF Rest, AnswersAreTrue
  <1>5. Holder'
    BY <1>1, <1>2 DEF Rest, Holder
  <1> QED BY <1>3, <1>4, <1>5 DEF Rest

(* A step inside a call that changes neither the file nor the history.     *)
LEMMA InsideKeeps ==
    ASSUME TypeOK, Rest, NEW w \in Windows,
           NEW s \in {"lookup", "capture", "acquire", "read", "write"},
           pc' = [pc EXCEPT ![w] = s], file' = file, UNCHANGED stored \/ ~stored'[w],
           \A v \in Windows : v # w => /\ op'[v] = op[v] /\ base'[v] = base[v]
                                       /\ answer'[v] = answer[v] /\ stored'[v] = stored[v],
           ~stored'[w], answer'[w] = "none",
           lock' = IF s \in {"read", "write"} THEN w ELSE lock,
           s \in {"read", "write"} => lock \in {NoOne, w},
           s \notin {"read", "write"} => lock # w,
           s = "lookup" => op'[w] \in Requests /\ op'[w].replace # NoId,
           s = "capture" => op'[w] \in Requests,
           s \in {"acquire", "read", "write"} => op'[w] \in Saves \cup Removals,
           s = "write" => file # Damaged /\ base'[w] = file
    PROVE  Rest'
  <1> USE RecipesAssumption DEF TypeOK
  <1>1. \A v \in Windows : v # w => pc'[v] = pc[v]
    OBVIOUS
  <1>2. pc'[w] = s
    OBVIOUS
  <1>3. UniqueIds' /\ BaseIsFile' /\ StoredLate' /\ Kinds'
    BY <1>1, <1>2 DEF Rest, UniqueIds, BaseIsFile, StoredLate, Kinds
  <1>4. AnswersAreTrue'
    BY <1>1, <1>2 DEF Rest, AnswersAreTrue
  <1>5. Holder'
    BY <1>1, <1>2 DEF Rest, Holder
  <1> QED BY <1>3, <1>4, <1>5 DEF Rest

(* The rest of Inv is kept by every step. *)
LEMMA RestStep == TypeOK /\ Rest /\ [Next]_vars => Rest'
  <1> SUFFICES ASSUME TypeOK, Rest, [Next]_vars PROVE Rest'
    OBVIOUS
  <1> USE RecipesAssumption
  <1>1. ASSUME NEW w \in Windows, NEW n \in Names, NEW i \in minted \cup {NoId},
               NEW leave \in BOOLEAN, SaveCurrent(w, n, i, leave)
        PROVE  Rest'
    <2>0. pc[w] = "idle" /\ stored' = [stored EXCEPT ![w] = FALSE] /\ file' = file
      BY <1>1 DEF SaveCurrent, Fresh
    <2>1. CASE Return(w, "failed")
      BY <2>0, <2>1, ReturnKeeps DEF TypeOK
    <2>2. CASE ~Return(w, "failed")
      <3>1. /\ op' = [op EXCEPT ![w] =
                      [kind |-> "request", replace |-> i, name |-> n,
                       clash |-> Clash(file, i, n), allow |-> leave]]
            /\ pc' = [pc EXCEPT ![w] = IF i = NoId THEN "capture" ELSE "lookup"]
            /\ answer' = [answer EXCEPT ![w] = "none"]
            /\ UNCHANGED <<lock, base>>
        BY <1>1, <2>2 DEF SaveCurrent
      <3>2. op'[w] \in Requests /\ op'[w].replace = i
        BY <3>1, <1>1, TypeOK DEF TypeOK, Requests, Clash
      <3>3. lock # w
        BY <2>0 DEF Rest, Holder
      <3> QED BY <2>0, <3>1, <3>2, <3>3, InsideKeeps DEF TypeOK
    <2> QED BY <2>1, <2>2
  <1>2. ASSUME NEW w \in Windows, LookUp(w) PROVE Rest'
    <2>1. pc[w] = "lookup" /\ file' = file /\ stored' = stored /\ ~stored[w] /\ lock # w
      BY <1>2 DEF LookUp, Rest, StoredLate, Holder
    <2>2. CASE Return(w, "failed")
      BY <2>1, <2>2, ReturnKeeps
    <2>3. CASE Inside(w, "capture") /\ UNCHANGED <<op, lock, base>>
      BY <2>1, <2>3, InsideKeeps DEF Inside, Goto, Rest, Kinds, StoredLate, TypeOK
    <2> QED BY <1>2, <2>2, <2>3 DEF LookUp
  <1>3. ASSUME NEW w \in Windows, Capture(w) PROVE Rest'
    <2>1. pc[w] = "capture" /\ file' = file /\ stored' = stored /\ ~stored[w] /\ lock # w
      BY <1>3 DEF Capture, Rest, StoredLate, Holder
    <2>2. CASE Return(w, "failed")
      BY <2>1, <2>2, ReturnKeeps
    <2>3. CASE ~Return(w, "failed")
      <3>1. Inside(w, "acquire") /\ UNCHANGED <<lock, base>>
            /\ \A v \in Windows : v # w => op'[v] = op[v]
        BY <1>3, <2>3 DEF Capture, TypeOK
      <3>2. op[w] \in Requests
        BY <2>1 DEF Rest, Kinds
      <3>3. minted # Ids => NewId \in Ids
        BY NewIdIsNew DEF TypeOK
      <3>4. op'[w] \in Saves
        <4>1. PICK s \in Settings,
                   i \in {IF op[w].replace = NoId THEN NewId ELSE op[w].replace} :
                op' = [op EXCEPT ![w] =
                        [kind |-> "save", replace |-> op[w].replace,
                         recipe |-> [id |-> i, name |-> op[w].name, settings |-> s],
                         allow |-> op[w].allow]]
          BY <1>3, <2>3 DEF Capture
        <4>2. i \in Ids
          BY <1>3, <2>3, <3>2, <3>3, <4>1 DEF Capture, Requests
        <4>3. [id |-> i, name |-> op[w].name, settings |-> s] \in Recipes
          BY <3>2, <4>2 DEF Requests, Recipes
        <4>4. op'[w] = [kind |-> "save", replace |-> op[w].replace,
                        recipe |-> [id |-> i, name |-> op[w].name, settings |-> s],
                        allow |-> op[w].allow]
          BY <4>1 DEF TypeOK
        <4> QED BY <3>2, <4>3, <4>4 DEF Requests, Saves
      <3> QED BY <2>1, <3>1, <3>4, InsideKeeps DEF Inside, Goto, Rest, StoredLate, TypeOK
    <2> QED BY <2>2, <2>3
  <1>4. ASSUME NEW w \in Windows, NEW i \in minted, Remove(w, i) PROVE Rest'
    <2>1. /\ pc[w] = "idle" /\ pc' = [pc EXCEPT ![w] = "acquire"] /\ lock # w
          /\ stored' = [stored EXCEPT ![w] = FALSE]
          /\ answer' = [answer EXCEPT ![w] = "none"]
          /\ UNCHANGED <<file, lock, base>>
      BY <1>4 DEF Remove, Fresh, Rest, Holder
    <2>2. /\ op'[w] \in Removals
          /\ \A v \in Windows : v # w => op'[v] = op[v]
      BY <1>4 DEF Remove, Removals, TypeOK
    <2> QED BY <2>1, <2>2, InsideKeeps DEF TypeOK
  <1>5. ASSUME NEW w \in Windows, Acquire(w) PROVE Rest'
    <2>1. /\ pc[w] = "acquire" /\ file' = file /\ stored' = stored /\ ~stored[w]
          /\ op[w] \in Saves \cup Removals
      BY <1>5 DEF Acquire, Rest, StoredLate, Kinds
    <2>2. CASE Return(w, "failed")
      BY <2>1, <2>2, ReturnKeeps
    <2>3. CASE Free /\ lock' = w /\ Inside(w, "read") /\ UNCHANGED <<op, base>>
      BY <2>1, <2>3, InsideKeeps DEF Free, Inside, Goto, Rest, StoredLate, TypeOK
    <2> QED BY <1>5, <2>2, <2>3 DEF Acquire
  <1>6. ASSUME NEW w \in Windows, Read(w) PROVE Rest'
    <2>1. /\ pc[w] = "read" /\ file' = file /\ stored' = stored /\ ~stored[w] /\ lock = w
          /\ op[w] \in Saves \cup Removals
      BY <1>6 DEF Read, Rest, StoredLate, Kinds, Holder
    <2>2. CASE Return(w, "failed")
      BY <2>1, <2>2, ReturnKeeps
    <2>3. CASE /\ file # Damaged /\ base' = [base EXCEPT ![w] = file]
               /\ Inside(w, "write") /\ UNCHANGED <<op, lock>>
      <3>1. \A v \in Windows : v # w => base'[v] = base[v]
        BY <2>3 DEF TypeOK
      <3>2. base'[w] = file
        BY <2>3 DEF TypeOK
      <3> QED BY <2>1, <2>3, <3>1, <3>2, InsideKeeps DEF Inside, Goto, Rest, StoredLate, TypeOK
    <2> QED BY <1>6, <2>2, <2>3 DEF Read
  <1>7. ASSUME NEW w \in Windows, Write(w) PROVE Rest'
    <2>1. /\ pc[w] = "write" /\ lock = w /\ ~stored[w] /\ file # Damaged /\ base[w] = file
          /\ op[w] \in Saves \cup Removals
      BY <1>7 DEF Write, Rest, StoredLate, Kinds, Holder, BaseIsFile
    <2>2. CASE Return(w, "failed") /\ UNCHANGED <<file, stored>>
      BY <2>1, <2>2, ReturnKeeps
    <2>3. CASE /\ file' = Edited(base[w], op[w])
               /\ stored' = [stored EXCEPT ![w] = TRUE]
               /\ Goto(w, "release")
               /\ UNCHANGED <<op, lock, base>>
      <3>1. file \in SUBSET Recipes /\ \A r, s \in file : r.id = s.id => r = s
        BY <2>1 DEF TypeOK, Rest, UniqueIds
      <3>2. file' \in SUBSET Recipes /\ \A r, s \in file' : r.id = s.id => r = s
        BY <2>1, <2>3, <3>1, EditedBook
      <3>3. \A v \in Windows : v # w => pc[v] # "write"
        BY <2>1 DEF Rest, Holder
      <3>4. UniqueIds'
        BY <3>2 DEF UniqueIds
      <3>5. Holder' /\ Kinds' /\ StoredLate' /\ BaseIsFile'
        BY <2>1, <2>3, <3>3 DEF Rest, Holder, Kinds, StoredLate, BaseIsFile, Goto, TypeOK
      <3>6. AnswersAreTrue'
        BY <2>1, <2>3 DEF Rest, AnswersAreTrue, Goto, TypeOK, StoredLate
      <3> QED BY <3>4, <3>5, <3>6 DEF Rest
    <2> QED BY <1>7, <2>2, <2>3 DEF Write
  <1>8. ASSUME NEW w \in Windows, Release(w) PROVE Rest'
    <2>1. stored[w] /\ lock = w /\ UNCHANGED <<file, stored>> /\ Return(w, "ok")
      BY <1>8 DEF Release, Rest, StoredLate, Holder
    <2>2. \A v \in Windows : v # w => /\ pc'[v] = pc[v] /\ op'[v] = op[v] /\ base'[v] = base[v]
                                      /\ answer'[v] = answer[v]
      BY <2>1 DEF TypeOK, Return
    <2>3. pc'[w] = "idle" /\ answer'[w] = "ok"
      BY <2>1 DEF TypeOK, Return
    <2> QED BY <2>1, <2>2, <2>3 DEF Rest, UniqueIds, AnswersAreTrue, Holder, Kinds, BaseIsFile,
            StoredLate, Return
  <1>9. ASSUME NEW w \in Windows, Crash(w) PROVE Rest'
    BY <1>9, ReturnKeeps DEF Crash
  <1>10. CASE Spoiled \/ MovedAway
    <2>1. /\ lock = NoOne /\ file' \in {Damaged, {}}
          /\ UNCHANGED <<lock, pc, op, base, minted, answer, stored>>
      BY <1>10 DEF Spoiled, MovedAway, ByHand, Free
    <2>2. \A w \in Windows : pc[w] # "write"
      BY <2>1 DEF Rest, Holder
    <2> QED BY <2>1, <2>2 DEF Rest, UniqueIds, AnswersAreTrue, Holder, Kinds, BaseIsFile, StoredLate
  <1>11. CASE UNCHANGED vars
    BY <1>11 DEF vars, Rest, UniqueIds, AnswersAreTrue, Holder, Kinds, BaseIsFile, StoredLate
  <1> QED
    BY <1>1, <1>2, <1>3, <1>4, <1>5, <1>6, <1>7, <1>8, <1>9, <1>10, <1>11 DEF Next, Working

-----------------------------------------------------------------------------
(* A step of one window that leaves the file alone concerns only its own   *)
(* checks.                                                                 *)
LEMMA ChecksOfOthers ==
    ASSUME TypeOK, ChecksHold, NEW w \in Windows, file' = file,
           \A v \in Windows : v # w => /\ pc'[v] = pc[v] /\ op'[v] = op[v]
                                       /\ raced'[v] = raced[v],
           ChecksHoldFor(w)'
    PROVE  ChecksHold'
  <1>1. ASSUME NEW v \in Windows, v # w PROVE ChecksHoldFor(v)'
    <2>1. ChecksHoldFor(v)
      BY DEF ChecksHold
    <2> QED BY <1>1, <2>1 DEF ChecksHoldFor, NameChecked, Clash, IdsIn
  <1> QED BY <1>1 DEF ChecksHold

(* A call that has returned has no checks left. *)
LEMMA ReturnHasNoChecks ==
    ASSUME TypeOK, ChecksHold, NEW w \in Windows, NEW a, Return(w, a), file' = file
    PROVE  ChecksHold'
  <1>1. ChecksHoldFor(w)'
    BY DEF TypeOK, Return, ChecksHoldFor, CheckedSteps
  <1>2. \A v \in Windows : v # w => /\ pc'[v] = pc[v] /\ op'[v] = op[v]
                                    /\ raced'[v] = raced[v]
    BY DEF TypeOK, Return
  <1> QED BY <1>1, <1>2, ChecksOfOthers

(* The checks are kept by every step, or the window is marked as raced.    *)
LEMMA ChecksStep == Inv /\ [Next]_vars => ChecksHold'
  <1> SUFFICES ASSUME Inv, [Next]_vars PROVE ChecksHold'
    OBVIOUS
  <1> USE RecipesAssumption
  <1>0. TypeOK /\ ChecksHold /\ Kinds
    BY DEF Inv
  <1>1. ASSUME NEW w \in Windows, NEW n \in Names, NEW i \in minted \cup {NoId},
               NEW leave \in BOOLEAN, SaveCurrent(w, n, i, leave)
        PROVE  ChecksHold'
    <2>0. file' = file
      BY <1>1 DEF SaveCurrent
    <2>1. CASE Return(w, "failed")
      BY <1>0, <2>0, <2>1, ReturnHasNoChecks
    <2>2. CASE ~Return(w, "failed")
      <3>1. /\ file # Damaged
            /\ op' = [op EXCEPT ![w] =
                      [kind |-> "request", replace |-> i, name |-> n,
                       clash |-> Clash(file, i, n), allow |-> leave]]
            /\ pc' = [pc EXCEPT ![w] = IF i = NoId THEN "capture" ELSE "lookup"]
            /\ raced' = raced
        BY <1>1, <2>2 DEF SaveCurrent
      <3>2. op'[w] = [kind |-> "request", replace |-> i, name |-> n,
                      clash |-> Clash(file, i, n), allow |-> leave]
        BY <1>0, <3>1 DEF TypeOK
      <3>3. pc'[w] # "lookup" => i = NoId
        BY <1>0, <3>1 DEF TypeOK
      <3>4. Clash(file', i, n) = Clash(file, i, n)
        BY <2>0
      <3>5. NameChecked(w)'
        BY <3>2, <3>4 DEF NameChecked, Clash
      <3>6. ChecksHoldFor(w)'
        BY <2>0, <3>1, <3>2, <3>3, <3>5 DEF ChecksHoldFor
      <3>7. \A v \in Windows : v # w => pc'[v] = pc[v] /\ op'[v] = op[v]
        BY <1>0, <3>1 DEF TypeOK
      <3> QED BY <1>0, <2>0, <3>1, <3>6, <3>7, ChecksOfOthers
    <2> QED BY <2>1, <2>2
  <1>2. ASSUME NEW w \in Windows, LookUp(w) PROVE ChecksHold'
    <2>0. file' = file /\ pc[w] = "lookup"
      BY <1>2 DEF LookUp
    <2>1. CASE Return(w, "failed")
      BY <1>0, <2>0, <2>1, ReturnHasNoChecks
    <2>2. CASE Listed(op[w].replace) /\ Inside(w, "capture") /\ op' = op
      <3>1. pc' = [pc EXCEPT ![w] = "capture"] /\ raced' = raced
        BY <2>2 DEF Inside, Goto
      <3>2. ChecksHoldFor(w)
        BY <1>0 DEF ChecksHold
      <3>3. ChecksHoldFor(w)'
        BY <2>0, <2>2, <3>1, <3>2
           DEF ChecksHoldFor, CheckedSteps, NameChecked, Clash, IdsIn, Listed
      <3> QED BY <1>0, <2>0, <2>2, <3>1, <3>3, ChecksOfOthers DEF TypeOK
    <2> QED BY <1>2, <2>1, <2>2 DEF LookUp
  <1>3. ASSUME NEW w \in Windows, Capture(w) PROVE ChecksHold'
    <2>0. file' = file /\ pc[w] = "capture" /\ op[w] \in Requests
      BY <1>0, <1>3 DEF Capture, Kinds
    <2>1. CASE Return(w, "failed")
      BY <1>0, <2>0, <2>1, ReturnHasNoChecks
    <2>2. CASE ~Return(w, "failed")
      <3>1. NameAllowed(w) /\ pc' = [pc EXCEPT ![w] = "acquire"] /\ raced' = raced
        BY <1>3, <2>2 DEF Capture, Inside, Goto
      <3>2. PICK s \in Settings,
                 i \in {IF op[w].replace = NoId THEN NewId ELSE op[w].replace} :
              op' = [op EXCEPT ![w] =
                      [kind |-> "save", replace |-> op[w].replace,
                       recipe |-> [id |-> i, name |-> op[w].name, settings |-> s],
                       allow |-> op[w].allow]]
        BY <1>3, <2>2 DEF Capture
      <3>3. /\ op'[w].kind = "save" /\ op'[w].replace = op[w].replace
            /\ op'[w].recipe.name = op[w].name /\ op'[w].allow = op[w].allow
        BY <1>0, <3>2 DEF TypeOK
      <3>4. op[w].kind = "request" /\ op[w].clash \in BOOLEAN /\ op[w].allow \in BOOLEAN
        BY <2>0 DEF Requests
      <3>5. ASSUME ~raced[w] PROVE file # Damaged /\ NameChecked(w)'
        <4>1. file # Damaged /\ NameChecked(w)
          BY <1>0, <2>0, <3>4, <3>5 DEF ChecksHold, ChecksHoldFor, CheckedSteps
        <4>2. op[w].clash <=> Clash(file, op[w].replace, op[w].name)
          BY <3>4, <4>1 DEF NameChecked
        <4>3. op[w].allow \/ ~op[w].clash
          BY <3>1 DEF NameAllowed
        <4>4. Clash(file, op[w].replace, op[w].name) => op[w].allow
          BY <4>2, <4>3, Zenon
        <4>5. Clash(file', op'[w].replace, op'[w].recipe.name) => op'[w].allow
          BY <2>0, <3>3, <4>4
        <4> QED BY <3>3, <4>1, <4>5 DEF NameChecked
      <3>6. ASSUME ~raced[w], op[w].replace # NoId PROVE op[w].replace \in IdsIn(file)
        BY <1>0, <2>0, <3>4, <3>6 DEF ChecksHold, ChecksHoldFor, CheckedSteps
      <3>7. ChecksHoldFor(w)'
        BY <2>0, <3>1, <3>3, <3>5, <3>6 DEF ChecksHoldFor
      <3>8. \A v \in Windows : v # w => pc'[v] = pc[v] /\ op'[v] = op[v]
        BY <1>0, <3>1, <3>2 DEF TypeOK
      <3> QED BY <1>0, <2>0, <3>1, <3>7, <3>8, ChecksOfOthers
    <2> QED BY <2>1, <2>2
  <1>4. ASSUME NEW w \in Windows, NEW i \in minted, Remove(w, i) PROVE ChecksHold'
    <2>1. /\ file' = file /\ raced' = raced /\ op'[w].kind = "remove"
          /\ \A v \in Windows : v # w => pc'[v] = pc[v] /\ op'[v] = op[v]
      BY <1>0, <1>4 DEF Remove, TypeOK
    <2>2. ChecksHoldFor(w)'
      BY <2>1 DEF ChecksHoldFor
    <2> QED BY <1>0, <2>1, <2>2, ChecksOfOthers
  <1>5. ASSUME NEW w \in Windows, Acquire(w) \/ Read(w) PROVE ChecksHold'
    <2>0. file' = file
      BY <1>5 DEF Acquire, Read
    <2>1. CASE Return(w, "failed")
      BY <1>0, <2>0, <2>1, ReturnHasNoChecks
    <2>2. ASSUME NEW s \in {"read", "write"}, Inside(w, s), op' = op,
                 pc[w] \in {"acquire", "read"}
          PROVE  ChecksHold'
      <3>1. pc' = [pc EXCEPT ![w] = s] /\ raced' = raced
        BY <2>2 DEF Inside, Goto
      <3>2. ChecksHoldFor(w)
        BY <1>0 DEF ChecksHold
      <3>3. ChecksHoldFor(w)'
        BY <2>0, <2>2, <3>1, <3>2
           DEF ChecksHoldFor, CheckedSteps, NameChecked, Clash, IdsIn
      <3> QED BY <1>0, <2>0, <2>2, <3>1, <3>3, ChecksOfOthers DEF TypeOK
    <2> QED BY <1>5, <2>1, <2>2 DEF Acquire, Read
  <1>6. ASSUME NEW w \in Windows, Write(w) PROVE ChecksHold'
    <2>1. CASE Return(w, "failed") /\ UNCHANGED <<file, stored>>
      BY <1>0, <2>1, ReturnHasNoChecks
    <2>2. CASE /\ raced' = [v \in Windows |-> raced[v] \/ (v # w /\ pc[v] # "idle")]
               /\ Goto(w, "release")
      <3>1. ASSUME NEW v \in Windows PROVE ChecksHoldFor(v)'
        <4>1. CASE v = w
          BY <1>0, <2>2, <4>1 DEF Goto, TypeOK, ChecksHoldFor, CheckedSteps
        <4>2. CASE v # w /\ pc[v] = "idle"
          BY <1>0, <2>2, <4>2 DEF Goto, TypeOK, ChecksHoldFor, CheckedSteps
        <4>3. CASE v # w /\ pc[v] # "idle"
          BY <1>0, <2>2, <4>3 DEF ChecksHoldFor
        <4> QED BY <4>1, <4>2, <4>3
      <3> QED BY <3>1 DEF ChecksHold
    <2> QED BY <1>6, <2>1, <2>2 DEF Write
  <1>7. ASSUME NEW w \in Windows, Release(w) \/ Crash(w) PROVE ChecksHold'
    BY <1>0, <1>7, ReturnHasNoChecks DEF Release, Crash
  <1>8. CASE Spoiled \/ MovedAway
    <2>1. pc' = pc /\ raced' = [w \in Windows |-> pc[w] # "idle"]
      BY <1>8 DEF Spoiled, MovedAway, ByHand
    <2> QED BY <2>1 DEF ChecksHold, ChecksHoldFor, CheckedSteps
  <1>9. CASE UNCHANGED vars
    BY <1>0, <1>9 DEF vars, ChecksHold, ChecksHoldFor, NameChecked, Clash, IdsIn
  <1> QED
    BY <1>1, <1>2, <1>3, <1>4, <1>5, <1>6, <1>7, <1>8, <1>9 DEF Next, Working

LEMMA InvStep == Inv /\ [Next]_vars => Inv'
  BY TypeStep, RestStep, ChecksStep DEF Inv, Rest

LEMMA InvHolds == Spec => []Inv
  BY InitInv, InvStep, PTL DEF Spec

(* Every value the windows keep has its type, for any number of windows.   *)
THEOREM TypesHold == Spec => []TypeOK
  BY InvHolds, PTL DEF Inv

(* No sequence of calls, crashes and accidents writes a file that read()   *)
(* refuses for two recipes of one identifier.                              *)
THEOREM IdsStayUnique == Spec => []UniqueIds
  BY InvHolds, PTL DEF Inv

(* A call that reports an error has left the file alone, and one that      *)
(* reports success has changed it.                                         *)
THEOREM AnswersHold == Spec => []AnswersAreTrue
  BY InvHolds, PTL DEF Inv

(* The checks of saveCurrent() hold when the recipe is stored, unless      *)
(* another window changed the file in between.                             *)
THEOREM ChecksHoldAtTheWrite == Spec => ChecksStillHold
  <1> DEFINE Checked ==
        \A w \in Windows :
          (stored'[w] /\ ~stored[w] /\ op[w].kind = "save" /\ ~raced[w]) =>
             /\ op[w].replace # NoId => op[w].replace \in IdsIn(file)
             /\ Clash(file, op[w].replace, op[w].recipe.name) => op[w].allow
  <1>1. ASSUME Inv, [Next]_vars PROVE [Checked]_vars
    <2> SUFFICES ASSUME NEW w \in Windows, stored'[w], ~stored[w],
                        op[w].kind = "save", ~raced[w]
                 PROVE  /\ op[w].replace # NoId => op[w].replace \in IdsIn(file)
                        /\ Clash(file, op[w].replace, op[w].recipe.name) => op[w].allow
      OBVIOUS
    <2>0. TypeOK
      BY <1>1 DEF Inv
    <2>1. pc[w] = "write"
      <3>1. ASSUME NEW v \in Windows, Write(v), pc[w] # "write" PROVE FALSE
        BY <2>0, <3>1 DEF Write, TypeOK
      <3>2. ASSUME NEW v \in Windows, NEW n \in Names, NEW i \in minted \cup {NoId},
                   NEW leave \in BOOLEAN, SaveCurrent(v, n, i, leave)
            PROVE  FALSE
        BY <2>0, <3>2 DEF SaveCurrent, Fresh, TypeOK
      <3>3. ASSUME NEW v \in Windows, NEW i \in minted, Remove(v, i) PROVE FALSE
        BY <2>0, <3>3 DEF Remove, Fresh, TypeOK
      <3>4. stored' # stored
        OBVIOUS
      <3> QED
        BY <1>1, <3>1, <3>2, <3>3, <3>4
           DEF Next, vars, Working, LookUp, Capture, Acquire, Read, Release, Crash,
               Spoiled, MovedAway, ByHand
    <2>2. ChecksHoldFor(w)
      BY <1>1 DEF Inv, ChecksHold
    <2>3. NameChecked(w) /\ (op[w].replace # NoId => op[w].replace \in IdsIn(file))
      BY <2>1, <2>2 DEF ChecksHoldFor, CheckedSteps
    <2> QED BY <2>3 DEF NameChecked
  <1> QED BY <1>1, InvHolds, PTL DEF Spec, ChecksStillHold

(* All windows together keep one book: a save or a removal by one of them  *)
(* is one whole change of what all of them see.                            *)
THEOREM RecipesAreOneBook == Spec => ImplementsRecipeBook
  <1>1. Init => Book!BookInit
    BY DEF Init, Book!BookInit
  <1>2. ASSUME Inv, [Next]_vars PROVE [Book!BookNext]_file
    <2> SUFFICES ASSUME file' # file PROVE Book!BookNext
      OBVIOUS
    <2>1. ASSUME NEW w \in Windows, Write(w) PROVE Book!BookNext
      <3>1. /\ file # Damaged /\ base[w] = file /\ op[w] \in Saves \cup Removals
            /\ file' = Edited(file, op[w])
        BY <1>2, <2>1 DEF Inv, BaseIsFile, Kinds, Write
      <3>2. CASE op[w] \in Saves
        <4>1. op[w].kind = "save" /\ op[w].recipe \in Recipes
          BY <3>2 DEF Saves
        <4>2. Book!Store(op[w].recipe)
          BY <3>1, <4>1 DEF Edited, Book!Store, Book!Without
        <4> QED BY <4>1, <4>2 DEF Book!BookNext
      <3>3. CASE op[w] \in Removals
        <4>1. op[w].kind # "save"
          BY <3>3 DEF Removals
        <4>2. file' = {r \in file : r.id # op[w].id}
          BY <3>1, <4>1 DEF Edited
        <4>3. file \subseteq Recipes
          BY <1>2, <3>1 DEF Inv, TypeOK
        <4>4. PICK r \in Recipes : r.id = op[w].id
          BY <4>2, <4>3
        <4>5. Book!Drop(r.id)
          BY <3>1, <4>2, <4>4 DEF Book!Drop, Book!Without
        <4> QED BY <4>5 DEF Book!BookNext
      <3> QED BY <3>1, <3>2, <3>3
    <2>2. Spoiled => Book!Spoil
      BY DEF Spoiled, ByHand, Book!Spoil
    <2>3. MovedAway => Book!Restore
      BY DEF MovedAway, ByHand, Book!Restore
    <2> QED
      BY <1>2, <2>1, <2>2, <2>3
         DEF Next, vars, Working, SaveCurrent, Remove, LookUp, Capture, Acquire, Read,
             Release, Crash, Book!BookNext
  <1> QED BY <1>1, <1>2, InvHolds, PTL DEF Spec, ImplementsRecipeBook, Book!BookSpec
=============================================================================
