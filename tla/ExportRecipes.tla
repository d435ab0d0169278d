---------------------------- MODULE ExportRecipes ----------------------------
(***************************************************************************)
(* The export recipes of all windows: one file in the user's folder,       *)
(* written by exportrecipestore.cpp under a lock file and driven by        *)
(* exportrecipecontroller.cpp.  A window is modelled as a process of its   *)
(* own: windows of one process can only interleave more coarsely.  Each    *)
(* call of the store is a lock period of its own, and saving the current   *)
(* settings takes up to three of them: list, look up, save.                *)
(***************************************************************************)
EXTENDS FiniteSets, Integers

CONSTANTS Windows,     \* the windows that share the file
          Ids,         \* the identifiers createUuid() can return
          Names,       \* the names a user types
          Settings,    \* what capture() can return
          NoId,        \* no recipe is selected for replacement
          NoOne,       \* no window holds the lock
          Nothing,     \* a window that is in no call
          Damaged,     \* a file that read() refuses
          MaxRecipes   \* MAX_RECIPES, 200 in the code

Recipes == [id : Ids, name : Names, settings : Settings]

(* A call of saveCurrent() until it has captured the settings: the recipe  *)
(* to replace, the name, whether the first list has that name, and the     *)
(* user's leave to use it twice.  Then the recipe it saves, and a removal. *)
Requests == [kind : {"request"}, replace : Ids \cup {NoId}, name : Names,
             clash : BOOLEAN, allow : BOOLEAN]
Saves == [kind : {"save"}, replace : Ids \cup {NoId}, recipe : Recipes,
          allow : BOOLEAN]
Removals == [kind : {"remove"}, id : Ids]

Operations == Requests \cup Saves \cup Removals \cup {Nothing}

ASSUME RecipesAssumption == /\ NoId \notin Ids
                            /\ NoOne \notin Windows
                            /\ \A b \in SUBSET Recipes : b # Damaged
                            /\ Nothing \notin Requests \cup Saves \cup Removals
                            /\ MaxRecipes \in Nat

VARIABLES file,     \* the recipes in the file, or Damaged
          lock,     \* the window that holds the lock file
          pc,       \* where each window is
          op,       \* the call each window is in
          base,     \* what it read under the lock
          minted,   \* identifiers already given out
          answer,   \* what the last call of the window reported
          raced,    \* history: the file changed during this call
          stored    \* history: this call has changed the file

vars == <<file, lock, pc, op, base, minted, answer, raced, stored>>

Steps == {"idle", "lookup", "capture", "acquire", "read", "write", "release"}
(* Busy, NotFound, Invalid and IoError are failures alike: nothing in the  *)
(* program acts on which it was.                                           *)
Answers == {"none", "ok", "failed"}

TypeOK == /\ file \in (SUBSET Recipes) \cup {Damaged}
          /\ lock \in Windows \cup {NoOne}
          /\ pc \in [Windows -> Steps]
          /\ op \in [Windows -> Operations]
          /\ base \in [Windows -> SUBSET Recipes]
          /\ minted \in SUBSET Ids
          /\ answer \in [Windows -> Answers]
          /\ raced \in [Windows -> BOOLEAN]
          /\ stored \in [Windows -> BOOLEAN]

IdsIn(b) == {r.id : r \in b}

Init == /\ file = {}
        /\ lock = NoOne
        /\ pc = [w \in Windows |-> "idle"]
        /\ op = [w \in Windows |-> Nothing]
        /\ base = [w \in Windows |-> {}]
        /\ minted = {}
        /\ answer = [w \in Windows |-> "none"]
        /\ raced = [w \in Windows |-> FALSE]
        /\ stored = [w \in Windows |-> FALSE]

(* The call returns: its scoped lock and its locals go with it. *)
Return(w, a) == /\ pc' = [pc EXCEPT ![w] = "idle"]
                /\ answer' = [answer EXCEPT ![w] = a]
                /\ op' = [op EXCEPT ![w] = Nothing]
                /\ base' = [base EXCEPT ![w] = {}]
                /\ raced' = [raced EXCEPT ![w] = FALSE]
                /\ lock' = IF lock = w THEN NoOne ELSE lock

Goto(w, s) == pc' = [pc EXCEPT ![w] = s] /\ UNCHANGED answer

(* A step that only moves on inside the call. *)
Inside(w, s) == Goto(w, s) /\ UNCHANGED raced

(* Mutant: the store writes without its lock file. *)
FreeAlways == TRUE

(* Mutant: lock() waits, where tryLock() gives up. *)
NeverBusy == FALSE

(* tryLock(100) takes the lock file, or gives up while another holds it.   *)
Free == lock = NoOne
Busy == lock # NoOne

(* A call begins. *)
Fresh(w) == /\ pc[w] = "idle"
            /\ stored' = [stored EXCEPT ![w] = FALSE]

-----------------------------------------------------------------------------
(* ExportRecipeController::saveCurrent: recipes() under a first lock.  The *)
(* search for the name runs later in the code, but on this list.           *)
Clash(list, i, n) == \E r \in list : r.id # i /\ r.name = n

SaveCurrent(w, n, i, leave) ==
    /\ Fresh(w)
    /\ \/ /\ Free /\ file # Damaged
          /\ op' = [op EXCEPT ![w] =
                      [kind |-> "request", replace |-> i, name |-> n,
                       clash |-> Clash(file, i, n), allow |-> leave]]
          /\ pc' = [pc EXCEPT ![w] = IF i = NoId THEN "capture" ELSE "lookup"]
          /\ answer' = [answer EXCEPT ![w] = "none"]
          /\ UNCHANGED <<lock, base, raced>>
       \/ Return(w, "failed")   \* busy, damaged, or not to be read
    /\ UNCHANGED <<file, minted>>

(* Mutant: the list can be read, so the recipe is taken to be in it. *)
ListedAnyway(i) == file # Damaged

(* recipe(replaceId) under a second lock: whatever fails in it, a busy     *)
(* lock too, is reported as a recipe that no longer exists.                *)
Listed(i) == file # Damaged /\ i \in IdsIn(file)

LookUp(w) ==
    /\ pc[w] = "lookup"
    /\ \/ /\ Free /\ Listed(op[w].replace)
          /\ Inside(w, "capture")
          /\ UNCHANGED <<op, lock, base>>
       \/ Return(w, "failed")
    /\ UNCHANGED <<file, minted, stored>>

(* The outcome for the name, then capture(), a new identifier if none is   *)
(* replaced, describe() and the validation, which may fail.                *)
NameAllowed(w) == op[w].allow \/ ~op[w].clash

(* createUuid(): which one it is makes no difference. *)
NewId == CHOOSE i \in Ids \ minted : TRUE


Capture(w) ==
    /\ pc[w] = "capture"
    /\ \/ /\ NameAllowed(w)
          /\ op[w].replace = NoId => minted # Ids
          /\ \E s \in Settings,
                i \in {IF op[w].replace = NoId THEN NewId ELSE op[w].replace} :
                /\ minted' = minted \cup {i}
                /\ op' = [op EXCEPT ![w] =
                            [kind |-> "save", replace |-> op[w].replace,
                             recipe |-> [id |-> i, name |-> op[w].name, settings |-> s],
                             allow |-> op[w].allow]]
          /\ Inside(w, "acquire")
          /\ UNCHANGED <<lock, base>>
       \/ Return(w, "failed") /\ UNCHANGED minted
    /\ UNCHANGED <<file, stored>>

(* ExportRecipeStore::remove, called by the view for a recipe it lists. *)
Remove(w, i) ==
    /\ Fresh(w)
    /\ op' = [op EXCEPT ![w] = [kind |-> "remove", id |-> i]]
    /\ pc' = [pc EXCEPT ![w] = "acquire"]
    /\ answer' = [answer EXCEPT ![w] = "none"]
    /\ UNCHANGED <<file, lock, base, minted, raced>>

-----------------------------------------------------------------------------
(* ExportRecipeStore::save and remove: one lock period for read and write. *)
Acquire(w) ==
    /\ pc[w] = "acquire"
    /\ \/ /\ Free
          /\ lock' = w
          /\ Inside(w, "read")
          /\ UNCHANGED <<op, base>>
       \/ Busy /\ Return(w, "failed")
    /\ UNCHANGED <<file, minted, stored>>

Gone(w) == /\ file # Damaged
           /\ op[w].kind = "remove"
           /\ op[w].id \notin IdsIn(file)

Read(w) ==
    /\ pc[w] = "read"
    /\ \/ /\ file # Damaged /\ ~Gone(w)
          /\ base' = [base EXCEPT ![w] = file]
          /\ Inside(w, "write")
          /\ UNCHANGED <<op, lock>>
       \/ Return(w, "failed")   \* damaged, not to be read, or gone
    /\ UNCHANGED <<file, minted, stored>>

(* std::find_if by identifier, then replace in place or push_back; erase.  *)
Edited(b, o) ==
    IF o.kind = "save"
    THEN {r \in b : r.id # o.recipe.id} \cup {o.recipe}
    ELSE {r \in b : r.id # o.id}

(* Mutant: the result of commit() is not looked at. *)
WriteUnchecked(w) ==
    /\ pc[w] = "write"
    /\ \E f \in {Edited(base[w], op[w]), file} :
          /\ Cardinality(f) <= MaxRecipes
          /\ file' = f
          /\ stored' = [stored EXCEPT ![w] = f # file]
          /\ raced' = [v \in Windows |-> raced[v] \/ (v # w /\ pc[v] # "idle")]
    /\ Goto(w, "release")
    /\ UNCHANGED <<op, lock, base, minted>>

(* write(): the limit, then a staged file that is renamed over the old one *)
(* in one step or, over the limit or when that fails, not at all.          *)
Write(w) ==
    /\ pc[w] = "write"
    /\ \/ /\ Cardinality(Edited(base[w], op[w])) <= MaxRecipes
          /\ file' = Edited(base[w], op[w])
          /\ stored' = [stored EXCEPT ![w] = TRUE]
          /\ raced' = [v \in Windows |-> raced[v] \/ (v # w /\ pc[v] # "idle")]
          /\ Goto(w, "release")
          /\ UNCHANGED <<op, lock, base>>
       \/ Return(w, "failed") /\ UNCHANGED <<file, stored>>
    /\ UNCHANGED minted

Release(w) ==
    /\ pc[w] = "release"
    /\ Return(w, "ok")
    /\ UNCHANGED <<file, minted, stored>>

-----------------------------------------------------------------------------
(* A window dies: its staged file is never renamed, and the next tryLock   *)
(* finds that the owner of the lock file is no longer running.             *)
Crash(w) ==
    /\ pc[w] # "idle"
    /\ Return(w, "none")
    /\ UNCHANGED <<file, minted, stored>>

(* The file is damaged while no window works on it, and moved away by hand.*)
ByHand(f) == /\ Free
             /\ file' = f
             /\ raced' = [w \in Windows |-> pc[w] # "idle"]
             /\ UNCHANGED <<lock, pc, op, base, minted, answer, stored>>

Spoiled == file # Damaged /\ ByHand(Damaged)
MovedAway == file = Damaged /\ ByHand({})

Working(w) == \/ LookUp(w) \/ Capture(w) \/ Acquire(w)
              \/ Read(w) \/ Write(w) \/ Release(w)

Next == \/ \E w \in Windows :
              \/ \E n \in Names, i \in minted \cup {NoId}, leave \in BOOLEAN :
                    SaveCurrent(w, n, i, leave)
              \/ \E i \in minted : Remove(w, i)
              \/ Working(w)
              \/ Crash(w)
        \/ Spoiled
        \/ MovedAway

(* A running window goes on; users and accidents owe nothing. *)
Spec == Init /\ [][Next]_vars /\ \A w \in Windows : WF_vars(Working(w))

-----------------------------------------------------------------------------
(* The windows together keep one book: every change of the file is one     *)
(* whole operation on what all of them see, so no window undoes what       *)
(* another one has stored.                                                 *)
Book == INSTANCE RecipeBook WITH book <- file

ImplementsRecipeBook == Book!BookSpec

(* read() refuses a file with two recipes of one identifier for good, so   *)
(* no sequence of operations of any windows may write one.                 *)
UniqueIds == file # Damaged => \A r, s \in file : r.id = s.id => r = s

(* What the caller is told is what happened: a call that reports an error  *)
(* has left the file alone, and one that reports success has changed it.   *)
AnswersAreTrue == \A w \in Windows :
    /\ answer[w] = "ok" => stored[w]
    /\ answer[w] = "failed" => ~stored[w]

(* The two checks of saveCurrent() are made in earlier lock periods than   *)
(* the save.  When no other window changed the file in between, they still *)
(* hold when the recipe is stored: a replaced recipe is there, and a name  *)
(* is used twice only with the user's leave.                               *)
ChecksStillHold == [][\A w \in Windows :
    (stored'[w] /\ ~stored[w] /\ op[w].kind = "save" /\ ~raced[w]) =>
        /\ op[w].replace # NoId => op[w].replace \in IdsIn(file)
        /\ Clash(file, op[w].replace, op[w].recipe.name) => op[w].allow]_vars

(* Nobody waits for ever: tryLock gives up, and a dead window frees the    *)
(* lock.                                                                   *)
CallsReturn == \A w \in Windows : pc[w] # "idle" ~> pc[w] = "idle"
=============================================================================
