------------------------------ MODULE Timeline ------------------------------
(***************************************************************************)
(* What an undo history promises its user: a line of contents with the     *)
(* present somewhere on it, and a "no unsaved changes" flag that is never  *)
(* wrong.  An edit cuts the future off; travelling changes neither the     *)
(* past nor the future that is left.                                       *)
(***************************************************************************)
EXTENDS Integers, Sequences

CONSTANT Audio

VARIABLES
    line,     \* the contents, oldest first
    present,  \* the position of the present in line
    stored,   \* what the file holds
    clean     \* the project may be closed without a question

vars == <<line, present, stored, clean>>

NeverFalselyClean == clean => line[present] = stored

Init ==
    /\ \E a \in Audio : line = <<a>> /\ stored = a
    /\ present = 1
    /\ clean = TRUE

Commit(a) ==
    /\ line' = Append(SubSeq(line, 1, present), a)
    /\ present' = present + 1
    /\ UNCHANGED stored

Amend(a) ==
    /\ line' = [line EXCEPT ![present] = a]
    /\ UNCHANGED <<present, stored>>

Travel(i) ==
    /\ present' = i
    /\ UNCHANGED <<line, stored>>

Store ==
    /\ stored' = line[present]
    /\ UNCHANGED <<line, present>>

Reopen ==
    /\ line' = <<stored>>
    /\ present' = 1
    /\ UNCHANGED stored

Next ==
    /\ clean' \in BOOLEAN
    /\ NeverFalselyClean'
    /\ \/ \E a \in Audio : Commit(a) \/ Amend(a)
       \/ \E i \in 1 .. Len(line) : Travel(i)
       \/ Store
       \/ Reopen

Spec == Init /\ [][Next]_vars

=============================================================================
