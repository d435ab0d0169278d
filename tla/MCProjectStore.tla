--------------------------- MODULE MCProjectStore ---------------------------
(* TLC instance of ProjectStore. *)
EXTENDS ProjectStore, TLC

CONSTANTS b1, b2, unsaved, home, other

OneBlock == {b1}
TwoBlocks == {b1, b2}
OneName == {unsaved, home}
TwoNames == {unsaved, home, other}
NoFaults == {}
CompactionFault == {"compaction"}
SaveFault == {"save"}
RecoveredFault == {"recovered"}
WriteFaults == {"autosave", "save", "recovered"}

(* Blocks are interchangeable, and so are the permanent names.             *)
Symmetry == Permutations(Blocks) \cup Permutations(Paths \ {TempPath})

=============================================================================
