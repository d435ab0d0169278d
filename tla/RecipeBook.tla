----------------------------- MODULE RecipeBook -----------------------------
(***************************************************************************)
(* What the recipe store promises, seen by all windows together: a book of *)
(* recipes, at most one for each identifier, that changes by one whole     *)
(* operation at a time.  The book may also be found damaged, and be put    *)
(* right by hand.                                                          *)
(***************************************************************************)
CONSTANTS Recipes,   \* every recipe there can be, records with a field id
          Damaged    \* the book nobody can read

VARIABLE book

Without(b, i) == {r \in b : r.id # i}

BookInit == book = {}

(* A recipe is added, or takes the place of the one with its identifier. *)
Store(r) == /\ book # Damaged
            /\ book' = Without(book, r.id) \cup {r}

(* A recipe is taken out. *)
Drop(i) == /\ book # Damaged
           /\ book' = Without(book, i)

Spoil == book' = Damaged
Restore == book = Damaged /\ book' = {}

BookNext == \/ \E r \in Recipes : Store(r)
            \/ \E r \in Recipes : Drop(r.id)
            \/ Spoil
            \/ Restore

BookSpec == BookInit /\ [][BookNext]_book
=============================================================================
