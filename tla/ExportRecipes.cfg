SPECIFICATION Spec
CONSTANTS
  Windows = {w1, w2}
  Ids = {i1, i2, i3}
  Names = {n1, n2}
  Settings = {s1}
  NoId = NoId
  NoOne = NoOne
  Nothing = Nothing
  Damaged = Damaged
  MaxRecipes = 2
INVARIANTS
    AnswersAreTrue
PROPERTIES
    ImplementsRecipeBook
    ChecksStillHold
    CallsReturn
