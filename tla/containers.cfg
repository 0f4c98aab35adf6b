CONSTANTS
  Ops = {a, b}
  Count = 2
  Confs = {"w", "s", "r"}
  Released = {"w", "s"}
  World <- MCWorld
  Single = single
  Unset = unset
  Ids = {i1, i2, i3}
  Found <- MCFound
  Menus <- MCMenus
  Flaky = FALSE
  MaxTrouble = 1
SYMMETRY Symmetry
SPECIFICATION Spec
INVARIANT RefusalRemovesNothing CleanMeansGone NoRankStranded
PROPERTY OnlyProvenRemoved
