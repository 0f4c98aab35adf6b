CONSTANTS
  Ops = {desk, b}
  Desk = desk
  Count = 2
  Confs = {"w", "s", "t"}
  Released = {"w", "s", "t"}
  World <- MCWorld
  Single = single
  Unset = unset
  Ids = {i1, i2, i3}
  Found <- MCFound
  Menus <- MCMenus
  Sessions <- MCSessions
  Flaky = FALSE
  MaxTrouble = 1
SYMMETRY Symmetry
SPECIFICATION SwitchSpec
INVARIANT OfferedStopsProceed NothingStillRunning
PROPERTY OneRunningStopped
