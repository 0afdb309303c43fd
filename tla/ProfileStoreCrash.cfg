SPECIFICATION Spec
CONSTANTS
  core = core
  mine = mine
  MINE = MINE
  Threads = {t1, t2}
  Names = {core, mine, MINE}
  Slug <- SlugOf
  Sliders = {v1}
  Presets = {core}
  Racing = FALSE
INVARIANT FileIsWhole
PROPERTY KeptIsSeen
