SPECIFICATION Spec
CONSTANTS
  core = core
  mine = mine
  MINE = MINE
  Threads = {t1, t2, t3}
  Names = {core, mine}
  Slug <- SlugOf
  Sliders = {v1}
  Presets = {core}
  Racing = TRUE
INVARIANT NoPartialFileIsRead
