\* Two clients replace the same document on condition it has not changed.
CONSTANTS
  DocIds = {d1}
  Writers = {w1, w2}
  Ops = {"index", "update"}
  Overlap = TRUE
  MaxWrites = 3
  Nothing = Nothing
SPECIFICATION DocsSpec
CHECK_DEADLOCK FALSE
INVARIANT NoLostUpdate
