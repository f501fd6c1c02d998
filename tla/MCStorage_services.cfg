SPECIFICATION Spec
CONSTANTS
  Writer = {v, w}
  Doc = {d1, d2, d3, d4, d5, big}
  NoDoc = NoDoc
  TooBig = {big}
  Attempts = 3
SYMMETRY Alike
INVARIANTS TypeOK ConflictsAreReal
PROPERTIES ImplementsBlobStore
CHECK_DEADLOCK FALSE
