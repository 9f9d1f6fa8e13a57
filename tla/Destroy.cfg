\* Five values, nested in every way.
CONSTANTS
  Values = {1, 2, 3, 4, 5}
  Moved = 0
  Kinds = {"array", "object", "string"}
  Documents <- MCDocuments
SPECIFICATION Spec
INVARIANT CallsShallow
INVARIANT FreedOnce
INVARIANT OneOwner
CHECK_DEADLOCK FALSE
