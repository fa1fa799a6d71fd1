SPECIFICATION Spec
CONSTANTS
  Names = {n1, n2}
  Values = {x1, x2}
  NoValue = NoValue
  Tokens = {k1, k2}
  NoToken = NoToken
  Faults = {"locks"}
INVARIANTS KeysAlwaysKept
