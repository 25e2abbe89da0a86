SPECIFICATION Spec
CONSTANTS
  Strings = {Empty, a, b}
  Empty = Empty
  Handles = {h1, h2}
INVARIANT HoldsItsString
