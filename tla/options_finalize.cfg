SPECIFICATION Spec
CONSTANTS
  Objects = {o1, o2, o3}
  Blocks = {b1, b2, b3}
  Null = Null
  Free = Free
  Values = {v1, v2}
  Numbers = {1, 3}
  Families <- WithConnect
  o1 = o1
  o2 = o2
  o3 = o3
  b1 = b1
  b2 = b2
  b3 = b3
  v1 = v1
  v2 = v2
SYMMETRY Alike
INVARIANTS BuiltAsAsked
