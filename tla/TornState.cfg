SPECIFICATION SteadySpec
CONSTANTS
  w1 = w1
  w2 = w2
  i1 = i1
  i2 = i2
  i3 = i3
  i4 = i4
  Writers = {w1, w2}
  Maps <- MapSet
  EmptyMap = "m0"
  Length <- Sizes
  Inodes = {i1, i2, i3, i4}
  DiskFails = FALSE
INVARIANTS WholeAtRest
