SPECIFICATION FileSpec
CONSTANTS
  w1 = w1
  i1 = i1
  i2 = i2
  Writers = {w1}
  Maps <- MapSet
  EmptyMap = "m0"
  Length <- Sizes
  Inodes = {i1, i2}
  DiskFails = TRUE
INVARIANTS FileTypeOK NeverTorn
PROPERTIES SaveIsAtomic
