\* The hash tables through two resizes, with collisions before and after them.
SPECIFICATION Spec
CONSTANTS
  k1 = k1
  k2 = k2
  k3 = k3
  k4 = k4
  Key <- Keys4
  Value = {v1, v2}
  Hash <- Hashes
  InitialSize = 2
  MinSize = 5
INVARIANTS TypeOK EveryKeyPlaced CountExact LoadBounded
PROPERTIES PromiseSpec
