CONSTANTS
  Clients = {c1, c2}
  pool_size = 2
  Files = {1}
  MaxPages = 3
  Values = {v0, v1}
  Zero = v0
  MaxPins = 2
SPECIFICATION Spec
INVARIANTS PinsHold
SYMMETRY ClientSymmetry
