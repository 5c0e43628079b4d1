SPECIFICATION Spec
CONSTANTS
  k1 = k1
  k2 = k2
  k3 = k3
  k4 = k4
  k5 = k5
  k6 = k6
  v1 = v1
  v2 = v2
  Keys = {k1, k2, k3, k4, k5, k6}
  Values = {v1, v2}
  Hash <- MCHash
  Requested = 0
  MaxEntries = 9
SYMMETRY KeySymmetry
CONSTRAINT Explored
INVARIANTS TypeOK DictInv KeysFound
PROPERTIES StepsOfMap OrdinalsStable
