SPECIFICATION MCSpec
CONSTANTS
  Parts = {"waifs"}
  k1 = k1
  k2 = k2
  NoSlot = NoSlot
  MaxObjid = 2
  Props = {}
  Slots <- const_Slots
  Users = {3}
  Parents <- const_NoParents
  Builtins <- const_Locations
  n1 = n1
  n2 = n2
  f1 = f1
  f2 = f2
  CLEAR = CLEAR
  MaxVerbs = 2
  VerbNames = {"v"}
  Verbdefs = {1, 2}
  WaifPropNames = {"wa", "wb"}
  ClassNames = {"wa", "wb"}
  PropValues = {1}
  Waifs = {1}
  N_MAPPABLE_PROPS = 1
  SharedNames = FALSE
  Reuse = TRUE
SYMMETRY MCSymmetry
VIEW MCView
INVARIANTS RegeneratedAsNeeded
CHECK_DEADLOCK FALSE
