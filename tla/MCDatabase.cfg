SPECIFICATION MCSpec
CONSTANTS
  Parts = {"locations", "crowded", "inheritance", "players", "hierarchies", "verbs", "properties", "moves", "waifs"}
  k1 = k1
  k2 = k2
  NoSlot = NoSlot
  MaxObjid = 3
  Props = {}
  Slots <- const_Slots
  Users = {1, 2, 3}
  Parents <- const_NoParents
  Builtins <- const_Locations
  n1 = n1
  n2 = n2
  f1 = f1
  f2 = f2
  CLEAR = CLEAR
  MaxVerbs = 2
  VerbNames = {"v"}
  Verbdefs = {1, 2}
  WaifPropNames = {"wa", "wb"}
  ClassNames = {"wa", "wb"}
  PropValues = {1}
  Waifs = {1}
  N_MAPPABLE_PROPS = 1
  SharedNames = FALSE
  Reuse = FALSE
SYMMETRY MCSymmetry
VIEW MCView
INVARIANTS LinksAgree NoCycles KeepsRunning CacheTruthful PropertiesAligned WaifValuesTrue
PROPERTIES NumbersStayGone EntersWhereItIs ImplementsForests ImplementsInheritance WaifValuesKept
CHECK_DEADLOCK FALSE
