----------------------------- MODULE MCDatabase -----------------------------
(***************************************************************************)
(* The parts of the object database, checked in one run: Init chooses the  *)
(* part, the rest stands still.  Objects is instantiated with two built-ins *)
(* at once, with four objects, for the hierarchy of parents, for the list  *)
(* of players and for both hierarchies, Database once for each of its      *)
(* parts.                                                                  *)
(***************************************************************************)
EXTENDS Objects, TLC

CONSTANTS
  Parts,                    \* bound: the parts that are checked
  k1, k2, n1, n2, f1, f2,       \* model values: slots, names and flags
  VerbNames, Verbdefs, MaxVerbs, WaifPropNames, ClassNames, PropValues, Waifs,
  N_MAPPABLE_PROPS, Reuse, SharedNames, CLEAR

VARIABLES part, db

const_Slots == {k1, k2}
const_Locations == {"create", "move", "recycle"}
const_NoParents == {NOTHING}
MCSymmetry == Permutations(const_Slots) \cup Permutations({n1, n2}) \cup Permutations({f1, f2})

(* What the instances of Database share unless they say otherwise. *)
MaxNumber == 2
MaxProps  == 2
PropNames == {n1, n2}
PropFlags == {f1}
VerbInfos == {[names |-> {"v"}, x |-> TRUE], [names |-> {"v"}, x |-> FALSE],
              [names |-> {"w"}, x |-> TRUE]}

-----------------------------------------------------------------------------
Locations == INSTANCE Objects WITH MaxObjid <- MaxNumber

Crowded == INSTANCE Objects WITH Slots <- {k1}

Inheriting == INSTANCE Objects WITH
  Slots <- {k1}, Props <- {"p"}, Parents <- Objids \cup {NOTHING},
  Builtins <- BuiltinNames \ {"move", "reset_max_object", "set_player_flag"}

Players == INSTANCE Objects WITH Slots <- {k1},
  Builtins <- {"create", "recycle", "renumber", "reset_max_object", "set_player_flag"}

Hierarchies == INSTANCE Objects WITH
  MaxObjid <- MaxNumber, Slots <- {k1}, Parents <- Objids \cup {NOTHING},
  Builtins <- BuiltinNames \ {"add_prop", "delete_prop", "set_player_flag"}

Verbs == INSTANCE Database

Properties == INSTANCE Database WITH PropFlags <- {f1, f2}

Moves == INSTANCE Database WITH MaxNumber <- 3

Classes == INSTANCE Database WITH MaxNumber <- 1, PropNames <- WaifPropNames

-----------------------------------------------------------------------------
MCInit == part \in Parts /\ Init /\ Verbs!InitDatabase

MCNext ==
  \/ part = "locations" /\ Locations!Next /\ UNCHANGED <<part, db>>
  \/ part = "crowded" /\ Crowded!Next /\ UNCHANGED <<part, db>>
  \/ part = "inheritance" /\ Inheriting!Next /\ UNCHANGED <<part, db>>
  \/ part = "players" /\ Players!Next /\ UNCHANGED <<part, db>>
  \/ part = "hierarchies" /\ Hierarchies!Next /\ UNCHANGED <<part, db>>
  \/ part = "verbs" /\ Verbs!NextVerbs /\ UNCHANGED <<part, vars>>
  \/ part = "properties" /\ Properties!NextProperties /\ UNCHANGED <<part, vars>>
  \/ part = "moves" /\ Moves!NextMoves /\ UNCHANGED <<part, vars>>
  \/ part = "waifs" /\ Classes!NextWaifs /\ UNCHANGED <<part, vars>>

MCSpec == MCInit /\ [][MCNext]_<<part, vars, db>>

(* States of waifs that differ in meaningless numbers are one. *)
MCView == <<part, vars, IF part = "waifs" THEN Classes!Canonical ELSE db>>

-----------------------------------------------------------------------------
(* The properties of Objects and Database, each for the parts it is about. *)

(* See Objects.  renumber() and reset_max_object() do give numbers to other
   objects, so this is about the parts without them. *)
NumbersStayGone == [][(part \in {"locations", "crowded"}) => StaysGone]_vars

(* The verb cache tells what a search would find now. *)
CacheTruthful == part = "verbs" => Verbs!CacheTruthful

(* The arrays of values fit the definitions above each object. *)
PropertiesAligned == part \in {"properties", "moves"} => Moves!PropertiesAligned

(* Read by position, the arrays of values implement Inheritance. *)
ImplementsInheritance ==
  /\ Moves!Inherits!Init
  /\ [][(part \in {"properties", "moves"}) => Moves!Inherits!Next]_db

(* Waifs show values under the definitions they were put for, and no other. *)
WaifValuesTrue == part = "waifs" => Classes!WaifValuesTrue

(* What a waif has of a property lasts through changes of others and dumps. *)
WaifValuesKept == [][part = "waifs" => Classes!ValuesKept]_db

(* A waif whose class has changed is brought up to date when it is used. *)
RegeneratedAsNeeded == Classes!RegeneratedAsNeeded
=============================================================================
