------------------------------ MODULE Database ------------------------------
(***************************************************************************)
(* The object database with what hangs on its objects: the operations that *)
(* change the tree, which move the values of properties, flush the verb    *)
(* cache and throw away the tables of waifs (db_objects.c), and the        *)
(* built-in functions of property.c, verbs.c and waif.c.  Each of them     *)
(* runs to its end before another begins.                                  *)
(*                                                                         *)
(* The specification is made of three: verbs, properties and waifs each    *)
(* have their built-ins, over the same tree.  create() and recycle() are   *)
(* whole here; Objects has the verbs they call on the way.                 *)
(***************************************************************************)
EXTENDS Waifs

CONSTANTS
  MaxNumber,    \* bound: the objects are numbered 0 .. MaxNumber
  MaxVerbs,     \* bound: the verbs an object has
  MaxProps,     \* bound: the definitions of properties there are
  VerbInfos,    \* bound: what verbs may be called, and whether they may be
  Reuse,        \* may an object take the number of a waif's class?
  SharedNames,  \* may two definitions have their name in one string?
  ClassNames    \* bound: the names of properties the classes of waifs define

VARIABLE db

Numbers == 0 .. MaxNumber

EmptyDatabase ==
  [parent |-> [o \in {0} |-> NOTHING], propdefs |-> [o \in {0} |-> <<>>],
   propval |-> [o \in {0} |-> <<>>], waif_propdefs |-> [o \in {0} |-> NULL],
   verbdefs |-> [o \in {0} |-> <<>>], verbs |-> <<>>, cache |-> <<>>, tables |-> <<>>,
   waifs |-> [w \in Waifs |-> NoWaif], num_objects |-> 1, fate |-> "runs"]

InitDatabase == db = EmptyDatabase

Classes == {db.waifs[w].class : w \in Waifs}

(* The bound on numbers: see Reuse. *)
MayUse(o) == o \in Numbers /\ (Reuse \/ o \notin Classes)

(* A call that is refused or only reads is no step. *)
Becomes(d) == db.fate = "runs" /\ d # db /\ db' = Collected(d)

-----------------------------------------------------------------------------
(* The tree *)

db_change_parent(d, o, p) ==
  IF MayBeUnder(d, o, p)
  THEN fix_properties_after_chparent([FlushedForParent(d, o) EXCEPT !.parent[o] = p], o, d.parent[o])
  ELSE d

db_create_object(d, o) ==
  [d EXCEPT !.parent = (o :> NOTHING) @@ @, !.propdefs = (o :> <<>>) @@ @,
            !.propval = (o :> <<>>) @@ @, !.waif_propdefs = (o :> NULL) @@ @,
            !.verbdefs = (o :> <<>>) @@ @, !.num_objects = o + 1]

Create(p) ==
  LET o == db.num_objects
  IN MayUse(o) /\ Becomes(db_change_parent(db_create_object(db, o), o, p))

Chparent(o, p) ==
  o \notin AtOrAbove(db, p) /\ Becomes(db_change_parent(db, o, p))

Rekeyed(d, keys, old(_)) ==
  LET moved(f) == [k \in keys |-> f[old(k)]]
  IN [d EXCEPT !.parent = moved(@), !.propdefs = moved(@), !.propval = moved(@),
               !.waif_propdefs = moved(@), !.verbdefs = moved(@)]

db_destroy_object(d, o) ==
  LET s == Rekeyed(db_priv_affected_callable_verb_lookup(d), Valid(d) \ {o}, LAMBDA x : x)
  IN [s EXCEPT !.verbs = [v \in Allocated(s) |-> @[v]]]

(* The end of bf_recycle(). *)
Recycle(o) ==
  LET adopted == FoldSet(LAMBDA c, d : db_change_parent(d, c, d.parent[o]), db, Children(db, o))
  IN Becomes(db_destroy_object(db_change_parent(adopted, o, NOTHING), o))

(* Waifs are not looked for: they keep the old number of their class. *)
db_renumber_object(d, old, newbie) ==
  LET new(x) == IF x = old THEN newbie ELSE x
      s == Rekeyed(db_priv_affected_callable_verb_lookup(d), (Valid(d) \ {old}) \cup {newbie},
                   LAMBDA x : IF x = newbie THEN old ELSE x)
  IN [s EXCEPT !.parent = [o \in DOMAIN @ |-> new(@[o])]]

Renumber(o) ==
  LET free == (0 .. o) \ (Valid(db) \ {o})
  IN /\ Min(free) = o \/ MayUse(Min(free))
     /\ Becomes(db_renumber_object(db, o, Min(free)))

db_reset_last_used_objid ==
  /\ Valid(db) # {}
  /\ Becomes([db EXCEPT !.num_objects = Max(Valid(db)) + 1])

NextTree ==
  \/ \E p \in Valid(db) \cup {NOTHING} : Create(p)
  \/ \E o \in Valid(db), p \in Valid(db) \cup {NOTHING} : Chparent(o, p)
  \/ \E o \in Valid(db) : Recycle(o) \/ Renumber(o)
  \/ db_reset_last_used_objid

-----------------------------------------------------------------------------
(* Verbs *)

AddVerb(o, def) ==
  /\ Len(db.verbdefs[o]) < MaxVerbs
  /\ Verbdefs \ Allocated(db) # {}
  /\ Becomes(db_add_verb(db, o, Min(Verbdefs \ Allocated(db)), def))

DeleteVerb(o) == \E i \in DOMAIN db.verbdefs[o] : Becomes(db_delete_verb(db, o, i))

SetVerbInfo(o, def) ==
  \E i \in DOMAIN db.verbdefs[o] : Becomes(bf_set_verb_info(db, db.verbdefs[o][i], def))

CallVerb(o, name) == Becomes(db_find_callable_verb(db, o, name))

NextVerbs ==
  \/ NextTree
  \/ \E o \in Valid(db), def \in VerbInfos : AddVerb(o, def) \/ SetVerbInfo(o, def)
  \/ \E o \in Valid(db) : DeleteVerb(o)
  \/ \E o \in Valid(db), name \in VerbNames : CallVerb(o, name)

-----------------------------------------------------------------------------
(* Properties *)

(* Strings and marks do not matter without waifs. *)
Plain(name) == Propdef(name, NULL, NULL)

(* The bound on definitions. *)
RoomForProperty == Cardinality(UNION {{o} \X NamesAt(db, o) : o \in Valid(db)}) < MaxProps

AddProperty(o, name, value, flags) ==
  RoomForProperty /\ Becomes(bf_add_prop(db, o, Plain(name), Pval(value, flags)))

(* set_prop_info(), which gives o flags of its own and may rename what o defines. *)
SetPropertyInfo(o, name, flags) == Becomes(Permitted(db, o, name, flags))

RenameProperty(o, i, pd, flags) ==
  LET d == db_rename_propdef(db, o, i, pd)
  IN Becomes(IF d.propdefs[o][i].name = pd.name THEN Permitted(d, o, pd.name, flags) ELSE db)

DeleteProperty(o, name) == Becomes(bf_delete_prop(db, o, name))

ClearProperty(o, name) == Becomes(bf_clear_prop(db, o, name))

SetProperty(o, name, value) == Becomes(Assigned(db, o, name, value))

NextProperties ==
  LET Names == PropNames \ WaifPropNames
  IN \/ NextTree
     \/ \E o \in Valid(db), name \in Names, value \in PropValues, flags \in PropFlags :
          AddProperty(o, name, value, flags)
     \/ \E o \in Valid(db), name \in Names :
          DeleteProperty(o, name) \/ ClearProperty(o, name)
     \/ \E o \in Valid(db), name \in Names, flags \in PropFlags :
          \/ SetPropertyInfo(o, name, flags)
          \/ \E i \in DOMAIN db.propdefs[o] : RenameProperty(o, i, Plain(name), flags)
     \/ \E o \in Valid(db), name \in Names, value \in PropValues : SetProperty(o, name, value)

(* The larger trees that only chparent() needs. *)
NextMoves ==
  \/ \E p \in Valid(db) \cup {NOTHING} : Create(p)
  \/ \E o \in Valid(db), p \in Valid(db) \cup {NOTHING} : Chparent(o, p)
  \/ \E o \in Valid(db), name \in PropNames \ WaifPropNames, value \in PropValues, flags \in PropFlags :
       AddProperty(o, name, value, flags)
  \/ \E o \in Valid(db), name \in PropNames \ WaifPropNames, value \in PropValues :
       SetProperty(o, name, value)

-----------------------------------------------------------------------------
(* Waifs *)

AddProperty_waifs(o, name) ==
  /\ RoomForProperty
  /\ \E pd \in NewDefinitions(db, name, SharedNames), v \in PropValues, f \in PropFlags :
       Becomes(bf_add_prop(db, o, pd, Pval(v, f)))

RenameProperty_waifs(o, name) ==
  \E pd \in NewDefinitions(db, name, SharedNames), f \in PropFlags :
    \E i \in DOMAIN db.propdefs[o] : RenameProperty(o, i, pd, f)

NewWaif(w, class) == db.waifs[w] = NoWaif /\ Becomes(new_waif(db, w, class))

GetWaif(w, name) == Becomes(waif_get_prop(db, w, name))

PutWaif(w, name) == Becomes(waif_put_prop(db, w, name))

(* The last reference to a waif goes. *)
FreeWaif(w) == Becomes(free_waif(db, w))

(* A dump, and a start from it; names are interned, which SharedNames is about. *)
Restart ==
  /\ SharedNames \/ \A o, x \in Valid(db) : o # x => NamesAt(db, o) \cap NamesAt(db, x) = {}
  /\ Becomes(Reloaded(db))

(* db with the numbers of strings, definitions and tables, which mean nothing,
   replaced by the places where they first occur. *)
Canonical ==
  LET objs == SetToSortSeq(Valid(db), <)
      ws == SetToSeq(Waifs)
      pointers == [k \in DOMAIN objs |-> db.waif_propdefs[objs[k]]]
                  \o [k \in DOMAIN ws |-> db.waifs[ws[k]].propdefs]
      lists == [k \in DOMAIN objs |-> db.propdefs[objs[k]]]
               \o [k \in DOMAIN pointers |-> IF pointers[k] = NULL THEN <<>> ELSE db.tables[pointers[k]]]
      pds == FlattenSeq(lists)
      strs == [k \in DOMAIN pds |-> pds[k].str]
      defs == [k \in DOMAIN pds |-> pds[k].def]
      first(s, x) == IF x \in ToSet(s) THEN Min({k \in DOMAIN s : s[k] = x}) ELSE 0
  IN <<[k \in DOMAIN pds |-> <<pds[k].name, first(strs, strs[k]), first(defs, defs[k])>>],
       [k \in DOMAIN lists |-> Len(lists[k])],
       [k \in DOMAIN pointers |-> IF pointers[k] = NULL THEN NULL ELSE first(pointers, pointers[k])],
       [k \in DOMAIN ws |-> LET x == db.waifs[ws[k]]
          IN <<x.class, x.map, x.allocated, 
              [i \in DOMAIN x.propvals |-> IF x.propvals[i] = CLEAR THEN CLEAR ELSE first(defs, x.propvals[i])]>>],
       db.parent, db.propval, db.num_objects, db.fate>>

NextWaifs ==
  \/ NextTree
  \/ \E o \in Valid(db), name \in ClassNames : AddProperty_waifs(o, name) \/ RenameProperty_waifs(o, name)
  \/ \E o \in Valid(db), name \in ClassNames : DeleteProperty(o, name)
  \/ \E w \in Waifs, o \in Valid(db) : NewWaif(w, o)
  \/ \E w \in Live(db), name \in WaifPropNames : GetWaif(w, name) \/ PutWaif(w, name)
  \/ \E w \in Live(db) : FreeWaif(w)
  \/ Restart

-----------------------------------------------------------------------------
(* Properties *)

(* What the cache holds is what a search would find now, and no entry points to
   a verb definition that is gone: db_change_parent() may keep the cache for an
   object without verbs and children, and nothing else changes what a search
   finds without flushing it. *)
CacheTruthful ==
  \A o \in Valid(db), name \in VerbNames :
    Key(db, o, name) \in DOMAIN db.cache =>
      /\ db.cache[Key(db, o, name)] = Search(db, o, name)
      /\ Search(db, o, name) = NoVerb \/ Search(db, o, name).verbdef \in Allocated(db)

(* The array of each object has a value for each property it or an ancestor
   defines, never clear for its own, so that the search for an inherited value
   ends at the definer; no line of ancestors defines a name twice. *)
PropertiesAligned ==
  \A o \in Valid(db) :
    LET l == Layout(db, o)
    IN /\ Len(db.propval[o]) = Len(l)
       /\ IsInjective([i \in DOMAIN l |-> l[i][2].name])
       /\ \A i \in DOMAIN l : l[i][1] = o => db.propval[o][i].var # CLEAR
       /\ \A i \in DOMAIN l : ValueAt(db, o, i) \in PropValues

(* The array of o, read by position, as the settings of Inheritance. *)
Settings(o) ==
  LET l == Layout(db, o)
  IN {[obj |-> o, definer |-> l[i][1], name |-> l[i][2].name,
       var |-> db.propval[o][i].var, perms |-> db.propval[o][i].perms] : i \in DOMAIN l}

Inherits == INSTANCE Inheritance WITH
  Objids   <- Numbers,
  parent   <- db.parent,
  defines  <- [o \in Valid(db) |-> NamesAt(db, o)],
  settings <- UNION {Settings(o) : o \in Valid(db)}

(* The table of a class, if it has one, is that of its definitions as they are;
   a waif shows a value only under the definition it was put for; and the server
   never fails to find in the class what is in the table. *)
WaifValuesTrue ==
  /\ db.fate = "runs"
  /\ \A o \in Valid(db) : db.waif_propdefs[o] # NULL =>
       db.tables[db.waif_propdefs[o]] = WaifDefinitions(db, o)
  /\ \A w \in Live(db) :
       LET x == db.waifs[w]
           table == db.tables[x.propdefs]
       IN x.propdefs # NULL => \A i \in DOMAIN table :
            ValueOf(x, Len(table), i) \in {CLEAR, table[i].def}

(* Do tables a and b have what they share in one order? *)
SameOrder(a, b) ==
  \A i, k \in DOMAIN a, j, l \in DOMAIN b :
    a[i].def = b[j].def /\ a[k].def = b[l].def /\ i < k => j < l

(* A waif that is brought up to date, or dumped and read again, keeps the value of
   each property that the class still has as the waif knows it, whatever has come
   and gone before and after it.  A property renamed while the waif was not up to
   date is lost, as waif_rename_propdef() says, and so may be one that has another
   place among the others. *)
ValuesKept ==
  \A w \in Live(db) :
    LET x == db.waifs[w]
        y == db'.waifs[w]
        a == db.tables[x.propdefs]
        b == db'.tables[y.propdefs]
    IN /\ x.class = y.class /\ x.class \in Valid(db)
       /\ NULL \notin {x.propdefs, y.propdefs} /\ SameOrder(a, b)
       => \A i \in DOMAIN a, j \in DOMAIN b :
            /\ a[i] \in ToSet(WaifDefinitions(db, x.class)) /\ a[i].def = b[j].def
            /\ ValueOf(x, Len(a), i) # CLEAR
            => ValueOf(y, Len(b), j) = ValueOf(x, Len(a), i)

(* Changes to the class of a waif, its number taken by another object included,
   are noticed when the waif is used. *)
RegeneratedAsNeeded == db.fate # "crash"
=============================================================================
