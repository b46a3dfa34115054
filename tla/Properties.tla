---------------------------- MODULE Properties ----------------------------
(***************************************************************************)
(* Properties as db_properties.c keeps them.  An object holds one array of *)
(* values: those of the properties it defines, then those of the ones its  *)
(* parent defines, and so on to the root.  An array carries no names: the  *)
(* position of a value follows from the definitions of the object and all  *)
(* its ancestors, so each change of a definition or of a parent must move  *)
(* the values of every descendant.                                         *)
(*                                                                         *)
(* The operators take the database d, a record: .parent, .propdefs and     *)
(* .propval belong here, .waif_propdefs to Waifs, .verbdefs, .verbs and    *)
(* .cache to VerbCache.  Left out: the owners of properties and the        *)
(* built-in properties, which are fields of the object.                    *)
(***************************************************************************)
EXTENDS Integers, FiniteSets, SequencesExt, FiniteSetsExt, TLC

NOTHING == -1

(* No table of waif properties. *)
NULL == 0

CONSTANTS
  PropNames,     \* names a property can have
  PropValues,    \* bound: the values the database stores
  PropFlags,     \* bound: the permissions it gives
  CLEAR          \* the value of a property that is inherited

(* A definition: its name, the string that holds the name, and, not in the
   code, which definition it is, whatever its name. *)
Propdef(name, str, def) == [name |-> name, str |-> str, def |-> def]

Pval(var, perms) == [var |-> var, perms |-> perms]

-----------------------------------------------------------------------------
(* The tree of objects *)

Valid(d) == DOMAIN d.parent

Children(d, o) == {c \in Valid(d) : d.parent[c] = o}

(* o, its parent, and so on up. *)
Line(d, o) ==
  LET line[x \in Valid(d) \cup {NOTHING}] ==
        IF x = NOTHING THEN <<>> ELSE <<x>> \o line[d.parent[x]]
  IN line[o]

AtOrAbove(d, o) == ToSet(Line(d, o))

AtOrBelow(d, o) == {x \in Valid(d) : o \in AtOrAbove(d, x)}

NamesAt(d, o) == {d.propdefs[o][i].name : i \in DOMAIN d.propdefs[o]}

NamesAtOrAbove(d, o) == UNION {NamesAt(d, x) : x \in AtOrAbove(d, o)}

property_defined_at_or_below(d, name, o) == \E x \in AtOrBelow(d, o) : name \in NamesAt(d, x)

(* The definitions that the values of o belong to, in order. *)
Layout(d, o) ==
  LET layout[x \in Valid(d) \cup {NOTHING}] ==
        IF x = NOTHING THEN <<>>
        ELSE [k \in DOMAIN d.propdefs[x] |-> <<x, d.propdefs[x][k]>>] \o layout[d.parent[x]]
  IN layout[o]

count_properties(d, o) == Len(Layout(d, o))

(* How many values of x come before those of the properties of root, which is at
   or above x. *)
Before(d, x, root) == count_properties(d, x) - count_properties(d, root)

-----------------------------------------------------------------------------
(* Finding a property *)

NotFound == [definer |-> NOTHING, n |-> 0]

db_find_property(d, o, name) ==
  LET l == Layout(d, o)
      at == {n \in DOMAIN l : l[n][2].name = name}
  IN IF at = {} THEN NotFound ELSE [definer |-> l[Min(at)][1], n |-> Min(at)]

(* The value o has for its property at position n: a clear one is sought in the
   parent, at a position without o's own definitions. *)
RECURSIVE ValueAt(_, _, _)
ValueAt(d, o, n) ==
  IF d.propval[o][n].var # CLEAR THEN d.propval[o][n].var
  ELSE ValueAt(d, d.parent[o], n - Len(d.propdefs[o]))

-----------------------------------------------------------------------------
(* Adding and removing a definition: the operators for the objects that change,
   root and all below it. *)

Untabled(d, objs) == [d EXCEPT !.waif_propdefs = [o \in DOMAIN @ |-> IF o \in objs THEN NULL ELSE @[o]]]

insert_prop_recursively(d, root, pos, pv) ==
  Untabled([d EXCEPT !.propval = [x \in DOMAIN @ |->
    IF x \notin AtOrBelow(d, root) THEN @[x]
    ELSE InsertAt(@[x], Before(d, x, root) + pos,
                  IF x = root THEN pv ELSE Pval(CLEAR, pv.perms))]], AtOrBelow(d, root))

remove_prop_recursively(d, root, pos) ==
  Untabled([d EXCEPT !.propval = [x \in DOMAIN @ |->
    IF x \notin AtOrBelow(d, root) THEN @[x]
    ELSE RemoveAt(@[x], Before(d, x, root) + pos)]], AtOrBelow(d, root))

(* Whether o may define a property of that name. *)
MayDefine(d, o, name) ==
  /\ db_find_property(d, o, name) = NotFound
  /\ ~property_defined_at_or_below(d, name, o)

db_add_propdef(d, o, pd, pv) ==
  insert_prop_recursively([d EXCEPT !.propdefs[o] = Append(@, pd)], o,
                          Len(d.propdefs[o]) + 1, pv)

db_delete_propdef(d, o, i) ==
  remove_prop_recursively([d EXCEPT !.propdefs[o] = RemoveAt(@, i)], o, i)

-----------------------------------------------------------------------------
(* A new parent *)

(* dbpriv_check_properties_for_chparent() *)
MayBeUnder(d, o, p) ==
  p # NOTHING => \A name \in NamesAtOrAbove(d, p) : ~property_defined_at_or_below(d, name, o)

(* fix_props(): in o and all below it, old values after their own make way for
   newbie clear ones with the flags they have in p. *)
fix_props(d, o, p, old, newbie, common) ==
  LET fresh == [i \in 1 .. newbie |-> Pval(CLEAR, d.propval[p][i].perms)]
      local(x) == Before(d, x, o) + Len(d.propdefs[o])
      fixed(x) == LET pv == d.propval[x]
                  IN SubSeq(pv, 1, local(x)) \o fresh
                     \o SubSeq(pv, local(x) + old + 1, local(x) + old + common)
      all == AtOrBelow(d, o)
  IN Untabled([d EXCEPT !.propval = [x \in DOMAIN @ |-> IF x \in all THEN fixed(x) ELSE @[x]]], all)

(* Mutant: the first object the two lines share is taken to be the root. *)
NearestCommon_root(d, p, q) ==
  IF AtOrAbove(d, p) \cap AtOrAbove(d, q) = {} THEN NOTHING ELSE Last(Line(d, p))

(* The nearest object that is at or above both. *)
NearestCommon(d, p, q) ==
  LET shared == SelectSeq(Line(d, p), LAMBDA x : x \in AtOrAbove(d, q))
  IN IF shared = <<>> THEN NOTHING ELSE Head(shared)

(* d has the new parent of o already. *)
fix_properties_after_chparent(d, o, old_parent) ==
  LET new_parent == d.parent[o]
      common == count_properties(d, NearestCommon(d, new_parent, old_parent))
  IN fix_props(d, o, new_parent, count_properties(d, old_parent) - common,
               count_properties(d, new_parent) - common, common)

-----------------------------------------------------------------------------
(* The built-in functions that change properties; permissions and types, whose
   refusal changes nothing, are left out. *)

bf_add_prop(d, o, pd, pv) == IF MayDefine(d, o, pd.name) THEN db_add_propdef(d, o, pd, pv) ELSE d

bf_delete_prop(d, o, name) ==
  IF name \in NamesAt(d, o)
  THEN db_delete_propdef(d, o, CHOOSE i \in DOMAIN d.propdefs[o] : d.propdefs[o][i].name = name)
  ELSE d

Assigned(d, o, name, value) ==
  LET h == db_find_property(d, o, name)
  IN IF h = NotFound THEN d ELSE [d EXCEPT !.propval[o][h.n].var = value]

(* Mutant: an object may clear a property it defines. *)
bf_clear_prop_anywhere(d, o, name) == Assigned(d, o, name, CLEAR)

bf_clear_prop(d, o, name) ==
  IF db_find_property(d, o, name).definer = o THEN d ELSE Assigned(d, o, name, CLEAR)

Permitted(d, o, name, perms) ==
  LET h == db_find_property(d, o, name)
  IN IF h = NotFound THEN d ELSE [d EXCEPT !.propval[o][h.n].perms = perms]
=============================================================================
