------------------------------- MODULE Waifs -------------------------------
(***************************************************************************)
(* Waifs (waif.c): values with properties of their own, the ones whose     *)
(* names begin with a colon on the class, an object, or above it.  A class *)
(* has a table of these definitions, made when it is needed and thrown     *)
(* away when they change; a waif keeps the table its values are laid out   *)
(* by until it is next used, and then moves them to where the new table    *)
(* has them, telling definitions by the address of the string with their   *)
(* name.  Of the first N_MAPPABLE_PROPS properties only those assigned to  *)
(* have a value, and the waif a bit.                                       *)
(*                                                                         *)
(* Left out: permissions, a waif's own fields, and the test that a waif is *)
(* not put into itself.                                                    *)
(***************************************************************************)
EXTENDS VerbCache

CONSTANTS
  WaifPropNames,      \* the names that begin with WAIF_PROP_PREFIX
  Waifs,              \* bound: the waifs that exist at once
  N_MAPPABLE_PROPS    \* 64 in the code

NoWaif == [class |-> NOTHING, propdefs |-> NULL, map |-> {}, allocated |-> FALSE,
           propvals |-> <<>>]

Live(d) == {w \in Waifs : d.waifs[w] # NoWaif}

-----------------------------------------------------------------------------
(* Memory *)

TablesInUse(d) ==
  ({d.waif_propdefs[o] : o \in Valid(d)} \cup {d.waifs[w].propdefs : w \in Waifs}) \ {NULL}

(* A table that neither a class nor a waif refers to is freed. *)
Collected(d) == [d EXCEPT !.tables = [t \in TablesInUse(d) |-> @[t]]]

DefinitionsInUse(d) ==
  UNION {ToSet(d.propdefs[o]) : o \in Valid(d)} \cup UNION {ToSet(d.tables[t]) : t \in TablesInUse(d)}

Unused(used) == Min((1 .. Cardinality(used) + 1) \ used)

(* A new definition with a string of its own, at an address that may have been
   used before, or with one that another definition of that name has. *)
NewDefinitions(d, name, shared) ==
  LET pds == DefinitionsInUse(d)
      strings == {Unused({pd.str : pd \in pds})}
                 \cup (IF shared THEN {pd.str : pd \in {x \in pds : x.name = name}} ELSE {})
      defs == {pd.def : pd \in pds} \cup UNION {ToSet(d.waifs[w].propvals) \ {CLEAR} : w \in Waifs}
  IN {Propdef(name, s, Unused(defs)) : s \in strings}

-----------------------------------------------------------------------------
(* Tables *)

WaifDefinitions(d, class) ==
  LET l == Layout(d, class)
      all == [i \in DOMAIN l |-> l[i][2]]
  IN SelectSeq(all, LAMBDA pd : pd.name \in WaifPropNames)

gen_waif_propdefs(d, class) ==
  LET t == Unused(TablesInUse(d))
  IN [d EXCEPT !.tables = (t :> WaifDefinitions(d, class)) @@ @, !.waif_propdefs[class] = t]

Tabled(d, class) == IF d.waif_propdefs[class] = NULL THEN gen_waif_propdefs(d, class) ELSE d

Renaming(table, old, new) ==
  [i \in DOMAIN table |-> IF table[i].str = old.str THEN new ELSE table[i]]

(* The class o has a table, and one of its properties gets another name: if both
   names are a waif's, the table is changed in place, under its waifs. *)
waif_rename_propdef(d, o, old, new) ==
  LET t == d.waif_propdefs[o]
  IN CASE {old.name, new.name} \subseteq WaifPropNames ->
            IF \E i \in DOMAIN d.tables[t] : d.tables[t][i].str = old.str
            THEN [d EXCEPT !.tables[t] = Renaming(@, old, new)]
            ELSE [d EXCEPT !.fate = "panic"]
       [] OTHER -> Untabled(d, {o})

rename_prop_recursively(d, root, old, new) ==
  FoldSet(LAMBDA o, e : IF e.waif_propdefs[o] = NULL THEN e ELSE waif_rename_propdef(e, o, old, new),
          d, AtOrBelow(d, root))

(* The i-th definition of o becomes new; a change of case needs no test. *)
db_rename_propdef(d, o, i, new) ==
  LET old == d.propdefs[o][i]
      renamed == [new EXCEPT !.def = old.def]
  IN IF new.name # old.name /\ ~MayDefine(d, o, new.name) THEN d
     ELSE [rename_prop_recursively(d, o, old, renamed) EXCEPT !.propdefs[o][i] = renamed]

-----------------------------------------------------------------------------
(* The values of one waif *)

(* The properties that have a value, in the order of the values: the assigned
   ones among the first, and all the others. *)
Held(map, length) ==
  SetToSortSeq(map, <) \o [k \in 1 .. Max({0, length - N_MAPPABLE_PROPS}) |-> N_MAPPABLE_PROPS + k]

count_waif_propvals(map, length) == Len(Held(map, length))

(* find_propval_offset(), 0 for a property that is clear for want of a value. *)
Offset(map, length, i) ==
  IF \E k \in DOMAIN Held(map, length) : Held(map, length)[k] = i
  THEN CHOOSE k \in DOMAIN Held(map, length) : Held(map, length)[k] = i ELSE 0

ValueOf(x, length, i) ==
  IF Offset(x.map, length, i) = 0 THEN CLEAR ELSE x.propvals[Offset(x.map, length, i)]

(* x with the values vals, a sequence with CLEAR where it has none. *)
Packed(x, vals) ==
  LET map == {i \in DOMAIN vals : i <= N_MAPPABLE_PROPS /\ vals[i] # CLEAR}
      held == Held(map, Len(vals))
  IN [x EXCEPT !.map = map, !.propvals = [k \in DOMAIN held |-> vals[held[k]]],
               !.allocated = held # <<>>]

(* Mutant: what has been deleted from the old table is not skipped. *)
Transferred_unskipped(x, a, b) ==
  [j \in DOMAIN b |-> IF j \in DOMAIN a /\ (\E i \in DOMAIN a : a[i].str = b[j].str)
                      THEN ValueOf(x, Len(a), j) ELSE CLEAR]

(* The values of x, laid out by table a, in the order of table b.  The loop goes
   through both once: a definition of b is sought in the rest of a. *)
Transferred(x, a, b) ==
  LET rest[j \in 0 .. Len(b)] ==
        IF j = 0 THEN 1
        ELSE LET same == {i \in rest[j - 1] .. Len(a) : a[i].str = b[j].str}
             IN IF same = {} THEN rest[j - 1] ELSE Min(same) + 1
  IN [j \in DOMAIN b |-> IF rest[j] = rest[j - 1] THEN CLEAR ELSE ValueOf(x, Len(a), rest[j] - 1)]

(* The table of x is not that of its class, which has one in d. *)
Remapped(d, w) ==
  LET x == d.waifs[w]
      t == d.waif_propdefs[x.class]
      clear == [k \in 1 .. count_waif_propvals(x.map, Len(d.tables[t])) |-> CLEAR]
  IN CASE ~x.allocated ->
            [d EXCEPT !.waifs[w] = [x EXCEPT !.propdefs = t, !.propvals = clear,
                                             !.allocated = clear # <<>>]]
       [] x.allocated /\ x.propdefs = NULL -> [d EXCEPT !.fate = "crash"]
       [] x.allocated /\ x.propdefs # NULL ->
            [d EXCEPT !.waifs[w] =
               [Packed(x, Transferred(x, d.tables[x.propdefs], d.tables[t])) EXCEPT !.propdefs = t]]

(* A waif without table of a class without table looks up to date. *)
update_waif_propdefs(d, w) ==
  LET x == d.waifs[w]
  IN CASE x.class \notin Valid(d) ->
            [d EXCEPT !.waifs[w] = [x EXCEPT !.propdefs = NULL, !.propvals = <<>>, !.allocated = FALSE]]
       [] x.class \in Valid(d) /\ x.propdefs = d.waif_propdefs[x.class] -> d
       [] OTHER -> Remapped(Tabled(d, x.class), w)

-----------------------------------------------------------------------------
(* What programs do with waifs *)

new_waif(d, w, class) ==
  LET e == Tabled(d, class)
      t == e.waif_propdefs[class]
      clear == [k \in 1 .. count_waif_propvals({}, Len(e.tables[t])) |-> CLEAR]
  IN [e EXCEPT !.waifs[w] = [NoWaif EXCEPT !.class = class, !.propdefs = t, !.propvals = clear,
                                           !.allocated = clear # <<>>]]

(* Mutant: the value is put behind the others. *)
Put_last(d, w, i, val) ==
  [d EXCEPT !.waifs[w].map = @ \cup {i}, !.waifs[w].propvals = Append(@, val), !.waifs[w].allocated = TRUE]

(* alloc_propval_offset() when the property has no value yet. *)
Put(d, w, i, val) ==
  LET x == d.waifs[w]
      n == Len(d.tables[x.propdefs])
      map == IF i <= N_MAPPABLE_PROPS THEN x.map \cup {i} ELSE x.map
      held == Held(map, n)
  IN [d EXCEPT !.waifs[w] =
        [x EXCEPT !.map = map, !.allocated = TRUE,
                  !.propvals = [k \in DOMAIN held |->
                                  IF held[k] = i THEN val ELSE ValueOf(x, n, held[k])]]]

(* The part waif_get_prop() and waif_put_prop() share: the waif is brought up to
   date, and the property found in its table and in its class. *)
Found(d, w, name, use(_, _)) ==
  LET x == d.waifs[w]
      at == {i \in DOMAIN d.tables[x.propdefs] : d.tables[x.propdefs][i].name = name}
  IN CASE d.fate # "runs" \/ x.class \notin Valid(d) -> d
       [] d.fate = "runs" /\ x.class \in Valid(d) /\ x.propdefs = NULL -> [d EXCEPT !.fate = "crash"]
       [] OTHER ->
            CASE at = {} -> d
              [] at # {} /\ db_find_property(d, x.class, name) = NotFound -> [d EXCEPT !.fate = "panic"]
              [] OTHER -> use(d, Min(at))

waif_get_prop(d, w, name) ==
  LET same(e, i) == e
  IN Found(update_waif_propdefs(d, w), w, name, same)

(* Not in the code: what is put is marked with the definition it is put for. *)
waif_put_prop(d, w, name) ==
  LET put(e, i) == Put(e, w, i, e.tables[e.waifs[w].propdefs][i].def)
  IN Found(update_waif_propdefs(d, w), w, name, put)

free_waif(d, w) == [d EXCEPT !.waifs[w] = NoWaif]

-----------------------------------------------------------------------------
(* A dump, and the server that is started from it *)

(* write_waif() writes the values there are, with their numbers in the table;
   read_waif() allocates an array even if there are none. *)
Reread(d, w) ==
  LET x == d.waifs[w]
      length == IF x.propdefs = NULL THEN 0 ELSE Len(d.tables[x.propdefs])
      saved == [i \in 1 .. length |-> ValueOf(x, length, i)]
  IN [Packed(x, saved) EXCEPT !.allocated = TRUE, !.propdefs = NULL]

(* The strings of a database that is loaded are shared by name. *)
Interned(d) ==
  LET address == CHOOSE f \in [PropNames -> 1 .. Cardinality(PropNames)] : IsInjective(f)
  IN [o \in Valid(d) |-> [i \in DOMAIN d.propdefs[o] |->
        [d.propdefs[o][i] EXCEPT !.str = address[d.propdefs[o][i].name]]]]

waif_after_loading(d) ==
  FoldSet(LAMBDA w, e : LET c == e.waifs[w].class
                        IN IF c \notin Valid(e) THEN e
                           ELSE LET f == Tabled(e, c) IN [f EXCEPT !.waifs[w].propdefs = f.waif_propdefs[c]],
          d, Live(d))

Reloaded(d) ==
  LET saved == FoldSet(LAMBDA w, e : update_waif_propdefs(e, w), d, Live(d))
      loaded == [saved EXCEPT
                   !.waifs = [w \in Waifs |-> IF w \in Live(d) THEN Reread(saved, w) ELSE NoWaif],
                   !.propdefs = Interned(d),
                   !.waif_propdefs = [o \in Valid(d) |-> NULL], !.tables = <<>>, !.cache = <<>>]
  IN IF saved.fate # "runs" THEN saved ELSE waif_after_loading(loaded)
=============================================================================
