----------------------------- MODULE VerbCache -----------------------------
(***************************************************************************)
(* Verbs and the cache of db_verbs.c.  db_find_callable_verb() seeks the   *)
(* verb that o:name() runs: the first with that name and the x flag, on    *)
(* the nearest ancestor that has one.  What it finds, or that it found     *)
(* nothing, it keeps under the name and the first ancestor with any verbs. *)
(* Entries hold pointers to verb definitions; they are only ever dropped   *)
(* all at once, by calls in every operation that may make one untrue.      *)
(*                                                                         *)
(* Left out: programs, owners and argument specifiers, which do not matter *)
(* to the search, and the search for commands, which has no cache.         *)
(***************************************************************************)
EXTENDS Properties

CONSTANTS
  VerbNames,    \* what verbs are called by
  Verbdefs      \* bound: addresses of verb definitions

(* A verb goes by several names. *)
Verbdef(names, executable) == [names |-> names, x |-> executable]

(* A verb that is found: where it is defined, and its definition. *)
Handle(definer, v) == [definer |-> definer, verbdef |-> v]

NoVerb == [definer |-> NOTHING, verbdef |-> NULL]

Allocated(d) == UNION {ToSet(d.verbdefs[o]) : o \in Valid(d)}

db_priv_affected_callable_verb_lookup(d) == [d EXCEPT !.cache = <<>>]

(* The first verb of o with that name that may be called. *)
find_verbdef_by_name(d, o, name) ==
  LET callable(v) == name \in d.verbs[v].names /\ d.verbs[v].x
  IN SelectSeq(d.verbdefs[o], callable)

(* The search without a cache. *)
Search(d, o, name) ==
  LET with == SelectSeq(Line(d, o), LAMBDA p : find_verbdef_by_name(d, p, name) # <<>>)
  IN IF with = <<>> THEN NoVerb
     ELSE Handle(Head(with), Head(find_verbdef_by_name(d, Head(with), name)))

first_parent_with_verbs(d, o) ==
  LET with == SelectSeq(Line(d, o), LAMBDA p : d.verbdefs[p] # <<>>)
  IN IF with = <<>> THEN NOTHING ELSE Head(with)

Key(d, o, name) == <<first_parent_with_verbs(d, o), name>>

(* A miss is kept, too: what the search finds, or that it finds nothing. *)
db_find_callable_verb(d, o, name) ==
  IF Key(d, o, name) \in DOMAIN d.cache THEN d
  ELSE [d EXCEPT !.cache = (Key(d, o, name) :> Search(d, o, name)) @@ @]

db_add_verb(d, o, v, def) ==
  [db_priv_affected_callable_verb_lookup(d) EXCEPT
     !.verbdefs[o] = Append(@, v), !.verbs = (v :> def) @@ @]

db_delete_verb(d, o, i) ==
  LET v == d.verbdefs[o][i]
  IN [db_priv_affected_callable_verb_lookup(d) EXCEPT
        !.verbdefs[o] = RemoveAt(@, i), !.verbs = [x \in DOMAIN @ \ {v} |-> @[x]]]

(* db_set_verb_flags() and db_set_verb_names() *)
bf_set_verb_info(d, v, def) ==
  [db_priv_affected_callable_verb_lookup(d) EXCEPT !.verbs[v] = def]

(* Mutant: the children are not looked at. *)
FlushedForParent_childless(d, o) ==
  IF d.verbdefs[o] = <<>> THEN d ELSE db_priv_affected_callable_verb_lookup(d)

(* db_change_parent() keeps the cache when o has no children and no verbs. *)
FlushedForParent(d, o) ==
  IF Children(d, o) = {} /\ d.verbdefs[o] = <<>> THEN d
  ELSE db_priv_affected_callable_verb_lookup(d)
=============================================================================
