---------------------------- MODULE Inheritance ----------------------------
(***************************************************************************)
(* What the object database promises of properties, without the arrays     *)
(* that hold them.  An object has each property that it or an ancestor     *)
(* defines, with flags of its own and a value that may be clear.  Whatever *)
(* becomes of the ancestors and of the other definitions, an object keeps  *)
(* what it has of a property for as long as it has the property; what it   *)
(* newly inherits is clear, with the flags its parent has.                 *)
(***************************************************************************)
EXTENDS Naturals, FiniteSets

CONSTANTS
  Objids,       \* the object numbers there are
  NOTHING,      \* no object: #-1
  CLEAR         \* the value of a property that is inherited

VARIABLES
  parent,       \* for each valid object, its parent or NOTHING
  defines,      \* the names of the properties it defines
  settings      \* what each object has of each property it defines or inherits

vars == <<parent, defines, settings>>

Alive == DOMAIN parent

(* What obj has of the property name that definer defines. *)
Setting(obj, definer, name, var, perms) ==
  [obj |-> obj, definer |-> definer, name |-> name, var |-> var, perms |-> perms]

Which(s) == <<s.obj, s.definer, s.name>>

(* The objects from o up, when the parents are up. *)
Ancestry(up, o) ==
  LET above[x \in DOMAIN up \cup {NOTHING}] ==
        IF x = NOTHING THEN {} ELSE {x} \cup above[up[x]]
  IN above[o]

Below(o) == {x \in Alive : o \in Ancestry(parent, x)}

NamesBelow(o) == UNION {defines[x] : x \in Below(o)}

NamesAbove(o) == UNION {defines[x] : x \in Ancestry(parent, o)}

(* All that the objects have once the parents are up and the definitions defs: for
   what an object has had it has the same setting, others are made by new(w). *)
Kept(up, defs, new(_)) ==
  LET has == UNION {UNION {{<<o, x, name>> : name \in defs[x]} : x \in Ancestry(up, o)} : o \in DOMAIN up}
      had == {s \in settings : Which(s) \in has}
  IN had \cup {new(w) : w \in has \ {Which(s) : s \in had}}

(* A clear setting for w, with the flags of p. *)
Inherited(w, p) ==
  Setting(w[1], w[2], w[3], CLEAR, (CHOOSE s \in settings : Which(s) = <<p, w[2], w[3]>>).perms)

None(w) == Setting(w[1], w[2], w[3], CLEAR, {})

-----------------------------------------------------------------------------
Init ==
  /\ \E o \in Objids : parent = [x \in {o} |-> NOTHING]
  /\ defines = [o \in Alive |-> {}]
  /\ settings = {}

Create(o, p) ==
  /\ o \notin Alive
  /\ parent' = [x \in Alive \cup {o} |-> IF x = o THEN p ELSE parent[x]]
  /\ defines' = [x \in Alive \cup {o} |-> IF x = o THEN {} ELSE defines[x]]
  /\ settings' = Kept(parent', defines', LAMBDA w : Inherited(w, p))

(* Refused when a property would be defined twice for an object. *)
PutUnder(o, p) ==
  /\ parent' = [parent EXCEPT ![o] = p]
  /\ UNCHANGED defines
  /\ p \notin Below(o)
  /\ p # NOTHING => NamesAbove(p) \cap NamesBelow(o) = {}
  /\ settings' = Kept(parent', defines, LAMBDA w : Inherited(w, p))

(* The definer has a value; whatever inherits the property has its flags. *)
Define(o, name) ==
  /\ UNCHANGED parent
  /\ defines' = [defines EXCEPT ![o] = @ \cup {name}]
  /\ name \notin NamesAbove(o) \cup NamesBelow(o)
  /\ \E new \in settings' \ settings :
       /\ Which(new) = <<o, o, name>> /\ new.var # CLEAR
       /\ settings' = Kept(parent, defines', LAMBDA w :
            IF w[1] = o THEN new ELSE Setting(w[1], o, name, CLEAR, new.perms))

Undefine(o, name) ==
  /\ UNCHANGED parent
  /\ defines' = [defines EXCEPT ![o] = @ \ {name}]
  /\ settings' = Kept(parent, defines', None)

(* Everything below o keeps what it has under another name; o may get flags. *)
Rename(o, old, name) ==
  /\ UNCHANGED parent
  /\ defines' = [defines EXCEPT ![o] = (@ \ {old}) \cup {name}]
  /\ name \notin NamesAbove(o) \cup NamesBelow(o)
  /\ \E own \in settings' :
       /\ Which(own) = <<o, o, name>>
       /\ settings' = {IF Which(s) = <<o, o, old>> THEN [s EXCEPT !.name = name, !.perms = own.perms]
                       ELSE IF s.definer = o /\ s.name = old THEN [s EXCEPT !.name = name]
                       ELSE s : s \in settings}

(* A value or flags; only what is inherited can be clear. *)
Set ==
  /\ UNCHANGED <<parent, defines>>
  /\ Cardinality(settings \ settings') = 1
  /\ {Which(s) : s \in settings \ settings'} = {Which(t) : t \in settings' \ settings}
  /\ \A t \in settings' \ settings : t.obj = t.definer => t.var # CLEAR

(* The children of o go to its parent; nobody has the properties of o. *)
Recycle(o) ==
  /\ parent' = [x \in Alive \ {o} |-> IF parent[x] = o THEN parent[o] ELSE parent[x]]
  /\ defines' = [x \in Alive \ {o} |-> defines[x]]
  /\ settings' = Kept(parent', defines', None)

Renumber(o, n) ==
  LET new(x) == IF x = o THEN n ELSE x
      old(x) == IF x = n THEN o ELSE x
  IN /\ n \notin Alive
     /\ parent' = [x \in {new(y) : y \in Alive} |-> new(parent[old(x)])]
     /\ defines' = [x \in {new(y) : y \in Alive} |-> defines[old(x)]]
     /\ settings' = {[s EXCEPT !.obj = new(@), !.definer = new(@)] : s \in settings}

(* The objects that a step neither makes nor removes. *)
Lasting == Alive \cap DOMAIN defines'

Next ==
  \/ Set
  \/ \E o \in Objids, p \in Alive \cup {NOTHING} : Create(o, p)
  \/ \E o \in Alive, p \in Alive \cup {NOTHING} : PutUnder(o, p)
  \/ \E o \in Lasting : \E name \in defines'[o] \ defines[o] : Define(o, name)
  \/ \E o \in Lasting : \E name \in defines[o] \ defines'[o] : Undefine(o, name)
  \/ \E o \in Lasting : \E old \in defines[o] \ defines'[o], name \in defines'[o] \ defines[o] :
       Rename(o, old, name)
  \/ \E o \in Alive : Recycle(o)
  \/ \E o \in Alive, n \in Objids : Renumber(o, n)

Spec == Init /\ [][Next]_vars
=============================================================================
