------------------------------ MODULE Forests ------------------------------
(***************************************************************************)
(* What the object database promises of its two hierarchies, without the   *)
(* linked lists that hold them: the valid objects form one forest by       *)
(* inheritance and another by location; what hangs below an object is in   *)
(* order of arrival; only recycling removes an object, and it leaves the   *)
(* children to the grandparent; renumbering changes a name and nothing     *)
(* else.                                                                   *)
(***************************************************************************)
EXTENDS Naturals, FiniteSets, SequencesExt

CONSTANTS
  Objids,    \* the object numbers there are
  NOTHING    \* no object: #-1

VARIABLES
  kids,      \* for each valid object, its children in order of arrival
  inside     \* for each valid object, its contents in order of arrival

vars == <<kids, inside>>

Alive == DOMAIN kids

Below(h, o) == ToSet(h[o])

(* Everything at or below o in the hierarchy h: what is in each set that has o
   and whatever is below one of its members. *)
Subtree(h, o) ==
  {x \in DOMAIN h :
     \A S \in SUBSET DOMAIN h : o \in S /\ (\A y \in S : Below(h, y) \subseteq S) => x \in S}

(* o is taken from the list it is in. *)
Detached(h, o) ==
  [x \in DOMAIN h |->
     IF o \in Below(h, x)
     THEN RemoveAt(h[x], CHOOSE i \in DOMAIN h[x] : h[x][i] = o) ELSE h[x]]

(* o becomes the last below p; below nothing when p is NOTHING. *)
Moved(h, o, p) ==
  LET d == Detached(h, o)
  IN [x \in DOMAIN h |-> IF x = p THEN Append(d[x], o) ELSE d[x]]

Renamed(h, o, n) ==
  LET new(x) == IF x = o THEN n ELSE x
      old(x) == IF x = n THEN o ELSE x
  IN [x \in {new(y) : y \in DOMAIN h} |->
        LET below == h[old(x)] IN [i \in DOMAIN below |-> new(below[i])]]

Init ==
  /\ \E o \in Objids : kids = [x \in {o} |-> <<>>]
  /\ inside = kids

Create(o, p) ==
  /\ o \notin Alive
  /\ kids' = Moved([x \in Alive \cup {o} |-> IF x = o THEN <<>> ELSE kids[x]], o, p)
  /\ inside' = [x \in Alive \cup {o} |-> IF x = o THEN <<>> ELSE inside[x]]

(* One object comes last below another, which is not below it, or below nothing. *)
Rehung(h, new) ==
  \/ \E p \in DOMAIN h : \E o \in DOMAIN h \cap Below(new, p) :
        p \notin Subtree(h, o) /\ new = Moved(h, o, p)
  \/ \E o \in DOMAIN h : new = Moved(h, o, NOTHING)

PutUnder == UNCHANGED inside /\ Rehung(kids, kids')

Put == UNCHANGED kids /\ Rehung(inside, inside')

(* Only an object with nothing in it and nowhere goes away; its children
   join those of its parent, in their order. *)
Recycle(o) ==
  /\ inside[o] = <<>>
  /\ \A x \in Alive : o \notin Below(inside, x)
  /\ LET k == kids
         d == Detached(k, o)
     IN kids' = [x \in Alive \ {o} |->
                   d[x] \o (IF o \in Below(k, x) THEN k[o] ELSE <<>>)]
  /\ inside' = [x \in Alive \ {o} |-> inside[x]]

Renumber(o, n) ==
  /\ n \notin Alive
  /\ kids' = Renamed(kids, o, n)
  /\ inside' = Renamed(inside, o, n)

Next ==
  \/ \E o \in Objids, p \in Alive \cup {NOTHING} : Create(o, p)
  \/ PutUnder
  \/ Put
  \/ \E o \in Alive : Recycle(o)
  \/ \E o \in Alive, n \in Objids : Renumber(o, n)

Spec == Init /\ [][Next]_vars
=============================================================================
