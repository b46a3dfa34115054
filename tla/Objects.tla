------------------------------ MODULE Objects ------------------------------
(***************************************************************************)
(* The object database of db_objects.c and the built-in functions of       *)
(* objects.c and server.c that change its two hierarchies.  The children   *)
(* of an object, and its contents, are linked lists threaded through the   *)
(* objects.  move(), create() and recycle() call MOO verbs on the way      *)
(* (:accept, :exitfunc, :enterfunc, :initialize, :recycle); such a verb    *)
(* may suspend, and runs anything before it returns, this built-in on the  *)
(* same objects included.                                                  *)
(*                                                                         *)
(* Left out: names, owners, verbs, property values and waifs; permissions, *)
(* whose refusal changes nothing, except where move() asks for a wizard    *)
(* after :accept has run.                                                  *)
(***************************************************************************)
EXTENDS Integers, FiniteSets, SequencesExt

CONSTANTS
  MaxObjid,     \* bound: the objects ever numbered are 0 .. MaxObjid
  Props,        \* names of properties
  Slots,        \* bound: the built-ins that may be waiting for a verb at once
  Parents,      \* bound: the parents create() is given
  Users,        \* bound: the numbers set_player_flag() is given
  Builtins,     \* the built-in functions the database calls
  NoSlot

BuiltinNames == {"create", "move", "recycle", "chparent", "renumber",
                 "reset_max_object", "set_player_flag", "add_prop", "delete_prop"}

ASSUME ConstantsAssumption ==
  /\ MaxObjid \in Nat
  /\ Builtins \subseteq BuiltinNames
  /\ NoSlot \notin Slots

NOTHING == -1

Objids == 0 .. MaxObjid

VARIABLES
  objects,       \* the valid objects
  num_objects,   \* one more than the largest number in use
  all_users,     \* those in the list players() returns
  frames,        \* what the built-ins that wait for a verb have kept
  running,       \* recycle() between two turns of its loop, or none
  fate           \* "runs", or how the server ended: "panic", or "hang" in a loop

vars == <<objects, num_objects, all_users, frames, running, fate>>

(* The data of a built-in that waits, and where it resumes: none. *)
NoFrame == [fn |-> "none", what |-> NOTHING, where |-> NOTHING, pc |-> 0]

(* In the midst of recycle()'s loop: whose, and whether its verb was aborted,
   so that the verbs it calls are not run; here in nobody's. *)
Idle == [slot |-> NoSlot, unwinding |-> FALSE]

-----------------------------------------------------------------------------
(* Linked lists.  In each operator s is the table of objects, l the field that
   holds the first of a list and n the one that holds the next. *)

Valid(s, o) == o \in DOMAIN s

(* Where for_all_children() and for_all_contents() are after i steps along the
   list of w. *)
Walk(s, w, l, n) ==
  LET at[i \in Nat] ==
        IF i = 0 THEN s[w][l]
        ELSE LET o == at[i - 1] IN IF o = NOTHING THEN NOTHING ELSE s[o][n]
  IN at

(* The list of w, in order. *)
Listed(s, w, l, n) ==
  LET at  == Walk(s, w, l, n)
      len == Cardinality({i \in 0 .. Cardinality(DOMAIN s) - 1 : at[i] # NOTHING})
  IN [i \in 1 .. len |-> at[i - 1]]

Members(s, w, l, n) == ToSet(Listed(s, w, l, n))

LL_REMOVE(s, w, l, o, n) ==
  LET before == {p \in Members(s, w, l, n) : s[p][n] = o}
  IN CASE s[w][l] = o -> [s EXCEPT ![w][l] = s[o][n], ![o][n] = NOTHING]
       [] s[w][l] # o /\ before # {} ->
            [s EXCEPT ![CHOOSE p \in before : TRUE][n] = s[o][n], ![o][n] = NOTHING]
       [] OTHER -> [s EXCEPT ![o][n] = NOTHING]

(* Mutant: a newcomer goes to the head of the list. *)
LL_APPEND_FIRST(s, w, l, o, n) == [s EXCEPT ![w][l] = o, ![o][n] = s[w][l]]

LL_APPEND(s, w, l, o, n) ==
  LET last == CHOOSE p \in Members(s, w, l, n) : s[p][n] = NOTHING
  IN IF s[w][l] = NOTHING THEN [s EXCEPT ![w][l] = o, ![o][n] = NOTHING]
     ELSE [s EXCEPT ![last][n] = o, ![o][n] = NOTHING]

(* o, and all that is reached from it where x leads to the set step[x]. *)
Reached(step, o) ==
  LET reach[d \in Nat] ==
        IF d = 0 THEN {o}
        ELSE LET r == reach[d - 1] IN r \cup UNION {step[x] : x \in r \cap DOMAIN step}
  IN reach[Cardinality(DOMAIN step)]

(* o, and what is above it by the field f. *)
Ancestors(s, o, f) == Reached([x \in DOMAIN s |-> {s[x][f]}], o) \ {NOTHING}

AtOrBelow(s, o) == Reached([x \in DOMAIN s |-> Members(s, x, "child", "sibling")], o)

DefinedAtOrBelow(s, o) == UNION {s[p].propdefs : p \in AtOrBelow(s, o)}

DefinedAtOrAbove(s, o) == UNION {s[p].propdefs : p \in Ancestors(s, o, "parent")}

(* dbpriv_check_properties_for_chparent() *)
MayBeUnder(s, o, p) == DefinedAtOrAbove(s, p) \cap DefinedAtOrBelow(s, o) = {}

db_change_parent(s, o, p) ==
  LET old == s[o].parent
      s1  == IF old # NOTHING THEN LL_REMOVE(s, old, "child", o, "sibling") ELSE s
      s2  == IF p # NOTHING THEN LL_APPEND(s1, p, "child", o, "sibling") ELSE s1
  IN IF MayBeUnder(s, o, p) THEN [s2 EXCEPT ![o].parent = p] ELSE s

(* Mutant: the list of the new place is extended before o leaves the old. *)
db_change_location_early(s, o, p) ==
  LET old == s[o].location
      s1  == IF Valid(s, p) THEN LL_APPEND(s, p, "contents", o, "next") ELSE s
      s2  == IF Valid(s, old) THEN LL_REMOVE(s1, old, "contents", o, "next") ELSE s1
  IN [s2 EXCEPT ![o].location = p]

db_change_location(s, o, p) ==
  LET old == s[o].location
      s1  == IF Valid(s, old) THEN LL_REMOVE(s, old, "contents", o, "next") ELSE s
      s2  == IF Valid(s, p) THEN LL_APPEND(s1, p, "contents", o, "next") ELSE s1
  IN [s2 EXCEPT ![o].location = p]

NewObject ==
  [parent |-> NOTHING, child |-> NOTHING, sibling |-> NOTHING,
   location |-> NOTHING, contents |-> NOTHING, next |-> NOTHING,
   user |-> FALSE, propdefs |-> {}]

Without(s, o) == [x \in DOMAIN s \ {o} |-> s[x]]

-----------------------------------------------------------------------------
Init ==
  /\ objects = [o \in {0} |-> NewObject]
  /\ num_objects = 1
  /\ all_users = {}
  /\ frames = [k \in Slots |-> NoFrame]
  /\ running = Idle
  /\ fate = "runs"

(* A MOO task may call the built-in bi and keep its data in slot k. *)
Calls(k, bi) ==
  /\ bi \in Builtins
  /\ running = Idle /\ fate = "runs"
  /\ frames[k] = NoFrame

(* What call_verb() may return for a verb on o. *)
call_verb(s, o) ==
  IF Valid(s, o) THEN {"E_NONE", "E_VERBNF", "E_MAXREC"} ELSE {"E_INVIND"}

UnchangedTable == UNCHANGED <<num_objects, all_users, fate>>

-----------------------------------------------------------------------------
(* create() *)

(* Mutant: the first free number is taken, not a new one. *)
Create_reusing(k, parent) ==
  /\ Calls(k, "create")
  /\ Objids \ DOMAIN objects # {}
  /\ LET oid == Min(Objids \ DOMAIN objects)
     IN /\ objects' = db_change_parent(
                        [o \in DOMAIN objects \cup {oid} |->
                           IF o = oid THEN NewObject ELSE objects[o]], oid, parent)
        /\ num_objects' = Max({num_objects, oid + 1})
  /\ UNCHANGED <<all_users, frames, running, fate>>

Create(k, parent) ==
  /\ Calls(k, "create")
  /\ num_objects \in Objids
  /\ LET oid == num_objects
         s   == [o \in DOMAIN objects \cup {oid} |->
                   IF o = oid THEN NewObject ELSE objects[o]]
     IN /\ objects' = db_change_parent(s, oid, parent)
        /\ \E e \in call_verb(s, oid) :
             frames' = [frames EXCEPT ![k] =
                          IF e = "E_NONE"
                          THEN [fn |-> "create", what |-> oid, where |-> NOTHING, pc |-> 2]
                          ELSE NoFrame]
  /\ num_objects' = num_objects + 1
  /\ UNCHANGED <<all_users, running, fate>>

(* :initialize has returned or was aborted. *)
CreateReturns(k) ==
  /\ running = Idle /\ fate = "runs"
  /\ frames[k].fn = "create"
  /\ frames' = [frames EXCEPT ![k] = NoFrame]
  /\ UNCHANGED <<objects, running>> /\ UnchangedTable

-----------------------------------------------------------------------------
(* move(): each part of do_move() is the set of what it may leave, the table
   and the frame that waits for a verb or NoFrame when the call is over. *)

Over(s) == [s |-> s, f |-> NoFrame]

Waits(s, w, h, pc) ==
  [s |-> s, f |-> [fn |-> "move", what |-> w, where |-> h, pc |-> pc]]

(* Mutant: what :exitfunc may have done is not looked at. *)
Enter_unchecked(s, w, h) ==
  {IF e = "E_NONE" THEN Waits(s, w, h, 4) ELSE Over(s) : e \in call_verb(s, h)}

Enter(s, w, h) ==
  IF Valid(s, h) /\ Valid(s, w) /\ s[w].location = h
  THEN {IF e = "E_NONE" THEN Waits(s, w, h, 4) ELSE Over(s) : e \in call_verb(s, h)}
  ELSE {Over(s)}

(* Mutant: the hierarchy is not checked again once :accept has returned. *)
AcceptsDecided_unchecked(s, w, h, accepts, wizard) ==
  LET t == db_change_location(s, w, h)
  IN IF \/ ~wizard /\ ~accepts
        \/ ~Valid(s, w) \/ (h # NOTHING /\ ~Valid(s, h))
        \/ s[w].location = h \/ w = h
     THEN {Over(s)}
     ELSE Enter(t, w, h) \cup {Over(t), Waits(t, w, h, 3)}

(* From accepts_decided on, for a caller who is a wizard or not. *)
AcceptsDecided(s, w, h, accepts, wizard) ==
  LET old == s[w].location
      t   == db_change_location(s, w, h)
  IN IF \/ ~wizard /\ ~accepts
        \/ ~Valid(s, w)
        \/ h # NOTHING /\ ~Valid(s, h)
        \/ old = h
        \/ w \in Ancestors(s, h, "location")
     THEN {Over(s)}
     ELSE UNION {CASE e = "E_NONE"   -> {Waits(t, w, h, 3)}
                   [] e = "E_MAXREC" -> {Over(t)}
                   [] OTHER          -> Enter(t, w, h) : e \in call_verb(s, old)}

Leaves(k, outcome) ==
  /\ objects' = outcome.s
  /\ frames' = [frames EXCEPT ![k] = outcome.f]
  /\ UNCHANGED running /\ UnchangedTable

Move(k, w, h) ==
  /\ Calls(k, "move")
  /\ IF h = NOTHING
     THEN \E o \in AcceptsDecided(objects, w, h, TRUE, FALSE) : Leaves(k, o)
     ELSE \E e \in call_verb(objects, h) :
            CASE e = "E_NONE"   -> Leaves(k, Waits(objects, w, h, 2))
              [] e = "E_VERBNF" ->
                   \E wizard \in BOOLEAN :
                     \E o \in AcceptsDecided(objects, w, h, FALSE, wizard) : Leaves(k, o)
              [] OTHER          -> Leaves(k, Over(objects))

(* A verb move() called returns, or is aborted (unwinding): then the built-in
   sees zero and the verbs it calls are not run. *)
MoveReturns(k, unwinding) ==
  LET f == frames[k]
      outcomes ==
        CASE f.pc = 2 ->
               UNION {AcceptsDecided(objects, f.what, f.where, a, TRUE)
                        \cup AcceptsDecided(objects, f.what, f.where, a, FALSE) :
                          a \in IF unwinding THEN {FALSE} ELSE BOOLEAN}
          [] f.pc = 3 -> Enter(objects, f.what, f.where)
          [] f.pc = 4 -> {Over(objects)}
  IN /\ running = Idle /\ fate = "runs"
     /\ f.fn = "move"
     /\ \E o \in outcomes : Leaves(k, IF unwinding THEN Over(o.s) ELSE o)

-----------------------------------------------------------------------------
(* recycle() *)

(* :recycle is called; when there is none, or no room on the stack for it, the
   loop begins at once. *)
Recycle(k, o) ==
  /\ Calls(k, "recycle")
  /\ frames' = [frames EXCEPT ![k] =
                  [fn |-> "recycle", what |-> o, where |-> NOTHING, pc |-> 2]]
  /\ \E e \in call_verb(objects, o) :
       running' = IF e = "E_NONE" THEN Idle ELSE [slot |-> k, unwinding |-> FALSE]
  /\ UNCHANGED objects /\ UnchangedTable

(* :recycle, or an :exitfunc, returns or is aborted. *)
RecycleReturns(k, unwinding) ==
  /\ running = Idle /\ fate = "runs"
  /\ frames[k].fn = "recycle"
  /\ running' = [slot |-> k, unwinding |-> unwinding]
  /\ UNCHANGED <<objects, frames>> /\ UnchangedTable

RecycleEnds(k) ==
  /\ frames' = [frames EXCEPT ![k] = NoFrame]
  /\ running' = Idle

(* move_to_nothing(): the loop goes on at once unless an :exitfunc runs. *)
move_to_nothing(o) ==
  /\ objects' = db_change_location(objects, o, NOTHING)
  /\ \E e \in call_verb(objects, objects[o].location) :
       running' = IF e = "E_NONE" /\ ~running.unwinding THEN Idle ELSE running
  /\ UNCHANGED frames /\ UnchangedTable

(* The children of o go to its parent, first child first, and then o leaves it. *)
Orphaned(s, o) ==
  LET adopted[i \in Nat] ==
        IF i = 0 THEN s
        ELSE LET t == adopted[i - 1]
             IN IF t[o].child = NOTHING THEN t
                ELSE db_change_parent(t, t[o].child, t[o].parent)
  IN adopted[Cardinality(DOMAIN s)]

(* The end of the loop for an object with no contents and no location.  A child
   that its grandparent cannot take would make the server try for ever. *)
db_destroy_object(k, o) ==
  LET s == Orphaned(objects, o)
      t == db_change_parent(s, o, NOTHING)
      barren == /\ t[o].location = NOTHING /\ t[o].contents = NOTHING
                /\ t[o].parent = NOTHING /\ t[o].child = NOTHING
  IN \/ /\ s[o].child # NOTHING
        /\ fate' = "hang"
        /\ UNCHANGED <<objects, all_users, frames, running>>
     \/ /\ s[o].child = NOTHING /\ ~barren
        /\ fate' = "panic"
        /\ UNCHANGED <<objects, all_users, frames, running>>
     \/ /\ s[o].child = NOTHING /\ barren
        /\ objects' = Without(t, o)
        /\ all_users' = IF t[o].user THEN all_users \ {o} ELSE all_users
        /\ RecycleEnds(k)
        /\ UNCHANGED fate

(* One turn of the loop of bf_recycle(). *)
RecycleTurn ==
  LET k == running.slot
      o == frames[k].what
  IN /\ running # Idle /\ fate = "runs"
     /\ \/ /\ ~Valid(objects, o)
           /\ RecycleEnds(k)
           /\ UNCHANGED objects /\ UnchangedTable
        \/ /\ Valid(objects, o) /\ objects[o].contents # NOTHING
           /\ move_to_nothing(objects[o].contents)
        \/ /\ Valid(objects, o) /\ objects[o].contents = NOTHING
           /\ objects[o].location # NOTHING
           /\ move_to_nothing(o)
        \/ /\ Valid(objects, o) /\ objects[o].contents = NOTHING
           /\ objects[o].location = NOTHING
           /\ db_destroy_object(k, o)
           /\ UNCHANGED num_objects

(* A suspended task is killed: what its built-ins had begun is left so. *)
Kill(k) ==
  /\ running = Idle /\ fate = "runs"
  /\ frames[k] # NoFrame
  /\ frames' = [frames EXCEPT ![k] = NoFrame]
  /\ UNCHANGED <<objects, running>> /\ UnchangedTable

-----------------------------------------------------------------------------
(* The built-ins that call no verbs. *)

AtOnce(bi) ==
  /\ bi \in Builtins
  /\ running = Idle /\ fate = "runs"
  /\ UNCHANGED <<frames, running>>

Chparent(o, p) ==
  /\ AtOnce("chparent")
  /\ o \notin Ancestors(objects, p, "parent")
  /\ objects' = db_change_parent(objects, o, p)
  /\ UnchangedTable

(* One of the two hierarchies after old, whose table was s, has become newbie. *)
Relinked(s, t, old, newbie, up, l, n) ==
  LET p == s[old][up]
      siblings == IF p = NOTHING THEN {} ELSE Members(s, p, l, n)
      new(x) == IF x = old THEN newbie ELSE x
  IN [x \in DOMAIN t |->
        [t[x] EXCEPT ![l] = IF x = p THEN new(@) ELSE @,
                     ![n] = IF x \in siblings THEN new(@) ELSE @,
                     ![up] = IF x \in Members(s, old, l, n) THEN newbie ELSE @]]

(* Is old in the list it should be in? *)
Found(s, old, up, l, n) ==
  s[old][up] = NOTHING \/ old \in Members(s, s[old][up], l, n)

RenumberedUsers(old, newbie) == {IF o = old THEN newbie ELSE o : o \in all_users}

db_renumber_object(old) ==
  LET free == {o \in 0 .. old - 1 : ~Valid(objects, o)}
      newbie == Min(free)
      s  == [x \in (DOMAIN objects \ {old}) \cup {newbie} |->
               IF x = newbie THEN objects[old] ELSE objects[x]]
      s1 == Relinked(objects, s, old, newbie, "parent", "child", "sibling")
      s2 == Relinked(objects, s1, old, newbie, "location", "contents", "next")
  IN /\ free # {}
     /\ IF /\ Found(objects, old, "parent", "child", "sibling")
           /\ Found(objects, old, "location", "contents", "next")
        THEN /\ objects' = s2
             /\ all_users' = IF s2[newbie].user THEN RenumberedUsers(old, newbie) ELSE all_users
             /\ UNCHANGED <<num_objects, fate>>
        ELSE /\ fate' = "panic"
             /\ UNCHANGED <<objects, num_objects, all_users>>

Renumber(o) == AtOnce("renumber") /\ db_renumber_object(o)

(* With no object left the loop in db_reset_last_used_objid() would run off the
   table. *)
ResetMaxObject ==
  /\ AtOnce("reset_max_object")
  /\ DOMAIN objects # {}
  /\ num_objects' = Max(DOMAIN objects) + 1
  /\ UNCHANGED <<objects, all_users, fate>>

SetPlayerFlag(o, flag) ==
  /\ AtOnce("set_player_flag")
  /\ objects' = [objects EXCEPT ![o].user = flag]
  /\ all_users' = IF flag THEN all_users \cup {o} ELSE all_users \ {o}
  /\ UNCHANGED <<num_objects, fate>>

(* Mutant: the descendants are not asked. *)
AddProp_above(o, name) ==
  /\ AtOnce("add_prop")
  /\ name \notin DefinedAtOrAbove(objects, o)
  /\ objects' = [objects EXCEPT ![o].propdefs = @ \cup {name}]
  /\ UnchangedTable

AddProp(o, name) ==
  /\ AtOnce("add_prop")
  /\ name \notin DefinedAtOrAbove(objects, o) \cup DefinedAtOrBelow(objects, o)
  /\ objects' = [objects EXCEPT ![o].propdefs = @ \cup {name}]
  /\ UnchangedTable

DeleteProp(o, name) ==
  /\ AtOnce("delete_prop")
  /\ name \in objects[o].propdefs
  /\ objects' = [objects EXCEPT ![o].propdefs = @ \ {name}]
  /\ UnchangedTable

-----------------------------------------------------------------------------
Next ==
  LET Places == DOMAIN objects \cup {NOTHING}
  IN \/ \E k \in Slots, p \in Places \cap Parents : Create(k, p)
     \/ \E k \in Slots, o \in DOMAIN objects, p \in Places : Move(k, o, p)
     \/ \E k \in Slots, o \in DOMAIN objects : Recycle(k, o)
     \/ \E k \in Slots : CreateReturns(k) \/ Kill(k)
     \/ \E k \in Slots, unwinding \in BOOLEAN :
          MoveReturns(k, unwinding) \/ RecycleReturns(k, unwinding)
     \/ RecycleTurn
     \/ \E o \in DOMAIN objects, p \in Places : Chparent(o, p)
     \/ \E o \in DOMAIN objects : Renumber(o)
     \/ ResetMaxObject
     \/ \E o \in DOMAIN objects \cap Users, flag \in BOOLEAN : SetPlayerFlag(o, flag)
     \/ \E o \in DOMAIN objects, name \in Props : AddProp(o, name) \/ DeleteProp(o, name)

Spec == Init /\ [][Next]_vars

-----------------------------------------------------------------------------
(* Properties *)

(* Every link leads to a valid object; the list of each object holds exactly
   the objects that say they are there, each once; the links of an object that
   is nowhere are cut. *)
ListsAgree(up, l, n) ==
  /\ \A o \in DOMAIN objects : \A f \in {up, l, n} :
       objects[o][f] \in DOMAIN objects \cup {NOTHING}
  /\ \A w \in DOMAIN objects :
       LET list == Listed(objects, w, l, n)
       IN /\ IsInjective(list)
          /\ ToSet(list) = {o \in DOMAIN objects : objects[o][up] = w}
  /\ \A o \in DOMAIN objects : objects[o][up] = NOTHING => objects[o][n] = NOTHING

(* Whatever the verbs do while move() and recycle() wait for them, the two
   hierarchies stay sound: lists and back pointers agree; and players() lists the
   objects with the player flag. *)
LinksAgree ==
  /\ ListsAgree("parent", "child", "sibling")
  /\ ListsAgree("location", "contents", "next")
  /\ all_users = {o \in DOMAIN objects : objects[o].user}

(* Nothing is, however far up, inside or below itself: move() looks for that
   only after :accept has returned. *)
NoCycles ==
  \A o \in DOMAIN objects : \A up \in {"parent", "location"} :
    objects[o][up] # NOTHING => o \notin Ancestors(objects, objects[o][up], up)

(* The server neither panics ("Not a barren orphan!", "Object not in parent's
   children list") nor tries for ever to give away a child in recycle(). *)
KeepsRunning == fate = "runs"

(* An object a waiting built-in is to recycle, move or return stays gone once
   it is gone: no other object takes its number, so that recycle() and move()
   never work on the wrong object. *)
StaysGone ==
  \A k \in Slots : frames[k] # NoFrame /\ frames[k] = frames'[k] =>
    (Valid(objects', frames[k].what) => Valid(objects, frames[k].what))

(* :enterfunc is called for a valid object only, and where it then is. *)
EntersWhereItIs ==
  [][\A k \in Slots : frames'[k] # frames[k] /\ frames'[k].pc = 4 =>
       /\ Valid(objects', frames'[k].what) /\ Valid(objects', frames'[k].where)
       /\ objects'[frames'[k].what].location = frames'[k].where]_vars

(* The linked lists of db_objects.c, read in order, as the forests of Forests. *)
Forest == INSTANCE Forests WITH
  kids   <- [o \in DOMAIN objects |-> Listed(objects, o, "child", "sibling")],
  inside <- [o \in DOMAIN objects |-> Listed(objects, o, "contents", "next")]

(* Whatever links LL_REMOVE, LL_APPEND and the loops of recycle() and renumber()
   cut and tie, what changes the table of objects is an operation of the forests
   or does not show there. *)
ImplementsForests ==
  Forest!Init /\ [][objects' # objects => [Forest!Next]_(Forest!vars)]_vars
=============================================================================
