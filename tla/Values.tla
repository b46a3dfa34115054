------------------------------- MODULE Values -------------------------------
(***************************************************************************)
(* The values of the MOO language and what the operators and the list      *)
(* functions of the server make of them: list.c, numbers.c and utils.c.    *)
(* A value is a pair of its type and its contents.  An operator returns a  *)
(* value, or Raise(e) for the error the interpreter then raises.           *)
(*                                                                         *)
(* Left out: floating-point numbers, waifs (see Waifs), characters of more *)
(* than one byte, and the reference counts, so that every list function    *)
(* returns a new list here, where the code may reuse one nobody else has.  *)
(***************************************************************************)
EXTENDS Integers, SequencesExt

CONSTANTS
  MAXINT,    \* bound: the largest number of the language, 2^63 - 1 in the server
  INT_MAX    \* bound: the largest int of C, 2^31 - 1 where the server runs

ASSUME IntegersAssumption ==
  /\ MAXINT \in Nat \ {0} /\ INT_MAX \in Nat \ {0}
  /\ INT_MAX <= MAXINT

MININT == -MAXINT - 1

Num(n)  == <<"int", n>>
Obj(o)  == <<"obj", o>>
Err(e)  == <<"err", e>>
Str(s)  == <<"str", s>>      \* s is a sequence of characters
List(s) == <<"list", s>>
None    == <<"none", 0>>     \* what a variable holds before its first assignment

Raise(e) == <<"raise", e>>
Raises(v) == v[1] = "raise"

Truth(b) == Num(IF b THEN 1 ELSE 0)

(* Case does not count in comparisons of strings. *)
Folded(c) == CASE c = "A" -> "a" [] c = "B" -> "b" [] OTHER -> c

FoldedString(s) == [i \in DOMAIN s |-> Folded(s[i])]

is_true(v) ==
  \/ v[1] = "int" /\ v[2] # 0
  \/ v[1] \in {"str", "list"} /\ v[2] # <<>>

RECURSIVE equality(_, _, _)
equality(l, r, case_matters) ==
  /\ l[1] = r[1]
  /\ CASE l[1] = "str"  -> IF case_matters THEN l[2] = r[2]
                           ELSE FoldedString(l[2]) = FoldedString(r[2])
       [] l[1] = "list" -> /\ Len(l[2]) = Len(r[2])
                           /\ \A i \in DOMAIN l[2] : equality(l[2][i], r[2][i], case_matters)
       [] OTHER         -> l[2] = r[2]

-----------------------------------------------------------------------------
(* Numbers *)

(* Two's complement. *)
Wrap(n) == ((n - MININT) % (2 * (MAXINT + 1))) + MININT

(* The conversion to the int that the list functions take their places as. *)
AsInt(n) == ((n + INT_MAX + 1) % (2 * (INT_MAX + 1))) - INT_MAX - 1

Abs(n) == IF n < 0 THEN -n ELSE n

(* Division rounds towards zero; the remainder has the sign of the dividend. *)
Quotient(a, b) ==
  IF (a < 0) = (b < 0) THEN Abs(a) \div Abs(b) ELSE -(Abs(a) \div Abs(b))

Remainder(a, b) == IF a < 0 THEN -(Abs(a) % Abs(b)) ELSE Abs(a) % Abs(b)

(* The loop of do_power() on integers: r * a^b with a and b as they are left. *)
RECURSIVE Powered(_, _, _)
Powered(r, a, b) ==
  IF b = 0 THEN r
  ELSE Powered(IF b % 2 = 1 THEN Wrap(r * a) ELSE r, Wrap(a * a), b \div 2)

do_power(a, b) ==
  CASE b >= 0            -> Num(Powered(1, a, b))
    [] b < 0 /\ a = -1   -> Num(IF b % 2 = 1 THEN 1 ELSE -1)
    [] b < 0 /\ a = 0    -> Raise("E_DIV")
    [] b < 0 /\ a = 1    -> Num(1)
    [] OTHER             -> Num(0)

(* MININT / -1 is not representable: the processor traps (see Traps). *)
Arithmetic(op, l, r) ==
  LET a == l[2]
      b == r[2]
  IN CASE op = "ADD" /\ l[1] = "str" /\ r[1] = "str" -> Str(a \o b)
       [] l[1] # "int" \/ r[1] # "int"               -> Raise("E_TYPE")
       [] op \in {"DIV", "MOD"} /\ b = 0             -> Raise("E_DIV")
       [] op = "ADD"   -> Num(Wrap(a + b))
       [] op = "MINUS" -> Num(Wrap(a - b))
       [] op = "MULT"  -> Num(Wrap(a * b))
       [] op = "DIV"   -> Num(Quotient(a, b))
       [] op = "MOD"   -> Num(Remainder(a, b))
       [] op = "EXP"   -> do_power(a, b)

Traps(op, l, r) == op \in {"DIV", "MOD"} /\ l = Num(MININT) /\ r = Num(-1)

Negated(v) == IF v[1] = "int" THEN Num(Wrap(-v[2])) ELSE Raise("E_TYPE")

(* How two strings compare: by their first different characters. *)
StringOrder(s, t) ==
  LET rank(c) == CASE c = "a" -> 1 [] c = "b" -> 2
      differ == {i \in DOMAIN s \cap DOMAIN t : Folded(s[i]) # Folded(t[i])}
  IN IF differ = {} THEN Len(s) - Len(t)
     ELSE LET i == Min(differ) IN rank(Folded(s[i])) - rank(Folded(t[i]))

ErrorNumber(e) ==
  CHOOSE i \in 0 .. 15 :
    e = <<"E_NONE", "E_TYPE", "E_DIV", "E_PERM", "E_PROPNF", "E_VERBNF", "E_VARNF",
          "E_INVIND", "E_RECMOVE", "E_MAXREC", "E_RANGE", "E_ARGS", "E_NACC",
          "E_INVARG", "E_QUOTA", "E_FLOAT">>[i + 1]

(* LT, LE, GT and GE: lists have no order. *)
Comparison(op, l, r) ==
  IF l[1] # r[1] \/ l[1] = "list" THEN Raise("E_TYPE")
  ELSE LET c == CASE l[1] \in {"int", "obj"} -> l[2] - r[2]
                  [] l[1] = "err" -> ErrorNumber(l[2]) - ErrorNumber(r[2])
                  [] l[1] = "str" -> StringOrder(l[2], r[2])
       IN Truth(CASE op = "LT" -> c < 0  [] op = "LE" -> c <= 0
                  [] op = "GT" -> c > 0  [] op = "GE" -> c >= 0)

-----------------------------------------------------------------------------
(* Lists and strings *)

ismember(v, s, case_matters) ==
  LET at == {i \in DOMAIN s : equality(v, s[i], case_matters)}
  IN IF at = {} THEN 0 ELSE Min(at)

(* strindex(): where what first is in source. *)
strindex(source, what) ==
  LET at == {i \in 1 .. Len(source) - Len(what) + 1 :
               FoldedString(SubSeq(source, i, i + Len(what) - 1)) = FoldedString(what)}
  IN IF at = {} THEN 0 ELSE Min(at)

In(l, r) ==
  CASE r[1] = "list"                    -> Num(ismember(l, r[2], FALSE))
    [] r[1] = "str" /\ l[1] = "str"     -> Num(strindex(r[2], l[2]))
    [] OTHER                            -> Raise("E_TYPE")

(* The numbers at which a list or string has something. *)
Indexed(base, index, types, result) ==
  IF index[1] # "int" \/ base[1] \notin types THEN Raise("E_TYPE")
  ELSE IF index[2] \notin DOMAIN base[2] THEN Raise("E_RANGE")
  ELSE result

(* base[index] *)
Ref(base, index) ==
  Indexed(base, index, {"list", "str"},
          IF base[1] = "list" THEN base[2][index[2]] ELSE Str(<<base[2][index[2]]>>))

(* base[index] on the way to an indexed assignment. *)
PushRef(base, index) == Indexed(base, index, {"list"}, base[2][index[2]])

(* None stands for what lies in memory beyond the list. *)
sublist(s, lower, upper) ==
  [i \in 1 .. IF lower > upper THEN 0 ELSE upper - lower + 1 |->
     IF lower + i - 1 \in DOMAIN s THEN s[lower + i - 1] ELSE None]

(* base[from..to]: an empty range may lie anywhere. *)
RangeRef(base, from, to) ==
  LET len == Len(base[2])
  IN IF base[1] \notin {"list", "str"} \/ from[1] # "int" \/ to[1] # "int"
     THEN Raise("E_TYPE")
     ELSE IF from[2] <= to[2] /\ ~({from[2], to[2]} \subseteq 1 .. len)
     THEN Raise("E_RANGE")
     ELSE <<base[1], sublist(base[2], AsInt(from[2]), AsInt(to[2]))>>

(* What base is after base[index] = value. *)
IndexSet(base, index, value) ==
  IF \/ base[1] \notin {"list", "str"} \/ index[1] # "int"
     \/ base[1] = "str" /\ value[1] # "str"
  THEN Raise("E_TYPE")
  ELSE IF index[2] \notin DOMAIN base[2] THEN Raise("E_RANGE")
  ELSE IF base[1] = "str" /\ Len(value[2]) # 1 THEN Raise("E_INVARG")
  ELSE <<base[1], [base[2] EXCEPT ![index[2]] =
                     IF base[1] = "str" THEN value[2][1] ELSE value]>>

rangeset_check(end, from, to) == from > end + 1 \/ to < 0

(* listrangeset() and strrangeset() *)
listrangeset(s, from, to, value) ==
  SubSeq(s, 1, IF from > 1 THEN from - 1 ELSE 0) \o value
    \o (IF Len(s) > to THEN SubSeq(s, to + 1, Len(s)) ELSE <<>>)

(* What base is after base[from..to] = value. *)
RangeSet(base, from, to, value) ==
  IF \/ from[1] # "int" \/ to[1] # "int"
     \/ base[1] \notin {"list", "str"} \/ value[1] # base[1]
  THEN Raise("E_TYPE")
  ELSE IF rangeset_check(Len(base[2]), AsInt(from[2]), AsInt(to[2])) THEN Raise("E_RANGE")
  ELSE <<base[1], listrangeset(base[2], AsInt(from[2]), AsInt(to[2]), value[2])>>

doinsert(s, v, pos) ==
  [i \in 1 .. Len(s) + 1 |-> IF i < pos THEN s[i] ELSE IF i = pos THEN v ELSE s[i - 1]]

listinsert(s, v, pos) ==
  doinsert(s, v, IF pos <= 0 THEN 1 ELSE IF pos > Len(s) THEN Len(s) + 1 ELSE pos)

listappend(s, v) == doinsert(s, v, Len(s) + 1)

listdelete(s, pos) == [i \in 1 .. Len(s) - 1 |-> IF i < pos THEN s[i] ELSE s[i + 1]]

setadd(s, v) == IF ismember(v, s, FALSE) # 0 THEN s ELSE listappend(s, v)

setremove(s, v) ==
  LET i == ismember(v, s, FALSE) IN IF i # 0 THEN listdelete(s, i) ELSE s

(* list_iassoc(): the first list in s whose element at index is target. *)
iassoc(target, s, index) ==
  LET at == {i \in DOMAIN s : /\ s[i][1] = "list" /\ Len(s[i][2]) >= index
                              /\ equality(s[i][2][index], target, FALSE)}
  IN IF index < 1 THEN Raise("E_RANGE") ELSE Num(IF at = {} THEN 0 ELSE Min(at))

(* assoc(): that list itself, or an empty one. *)
assoc(target, s, index) ==
  LET i == iassoc(target, s, index)
  IN IF Raises(i) THEN i ELSE IF i = Num(0) THEN List(<<>>) ELSE s[i[2]]

(* remove_duplicates(): each element where it first occurs. *)
remove_duplicates(s) == FoldLeft(setadd, <<>>, s)

(* The list functions as a program calls them. *)
ListFunction(f, args) ==
  LET s == args[1][2]
      at(i) == IF Len(args) >= i THEN args[i][2] ELSE 1
  IN CASE f = "listinsert" -> List(listinsert(s, args[2], AsInt(at(3))))
       [] f = "listappend" -> List(IF Len(args) = 2 THEN listappend(s, args[2])
                                   ELSE listinsert(s, args[2], AsInt(at(3) + 1)))
       [] f = "listdelete" -> IF at(2) \in DOMAIN s THEN List(listdelete(s, at(2)))
                              ELSE Raise("E_RANGE")
       [] f = "listset"    -> IF at(3) \in DOMAIN s
                              THEN List([s EXCEPT ![at(3)] = args[2]])
                              ELSE Raise("E_RANGE")
       [] f = "setadd"     -> List(setadd(s, args[2]))
       [] f = "setremove"  -> List(setremove(s, args[2]))
       [] f = "iassoc"     -> iassoc(args[1], args[2][2], AsInt(at(3)))
       [] f = "assoc"      -> assoc(args[1], args[2][2], AsInt(at(3)))
       [] f = "equal"      -> Truth(equality(args[1], args[2], TRUE))
       [] f = "is_member"  -> Num(ismember(args[1], args[2][2], TRUE))
       [] f = "length"     -> IF args[1][1] \in {"list", "str"} THEN Num(Len(s))
                              ELSE Raise("E_TYPE")
       [] f = "remove_duplicates" -> List(remove_duplicates(s))
       [] f = "enlist"     -> IF args[1][1] = "list" THEN args[1] ELSE List(args)
=============================================================================
