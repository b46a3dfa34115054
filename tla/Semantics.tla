----------------------------- MODULE Semantics -----------------------------
(***************************************************************************)
(* What programs mean: the reference the interpreter is compared with.  It *)
(* says of a whole task, from its statements and variables alone, what it  *)
(* tells the player, what it forks and how it ends, after the description  *)
(* of the language in doc/ChangeLog.txt (try and finally: 1195-1270, break *)
(* and continue: 1813-1850).  Nothing here knows of stacks and bytes.      *)
(*                                                                         *)
(* Ev(e, fr, s) is what expression e comes to in frame fr and state s: a   *)
(* value, or an error on its way out, with the state then.  Run() is the   *)
(* same of statements.                                                     *)
(***************************************************************************)
EXTENDS Interpreter

CONSTANTS MisreadPrograms, MisplacedLines     \* see MisreadOf and MisplacedOf

Value(v, s) == [k |-> "value", v |-> v, s |-> s]

Normal(s) == [k |-> "normal", s |-> s]

Raised(code, msg, value, fr, s) ==
  [k |-> "raise", s |-> s, err |-> [code |-> code, msg |-> msg, value |-> value, chain |-> fr.chain]]

(* A verb without the d flag goes on with the error as a value. *)
Fail(e, fr, s) ==
  IF fr.debug THEN Raised(Err(e), Str(<<e>>), Num(0), fr, s) ELSE Value(Err(e), s)

Gave(x, fr, s) == IF Raises(x) THEN Fail(x[2], fr, s) ELSE Value(x, s)

AndThen(r, F(_, _)) == IF r.k = "value" THEN F(r.v, r.s) ELSE r

-----------------------------------------------------------------------------
(* What the operators and list functions give, by the places they keep. *)

Those(s, Keep(_)) ==
  LET at == SelectSeq([i \in DOMAIN s |-> i], Keep) IN [k \in DOMAIN at |-> s[at[k]]]

ArithmeticMeans(op, l, r) ==
  LET a == l[2]
      b == r[2]
      q == CHOOSE n \in -Abs(a) .. Abs(a) :
             a * n * b >= 0 /\ Abs(n * b) <= Abs(a) /\ Abs(a) - Abs(n * b) < Abs(b)
      power[n \in 0 .. Abs(b)] == IF n = 0 THEN 1 ELSE Wrap(power[n - 1] * a)
  IN IF {l[1], r[1]} # {"int"} \/ op \in {"ADD", "MINUS", "MULT"} THEN Arithmetic(op, l, r)
     ELSE CASE op \in {"DIV", "MOD"} /\ b = 0 -> Raise("E_DIV")
            [] op = "DIV" /\ b # 0 -> Num(q)
            [] op = "MOD" /\ b # 0 -> Num(a - q * b)
            [] op = "EXP" /\ b >= 0 -> Num(power[b])
            [] OTHER -> do_power(a, b)

RangeMeans(base, i, j) ==
  CASE base[1] \notin {"list", "str"} \/ i[1] # "int" \/ j[1] # "int" -> Raise("E_TYPE")
    [] i[2] > j[2] -> <<base[1], <<>>>>
    [] i[2] < 1 \/ j[2] > Len(base[2]) -> Raise("E_RANGE")
    [] OTHER -> <<base[1], Those(base[2], LAMBDA k : k \in i[2] .. j[2])>>

RangeSetMeans(base, i, j, value) ==
  CASE \/ i[1] # "int" \/ j[1] # "int"
       \/ base[1] \notin {"list", "str"} \/ value[1] # base[1] -> Raise("E_TYPE")
    [] i[2] > Len(base[2]) + 1 \/ j[2] < 0 -> Raise("E_RANGE")
    [] OTHER -> <<base[1], Those(base[2], LAMBDA k : k < i[2]) \o value[2]
                             \o Those(base[2], LAMBDA k : k > j[2])>>

ListMeans(f, args) ==
  LET s == args[1][2]
      v == args[2]
      pos == args[3][2]
      put(after) == List(Those(s, LAMBDA k : k <= after) \o <<v>> \o Those(s, LAMBDA k : k > after))
      first == CHOOSE i \in DOMAIN s : /\ equality(s[i], v, FALSE)
                                       /\ \A k \in 1 .. i - 1 : ~equality(s[k], v, FALSE)
      member == \E k \in DOMAIN s : equality(s[k], v, FALSE)
  IN CASE f = "listappend" -> put(IF Len(args) = 2 THEN Len(s) ELSE pos)
       [] f = "listinsert" -> put(IF Len(args) = 2 THEN 0 ELSE pos - 1)
       [] f = "listdelete" -> IF v[2] \notin DOMAIN s THEN Raise("E_RANGE")
                              ELSE List(Those(s, LAMBDA k : k # v[2]))
       [] f = "setadd" -> IF member THEN args[1] ELSE List(Append(s, v))
       [] f = "setremove" -> IF ~member THEN args[1] ELSE List(Those(s, LAMBDA k : k # first))
       [] f = "remove_duplicates" ->
            List(Those(s, LAMBDA k : \A j \in 1 .. k - 1 : ~equality(s[j], s[k], FALSE)))
       [] OTHER -> ListFunction(f, args)

-----------------------------------------------------------------------------

(* Everything that is evaluated goes through Means(), the one recursive operator:
   what, of an expression, statements or a part of them x. *)
RECURSIVE Means(_, _, _, _)

Ev(e, fr, s) == Means("Ev", <<e>>, fr, s)
EvArgs(v, args, fr, s) == Means("EvArgs", <<v, args>>, fr, s)
Run(stmts, fr, s) == Means("Run", <<stmts>>, fr, s)
EvCall(f, args, via, fr, s) == Means("EvCall", <<f, args, via>>, fr, s)
EvPlace(e, fr, s) == Means("EvPlace", <<e>>, fr, s)
Assign(p, v, fr, s) == Means("Assign", <<p, v>>, fr, s)
Defaults(sc, got, fr, s) == Means("Defaults", <<sc, got>>, fr, s)
OverItems(x, items, body, fr, s) == Means("OverItems", <<x, items, body>>, fr, s)
Whiles(st, fr, s) == Means("Whiles", <<st>>, fr, s)
Ifs(arms, otherwise, fr, s) == Means("Ifs", <<arms, otherwise>>, fr, s)
AllCodes(arms, cs, fr, s) == Means("AllCodes", <<arms, cs>>, fr, s)

(* The values of args, after those in v. *)
MeansEvArgs(v, args, fr, s) ==
  IF args = <<>> THEN Value(v, s)
  ELSE AndThen(Ev(args[1][2], fr, s), LAMBDA x, t :
         LET bad == v[1] # "list" \/ (args[1][1] = "splice" /\ x[1] # "list")
             more == List(v[2] \o (IF args[1][1] = "splice" THEN x[2] ELSE <<x>>))
         IN AndThen(IF bad THEN Fail("E_TYPE", fr, t) ELSE Value(more, t),
                    LAMBDA w, u : EvArgs(w, Tail(args), fr, u)))

Args(args, fr, s) == EvArgs(List(<<>>), args, fr, s)

Item(fr) == List(<<fr.this, Str(fr.verb), Obj(fr.vloc)>>)

Frame(this, verb, vloc, debug, depth, via, chain) ==
  LET fr == [this |-> this, verb |-> verb, vloc |-> vloc, debug |-> debug, depth |-> depth,
             dollar |-> None]
  IN [chain |-> <<Item(fr)>> \o via \o chain] @@ fr

(* The value of a call of program i in frame fr; the caller's variables are as
   they were. *)
Called(i, fr, env, s) ==
  LET r == Run(Sources[i], fr, [s EXCEPT !.env = env])
      t == [r.s EXCEPT !.env = s.env]
  IN CASE r.k = "normal" -> Value(Num(0), t)
       [] r.k = "return" -> Value(r.v, t)
       [] OTHER -> [r EXCEPT !.s = t]

NoVerb(o, name) == valid(o) /\ db_find_callable_verb(o, name) = NOTHING

(* this:name(@args), looked for from object where on. *)
EvVerb(where, name, this, args, fr, s) ==
  LET definer == db_find_callable_verb(where, name)
      i == Verb[definer, name]
      shown == IF name[1] = WAIF_VERB_PREFIX THEN Tail(name) ELSE name
  IN CASE ~valid(where) -> Fail("E_INVIND", fr, s)
       [] valid(where) /\ definer = NOTHING -> Fail("E_VERBNF", fr, s)
       [] valid(where) /\ definer # NOTHING /\ fr.depth = max_stack_depth -> Fail("E_MAXREC", fr, s)
       [] OTHER -> Called(i, Frame(this, name, definer, i \notin Unflagged, fr.depth + 1, <<>>, fr.chain),
                          rt_env(this, fr.this, Str(shown), List(args)), s)

EvEval(args, via, fr, s) ==
  LET i == Parsed[args[1][2]]
  IN CASE args[1][2] \notin DOMAIN Parsed -> Value(List(<<Num(0), List(<<>>)>>), s)
       [] fr.depth = max_stack_depth -> Fail("E_MAXREC", fr, s)
       [] OTHER ->
            AndThen(Called(i, Frame(Obj(NOTHING), <<>>, NOTHING, TRUE, fr.depth + 1,
                                    <<List(<<Obj(NOTHING), Str(<<via>>), Obj(NOTHING)>>)>>, fr.chain),
                           rt_env(Obj(NOTHING), fr.this, Str(<<>>), List(<<>>)), s),
                    LAMBDA v, t : Value(List(<<Num(1), v>>), t))

(* f(@args); via is the function the program named. *)
MeansEvCall(f, args, via, fr, s) ==
  LET spec == bf_table[f]
      bf == <<"bf_", f>>
      n == IF spec[2] = -1 THEN spec[1] ELSE Len(args)
  IN CASE f \in Protected /\ fr.this # Obj(SYSTEM_OBJECT) ->
            IF db_find_callable_verb(SYSTEM_OBJECT, bf) = NOTHING THEN Fail("E_PERM", fr, s)
            ELSE EvVerb(SYSTEM_OBJECT, bf, Obj(SYSTEM_OBJECT), args, fr, s)
       [] Len(args) < spec[1] \/ (spec[2] # -1 /\ Len(args) > spec[2]) -> Fail("E_ARGS", fr, s)
       [] \E k \in 1 .. n : spec[3][k] \notin {"any", args[k][1]} -> Fail("E_TYPE", fr, s)
       [] f = "raise" ->
            IF fr.debug
            THEN Raised(args[1], IF Len(args) > 1 THEN args[2] ELSE Str(<<args[1][2]>>),
                        IF Len(args) > 2 THEN args[3] ELSE Num(0), fr, s)
            ELSE Value(args[1], s)
       [] f = "suspend" ->
            CASE args # <<>> /\ args[1][2] < 0 -> Fail("E_INVARG", fr, s)
              [] ~vm.quota -> Fail("E_QUOTA", fr, s)
              [] OTHER -> IF vm.answer[1] = "err" THEN Fail(vm.answer[2], fr, s) ELSE Value(vm.answer, s)
       [] f = "pass" -> IF ~valid(fr.vloc) THEN Fail("E_INVIND", fr, s)
                        ELSE EvVerb(Parent[fr.vloc], fr.verb, fr.this, args, fr, s)
       [] f = "eval" -> EvEval(args, via, fr, s)
       [] f = "notify" -> Value(Num(0), [s EXCEPT !.told = Append(@, args[1])])
       [] f = "callers" -> Value(List(Tail(fr.chain)), s)
       [] f = "kill_task" -> [k |-> "killed", s |-> s]
       [] f = "call_function" ->
            IF Len(args[1][2]) # 1 \/ args[1][2][1] \notin DOMAIN bf_table
            THEN IF fr.debug THEN Raised(Err("E_INVARG"), Str(<<"unknown">>), args[1], fr, s)
                 ELSE Value(Err("E_INVARG"), s)
            ELSE EvCall(args[1][2][1], Tail(args), via, fr, s)
       [] OTHER -> Gave(ListMeans(f, args), fr, s)

-----------------------------------------------------------------------------
(* Assignment *)

Property(o, name, allowed, s) ==
  CASE name[1] # "str" \/ o[1] # "obj" -> Raise("E_TYPE")
    [] ~valid(o[2]) -> Raise("E_INVIND")
    [] <<o[2], name[2]>> \notin DOMAIN s.props -> Raise("E_PROPNF")
    [] <<o[2], name[2]>> \notin allowed -> Raise("E_PERM")
    [] OTHER -> s.props[o[2], name[2]]

(* The expressions of place e, from the variable or property that is changed
   out: <<"place", kind, v1, v2, place under it, value of that place>>. *)
PlaceValue(p, fr, s) ==
  CASE p[2] = "id" -> Gave(IF s.env[p[3]] = None THEN Raise("E_VARNF") ELSE s.env[p[3]], fr, s)
    [] p[2] = "bin" -> Gave(Property(p[3], p[4], Readable, s), fr, s)
    [] p[2] = "index" -> Gave(PushRef(p[6], p[3]), fr, s)

MeansEvPlace(e, fr, s) ==
  CASE e[1] = "id" -> Value(<<"place", "id", e[2]>>, s)
    [] e[1] = "bin" -> AndThen(Ev(e[3], fr, s), LAMBDA o, t :
                         AndThen(Ev(e[4], fr, t), LAMBDA n, u : Value(<<"place", "bin", o, n>>, u)))
    [] OTHER ->
         AndThen(EvPlace(e[2], fr, s), LAMBDA p, t :
           AndThen(PlaceValue(p, fr, t), LAMBDA b, u :
             AndThen(Ev(e[3], [fr EXCEPT !.dollar = b], u), LAMBDA i, w :
               IF e[1] = "index" THEN Value(<<"place", "index", i, None, p, b>>, w)
               ELSE AndThen(Ev(e[4], [fr EXCEPT !.dollar = b], w), LAMBDA j, x :
                      Value(<<"place", "range", i, j, p, b>>, x)))))

MeansAssign(p, v, fr, s) ==
  CASE p[2] = "id" -> Value(v, [s EXCEPT !.env[p[3]] = v])
    [] p[2] = "bin" -> LET was == Property(p[3], p[4], Writable, s)
                       IN IF Raises(was) THEN Fail(was[2], fr, s)
                          ELSE Value(v, [s EXCEPT !.props[p[3][2], p[4][2]] = v])
    [] OTHER ->
         AndThen(IF p[2] = "range" THEN Gave(RangeSetMeans(p[6], p[3], p[4], v), fr, s)
                 ELSE IF p[6][1] = "waif"
                 THEN IF NoVerb(p[6][2], waif_indexset_verb)
                      THEN Fail("E_TYPE", fr, s)
                      ELSE EvVerb(p[6][2], waif_indexset_verb, p[6], <<p[3], v>>, fr, s)
                 ELSE Gave(IndexSet(p[6], p[3], v), fr, s),
                 LAMBDA new, t : AndThen(Assign(p[5], new, fr, t), LAMBDA x, u : Value(v, u)))

(* The values go to required targets first, to optional ones as far as there
   are enough, from left to right, and what is left to the rest. *)
RECURSIVE Scatters(_, _, _, _, _)
Scatters(sc, vs, spare, fr, s) ==
  IF sc = <<>> THEN Normal(s)
  ELSE LET x == sc[1][2]
           left == Cardinality({i \in DOMAIN sc : sc[i][1] # "rest"})
           assigned(v) == [s EXCEPT !.env[x] = v]
           n == IF Len(vs) > left - 1 THEN Len(vs) - left ELSE 0
       IN CASE sc[1][1] = "required" -> Scatters(Tail(sc), Tail(vs), spare, fr, assigned(vs[1]))
            [] sc[1][1] = "rest" ->
                 Scatters(Tail(sc), SubSeq(vs, n + 1, Len(vs)), spare - n, fr,
                          assigned(List(SubSeq(vs, 1, n))))
            [] sc[1][1] = "optional" /\ spare > 0 ->
                 Scatters(Tail(sc), Tail(vs), spare - 1, fr, assigned(vs[1]))
            [] OTHER -> Scatters(Tail(sc), vs, spare, fr, s)

(* The optional targets that got no value, in order, with their defaults. *)
MeansDefaults(sc, got, fr, s) ==
  IF sc = <<>> THEN Value(None, s)
  ELSE LET later == got - (IF sc[1][1] = "optional" THEN 1 ELSE 0)
       IN IF sc[1][1] # "optional" \/ sc[1][3] = <<>> \/ got > 0
          THEN Defaults(Tail(sc), later, fr, s)
          ELSE AndThen(Ev(sc[1][3][1], fr, s), LAMBDA v, t :
                 Defaults(Tail(sc), later, fr, [t EXCEPT !.env[sc[1][2]] = v]))

EvScatter(sc, list, fr, s) ==
  LET count(kind) == Cardinality({i \in DOMAIN sc : sc[i][1] = kind})
      required == count("required")
      spare == Len(list[2]) - required
      optional == IF spare < count("optional") THEN spare ELSE count("optional")
  IN IF list[1] # "list" THEN Fail("E_TYPE", fr, s)
     ELSE IF spare < 0 \/ (count("rest") = 0 /\ Len(list[2]) > Len(sc)) THEN Fail("E_ARGS", fr, s)
     ELSE AndThen(Defaults(sc, optional, fr, Scatters(sc, list[2], optional, fr, s).s),
                  LAMBDA v, t : Value(list, t))

-----------------------------------------------------------------------------
Caught(r, codes) ==
  r.k = "raise" /\ (codes[1] # "list" \/ ishandled(r.err.code, codes[2]))

(* What an error is to its handler in frame fr: the calls from there on. *)
ErrorInfo(err, fr) ==
  List(<<err.code, err.msg, err.value,
         List(SubSeq(err.chain, 1, Len(err.chain) - Len(fr.chain) + 1))>>)

CodesOf(codes, fr, s) == IF codes = <<>> THEN Value(Num(0), s) ELSE Args(codes, fr, s)

MeansEv(e, fr, s) ==
  CASE e[1] = "lit" -> Value(e[2], s)
    [] e[1] = "id" -> Gave(IF s.env[e[2]] = None THEN Raise("E_VARNF") ELSE s.env[e[2]], fr, s)
    [] e[1] = "un" -> AndThen(Ev(e[3], fr, s), LAMBDA v, t :
                        Gave(IF e[2] = "NOT" THEN Truth(~is_true(v)) ELSE Negated(v), fr, t))
    [] e[1] = "bin" ->
         AndThen(Ev(e[3], fr, s), LAMBDA l, t : AndThen(Ev(e[4], fr, t), LAMBDA r, u :
           Gave(CASE e[2] = "EQ" -> Truth(equality(l, r, FALSE))
                  [] e[2] = "NE" -> Truth(~equality(l, r, FALSE))
                  [] e[2] = "IN" -> In(l, r)
                  [] e[2] = "GET_PROP" -> Property(l, r, Readable, u)
                  [] e[2] \in {"LT", "LE", "GT", "GE"} -> Comparison(e[2], l, r)
                  [] OTHER -> ArithmeticMeans(e[2], l, r), fr, u)))
    [] e[1] \in {"and", "or"} ->
         AndThen(Ev(e[2], fr, s), LAMBDA v, t :
           IF is_true(v) = (e[1] = "or") THEN Value(v, t) ELSE Ev(e[3], fr, t))
    [] e[1] = "cond" ->
         AndThen(Ev(e[2], fr, s), LAMBDA v, t : Ev(IF is_true(v) THEN e[3] ELSE e[4], fr, t))
    [] e[1] = "index" ->
         AndThen(Ev(e[2], fr, s), LAMBDA b, t :
           AndThen(Ev(e[3], [fr EXCEPT !.dollar = b], t), LAMBDA i, u :
             IF b[1] # "waif" THEN Gave(Ref(b, i), fr, u)
             ELSE IF NoVerb(b[2], waif_index_verb) THEN Fail("E_TYPE", fr, u)
             ELSE EvVerb(b[2], waif_index_verb, b, <<i>>, fr, u)))
    [] e[1] = "range" ->
         AndThen(Ev(e[2], fr, s), LAMBDA b, t :
           AndThen(Ev(e[3], [fr EXCEPT !.dollar = b], t), LAMBDA i, u :
             AndThen(Ev(e[4], [fr EXCEPT !.dollar = b], u), LAMBDA j, w :
               Gave(RangeMeans(b, i, j), fr, w))))
    [] e[1] = "length" ->
         Gave(IF fr.dollar[1] \in {"list", "str"} THEN Num(Len(fr.dollar[2])) ELSE Raise("E_TYPE"), fr, s)
    [] e[1] = "list" -> Args(e[2], fr, s)
    [] e[1] = "call" ->
         AndThen(Args(e[3], fr, s), LAMBDA v, t :
           IF v[1] # "list" THEN Fail("E_TYPE", fr, t) ELSE EvCall(e[2], v[2], e[2], fr, t))
    [] e[1] = "verb" ->
         AndThen(Ev(e[2], fr, s), LAMBDA o, t : AndThen(Ev(e[3], fr, t), LAMBDA n, u :
           AndThen(Args(e[4], fr, u), LAMBDA v, w :
             CASE n[1] # "str" \/ v[1] # "list" \/ o[1] \notin {"obj", "waif"} -> Fail("E_TYPE", fr, w)
               [] o[1] = "obj" /\ n[2][1] = WAIF_VERB_PREFIX -> Fail("E_VERBNF", fr, w)
               [] OTHER -> EvVerb(o[2], IF o[1] = "waif" THEN <<WAIF_VERB_PREFIX>> \o n[2] ELSE n[2],
                                  o, v[2], fr, w))))
    [] e[1] = "asgn" ->
         IF e[2][1] = "scatter"
         THEN AndThen(Ev(e[3], fr, s), LAMBDA v, t : EvScatter(Tail(e[2]), v, fr, t))
         ELSE AndThen(EvPlace(e[2], fr, s), LAMBDA p, t :
                AndThen(Ev(e[3], fr, t), LAMBDA v, u : Assign(p, v, fr, u)))
    [] e[1] = "catch" ->
         AndThen(CodesOf(e[3], fr, s), LAMBDA codes, t :
           LET r == Ev(e[2], fr, t)
           IN IF ~Caught(r, codes) THEN r
              ELSE IF e[4] = <<>> THEN Value(r.err.code, r.s) ELSE Ev(e[4][1], fr, r.s))

-----------------------------------------------------------------------------
(* r is what a loop's body x came to: whether the loop goes on. *)
GoesOn(r, x) == r.k = "normal" \/ (r.k = "continue" /\ r.id \in {NoId, x})

LeftLoop(r, x) == IF r.k = "break" /\ r.id \in {NoId, x} THEN Normal(r.s) ELSE r

AsStatement(r) == IF r.k = "value" THEN Normal(r.s) ELSE r

MeansOverItems(x, items, body, fr, s) ==
  IF items = <<>> THEN Normal(s)
  ELSE LET r == Run(body, fr, [s EXCEPT !.env[x] = items[1]])
       IN IF GoesOn(r, x) THEN OverItems(x, Tail(items), body, fr, r.s) ELSE LeftLoop(r, x)

MeansWhiles(st, fr, s) ==
  LET c == Ev(st[3], fr, s)
      t == IF st[2] = NoId THEN c.s ELSE [c.s EXCEPT !.env[st[2]] = c.v]
      r == Run(st[4], fr, t)
  IN IF c.k # "value" THEN c
     ELSE IF ~is_true(c.v) THEN Normal(t)
     ELSE IF GoesOn(r, st[2]) THEN Whiles(st, fr, r.s) ELSE LeftLoop(r, st[2])

MeansIfs(arms, otherwise, fr, s) ==
  IF arms = <<>> THEN Run(otherwise, fr, s)
  ELSE LET c == Ev(arms[1][1], fr, s)
       IN IF c.k # "value" THEN c
          ELSE IF is_true(c.v) THEN Run(arms[1][2], fr, c.s) ELSE Ifs(Tail(arms), otherwise, fr, c.s)

(* The codes of all arms are evaluated first. *)
MeansAllCodes(arms, cs, fr, s) ==
  IF arms = <<>> THEN Value(cs, s)
  ELSE AndThen(CodesOf(arms[1][2], fr, s), LAMBDA c, t : AllCodes(Tail(arms), Append(cs, c), fr, t))

Tries(st, fr, s) ==
  LET c == AllCodes(st[3], <<>>, fr, s)
      r == Run(st[2], fr, c.s)
      at == {i \in DOMAIN st[3] : Caught(r, c.v[i])}
      arm == st[3][Min(at)]
      info == ErrorInfo(r.err, fr)
  IN IF c.k # "value" THEN c
     ELSE IF at = {} THEN r
     ELSE Run(arm[3], fr, IF arm[1] = NoId THEN r.s ELSE [r.s EXCEPT !.env[arm[1]] = info])

Finally(st, fr, s) ==
  LET r == Run(st[2], fr, s)
      h == Run(st[3], fr, r.s)
  IN IF r.k = "killed" THEN r ELSE IF h.k = "normal" THEN [r EXCEPT !.s = h.s] ELSE h

Forks(st, fr, s) ==
  AndThen(Ev(st[3], fr, s), LAMBDA v, t :
    LET u == IF st[2] = NoId THEN t ELSE [t EXCEPT !.env[st[2]] = TASK_ID]
    IN CASE v[1] # "int" -> Fail("E_TYPE", fr, t)
         [] v[1] = "int" /\ v[2] < 0 -> Fail("E_INVARG", fr, t)
         [] v[1] = "int" /\ v[2] >= 0 /\ ~vm.quota -> Fail("E_QUOTA", fr, t)
         [] OTHER -> Value(None, [u EXCEPT !.forks = Append(@, <<st[4], u.env>>)]))

Statements(st, fr, s) ==
  CASE st[1] = "if" -> Ifs(st[2], st[3], fr, s)
    [] st[1] = "for" ->
         AsStatement(AndThen(Ev(st[3], fr, s), LAMBDA v, t :
           IF v[1] # "list" THEN Fail("E_TYPE", fr, t) ELSE OverItems(st[2], v[2], st[4], fr, t)))
    [] st[1] = "range" ->
         AsStatement(AndThen(Ev(st[3], fr, s), LAMBDA a, t : AndThen(Ev(st[4], fr, t), LAMBDA b, u :
           IF a[1] \notin {"int", "obj"} \/ a[1] # b[1] THEN Fail("E_TYPE", fr, u)
           ELSE OverItems(st[2], [i \in 1 .. (IF a[2] > b[2] THEN 0 ELSE b[2] - a[2] + 1) |->
                                    <<a[1], a[2] + i - 1>>], st[5], fr, u))))
    [] st[1] = "while" -> Whiles(st, fr, s)
    [] st[1] = "fork" -> AsStatement(Forks(st, fr, s))
    [] st[1] = "expr" -> AsStatement(Ev(st[2], fr, s))
    [] st[1] = "return" ->
         IF st[2] = <<>> THEN [k |-> "return", v |-> Num(0), s |-> s]
         ELSE LET r == Ev(st[2][1], fr, s) IN IF r.k = "value" THEN [r EXCEPT !.k = "return"] ELSE r
    [] st[1] \in {"break", "continue"} -> [k |-> st[1], id |-> st[2], s |-> s]
    [] st[1] = "try" -> Tries(st, fr, s)
    [] st[1] = "finally" -> Finally(st, fr, s)

GoOn(r, stmts, fr) == IF r.k = "normal" THEN Run(stmts, fr, r.s) ELSE r

MeansRun(stmts, fr, s) ==
  IF stmts = <<>> THEN Normal(s)
  ELSE GoOn(Statements(Head(stmts), fr, s), Tail(stmts), fr)

Means(what, x, fr, s) ==
  CASE what = "Ev" -> MeansEv(x[1], fr, s)
    [] what = "EvArgs" -> MeansEvArgs(x[1], x[2], fr, s)
    [] what = "Run" -> MeansRun(x[1], fr, s)
    [] what = "EvCall" -> MeansEvCall(x[1], x[2], x[3], fr, s)
    [] what = "EvPlace" -> MeansEvPlace(x[1], fr, s)
    [] what = "Assign" -> MeansAssign(x[1], x[2], fr, s)
    [] what = "Defaults" -> MeansDefaults(x[1], x[2], fr, s)
    [] what = "OverItems" -> MeansOverItems(x[1], x[2], x[3], fr, s)
    [] what = "Whiles" -> MeansWhiles(x[1], fr, s)
    [] what = "Ifs" -> MeansIfs(x[1], x[2], fr, s)
    [] what = "AllCodes" -> MeansAllCodes(x[1], x[2], fr, s)

-----------------------------------------------------------------------------
(* The statements of the forks of a program, in the order of their vectors. *)
RECURSIVE ForkBodies(_)
ForkBodies(stmts) ==
  LET bodies(st) ==
        CASE st[1] = "fork" -> Append(ForkBodies(st[4]), st[4])
          [] st[1] \in {"for", "while"} -> ForkBodies(st[4])
          [] st[1] = "range" -> ForkBodies(st[5])
          [] st[1] = "if" -> FlattenSeq([i \in DOMAIN st[2] |-> ForkBodies(st[2][i][2])]) \o ForkBodies(st[3])
          [] st[1] = "try" -> ForkBodies(st[2]) \o FlattenSeq([i \in DOMAIN st[3] |-> ForkBodies(st[3][i][3])])
          [] st[1] = "finally" -> ForkBodies(st[2]) \o ForkBodies(st[3])
          [] OTHER -> <<>>
  IN FlattenSeq([i \in DOMAIN stmts |-> bodies(stmts[i])])

Body(stmts, vector) == IF vector = MAIN_VECTOR THEN stmts ELSE ForkBodies(stmts)[vector + 1]

StatementsOf(prog, vector) ==
  IF Len(prog) = 1 THEN Body(Sources[prog[1]], vector)
  ELSE Body(Body(Sources[prog[1]], prog[2]), vector)

Done(result, s) == [outcome |-> "OUTCOME_DONE", result |-> result, s |-> s]

Aborted(s) == [outcome |-> "OUTCOME_ABORTED", result |-> None, s |-> s]

Shown(info, s) == [s EXCEPT !.told = Append(@, List(<<Str(<<"traceback">>), info>>))]

UncaughtInfo(err) == List(<<err.code, err.msg, err.value, List(err.chain)>>)

(* How a task ends that came to r.  An error nobody caught is shown ... *)
EndedHere(r) ==
  CASE r.k = "normal" -> Done(Num(0), r.s)
    [] r.k = "return" -> Done(r.v, r.s)
    [] r.k = "killed" -> Aborted(r.s)
    [] r.k = "raise"  -> Aborted(Shown(UncaughtInfo(r.err), r.s))

UnlessHandled(h, info) ==
  Aborted(IF h.outcome = "OUTCOME_DONE" /\ is_true(h.result) THEN h.s ELSE Shown(info, h.s))

HandledBy(name, info, s) ==
  LET fr == Frame(Obj(SYSTEM_OBJECT), <<name>>, SYSTEM_OBJECT, Handler[name] \notin Unflagged, 1, <<>>, <<>>)
  IN EndedHere(Run(Sources[Handler[name]], fr,
                   [s EXCEPT !.env = rt_env(Obj(SYSTEM_OBJECT), Obj(NOTHING), Str(<<name>>), info)]))

(* ... unless the handler verb, if there is one, returns true. *)
Ended(r) ==
  IF r.k = "raise" /\ "handle_uncaught_error" \in DOMAIN Handler
  THEN UnlessHandled(HandledBy("handle_uncaught_error", UncaughtInfo(r.err), r.s), UncaughtInfo(r.err))
  ELSE EndedHere(r)

(* What the task that started with activation a in that vector means. *)
Meaning(a, vector, props) ==
  LET fr == Frame(a.THISOBJ, a.verb, a.vloc, a.debug, 1, <<>>, <<>>)
      s == [env |-> a.env, told |-> <<>>, props |-> props, forks |-> <<>>]
  IN Ended(Run(StatementsOf(a.prog, vector), fr, s))

-----------------------------------------------------------------------------
(* Properties *)

ForkMeant(f) == <<StatementsOf(f[1], f[2]), f[3]>>

AsMeant(m, forks) ==
  IF vm.history.cut # -1
  THEN /\ IsPrefix(SubSeq(vm.told, 1, vm.history.cut), m.s.told)
       /\ IsPrefix(forks, m.s.forks)
  ELSE /\ vm.told = m.s.told
       /\ vm.outcome = m.outcome
       /\ forks = m.s.forks
       /\ vm.props = m.s.props
       /\ vm.outcome = "OUTCOME_DONE" /\ vm.result # None => vm.result = m.result

(* A task, through whatever errors, handlers, verb calls, suspensions and
   restarts of the server, tells the player, forks, stores and returns what its
   statements mean, and one that is aborted for want of time has told nothing
   else before: run() and unwind_stack() agree with the language. *)
RunsAsWritten ==
  LET h == vm.history
  IN Idle /\ vm.outcome # "OUTCOME_BLOCKED" =>
       AsMeant(Meaning(h.a, h.vector, h.props), [i \in DOMAIN h.forks |-> ForkMeant(h.forks[i])])

(* No activation has more on its stack than the compiler found the code to need
   (alloc_rt_stack() allocates just that), and whichever way an instruction is
   come to, by jumps, exits, errors or returns, the stack is as deep as the
   compiler took it to be there. *)
WithinStack ==
  /\ \A i \in DOMAIN vm.activ_stack :
       Len(vm.activ_stack[i].rts) <= VectorOf(vm, i).max_stack /\ VectorOf(vm, i).balanced
  /\ running => Len(Rts) = Bc.notes[Pc + 1].depth

(* The programs the decompiler does not make its statements of again. *)
MisreadOf(codes) ==
  {p[1] : p \in {q \in VectorsOf(codes) :
                  LET d == decompile_program(codes[q[1]], q[2])
                  IN d.panic \/ d.stmts # Body(Sources[q[1]], q[2])}}

Misread == MisreadPrograms

(* A verb that is listed or dumped reads as it was written, fork by fork:
   decompile() undoes generate_code() and never meets code it panics about. *)
RoundTrip == \A i \in DOMAIN vm.activ_stack : vm.activ_stack[i].prog[1] \notin Misread

(* The instructions that can fail, call or suspend, so that a line may be asked
   for; the ones after an indexed assignment up to PUSH_TEMP are left out, whose
   errors the code reports on another line. *)
Asked(bc) ==
  LET fails(b) == b[1] = "PUSH" \/ b[2] \in {"IF", "EIF", "FOR_LIST", "FOR_RANGE", "WHILE",
        "BI_FUNC_CALL", "CALL_VERB", "FORK", "FORK_WITH_ID", "G_PUSH", "REF", "PUSH_REF",
        "RANGE_REF", "GET_PROP", "PUSH_GET_PROP", "PUT_PROP", "ADD", "MINUS", "MULT", "DIV", "MOD",
        "LT", "LE", "GT", "GE", "IN", "UNARY_MINUS", "CHECK_LIST_FOR_SPLICE", "LIST_APPEND",
        "INDEXSET"}
      extended(b) == b[2] \in {"RANGESET", "LENGTH", "EXP", "SCATTER"}
      tail(i) == \E k \in 1 .. i - 1 :
                   /\ bc.vector[k] = <<"op", "PUT_TEMP">>
                   /\ k + 1 # i
                   /\ \A m \in k .. i : bc.vector[m] # <<"op", "PUSH_TEMP">>
  IN {i \in DOMAIN bc.vector :
        /\ ~tail(i)
        /\ \/ bc.vector[i][1] \in {"op", "PUSH"} /\ fails(bc.vector[i])
           \/ bc.vector[i] = <<"op", "EXTENDED">> /\ extended(bc.vector[i + 1])}

MisplacedOf(codes) ==
  {l \in UNION {{<<p[1], p[2], n - 1>> : n \in Asked(CodeOf(codes[p[1]], p[2]))} : p \in VectorsOf(codes)} :
     find_line_number(codes[l[1]], l[2], l[3]) # CodeOf(codes[l[1]], l[2]).notes[l[3] + 1].line}

WrongLines == MisplacedLines

(* The line a traceback or callers() names for an activation is the line of the
   statement it is in, as the verb is listed. *)
LinesRight ==
  \A i \in DOMAIN vm.activ_stack :
    LET a == vm.activ_stack[i]
        f == IF i = 1 THEN vm.root_activ_vector ELSE MAIN_VECTOR
    IN Len(a.prog) = 1 => <<a.prog[1], f, a.error_pc>> \notin WrongLines

(* A task that ends by returning has a value: run() gives its caller the value
   the top frame returned (the comment before run()). *)
ResultDelivered == Idle /\ vm.outcome = "OUTCOME_DONE" => vm.result # None

(* A suspended task that is saved can be read again: its activations are all at
   calls (check_pc_validity()). *)
SavedTasksReadable == ~vm.unreadable
=============================================================================
