------------------------------ MODULE CodeGen ------------------------------
(***************************************************************************)
(* The compiler's back end, code_gen.c: a parsed program becomes a vector  *)
(* of bytes.  Variables are their slots.  Expressions are                  *)
(*   <<"lit", v>>  <<"id", x>>  <<"un", op, e>>  <<"bin", op, e, e>>       *)
(*   <<"and", e, e>>  <<"or", e, e>>  <<"cond", e, e, e>>  <<"length">>    *)
(*   <<"index", e, e>>  <<"range", e, e, e>>  <<"list", args>>             *)
(*   <<"call", function, args>>  <<"verb", e, e, args>>                    *)
(*   <<"asgn", e, e>>, to an id, index, range, property or                 *)
(*   <<"scatter", <<kind, x, default>>, ...>>  <<"catch", e, codes, dflt>> *)
(* where args are a sequence of <<"normal", e>> or <<"splice", e>>, codes  *)
(* are args or <<>> for ANY, and a default has at most one element.        *)
(* Statements are                                                          *)
(*   <<"if", arms, else, m>>  with arms <<e, body, m>>                     *)
(*   <<"for", x, e, body, m>>  <<"range", x, e, e, body, m>>               *)
(*   <<"while", x, e, body, m>>  <<"fork", x, e, body, m>>                 *)
(*   <<"expr", e, m>>  <<"return", e?, m>>  <<"break", x, m>>              *)
(*   <<"continue", x, m>>  <<"finally", body, handler, m>>                 *)
(*   <<"try", body, arms, m>>  with arms <<x, codes, body, m>>             *)
(* where x may be NoId, and m is a mark only the decompiler sets.          *)
(*                                                                         *)
(* A byte of code is <<"op", name>>, <<"ext", name>>, <<"PUSH", x>>,       *)
(* <<"PUT", x>>, <<"num", n>> or the last byte of an operand, whose value  *)
(* it shows; the other bytes of the operand are Pad.                       *)
(*                                                                         *)
(* Left out: the parser; BYTECODE_REDUCE_REF, which options.h leaves off.  *)
(***************************************************************************)
EXTENDS Values

CONSTANTS
  NUM_READY_VARS,   \* variables with opcodes of their own, 32 in the server
  OneByte           \* what an operand of one byte can tell apart, 256

ASSUME WidthsAssumption == NUM_READY_VARS \in Nat /\ OneByte \in Nat \ {0}

NoId == -1

Pad == <<"pad", 0>>

Smallest == -10   \* OPTIM_NUM_LOW
Largest  == 132   \* OPTIM_NUM_HI

IN_OPTIM_NUM_RANGE(v) == v[1] = "int" /\ v[2] \in Smallest .. Largest

-----------------------------------------------------------------------------
(* The generator's state: bytes as they are so far, the depth of the stack
   they need, the place of what `$' refers to, the loops around, the literals,
   forks and variable references of the whole program.  line and notes are not
   in the code: they note which line of the program each byte comes from, and
   how deep the stack was then. *)

init_state(g) ==
  [bytes |-> <<>>, cur_stack |-> 0, max_stack |-> 0, saved_stack |-> -1,
   loops |-> <<>>, line |-> 0, notes |-> <<>>] @@ g

GState(s) == [literals |-> s.literals, fork_vectors |-> s.fork_vectors,
              total_var_refs |-> s.total_var_refs]

Here(s) == Len(s.bytes)

emit_noted(s, b, depth) ==
  [s EXCEPT !.bytes = Append(@, b), !.notes = Append(@, [line |-> s.line, depth |-> depth])]

emit_byte(s, b) == emit_noted(s, b, s.cur_stack)

emit_op(s, op) == emit_byte(s, <<"op", op>>)

(* n is what the instruction before did to the stack and cur_stack leaves out. *)
emit_uncounted(s, op, n) == emit_noted(s, <<"op", op>>, s.cur_stack + n)

emit_extended(s, eop) == emit_byte(emit_op(s, "EXTENDED"), <<"ext", eop>>)

emit_number(s, n) == emit_byte(s, <<"num", n>>)

push_stack(s, n) ==
  [s EXCEPT !.cur_stack = @ + n,
            !.max_stack = IF s.cur_stack + n > @ THEN s.cur_stack + n ELSE @]

pop_stack(s, n) == [s EXCEPT !.cur_stack = @ - n]

(* A jump whose label is not known yet, and the places of those jumps. *)
add_label(s) == emit_byte(s, <<"label", -1>>)

add_known_label(s, l) == emit_byte(s, <<"label", l>>)

define_labels(s, places) ==
  [s EXCEPT !.bytes = [i \in DOMAIN @ |-> IF i \in places THEN <<"label", Here(s)>> ELSE @[i]]]

add_var_ref(s, x) == [emit_byte(s, <<"var", x>>) EXCEPT !.total_var_refs = @ + 1]

(* Equal literals share a place, equal also in the case of letters. *)
add_literal(s, v) ==
  LET same == {i \in DOMAIN s.literals : equality(s.literals[i], v, TRUE)}
      i == IF same = {} THEN Len(s.literals) + 1 ELSE Min(same)
      t == [s EXCEPT !.literals = IF same = {} THEN Append(@, v) ELSE @]
  IN emit_byte(t, <<"literal", i - 1>>)

emit_var_op(s, op, x) ==
  IF x >= NUM_READY_VARS
  THEN add_var_ref(emit_op(s, IF op = "PUT" THEN "G_PUT" ELSE "G_PUSH"), x)
  ELSE emit_byte(s, <<op, x>>)

Saving(s) == [s EXCEPT !.saved_stack = s.cur_stack - 1]

Restored(s, t) == [t EXCEPT !.saved_stack = s.saved_stack]

-----------------------------------------------------------------------------
Numbered(q) == [i \in DOMAIN q |-> i]

(* Op(s), with s computed before Op is: TLC would else leave it for later, and
   every later instruction would add to the depth of what is left. *)
From(s, Op(_)) == CHOOSE r \in {Op(t) : t \in {s}} : TRUE

ArgOp(i, kind) ==
  CASE i = 1 /\ kind = "normal" -> "MAKE_SINGLETON_LIST"
    [] i = 1 /\ kind = "splice" -> "CHECK_LIST_FOR_SPLICE"
    [] i > 1 /\ kind = "normal" -> "LIST_ADD_TAIL"
    [] i > 1 /\ kind = "splice" -> "LIST_APPEND"

RECURSIVE generate_expr(_, _)

generate_arg_list(s, args) ==
  IF args = <<>> THEN push_stack(emit_op(s, "MAKE_EMPTY_LIST"), 1)
  ELSE FoldLeft(LAMBDA t, i : pop_stack(emit_op(generate_expr(t, args[i][2]),
                                                ArgOp(i, args[i][1])),
                                        IF i = 1 THEN 0 ELSE 1),
                s, Numbered(args))

generate_codes(s, codes) ==
  IF codes = <<>> THEN push_stack(emit_number(s, 0), 1) ELSE generate_arg_list(s, codes)

(* The places an assignment to e needs on the stack; their value too when e is
   itself indexed. *)
RECURSIVE push_lvalue(_, _, _)
push_lvalue(s, e, indexed_above) ==
  CASE e[1] = "range" ->
         LET b == push_lvalue(s, e[2], TRUE)
         IN Restored(b, generate_expr(generate_expr(Saving(b), e[3]), e[4]))
    [] e[1] = "index" ->
         LET b == push_lvalue(s, e[2], TRUE)
             t == Restored(b, generate_expr(Saving(b), e[3]))
         IN IF indexed_above THEN push_stack(emit_op(t, "PUSH_REF"), 1) ELSE t
    [] e[1] = "id" ->
         IF indexed_above THEN push_stack(emit_var_op(s, "PUSH", e[2]), 1) ELSE s
    [] e[1] = "bin" ->
         LET t == generate_expr(generate_expr(s, e[3]), e[4])
         IN IF indexed_above THEN push_stack(emit_op(t, "PUSH_GET_PROP"), 1) ELSE t

(* From the innermost index or range of e out to what holds them all. *)
RECURSIVE store(_, _)
store(s, e) ==
  CASE e[1] = "range" -> store(pop_stack(emit_extended(s, "RANGESET"), 3), e[2])
    [] e[1] = "index" -> store(pop_stack(emit_op(s, "INDEXSET"), 2), e[2])
    [] e[1] = "id"    -> emit_var_op(s, "PUT", e[2])
    [] e[1] = "bin"   -> pop_stack(emit_op(s, "PUT_PROP"), 2)

generate_assignment(s, e, rhs) ==
  LET t == generate_expr(push_lvalue(s, e, FALSE), rhs)
  IN IF e[1] \in {"range", "index"}
     THEN emit_uncounted(emit_op(store(emit_op(t, "PUT_TEMP"), e), "POP"), "PUSH_TEMP", -1)
     ELSE store(t, e)

generate_scatter(s, sc, rhs) ==
  LET n == Len(sc)
      required == Cardinality({i \in 1 .. n : sc[i][1] = "required"})
      rests == {i \in 1 .. n : sc[i][1] = "rest"}
      rest == IF rests = {} THEN n + 1 ELSE Max(rests)
      head == emit_number(emit_number(emit_number(
                emit_extended(generate_expr(s, rhs), "SCATTER"), n), required), rest)
      at(i) == Here(head) + 2 * i      \* the place of the i-th label
      target(t, i) ==
        LET u == add_var_ref(t, sc[i][2])
        IN CASE sc[i][1] # "optional"  -> emit_byte(u, <<"pseudo", 0>>)
             [] sc[i][1] = "optional" /\ sc[i][3] = <<>> -> emit_byte(u, <<"pseudo", 1>>)
             [] OTHER -> add_label(u)
      default(t, i) ==
        IF sc[i][1] # "optional" \/ sc[i][3] = <<>> THEN t
        ELSE LET u == generate_expr(define_labels(t, {at(i)}), sc[i][3][1])
             IN pop_stack(emit_op(emit_var_op(u, "PUT", sc[i][2]), "POP"), 1)
      targets == add_label(FoldLeft(target, head, Numbered(sc)))
  IN define_labels(FoldLeft(default, targets, Numbered(sc)), {at(n) + 1})

generate_catch(s, e, codes, except) ==
  LET c == add_label(emit_extended(generate_codes(s, codes), "PUSH_LABEL"))
      d == push_stack(emit_extended(push_stack(c, 1), "CATCH"), 1)
      f == add_label(emit_extended(generate_expr(d, e), "END_CATCH"))
      h == define_labels(pop_stack(f, 3), {Here(c)})
      x == IF except = <<>> THEN emit_uncounted(emit_number(h, 1), "REF", 1)
           ELSE generate_expr(pop_stack(emit_op(h, "POP"), 1), except[1])
  IN define_labels(x, {Here(f)})

expr_code(s, e) ==
  CASE e[1] = "lit" ->
         push_stack(IF IN_OPTIM_NUM_RANGE(e[2]) THEN emit_number(s, e[2][2])
                    ELSE add_literal(emit_op(s, "IMM"), e[2]), 1)
    [] e[1] = "id" -> push_stack(emit_var_op(s, "PUSH", e[2]), 1)
    [] e[1] \in {"and", "or"} ->
         LET t == add_label(emit_op(generate_expr(s, e[2]), IF e[1] = "and" THEN "AND" ELSE "OR"))
         IN define_labels(generate_expr(pop_stack(t, 1), e[3]), {Here(t)})
    [] e[1] = "un" -> emit_op(generate_expr(s, e[3]), e[2])
    [] e[1] = "bin" ->
         LET t == generate_expr(generate_expr(s, e[3]), e[4])
         IN pop_stack(IF e[2] = "EXP" THEN emit_extended(t, "EXP") ELSE emit_op(t, e[2]), 1)
    [] e[1] = "index" ->
         LET b == generate_expr(s, e[2])
         IN pop_stack(emit_op(Restored(b, generate_expr(Saving(b), e[3])), "REF"), 1)
    [] e[1] = "range" ->
         LET b == generate_expr(s, e[2])
             t == generate_expr(generate_expr(Saving(b), e[3]), e[4])
         IN pop_stack(emit_op(Restored(b, t), "RANGE_REF"), 2)
    [] e[1] = "length" ->
         push_stack(emit_byte(emit_extended(s, "LENGTH"), <<"stack", s.saved_stack>>), 1)
    [] e[1] = "list" -> generate_arg_list(s, e[2])
    [] e[1] = "call" ->
         emit_byte(emit_op(generate_arg_list(s, e[3]), "BI_FUNC_CALL"), <<"function", e[2]>>)
    [] e[1] = "verb" ->
         LET t == generate_arg_list(generate_expr(generate_expr(s, e[2]), e[3]), e[4])
         IN pop_stack(emit_op(t, "CALL_VERB"), 2)
    [] e[1] = "cond" ->
         LET c == add_label(emit_op(generate_expr(s, e[2]), "IF_QUES"))
             t == add_label(emit_op(generate_expr(pop_stack(c, 1), e[3]), "JUMP"))
             f == define_labels(pop_stack(t, 1), {Here(c)})
         IN define_labels(generate_expr(f, e[4]), {Here(t)})
    [] e[1] = "asgn" ->
         IF e[2][1] = "scatter" THEN generate_scatter(s, Tail(e[2]), e[3])
         ELSE generate_assignment(s, e[2], e[3])
    [] e[1] = "catch" -> generate_catch(s, e[2], e[3], e[4])

generate_expr(s, e) == From(s, LAMBDA t : expr_code(t, e))

-----------------------------------------------------------------------------
(* How many lines a statement takes in a listing. *)
RECURSIVE LinesOf(_)
LinesOf(stmts) ==
  LET sum(q) == FoldLeft(LAMBDA n, m : n + m, 0, q)
      lines(st) ==
        CASE st[1] = "if"  ->
               1 + sum([i \in DOMAIN st[2] |-> 1 + LinesOf(st[2][i][2])])
                 + (IF st[3] = <<>> THEN 0 ELSE 1 + LinesOf(st[3]))
          [] st[1] = "try" ->
               2 + LinesOf(st[2]) + sum([i \in DOMAIN st[3] |-> 1 + LinesOf(st[3][i][3])])
          [] st[1] = "finally" -> 3 + LinesOf(st[2]) + LinesOf(st[3])
          [] st[1] \in {"for", "while", "fork"} -> 2 + LinesOf(st[4])
          [] st[1] = "range" -> 2 + LinesOf(st[5])
          [] OTHER -> 1
  IN sum([i \in DOMAIN stmts |-> lines(stmts[i])])

On(s, line) == [s EXCEPT !.line = line]

(* The loop a break or continue leaves: the innermost, or the one of x. *)
LoopOf(s, x) ==
  IF x = NoId THEN Len(s.loops)
  ELSE Max({i \in DOMAIN s.loops : s.loops[i].id = x})

enter_loop(s, x, top, top_stack, bottom, bottom_stack) ==
  [s EXCEPT !.loops = Append(@, [id |-> x, top_label |-> top, top_stack |-> top_stack,
                                 bottom_labels |-> {bottom}, bottom_stack |-> bottom_stack])]

(* The end of a loop: back to its top, and here is where it is left to. *)
exit_loop(s) ==
  LET loop == Last(s.loops)
      t == add_known_label(emit_op(s, "JUMP"), loop.top_label)
  IN define_labels([t EXCEPT !.loops = Front(@)], loop.bottom_labels)

(* Mutant: a loop left by break leaves its two values on the stack. *)
generate_exit_deep(s, kind, x) ==
  LET t == IF x = NoId THEN emit_extended(s, "EXIT")
           ELSE add_var_ref(emit_extended(s, "EXIT_ID"), x)
      l == LoopOf(s, x)
      depth == emit_byte(t, <<"stack", s.loops[l].top_stack>>)
  IN IF kind = "continue" THEN add_known_label(depth, s.loops[l].top_label)
     ELSE LET u == add_label(depth)
          IN [u EXCEPT !.loops[l].bottom_labels = @ \cup {Here(u)}]

generate_exit(s, kind, x) ==
  LET t == IF x = NoId THEN emit_extended(s, "EXIT")
           ELSE add_var_ref(emit_extended(s, "EXIT_ID"), x)
      l == LoopOf(s, x)
      depth(n) == emit_byte(t, <<"stack", n>>)
  IN IF kind = "continue"
     THEN add_known_label(depth(s.loops[l].top_stack), s.loops[l].top_label)
     ELSE LET u == add_label(depth(s.loops[l].bottom_stack))
          IN [u EXCEPT !.loops[l].bottom_labels = @ \cup {Here(u)}]

RECURSIVE generate_stmts(_, _, _), stmt_to_code(_, _, _)

generate_if(s, st, line) ==
  LET first(i) == line + FoldLeft(LAMBDA n, j : n + 1 + LinesOf(st[2][j][2]), 0,
                                  [j \in 1 .. i - 1 |-> j])
      arm(acc, i) ==
        LET c == add_label(emit_op(generate_expr(On(acc.s, first(i)), st[2][i][1]),
                                   IF i = 1 THEN "IF" ELSE "EIF"))
            b == generate_stmts(pop_stack(c, 1), st[2][i][2], first(i) + 1)
            j == add_label(emit_op(b, "JUMP"))
        IN [s |-> define_labels(j, {Here(c)}), ends |-> acc.ends \cup {Here(j)}]
      arms == FoldLeft(arm, [s |-> s, ends |-> {}], Numbered(st[2]))
  IN define_labels(generate_stmts(arms.s, st[3], first(Len(st[2]) + 1) + 1), arms.ends)

(* From the loop's opcode to its end; the places at bottom are popped. *)
generate_loop(s, x, top, body, line, under) ==
  LET e == add_label(s)
      l == enter_loop(e, x, top, e.cur_stack, Here(e), e.cur_stack - under)
  IN pop_stack(exit_loop(generate_stmts(l, body, line + 1)), under)

generate_fork(s, st, line) ==
  LET t == emit_op(generate_expr(s, st[3]), IF st[2] = NoId THEN "FORK" ELSE "FORK_WITH_ID")
      f == stmt_to_code(st[4], GState(t), line + 1)
      u == [t EXCEPT !.literals = f.g.literals, !.total_var_refs = f.g.total_var_refs,
                     !.fork_vectors = Append(f.g.fork_vectors, f.code)]
      v == emit_byte(u, <<"fork", Len(u.fork_vectors) - 1>>)
  IN pop_stack(IF st[2] = NoId THEN v ELSE add_var_ref(v, st[2]), 1)

generate_try(s, st, line) ==
  LET n == Len(st[3])
      first(i) == line + 1 + LinesOf(st[2])
                    + FoldLeft(LAMBDA k, j : k + 1 + LinesOf(st[3][j][3]), 0,
                               [j \in 1 .. i - 1 |-> j])
      guard(acc, i) ==
        LET t == add_label(emit_extended(generate_codes(On(acc.s, first(i)), st[3][i][2]),
                                         "PUSH_LABEL"))
        IN [s |-> push_stack(t, 1), at |-> Append(acc.at, Here(t))]
      guards == FoldLeft(guard, [s |-> s, at |-> <<>>], Numbered(st[3]))
      entry == push_stack(emit_number(emit_extended(On(guards.s, line), "TRY_EXCEPT"), n), 1)
      body == add_label(emit_extended(generate_stmts(entry, st[2], line + 1), "END_EXCEPT"))
      handler(acc, i) ==
        LET h == On(push_stack(define_labels(acc.s, {guards.at[i]}), 1), first(i))
            p == IF st[3][i][1] = NoId THEN h ELSE emit_var_op(h, "PUT", st[3][i][1])
            b == generate_stmts(pop_stack(emit_op(p, "POP"), 1), st[3][i][3], first(i) + 1)
            j == add_label(emit_op(b, "JUMP"))
        IN IF i = n THEN [acc EXCEPT !.s = b]
           ELSE [s |-> j, ends |-> acc.ends \cup {Here(j)}]
      handlers == FoldLeft(handler, [s |-> pop_stack(body, 2 * n + 1), ends |-> {Here(body)}],
                           Numbered(st[3]))
  IN define_labels(handlers.s, handlers.ends)

generate_finally(s, st, line) ==
  LET t == add_label(emit_extended(s, "TRY_FINALLY"))
      b == emit_extended(generate_stmts(push_stack(t, 1), st[2], line + 1), "END_FINALLY")
      h == push_stack(define_labels(pop_stack(b, 1), {Here(t)}), 2)
      f == generate_stmts(h, st[3], line + 2 + LinesOf(st[2]))
  IN pop_stack(emit_extended(f, "CONTINUE"), 2)

stmt_code(s, st, line) ==
  CASE st[1] = "if" -> generate_if(s, st, line)
    [] st[1] = "for" ->
         LET t == push_stack(emit_number(generate_expr(s, st[3]), 1), 1)
         IN generate_loop(add_var_ref(emit_op(t, "FOR_LIST"), st[2]),
                          st[2], Here(t), st[4], line, 2)
    [] st[1] = "range" ->
         LET t == generate_expr(generate_expr(s, st[3]), st[4])
         IN generate_loop(add_var_ref(emit_op(t, "FOR_RANGE"), st[2]),
                          st[2], Here(t), st[5], line, 2)
    [] st[1] = "while" ->
         LET t == generate_expr(s, st[3])
             u == IF st[2] = NoId THEN emit_op(t, "WHILE")
                  ELSE add_var_ref(emit_extended(t, "WHILE_ID"), st[2])
         IN generate_loop(pop_stack(u, 1), st[2], Here(s), st[4], line, 0)
    [] st[1] = "fork" -> generate_fork(s, st, line)
    [] st[1] = "expr" -> pop_stack(emit_op(generate_expr(s, st[2]), "POP"), 1)
    [] st[1] = "return" ->
         IF st[2] = <<>> THEN emit_op(s, "RETURN0")
         ELSE pop_stack(emit_op(generate_expr(s, st[2][1]), "RETURN"), 1)
    [] st[1] = "try" -> generate_try(s, st, line)
    [] st[1] = "finally" -> generate_finally(s, st, line)
    [] st[1] \in {"break", "continue"} -> generate_exit(s, st[1], st[2])

generate_stmt(s, st, line) == From(s, LAMBDA t : stmt_code(t, st, line))

generate_stmts(s, stmts, line) ==
  FoldLeft(LAMBDA acc, i : [s |-> generate_stmt(On(acc.s, acc.line), stmts[i], acc.line),
                            line |-> acc.line + LinesOf(<<stmts[i]>>)],
           [s |-> s, line |-> line], Numbered(stmts)).s

-----------------------------------------------------------------------------
ref_size(rmax) == IF rmax <= OneByte THEN 1 ELSE IF rmax <= OneByte * OneByte THEN 2 ELSE 4

LabelKinds == {"label", "pseudo"}

(* How many bytes the code for bytes b takes with operands of the widths w;
   the width of stack references is forgotten (num_stacks is never counted). *)
SizeOf(b, w) ==
  LET more(kind) == (w[kind] - 1) * Cardinality({i \in DOMAIN b : b[i][1] = kind})
  IN Len(b) + FoldSet(LAMBDA kind, n : n + more(kind), 0, DOMAIN w \ {"stack"})

(* Where the l-th byte has gone. *)
NewLabel(b, w, l) == SizeOf(SubSeq(b, 1, l), w)

(* The widths, the label's last: it depends on the size the others give. *)
Widths(s, g) ==
  LET b == s.bytes
      slots == {b[i][2] : i \in {j \in DOMAIN b : b[j][1] = "var"}}
      w == [literal |-> ref_size(Len(g.literals)), fork |-> ref_size(Len(g.fork_vectors)),
            var |-> ref_size(Max(slots \cup {g.total_var_refs})), stack |-> ref_size(s.max_stack)]
      labels == Cardinality({i \in DOMAIN b : b[i][1] \in LabelKinds})
      size == SizeOf(b, w)
      l == IF size <= OneByte THEN 1 ELSE IF size + labels <= OneByte * OneByte THEN 2 ELSE 4
  IN [label |-> l, pseudo |-> l] @@ w

(* FlattenSeq(ss), by halves: the vectors are too long for its recursion. *)
RECURSIVE Joined(_)
Joined(ss) ==
  LET half == Len(ss) \div 2
  IN CASE Len(ss) = 0 -> <<>>
       [] Len(ss) = 1 -> ss[1]
       [] OTHER -> Joined(SubSeq(ss, 1, half)) \o Joined(SubSeq(ss, half + 1, Len(ss)))

(* The final vector: offsets in it start at 0, its first byte is vector[1]. *)
stmt_to_code(stmts, g, line) ==
  LET s == emit_op(generate_stmts(init_state(g), stmts, line), "DONE")
      b == s.bytes
      w == Widths(s, GState(s))
      width(c) == IF c[1] \in DOMAIN w THEN w[c[1]] ELSE 1
      final(c) == IF c[1] = "label" THEN <<"label", NewLabel(b, w, c[2])>>
                  ELSE IF c[1] = "pseudo" THEN <<"label", c[2]>> ELSE c
      wide(c) == [i \in 1 .. width(c) - 1 |-> Pad] \o <<final(c)>>
      widen(i) == [k \in 1 .. width(b[i]) |-> s.notes[i]]
  IN [code |-> [vector |-> Joined([i \in DOMAIN b |-> wide(b[i])]), widths |-> w,
                size |-> SizeOf(b, w), max_stack |-> s.max_stack, balanced |-> s.cur_stack = 0,
                notes |-> Joined([i \in DOMAIN b |-> widen(i)])],
      g |-> GState(s)]

(* A program: its main vector, the vectors of its forks, its literals. *)
generate_code(stmts) ==
  LET g0 == [literals |-> <<>>, fork_vectors |-> <<>>, total_var_refs |-> 0]
      m  == stmt_to_code(stmts, g0, 1)
  IN [main_vector |-> m.code, fork_vectors |-> m.g.fork_vectors, literals |-> m.g.literals]

MAIN_VECTOR == -1

CodeOf(program, vector) ==
  IF vector = MAIN_VECTOR THEN program.main_vector ELSE program.fork_vectors[vector + 1]
=============================================================================
