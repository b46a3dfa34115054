----------------------------- MODULE Decompile -----------------------------
(***************************************************************************)
(* The decompiler, decompile.c: from a vector of bytes back to the tree of *)
(* statements, which is what verbs are listed and dumped from, and from a  *)
(* pc to its line, which is what tracebacks and callers() show.            *)
(*                                                                         *)
(* While a vector is read one byte may be hot, the one at the pc whose     *)
(* line is asked for.  An entry of the expression stack is <<e, hot>>; a   *)
(* statement or an arm that ends up with the hot byte is marked TOP,       *)
(* BOTTOM or ENDBODY.  panic is TRUE where the code calls panic().         *)
(*                                                                         *)
(* Left out: unparse.c, which prints the tree, and the parser.             *)
(***************************************************************************)
EXTENDS CodeGen

CONSTANT OP_PUSH_TEMP   \* the number of that opcode, 106


WidthIn(cx, kind) == IF kind \in DOMAIN cx.bc.widths THEN cx.bc.widths[kind] ELSE 1

ByteAt(cx, p) == IF p \in 0 .. cx.bc.size - 1 THEN cx.bc.vector[p + 1] ELSE Pad

(* The operand of that kind that starts at p. *)
OperandAt(cx, p, kind) == ByteAt(cx, p + WidthIn(cx, kind) - 1)[2]

(* What decompile() knows at byte ptr; left when it returns before the end. *)
Begin(from, es) ==
  [ptr |-> from, es |-> es, stmts |-> <<>>, arms |-> <<>>, start |-> from,
   asgn_hot |-> FALSE, left |-> FALSE, panic |-> FALSE]

P(d, i) == d.es[Len(d.es) + 1 - i]

Kid(d, i) == P(d, i)[1]

Hot(d, n) == \E i \in 1 .. n : P(d, i)[2]

Popped(d, n) == [d EXCEPT !.es = SubSeq(@, 1, Len(@) - n)]

(* n entries become e; hot if the opcode or one of them is. *)
Combine(d, hot, n, e, ptr) ==
  [d EXCEPT !.es = Append(SubSeq(@, 1, Len(@) - n), <<e, hot \/ Hot(d, n)>>), !.ptr = ptr]

Marked(hot, at) == IF hot THEN at ELSE ""

(* ADD_STMT *)
AddStmt(d, s, ptr) == [d EXCEPT !.stmts = Append(@, s), !.ptr = ptr, !.start = ptr]

Checked(d, ok) == [d EXCEPT !.panic = @ \/ ~ok]

(* d goes on where b, a part it decompiled, has come to. *)
After(d, b) == [d EXCEPT !.ptr = b.ptr, !.es = b.es, !.panic = @ \/ b.panic]

(* The jump at ptr: one byte for the opcode, and the label. *)
JumpsTo(cx, p, label) ==
  ByteAt(cx, p) = <<"op", "JUMP">> /\ OperandAt(cx, p + 1, "label") = label

JumpLen(cx) == WidthIn(cx, "label") + 1

IsExt(cx, p, eop) == ByteAt(cx, p) = <<"op", "EXTENDED">> /\ ByteAt(cx, p + 1) = <<"ext", eop>>

Codes(e) == IF e[1] = "list" THEN e[2] ELSE <<>>

IsCodes(e) == e[1] = "list" \/ e = <<"lit", Num(0)>>

IsLabel(e) == e[1] = "lit" /\ e[2][1] = "int"

-----------------------------------------------------------------------------
RECURSIVE decompile(_, _, _, _)

(* A loop's body and the jump that ends it, back to top. *)
LoopBody(cx, d, n, ptr, done, top) ==
  LET b == decompile(cx, ptr, done - JumpLen(cx), Popped(d, n).es)
  IN [body |-> b.stmts, hot |-> b.ptr = cx.hot,
      d |-> Checked([After(d, b) EXCEPT !.ptr = b.ptr + JumpLen(cx)], JumpsTo(cx, b.ptr, top))]

LoopMark(d, l, n, hot) ==
  IF l.hot THEN "BOTTOM" ELSE Marked(hot \/ Hot(d, n), "TOP")

decompile_if(cx, d, first) ==
  LET hot == d.ptr = cx.hot
      next == OperandAt(cx, d.ptr + 1, "label")
      b == decompile(cx, d.ptr + 1 + WidthIn(cx, "label"), next - JumpLen(cx), Popped(d, 1).es)
      done == OperandAt(cx, b.ptr + 1, "label")
      arm == <<Kid(d, 1), b.stmts, IF b.ptr = cx.hot THEN "BOTTOM" ELSE Marked(hot \/ Hot(d, 1), "TOP")>>
      t == Checked([After(d, b) EXCEPT !.ptr = b.ptr + JumpLen(cx)],
                   JumpsTo(cx, b.ptr, done))
      rest == decompile(cx, t.ptr, done, t.es)
  IN IF first THEN AddStmt(After(t, rest), <<"if", <<arm>> \o rest.arms, rest.stmts, "">>, rest.ptr)
     ELSE [t EXCEPT !.arms = Append(@, arm), !.start = t.ptr]

decompile_for(cx, d, kind) ==
  LET p == d.ptr + 1
      q == p + WidthIn(cx, "var")
      id == OperandAt(cx, p, "var")
      l == LoopBody(cx, d, 2, q + WidthIn(cx, "label"), OperandAt(cx, q, "label"), d.ptr)
      m == LoopMark(d, l, 2, d.ptr = cx.hot)
  IN IF kind = "for"
     THEN Checked(AddStmt(l.d, <<"for", id, Kid(d, 2), l.body, m>>, l.d.ptr),
                  Kid(d, 1) = <<"lit", Num(1)>>)
     ELSE AddStmt(l.d, <<"range", id, Kid(d, 2), Kid(d, 1), l.body, m>>, l.d.ptr)

(* Where p is past the opcode and the loop's name. *)
decompile_while(cx, d, id, p) ==
  LET l == LoopBody(cx, d, 1, p + WidthIn(cx, "label"), OperandAt(cx, p, "label"), d.start)
  IN AddStmt(l.d, <<"while", id, Kid(d, 1), l.body, LoopMark(d, l, 1, d.ptr = cx.hot)>>, l.d.ptr)

decompile_fork(cx, d, named) ==
  LET p == d.ptr + 1
      f == OperandAt(cx, p, "fork")
      q == p + WidthIn(cx, "fork")
      fbc == cx.program.fork_vectors[f + 1]
      inner == [cx EXCEPT !.bc = fbc, !.hot = IF cx.hotvec = f THEN cx.hotpc ELSE -1]
      b == decompile(inner, 0, fbc.size, <<>>)
      m == IF inner.hot = fbc.size - 1 THEN "BOTTOM" ELSE Marked(d.ptr = cx.hot \/ Hot(d, 1), "TOP")
  IN AddStmt(Checked(Popped(d, 1), ~b.panic),
             <<"fork", IF named THEN OperandAt(cx, q, "var") ELSE NoId, Kid(d, 1), b.stmts, m>>,
             IF named THEN q + WidthIn(cx, "var") ELSE q)

(* A part of an expression that runs from ptr to label. *)
decompile_to(cx, d, ptr, label) ==
  LET b == decompile(cx, ptr, label, d.es) IN Checked(After(d, b), b.ptr = label)

decompile_and_or(cx, d, kind) ==
  LET p == d.ptr + 1
      b == decompile_to(cx, d, p + WidthIn(cx, "label"), OperandAt(cx, p, "label"))
  IN Combine(b, d.ptr = cx.hot, 2, <<kind, Kid(b, 2), Kid(b, 1)>>, b.ptr)

decompile_cond(cx, d) ==
  LET p == d.ptr + 1
      b == decompile_to(cx, d, p + WidthIn(cx, "label"), OperandAt(cx, p, "label") - JumpLen(cx))
      done == OperandAt(cx, b.ptr + 1, "label")
      c == decompile_to(cx, b, b.ptr + JumpLen(cx), done)
  IN Checked(Combine(c, d.ptr = cx.hot \/ b.ptr = cx.hot, 3,
                     <<"cond", Kid(c, 3), Kid(c, 2), Kid(c, 1)>>, c.ptr),
             JumpsTo(cx, b.ptr, done))

(* The instructions after INDEXSET or RANGESET, up to PUSH_TEMP, say nothing
   new.  The code looks for a byte that is that opcode's number; if it meets
   the hot one, it takes the stale entry above the stack for hot. *)
IsPushTemp(b) == b = <<"op", "PUSH_TEMP">> \/ (b[1] = "var" /\ b[2] % OneByte = OP_PUSH_TEMP)

finish_indexed_assignment(cx, d, ptr) ==
  LET ends == {p \in ptr .. cx.bc.size - 1 : IsPushTemp(ByteAt(cx, p))}
  IN [d EXCEPT !.asgn_hot = FALSE, !.ptr = Min(ends) + 1]

decompile_indexset(cx, d) ==
  finish_indexed_assignment(cx,
    Combine(d, d.ptr = cx.hot \/ d.asgn_hot, 3,
            <<"asgn", <<"index", Kid(d, 3), Kid(d, 2)>>, Kid(d, 1)>>, d.ptr), d.ptr + 1)

decompile_rangeset(cx, d) ==
  finish_indexed_assignment(cx,
    Combine(d, d.ptr = cx.hot \/ d.asgn_hot, 4,
            <<"asgn", <<"range", Kid(d, 4), Kid(d, 3), Kid(d, 2)>>, Kid(d, 1)>>, d.ptr), d.ptr + 2)

decompile_scatter(cx, d) ==
  LET n == ByteAt(cx, d.ptr + 2)[2]
      rest == ByteAt(cx, d.ptr + 4)[2]
      w == WidthIn(cx, "var") + WidthIn(cx, "label")
      at(i) == d.ptr + 5 + (i - 1) * w
      label(i) == OperandAt(cx, at(i) + WidthIn(cx, "var"), "label")
      end == d.ptr + 5 + n * w
      done == OperandAt(cx, end, "label")
      next(i) == Min({label(j) : j \in {k \in i + 1 .. n : label(k) > 1}} \cup {done})
      target(i) == <<IF i = rest THEN "rest" ELSE IF label(i) = 0 THEN "required" ELSE "optional",
                     OperandAt(cx, at(i), "var"), <<>>>>
      default(acc, i) ==
        IF label(i) <= 1 THEN [acc EXCEPT !.sc = Append(@, target(i))]
        ELSE LET b == decompile_to(cx, acc.d, acc.d.ptr, next(i) - 1)
                 e == Kid(b, 1)
             IN [sc |-> Append(acc.sc, [target(i) EXCEPT ![3] = <<e[3]>>]),
                 hot |-> acc.hot \/ Hot(b, 1) \/ b.ptr = cx.hot,
                 d |-> Checked([Popped(b, 1) EXCEPT !.ptr = b.ptr + 1],
                               /\ acc.d.ptr = label(i) /\ ByteAt(cx, b.ptr) = <<"op", "POP">>
                               /\ e[1] = "asgn" /\ e[2] = <<"id", target(i)[2]>>)]
      r == FoldLeft(default,
                    [sc |-> <<>>, hot |-> d.ptr = cx.hot,
                     d |-> [d EXCEPT !.ptr = end + WidthIn(cx, "label")]], Numbered([i \in 1 .. n |-> i]))
  IN Checked(Combine(r.d, r.hot, 1, <<"asgn", <<"scatter">> \o r.sc, Kid(r.d, 1)>>, r.d.ptr),
             r.d.ptr = done)

(* A hot CATCH is not stepped over: the code then misses END_CATCH. *)
decompile_catch(cx, d) ==
  LET hot == d.ptr = cx.hot
      b == decompile(cx, d.ptr + 2, cx.bc.size, Popped(d, 2).es)
      done == OperandAt(cx, b.ptr + 2, "label")
      handler == b.ptr + 2 + WidthIn(cx, "label")
      t == Checked(After(d, b), /\ ~hot /\ IsExt(cx, b.ptr, "END_CATCH")
                                /\ Kid(d, 1) = <<"lit", Num(handler)>> /\ IsCodes(Kid(d, 2)))
      x == IF ByteAt(cx, handler) = <<"op", "POP">> THEN decompile_to(cx, t, handler + 1, done)
           ELSE Checked([t EXCEPT !.ptr = handler + 2],
                        /\ ByteAt(cx, handler) = <<"num", 1>>
                        /\ ByteAt(cx, handler + 1) = <<"op", "REF">> /\ handler + 2 = done)
      within == Len(x.es) - Len(t.es)      \* 1 if there is a default
      e == <<"catch", Kid(t, 1), Codes(Kid(d, 2)),
             IF within = 1 THEN <<Kid(x, 1)>> ELSE <<>>>>
      here == cx.hot \in {b.ptr, handler} \/ (within = 0 /\ cx.hot = handler + 1)
  IN Combine(x, here \/ Hot(d, 2), 1 + within, e, x.ptr)

decompile_try(cx, d) ==
  LET n == ByteAt(cx, d.ptr + 2)[2]
      codes(i) == P(d, 2 * (n - i) + 2)
      label(i) == P(d, 2 * (n - i) + 1)
      b == decompile(cx, d.ptr + 3, cx.bc.size, Popped(d, 2 * n).es)
      done == OperandAt(cx, b.ptr + 2, "label")
      m == IF b.ptr = cx.hot THEN "ENDBODY" ELSE Marked(d.ptr = cx.hot, "TOP")
      handler(acc, i) ==
        LET p == acc.d.ptr
            short == ByteAt(cx, p)[1] = "PUT"
            named == short \/ ByteAt(cx, p) = <<"op", "G_PUT">>
            id == IF short THEN ByteAt(cx, p)[2] ELSE OperandAt(cx, p + 1, "var")
            pop == IF short THEN p + 1 ELSE IF named THEN p + 1 + WidthIn(cx, "var") ELSE p
            stop == IF i = n THEN done ELSE label(i + 1)[1][2][2] - JumpLen(cx)
            h == decompile(cx, pop + 1, stop, acc.d.es)
            mark == IF i < n /\ h.ptr = cx.hot THEN "BOTTOM"
                    ELSE Marked(cx.hot \in {p, pop} \/ codes(i)[2] \/ label(i)[2], "TOP")
        IN [arms |-> Append(acc.arms, <<IF named THEN id ELSE NoId, Codes(codes(i)[1]), h.stmts, mark>>),
            d |-> Checked([After(acc.d, h) EXCEPT !.ptr = IF i = n THEN h.ptr ELSE h.ptr + JumpLen(cx)],
                          /\ label(i)[1] = <<"lit", Num(p)>> /\ ByteAt(cx, pop) = <<"op", "POP">>
                          /\ IsCodes(codes(i)[1]) /\ (i < n => JumpsTo(cx, h.ptr, done)))]
      r == FoldLeft(handler,
                    [arms |-> <<>>,
                     d |-> Checked([After(d, b) EXCEPT !.ptr = b.ptr + 2 + WidthIn(cx, "label")],
                                   IsExt(cx, b.ptr, "END_EXCEPT"))], [i \in 1 .. n |-> i])
  IN Checked(AddStmt(r.d, <<"try", b.stmts, r.arms, m>>, r.d.ptr), r.d.ptr = done)

decompile_finally(cx, d) ==
  LET label == OperandAt(cx, d.ptr + 2, "label")
      b == decompile(cx, d.ptr + 2 + WidthIn(cx, "label"), cx.bc.size, d.es)
      h == decompile(cx, b.ptr + 2, cx.bc.size, b.es)
      m == IF h.ptr = cx.hot THEN "BOTTOM" ELSE IF b.ptr = cx.hot THEN "ENDBODY"
           ELSE Marked(d.ptr = cx.hot, "TOP")
  IN Checked(AddStmt(After(After(d, b), h), <<"finally", b.stmts, h.stmts, m>>, h.ptr + 2),
             /\ IsExt(cx, b.ptr, "END_FINALLY") /\ b.ptr + 2 = label
             /\ IsExt(cx, h.ptr, "CONTINUE"))

decompile_exit(cx, d, named) ==
  LET p == IF named THEN d.ptr + 2 + WidthIn(cx, "var") ELSE d.ptr + 2
      q == p + WidthIn(cx, "stack")
      next == q + WidthIn(cx, "label")
  IN AddStmt(d, <<IF OperandAt(cx, q, "label") < next THEN "continue" ELSE "break",
                  IF named THEN OperandAt(cx, d.ptr + 2, "var") ELSE NoId,
                  Marked(d.ptr = cx.hot, "TOP")>>, next)

BinaryOps == {"EQ", "NE", "LT", "LE", "GT", "GE", "IN", "ADD", "MINUS", "MULT", "DIV", "MOD"}

(* Mutant: an argument that is spliced in is listed as any other. *)
decompile_list_unspliced(d, hot, kind) ==
  Combine(d, hot, 2, <<"list", Append(Kid(d, 2)[2], <<"normal", Kid(d, 1)>>)>>, d.ptr + 1)

(* One more argument for the list under it. *)
decompile_list(d, hot, kind) ==
  Checked(Combine(d, hot, 2, <<"list", Append(Kid(d, 2)[2], <<kind, Kid(d, 1)>>)>>, d.ptr + 1),
          Kid(d, 2)[1] = "list")

decompile_extended(cx, d) ==
  LET eop == ByteAt(cx, d.ptr + 1)[2]
      hot == d.ptr = cx.hot
  IN CASE eop = "RANGESET" -> decompile_rangeset(cx, d)
       [] eop = "LENGTH" -> Combine(d, hot, 0, <<"length">>, d.ptr + 2 + WidthIn(cx, "stack"))
       [] eop = "EXP" -> Combine(d, hot, 2, <<"bin", "EXP", Kid(d, 2), Kid(d, 1)>>, d.ptr + 2)
       [] eop = "SCATTER" -> decompile_scatter(cx, d)
       [] eop = "PUSH_LABEL" ->
            Combine(d, hot, 0, <<"lit", Num(OperandAt(cx, d.ptr + 2, "label"))>>,
                    d.ptr + 2 + WidthIn(cx, "label"))
       [] eop = "CATCH" -> decompile_catch(cx, d)
       [] eop = "TRY_EXCEPT" -> decompile_try(cx, d)
       [] eop = "TRY_FINALLY" -> decompile_finally(cx, d)
       [] eop \in {"END_CATCH", "END_EXCEPT", "END_FINALLY", "CONTINUE"} ->
            [d EXCEPT !.left = TRUE]
       [] eop = "WHILE_ID" -> decompile_while(cx, d, OperandAt(cx, d.ptr + 2, "var"),
                                              d.ptr + 2 + WidthIn(cx, "var"))
       [] eop \in {"EXIT", "EXIT_ID"} -> decompile_exit(cx, d, eop = "EXIT_ID")
       [] OTHER -> Checked(d, FALSE)

decompile_op(cx, d, op) ==
  LET hot == d.ptr = cx.hot
      p == d.ptr + 1
      next(kind) == p + WidthIn(cx, kind)
  IN CASE op = "IF" -> decompile_if(cx, d, TRUE)
       [] op = "EIF" -> decompile_if(cx, d, FALSE)
       [] op = "FOR_LIST" -> decompile_for(cx, d, "for")
       [] op = "FOR_RANGE" -> decompile_for(cx, d, "range")
       [] op = "WHILE" -> decompile_while(cx, d, NoId, p)
       [] op \in {"FORK", "FORK_WITH_ID"} -> decompile_fork(cx, d, op = "FORK_WITH_ID")
       [] op = "POP" -> AddStmt(Popped(d, 1), <<"expr", Kid(d, 1), Marked(hot \/ Hot(d, 1), "TOP")>>, p)
       [] op = "RETURN" -> AddStmt(Popped(d, 1), <<"return", <<Kid(d, 1)>>,
                                                   Marked(hot \/ Hot(d, 1), "TOP")>>, p)
       [] op = "RETURN0" -> AddStmt(d, <<"return", <<>>, Marked(hot, "TOP")>>, p)
       [] op = "DONE" -> Checked([d EXCEPT !.ptr = p], p = cx.bc.size)
       [] op = "IMM" -> Combine(d, hot, 0, <<"lit", cx.program.literals[OperandAt(cx, p, "literal") + 1]>>,
                                next("literal"))
       [] op = "G_PUSH" -> Combine(d, hot, 0, <<"id", OperandAt(cx, p, "var")>>, next("var"))
       [] op = "G_PUT" -> Combine(d, hot, 1, <<"asgn", <<"id", OperandAt(cx, p, "var")>>, Kid(d, 1)>>,
                                  next("var"))
       [] op \in {"AND", "OR"} -> decompile_and_or(cx, d, IF op = "AND" THEN "and" ELSE "or")
       [] op \in {"UNARY_MINUS", "NOT"} -> Combine(d, hot, 1, <<"un", op, Kid(d, 1)>>, p)
       [] op \in {"GET_PROP", "PUSH_GET_PROP"} ->
            Combine(d, hot, 2, <<"bin", "GET_PROP", Kid(d, 2), Kid(d, 1)>>, p)
       [] op \in {"REF", "PUSH_REF"} -> Combine(d, hot, 2, <<"index", Kid(d, 2), Kid(d, 1)>>, p)
       [] op \in BinaryOps -> Combine(d, hot, 2, <<"bin", op, Kid(d, 2), Kid(d, 1)>>, p)
       [] op = "RANGE_REF" -> Combine(d, hot, 3, <<"range", Kid(d, 3), Kid(d, 2), Kid(d, 1)>>, p)
       [] op = "BI_FUNC_CALL" ->
            Checked(Combine(d, hot, 1, <<"call", ByteAt(cx, p)[2], Kid(d, 1)[2]>>, p + 1),
                    Kid(d, 1)[1] = "list")
       [] op = "CALL_VERB" ->
            Checked(Combine(d, hot, 3, <<"verb", Kid(d, 3), Kid(d, 2), Kid(d, 1)[2]>>, p),
                    Kid(d, 1)[1] = "list")
       [] op = "IF_QUES" -> decompile_cond(cx, d)
       [] op = "PUT_TEMP" -> [d EXCEPT !.asgn_hot = @ \/ hot, !.ptr = p]
       [] op = "INDEXSET" -> decompile_indexset(cx, d)
       [] op = "PUT_PROP" ->
            Combine(d, hot, 3, <<"asgn", <<"bin", "GET_PROP", Kid(d, 3), Kid(d, 2)>>, Kid(d, 1)>>, p)
       [] op = "MAKE_EMPTY_LIST" -> Combine(d, hot, 0, <<"list", <<>>>>, p)
       [] op = "MAKE_SINGLETON_LIST" -> Combine(d, hot, 1, <<"list", <<<<"normal", Kid(d, 1)>>>>>>, p)
       [] op = "CHECK_LIST_FOR_SPLICE" -> Combine(d, hot, 1, <<"list", <<<<"splice", Kid(d, 1)>>>>>>, p)
       [] op \in {"LIST_ADD_TAIL", "LIST_APPEND"} ->
            decompile_list(d, hot, IF op = "LIST_APPEND" THEN "splice" ELSE "normal")
       [] op = "EXTENDED" -> decompile_extended(cx, d)
       [] OTHER -> Checked(d, FALSE)

decompile_byte(cx, d) ==
  LET b == ByteAt(cx, d.ptr)
      hot == d.ptr = cx.hot
  IN CASE b[1] = "PUSH" -> Combine(d, hot, 0, <<"id", b[2]>>, d.ptr + 1)
       [] b[1] = "PUT" -> Combine(d, hot, 1, <<"asgn", <<"id", b[2]>>, Kid(d, 1)>>, d.ptr + 1)
       [] b[1] = "num" -> Combine(d, hot, 0, <<"lit", Num(b[2])>>, d.ptr + 1)
       [] b[1] = "op" -> decompile_op(cx, d, b[2])
       [] OTHER -> Checked(d, FALSE)

RECURSIVE Decompiled(_, _, _)
Decompiled(cx, d, end) ==
  IF d.ptr >= end \/ d.left \/ d.panic THEN Checked(d, d.left \/ d.ptr = end)
  ELSE Decompiled(cx, decompile_byte(cx, d), end)

(* From byte start to end, or to the instruction only the caller knows. *)
decompile(cx, start, end, es) == Decompiled(cx, Begin(start, es), end)

-----------------------------------------------------------------------------
program_to_tree(program, vector, hotvec, hotpc) ==
  LET bc == CodeOf(program, vector)
  IN decompile([program |-> program, bc |-> bc, hotvec |-> hotvec, hotpc |-> hotpc,
                hot |-> IF hotvec = vector THEN hotpc ELSE -1], 0, bc.size, <<>>)

decompile_program(program, vector) == program_to_tree(program, vector, MAIN_VECTOR, -1)

MarkOf(x) == x[Len(x)]

(* Mutant: the line with else is not counted. *)
OtherwiseLine_missed(line) == line

OtherwiseLine(line) == line + 1

(* The line of the mark in stmts, the first of which is on the given line;
   found is FALSE and the line is the one after them if there is none. *)
RECURSIVE find_hot_node(_, _)
find_hot_node(stmts, line) ==
  LET at(n) == [found |-> TRUE, line |-> n]
      on(n) == [found |-> FALSE, line |-> n]
      inside(body, n) == find_hot_node(body, n)
      arm(acc, a) ==      \* of an if or a try: its line, its body
        LET b == inside(a[Len(a) - 1], acc.line + 1)
        IN IF acc.found THEN acc
           ELSE IF MarkOf(a) = "TOP" THEN at(acc.line)
           ELSE IF ~b.found /\ MarkOf(a) = "BOTTOM" THEN at(b.line - 1) ELSE b
      within(s, line0) ==
        CASE s[1] = "if" ->
               LET arms == FoldLeft(arm, on(line0), s[2])
               IN IF arms.found \/ s[3] = <<>> THEN arms
                  ELSE inside(s[3], OtherwiseLine(arms.line))
          [] s[1] \in {"for", "while", "fork"} -> inside(s[4], line0 + 1)
          [] s[1] = "range" -> inside(s[5], line0 + 1)
          [] s[1] = "try" ->
               LET b == inside(s[2], line0 + 1)
               IN IF b.found THEN b
                  ELSE IF MarkOf(s) = "ENDBODY" THEN at(b.line - 1)
                  ELSE FoldLeft(arm, b, s[3])
          [] s[1] = "finally" ->
               LET b == inside(s[2], line0 + 1)
               IN IF b.found THEN b
                  ELSE IF MarkOf(s) = "ENDBODY" THEN at(b.line)
                  ELSE inside(s[3], b.line + 1)
          [] OTHER -> on(line0)
      stmt(acc, s) ==
        LET w == within(s, acc.line)
        IN IF acc.found THEN acc
           ELSE IF MarkOf(s) = "TOP" THEN at(acc.line)
           ELSE IF w.found THEN w
           ELSE IF MarkOf(s) = "BOTTOM" THEN at(w.line) ELSE on(w.line + 1)
  IN FoldLeft(stmt, on(line), stmts)

(* The line of the instruction at pc; 0 where the code panics. *)
find_line_number(program, vector, pc) ==
  LET d == program_to_tree(program, MAIN_VECTOR, vector, pc)
  IN IF d.panic THEN 0 ELSE find_hot_node(d.stmts, 1).line
=============================================================================
