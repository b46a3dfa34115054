---------------------------- MODULE Interpreter ----------------------------
(***************************************************************************)
(* The interpreter, execute.c: run() takes one instruction after another   *)
(* from the topmost activation, unwind_stack() leaves activations and      *)
(* statements on errors, returns, exits and aborts, built-in functions     *)
(* call verbs and get back their values, tasks fork and suspend, and       *)
(* run_interpreter() hands what went wrong to a verb of #0.                *)
(*                                                                         *)
(* vm holds the globals of execute.c, with the properties of objects and   *)
(* what the player was told.  An action is an opcode; Now is vm once its   *)
(* byte is fetched.  Labels and pcs are offsets from 0, as in the code.    *)
(*                                                                         *)
(* Left out: who may do what (no programmer here is a wizard), waifs but   *)
(* for their index verbs, floating point, built-in properties.  Objects    *)
(* and their verbs do not change.  The variables of a verb that are always *)
(* there are this, caller, verb and args; the others are alike.            *)
(***************************************************************************)
EXTENDS Decompile

CONSTANTS
  Texts,       \* the programs: of each, its statements
  ObjectCodes, RereadCodes,    \* what they are compiled to, from source and from a dump
  Parsed,      \* the program each string given to eval() is
  Unflagged,   \* the programs of verbs without the d flag
  Parent,      \* of each valid object
  Verb,        \* the program of each <<object, name>> that is a verb
  Readable, Writable,    \* the properties, <<object, name>>, the programmer may
  Protected,   \* the built-in functions that go to #0:bf_... first
  Slots,       \* the variables of a program
  max_stack_depth,
  Handler      \* the handler verbs #0 has, and the program of each

SYSTEM_OBJECT == 0
NOTHING       == -1

SLOT_THIS   == 0
SLOT_CALLER == 1
SLOT_VERB   == 2
SLOT_ARGS   == 3

WAIF_VERB_PREFIX   == ":"
waif_index_verb    == <<":", "_index">>
waif_indexset_verb == <<":", "_set_index">>

Waif(class) == <<"waif", class>>

(* What sources are compiled to; then again, once a dump is read back. *)
Compiles(sources) == [i \in DOMAIN sources |-> generate_code(sources[i])]

VectorsOf(codes) ==
  UNION {{<<i, f>> : f \in MAIN_VECTOR .. Len(codes[i].fork_vectors) - 1} : i \in DOMAIN codes}

CompilesAgain(codes) ==
  [p \in VectorsOf(codes) |-> generate_code(decompile_program(codes[p[1]], p[2]).stmts)]

(* TLC computes a definition once, the value of a constant each time. *)
Sources == Texts
Compiled == ObjectCodes
Reread == RereadCodes

ASSUME CompilerAssumption == Compiled = Compiles(Sources) /\ Reread = CompilesAgain(Compiled)

(* A program is <<i>>, source i as it was compiled at first, or <<i, f>>, what
   was read from a dump: all of source i, or its fork vector f alone. *)
Program(p) == IF Len(p) = 1 THEN Compiled[p[1]] ELSE Reread[p]

VARIABLES
  vm,       \* the interpreter
  tasks     \* forked and suspended tasks that wait

ip_vars == <<vm, tasks>>

-----------------------------------------------------------------------------
(* Activations *)

Top(v) == Last(v.activ_stack)

WithTop(v, a) == [v EXCEPT !.activ_stack[Len(v.activ_stack)] = a]

Pushed(v, x) == WithTop(v, [Top(v) EXCEPT !.rts = Append(@, x)])

VectorOf(v, i) ==
  CodeOf(Program(v.activ_stack[i].prog), IF i = 1 THEN v.root_activ_vector ELSE MAIN_VECTOR)

Bc == VectorOf(vm, Len(vm.activ_stack))

fresh(prog, this, verb, vloc, env) ==
  [prog |-> prog, pc |-> 0, error_pc |-> 0, rts |-> <<>>, temp |-> None, bi |-> <<>>,
   env |-> env, THISOBJ |-> this, verb |-> verb, vloc |-> vloc,
   debug |-> prog[1] \notin Unflagged]

rt_env(this, caller, verb, args) ==
  [s \in Slots |-> CASE s = SLOT_THIS -> this   [] s = SLOT_CALLER -> caller
                     [] s = SLOT_VERB -> verb   [] s = SLOT_ARGS -> args
                     [] OTHER -> None]

valid(o) == o \in DOMAIN Parent

(* The nearest object, from o up, with a verb of that name; NOTHING if none. *)
db_find_callable_verb(o, name) ==
  LET find[p \in DOMAIN Parent \cup {NOTHING}] ==
        IF p = NOTHING \/ <<p, name>> \in DOMAIN Verb THEN p ELSE find[Parent[p]]
  IN find[o]

push_activation(v, a) == [v EXCEPT !.activ_stack = Append(@, a)]

(* The verb called from the top activation, or Raise and v unchanged. *)
call_verb2(v, where, name, this, args) ==
  LET definer == db_find_callable_verb(where, name)
      shown == IF name[1] = WAIF_VERB_PREFIX THEN Tail(name) ELSE name
  IN IF ~valid(where) THEN Raise("E_INVIND")
     ELSE IF definer = NOTHING THEN Raise("E_VERBNF")
     ELSE IF Len(v.activ_stack) >= max_stack_depth THEN Raise("E_MAXREC")
     ELSE <<"called",
            push_activation(v, fresh(<<Verb[definer, name]>>, this, name, definer,
                                     rt_env(this, Top(v).THISOBJ, Str(shown), args)))>>

setup_activ_for_eval(v, prog) ==
  push_activation(v, [fresh(prog, Obj(NOTHING), <<>>, NOTHING,
                            rt_env(Obj(NOTHING), Top(v).THISOBJ, Str(<<>>), List(<<>>)))
                      EXCEPT !.debug = TRUE])

(* What callers() and tracebacks show: the verbs, and the built-in functions
   that called them, from the top one down to activation start. *)
make_stack_list(v, start, include_end) ==
  LET n == Len(v.activ_stack)
      entry(i) ==
        LET a == v.activ_stack[i]
        IN (IF i # n \/ include_end THEN <<List(<<a.THISOBJ, Str(a.verb), Obj(a.vloc)>>)>>
            ELSE <<>>)
             \o (IF i # start /\ a.bi # <<>>
                 THEN <<List(<<Obj(NOTHING), Str(<<a.bi[1]>>), Obj(NOTHING)>>)>> ELSE <<>>)
  IN List(FoldLeft(LAMBDA s, i : s \o entry(n + 1 - i), <<>>, [i \in 1 .. n + 1 - start |-> i]))

-----------------------------------------------------------------------------
(* Built-in functions: what each returns is a package, vm included. *)

return_pack(v, x) == [kind |-> "BI_RETURN", vm |-> v, ret |-> x]

make_raise_pack(v, code, msg, value) ==
  [kind |-> "BI_RAISE", vm |-> v, code |-> code, msg |-> msg, value |-> value]

make_error_pack(v, e) == make_raise_pack(v, Err(e), Str(<<e>>), Num(0))

make_call_pack(v, pc, data) == [kind |-> "BI_CALL", vm |-> v, pc |-> pc, data |-> data]

tail_call_pack(v) == make_call_pack(v, 0, <<>>)

result_pack(v, x) == IF Raises(x) THEN make_error_pack(v, x[2]) ELSE return_pack(v, x)

ListFunctions ==
  [listinsert |-> <<2, 3, <<"list", "any", "int">>>>, listdelete |-> <<2, 2, <<"list", "int">>>>,
   listappend |-> <<2, 3, <<"list", "any", "int">>>>, setadd |-> <<2, 2, <<"list", "any">>>>,
   listset |-> <<3, 3, <<"list", "any", "int">>>>, setremove |-> <<2, 2, <<"list", "any">>>>,
   length |-> <<1, 1, <<"any">>>>, is_member |-> <<2, 2, <<"any", "list">>>>,
   equal |-> <<2, 2, <<"any", "any">>>>, enlist |-> <<1, 1, <<"any">>>>,
   assoc |-> <<2, 3, <<"any", "list", "int">>>>, iassoc |-> <<2, 3, <<"any", "list", "int">>>>,
   remove_duplicates |-> <<1, 1, <<"list">>>>]

(* The least and most arguments (-1: no limit) and the types of those. *)
bf_table ==
  [raise |-> <<1, 3, <<"any", "str", "any">>>>, suspend |-> <<0, 1, <<"int">>>>,
   pass |-> <<0, -1, <<>>>>, eval |-> <<1, 1, <<"str">>>>,
   call_function |-> <<1, -1, <<"str">>>>, notify |-> <<1, 1, <<"any">>>>,
   callers |-> <<0, 0, <<>>>>, kill_task |-> <<0, 0, <<>>>>] @@ ListFunctions

bf_raise(v, args) ==
  make_raise_pack(v, args[1], IF Len(args) >= 2 THEN args[2] ELSE Str(<<args[1][2]>>),
                  IF Len(args) >= 3 THEN args[3] ELSE Num(0))

bf_suspend(v, args) ==
  IF Len(args) >= 1 /\ args[1][2] < 0 THEN make_error_pack(v, "E_INVARG")
  ELSE [kind |-> "BI_SUSPEND", vm |-> v]

passed_pack(v, r) == IF Raises(r) THEN make_error_pack(v, r[2]) ELSE tail_call_pack(r[2])

bf_pass(v, args) ==
  LET a == Top(v)
  IN passed_pack(v, IF valid(a.vloc) THEN call_verb2(v, Parent[a.vloc], a.verb, a.THISOBJ, List(args))
                    ELSE Raise("E_INVIND"))

(* Strings that parse to no program are those not in Parsed. *)
bf_eval(v, args, next) ==
  IF next = 2 THEN return_pack(v, List(<<Num(1), args>>))
  ELSE IF args[1][2] \notin DOMAIN Parsed
  THEN return_pack(v, List(<<Num(0), List(<<>>)>>))
  ELSE IF Len(v.activ_stack) >= max_stack_depth THEN make_error_pack(v, "E_MAXREC")
  ELSE make_call_pack(setup_activ_for_eval(v, <<Parsed[args[1][2]]>>), 2, <<>>)

(* Built-in functions but call_function(); args is what a verb returned if they
   are called again, next > 1. *)
the_function(v, f, args, next) ==
  CASE f = "raise"     -> bf_raise(v, args)
    [] f = "suspend"   -> bf_suspend(v, args)
    [] f = "pass"      -> bf_pass(v, args)
    [] f = "eval"      -> bf_eval(v, args, next)
    [] f = "notify"    -> return_pack([v EXCEPT !.told = Append(@, args[1])], Num(0))
    [] f = "callers"   -> return_pack(v, make_stack_list(v, 1, FALSE))
    [] f = "kill_task" -> [kind |-> "BI_KILL", vm |-> v]
    [] OTHER -> result_pack(v, ListFunction(f, args))

(* The call of #0:bf_f, if there is such a verb. *)
protected_pack(v, called) ==
  IF ~Raises(called) THEN tail_call_pack(called[2])
  ELSE make_error_pack(v, IF called[2] = "E_MAXREC" THEN "E_MAXREC" ELSE "E_PERM")

(* What is wrong with the number of arguments, or the types of the first n. *)
ArgumentError(spec, args, n) ==
  CASE Len(args) < spec[1] \/ (spec[2] # -1 /\ Len(args) > spec[2]) -> "E_ARGS"
    [] \E k \in 1 .. (IF n > Len(args) THEN Len(args) ELSE n) : spec[3][k] \notin {"any", args[k][1]} -> "E_TYPE"
    [] OTHER -> "E_NONE"

(* The function called is kept with what it asked for. *)
Directed(p, function) == IF p.kind = "BI_CALL" THEN [p EXCEPT !.data = <<function, @>>] ELSE p

RECURSIVE call_bi_func(_, _, _, _, _)
call_bi_func(v, f, args, next, data) ==
  LET spec == bf_table[f]
      wrong == ArgumentError(spec, args, IF spec[2] = -1 THEN spec[1] ELSE Len(args))
  IN CASE next = 1 /\ f \in Protected /\ Top(v).THISOBJ # Obj(SYSTEM_OBJECT) ->
            protected_pack(v, call_verb2(v, SYSTEM_OBJECT, <<"bf_", f>>, Obj(SYSTEM_OBJECT), List(args)))
       [] next = 1 /\ ~(f \in Protected /\ Top(v).THISOBJ # Obj(SYSTEM_OBJECT)) /\ wrong # "E_NONE" ->
            make_error_pack(v, wrong)
       [] OTHER ->
            CASE f # "call_function" -> the_function(v, f, args, next)
              [] f = "call_function" /\ next > 1 ->
                   Directed(call_bi_func(v, data[1], args, next, data[2]), data[1])
              [] f = "call_function" /\ next = 1 /\ Len(args[1][2]) = 1 /\ args[1][2][1] \in DOMAIN bf_table ->
                   Directed(call_bi_func(v, args[1][2][1], Tail(args), 1, <<>>), args[1][2][1])
              [] OTHER -> make_raise_pack(v, Err("E_INVARG"), Str(<<"unknown">>), args[1])

-----------------------------------------------------------------------------
(* Leaving activations *)

(* isa() makes an object in the codes stand for all that descend from it. *)
isa(l, r) ==
  LET find[p \in DOMAIN Parent \cup {NOTHING}] ==
        p # NOTHING /\ (p = r[2] \/ find[Parent[p]])
  IN l[1] \in {"obj", "waif"} /\ r[1] = "obj" /\ l[2] \in DOMAIN Parent /\ find[l[2]]

ishandled(code, codes) == \E i \in DOMAIN codes : equality(code, codes[i], FALSE) \/ isa(code, codes[i])

(* Which of the handlers below the marker at p take code. *)
ArmsFor(rts, p, code) ==
  {k \in 1 .. rts[p][2] : LET codes == rts[p - 2 * rts[p][2] + 2 * (k - 1)]
                          IN codes[1] # "list" \/ ishandled(code, codes[2])}

(* The activation nearest to the top that handles code, 0 if none does. *)
find_handler_activ(v, code) ==
  LET catches(i) == LET rts == v.activ_stack[i].rts
                    IN \E p \in DOMAIN rts : rts[p][1] = "CATCH" /\ ArmsFor(rts, p, code) # {}
      frames == {i \in DOMAIN v.activ_stack : catches(i)}
  IN IF frames = {} THEN 0 ELSE Max(frames)

Dropped(v) == [v EXCEPT !.activ_stack = Front(@)]

Stopped(v, outcome) == [v EXCEPT !.outcome = outcome]

(* The statements of activation a that stand in the way of why. *)
Stops(a, why, value) ==
  {p \in (IF why = "FIN_EXIT" THEN value[2][1][2] + 1 ELSE 1) .. Len(a.rts) :
     \/ a.rts[p][1] = "FINALLY" /\ why # "FIN_ABORT"
     \/ a.rts[p][1] = "CATCH" /\ why = "FIN_RAISE" /\ ArmsFor(a.rts, p, value[2][1]) # {}}

StoppedAt(a, p, why, value) ==
  IF a.rts[p][1] = "FINALLY"
  THEN [a EXCEPT !.rts = SubSeq(@, 1, p - 1) \o <<Num(why), value>>, !.pc = a.rts[p][2]]
  ELSE LET base == p - 2 * a.rts[p][2]
           k == Min(ArmsFor(a.rts, p, value[2][1]))
       IN [a EXCEPT !.rts = Append(SubSeq(@, 1, base - 1), value),
                    !.pc = a.rts[base + 2 * k - 1][2]]

(* What a built-in function makes of being left other than by a return: its
   further calls return 0 at once, its errors are dropped. *)
RECURSIVE Squelched(_, _, _), Unheard(_, _)
Squelched(v, f, bi) == Unheard(call_bi_func(v, f, Num(0), bi[2], bi[3]), f)

Unheard(p, f) ==
  IF p.kind # "BI_CALL" THEN p.vm
  ELSE IF p.pc = 0 THEN Dropped(p.vm) ELSE Squelched(Dropped(p.vm), f, <<f, p.pc, p.data>>)

RECURSIVE unwind_stack(_, _, _), raise_error(_, _)

(* What built-in function f has come to goes to its caller, the top activation. *)
Delivered(p, f) ==
  CASE p.kind = "BI_RETURN" -> Pushed(p.vm, p.ret)
    [] p.kind = "BI_RAISE" -> IF Top(p.vm).debug THEN raise_error(p.vm, p) ELSE Pushed(p.vm, p.code)
    [] p.kind = "BI_CALL" ->
         WithTop(p.vm, [Top(p.vm) EXCEPT !.bi = IF p.pc = 0 THEN <<>> ELSE <<f, p.pc, p.data>>])
    [] p.kind = "BI_KILL" -> unwind_stack(p.vm, "FIN_ABORT", Num(0))

(* Leaving activation a, on top of those of under, for good. *)
Left(under, a, why, value) ==
  CASE why = "FIN_RETURN" /\ a.bi = <<>> -> Pushed(under, value)
    [] why = "FIN_RETURN" /\ a.bi # <<>> ->
         Delivered(call_bi_func(under, a.bi[1], value, a.bi[2], a.bi[3]), a.bi[1])
    [] OTHER -> unwind_stack(IF a.bi = <<>> THEN under ELSE Squelched(under, a.bi[1], a.bi), why, value)

Unwound(v, a, why, value, stops) ==
  CASE stops # {} -> WithTop(v, StoppedAt(a, Max(stops), why, value))
    [] stops = {} /\ why = "FIN_EXIT" ->
         WithTop(v, [a EXCEPT !.rts = SubSeq(@, 1, value[2][1][2]), !.pc = value[2][2][2]])
    [] stops = {} /\ why # "FIN_EXIT" /\ Len(v.activ_stack) = 1 ->
         Stopped(Dropped(v), IF why = "FIN_RETURN" THEN "OUTCOME_DONE" ELSE "OUTCOME_ABORTED")
    [] OTHER -> Left(Dropped(v), a, why, value)

unwind_stack(v, why, value) == Unwound(v, Top(v), why, value, Stops(Top(v), why, value))

(* The error info goes to the handler in activation frame, or to #0's. *)
raise_to(v, p, frame) ==
  LET info == List(<<p.code, p.msg, p.value, make_stack_list(v, IF frame = 0 THEN 1 ELSE frame, TRUE)>>)
  IN unwind_stack([v EXCEPT !.handler = IF frame = 0 THEN <<"handle_uncaught_error", info>> ELSE @],
                  IF frame = 0 THEN "FIN_UNCAUGHT" ELSE "FIN_RAISE",
                  IF frame = 0 THEN Num(0) ELSE info)

raise_error(v, p) == raise_to(v, p, find_handler_activ(v, p.code))

abort_task(v, why) ==
  unwind_stack([v EXCEPT !.history.cut = IF @ = -1 THEN Len(v.told) ELSE @,
                         !.handler = <<"handle_task_timeout",
                                       List(<<Str(<<why>>), make_stack_list(v, 1, TRUE)>>)>>],
               "FIN_ABORT", Num(0))

-----------------------------------------------------------------------------
(* Between one instruction and the next *)

running == vm.outcome = "running"

Pc == Top(vm).pc

Opcode == Bc.vector[Pc + 1]

Extended == Bc.vector[Pc + 2][2]

(* The opcodes up to OP_G_PUT count a tick, and of the extended ones those from
   EOP_CATCH on. *)
Free == {"JUMP", "POP", "IMM", "MAKE_EMPTY_LIST", "LIST_ADD_TAIL", "LIST_APPEND", "PUSH_REF",
         "PUT_TEMP", "PUSH_TEMP", "RETURN", "RETURN0", "DONE", "G_PUSH", "EXTENDED"}

FreeExtended == {"RANGESET", "LENGTH", "PUSH_LABEL", "END_CATCH", "END_EXCEPT",
                 "END_FINALLY", "CONTINUE"}

COUNT_TICK(op) == op[1] = "PUT" \/ (op[1] = "op" /\ op[2] \notin Free)

Counted == IF COUNT_TICK(Opcode) \/ (Opcode = <<"op", "EXTENDED">> /\ Extended \notin FreeExtended)
           THEN 1 ELSE 0

OutOfTicks == COUNT_TICK(Opcode) /\ vm.ticks_remaining <= 1

(* vm once the instruction is fetched. *)
Now == [WithTop(vm, [Top(vm) EXCEPT !.error_pc = Pc]) EXCEPT !.ticks_remaining = @ - Counted]

Rts == Top(vm).rts

(* The i-th value from the top. *)
S(i) == Rts[Len(Rts) + 1 - i]

(* Where n is how many values go, xs those that come, and pc what is next. *)
Goes(n, xs, pc) ==
  WithTop(Now, [Top(Now) EXCEPT !.rts = SubSeq(@, 1, Len(@) - n) \o xs, !.pc = pc])

ErrorIn(v, e) == IF Top(v).debug THEN raise_error(v, make_error_pack(v, e)) ELSE Pushed(v, Err(e))

PushError(n, e, pc) == ErrorIn(Goes(n, <<>>, pc), e)

(* The value or the error x. *)
Gives(n, x, pc) == IF Raises(x) THEN PushError(n, x[2], pc) ELSE Goes(n, <<x>>, pc)

Assigned(v, x, val) == WithTop(v, [Top(v) EXCEPT !.env[x] = val])

Width(kind) == IF kind \in DOMAIN Bc.widths THEN Bc.widths[kind] ELSE 1

(* The operand of that kind whose first byte is at pc, and what follows it. *)
Operand(pc, kind) == Bc.vector[pc + Width(kind)][2]

Beyond(pc, kind) == pc + Width(kind)

Is(op) == running /\ ~OutOfTicks /\ Opcode = <<"op", op>>

IsExtended(eop) == Is("EXTENDED") /\ Extended = eop

Becomes(v) == vm' = v /\ UNCHANGED tasks

Then(n, xs) == Becomes(Goes(n, xs, Pc + 1))

ThenGives(n, x) == Becomes(Gives(n, x, Pc + 1))

-----------------------------------------------------------------------------
(* Statements and jumps *)

OutOfTime == running /\ OutOfTicks /\ Becomes(abort_task(vm, "ticks"))

(* The timer has set task_timed_out.  Bound: it may only do so if vm.slow. *)
TimedOut == running /\ vm.slow /\ COUNT_TICK(Opcode) /\ ~OutOfTicks /\ Becomes(abort_task(vm, "seconds"))

(* Jumps to the label at pc if the value at the top is false. *)
Test(pc) ==
  Becomes(Goes(1, <<>>, IF is_true(S(1)) THEN Beyond(pc, "label") ELSE Operand(pc, "label")))

Branch == (\E op \in {"IF_QUES", "IF", "WHILE", "EIF"} : Is(op)) /\ Test(Pc + 1)

WhileId ==
  /\ IsExtended("WHILE_ID")
  /\ LET pc == Beyond(Pc + 2, "var")
         v == Goes(1, <<>>, IF is_true(S(1)) THEN Beyond(pc, "label") ELSE Operand(pc, "label"))
     IN Becomes(Assigned(v, Operand(Pc + 2, "var"), S(1)))

Jump == Is("JUMP") /\ Becomes(Goes(0, <<>>, Operand(Pc + 1, "label")))

(* The two loops: the variable takes item and the loop's two values become xs,
   or the loop is left. *)
LoopStep(ok, more, item, xs) ==
  LET lab == Operand(Beyond(Pc + 1, "var"), "label")
      body == Beyond(Beyond(Pc + 1, "var"), "label")
  IN IF ~ok /\ Top(vm).debug
     THEN Becomes(raise_error(Goes(0, <<>>, body), make_error_pack(Goes(0, <<>>, body), "E_TYPE")))
     ELSE IF ~ok \/ ~more THEN Becomes(Goes(2, <<>>, lab))
     ELSE Becomes(Assigned(Goes(2, xs, body), Operand(Pc + 1, "var"), item))

ForList ==
  /\ Is("FOR_LIST")
  /\ LET n == S(1)[2]
         list == S(2)[2]
     IN LoopStep(S(2)[1] = "list", n <= Len(list), list[n], <<S(2), Num(n + 1)>>)

(* At the largest number the end comes down instead of the variable going up. *)
ForRange ==
  /\ Is("FOR_RANGE")
  /\ LET from == S(2)
         to == S(1)
         xs == IF from[2] < MAXINT THEN <<<<from[1], from[2] + 1>>, to>>
               ELSE <<from, <<to[1], to[2] - 1>>>>
     IN LoopStep(to[1] \in {"int", "obj"} /\ to[1] = from[1], from[2] <= to[2], from, xs)

Pop == Is("POP") /\ Then(1, <<>>)

Exit ==
  \E eop \in {"EXIT", "EXIT_ID"} :
    /\ IsExtended(eop)
    /\ LET pc == IF eop = "EXIT" THEN Pc + 2 ELSE Beyond(Pc + 2, "var")
           depth == Operand(pc, "stack")
           label == Operand(Beyond(pc, "stack"), "label")
       IN Becomes(unwind_stack(Now, "FIN_EXIT", List(<<Num(depth), Num(label)>>)))

-----------------------------------------------------------------------------
(* Values *)

(* A literal that is popped at once is not pushed. *)
Imm ==
  /\ Is("IMM")
  /\ LET next == Beyond(Pc + 1, "literal")
         v == Program(Top(vm).prog).literals[Operand(Pc + 1, "literal") + 1]
     IN IF Bc.vector[next + 1] = <<"op", "POP">> THEN Becomes(Goes(0, <<>>, next + 1))
        ELSE Becomes(Goes(0, <<v>>, next))

Number == running /\ Opcode[1] = "num" /\ Then(0, <<Num(Opcode[2])>>)

PushVariable(x, pc) ==
  LET v == Top(vm).env[x]
  IN Becomes(Gives(0, IF v = None THEN Raise("E_VARNF") ELSE v, pc))

Push == running /\ Opcode[1] = "PUSH" /\ PushVariable(Opcode[2], Pc + 1)

GPush == Is("G_PUSH") /\ PushVariable(Operand(Pc + 1, "var"), Beyond(Pc + 1, "var"))

(* A value that is popped at once is moved. *)
Put ==
  /\ running /\ ~OutOfTicks /\ Opcode[1] = "PUT"
  /\ LET popped == Bc.vector[Pc + 2] = <<"op", "POP">>
     IN Becomes(Assigned(IF popped THEN Goes(1, <<>>, Pc + 2) ELSE Goes(0, <<>>, Pc + 1),
                         Opcode[2], S(1)))

GPut ==
  Is("G_PUT") /\ Becomes(Assigned(Goes(0, <<>>, Beyond(Pc + 1, "var")), Operand(Pc + 1, "var"), S(1)))

ListOps ==
  \/ Is("MAKE_EMPTY_LIST") /\ Then(0, <<List(<<>>)>>)
  \/ Is("MAKE_SINGLETON_LIST") /\ Then(1, <<List(<<S(1)>>)>>)
  \/ Is("CHECK_LIST_FOR_SPLICE") /\ ThenGives(1, IF S(1)[1] = "list" THEN S(1) ELSE Raise("E_TYPE"))
  \/ Is("LIST_ADD_TAIL")
     /\ ThenGives(2, IF S(2)[1] = "list" THEN List(Append(S(2)[2], S(1))) ELSE Raise("E_TYPE"))
  \/ Is("LIST_APPEND")
     /\ ThenGives(2, IF S(2)[1] = "list" /\ S(1)[1] = "list" THEN List(S(2)[2] \o S(1)[2])
                     ELSE Raise("E_TYPE"))

Arith ==
  \E op \in {"ADD", "MINUS", "MULT", "DIV", "MOD"} :
    Is(op) /\ ThenGives(2, Arithmetic(op, S(2), S(1)))

Exp == IsExtended("EXP") /\ Becomes(Gives(2, Arithmetic("EXP", S(2), S(1)), Pc + 2))

Compare ==
  \/ \E op \in {"LT", "LE", "GT", "GE"} : Is(op) /\ ThenGives(2, Comparison(op, S(2), S(1)))
  \/ Is("EQ") /\ Then(2, <<Truth(equality(S(2), S(1), FALSE))>>)
  \/ Is("NE") /\ Then(2, <<Truth(~equality(S(2), S(1), FALSE))>>)
  \/ Is("IN") /\ ThenGives(2, In(S(2), S(1)))

Unary ==
  \/ Is("NOT") /\ Then(1, <<Truth(~is_true(S(1)))>>)
  \/ Is("UNARY_MINUS") /\ ThenGives(1, Negated(S(1)))

AndOr ==
  \E op \in {"AND", "OR"} :
    /\ Is(op)
    /\ IF is_true(S(1)) = (op = "OR") THEN Becomes(Goes(0, <<>>, Operand(Pc + 1, "label")))
       ELSE Becomes(Goes(1, <<>>, Beyond(Pc + 1, "label")))

(* x[i] and x[i] = v on a waif x call the verb of its class; E_TYPE without. *)
WaifIndex(n, waif, verb, args) ==
  LET v == Goes(n, <<>>, Pc + 1)
      r == call_verb2(v, waif[2], verb, waif, List(args))
  IN IF ~Raises(r) THEN Becomes(r[2])
     ELSE Becomes(PushError(n, IF r[2] = "E_VERBNF" THEN "E_TYPE" ELSE r[2], Pc + 1))

Index ==
  /\ Is("REF")
  /\ IF S(2)[1] = "waif" THEN WaifIndex(2, S(2), waif_index_verb, <<S(1)>>)
     ELSE ThenGives(2, Ref(S(2), S(1)))

IndexAssign ==
  /\ Is("INDEXSET")
  /\ IF S(3)[1] = "waif" THEN WaifIndex(3, S(3), waif_indexset_verb, <<S(2), S(1)>>)
     ELSE ThenGives(3, IndexSet(S(3), S(2), S(1)))

PushIndexed == Is("PUSH_REF") /\ Becomes(Gives(0, PushRef(S(2), S(1)), Pc + 1))

RangeIndex == Is("RANGE_REF") /\ ThenGives(3, RangeRef(S(3), S(2), S(1)))

RangeAssign == IsExtended("RANGESET") /\ Becomes(Gives(4, RangeSet(S(4), S(3), S(2), S(1)), Pc + 2))

(* The length of what the stack has at the operand. *)
Length ==
  /\ IsExtended("LENGTH")
  /\ LET v == Rts[Operand(Pc + 2, "stack") + 1]
     IN Becomes(Gives(0, IF v[1] \in {"str", "list"} THEN Num(Len(v[2])) ELSE Raise("E_TYPE"),
                      Beyond(Pc + 2, "stack")))

Temp ==
  \/ Is("PUT_TEMP") /\ LET v == Goes(0, <<>>, Pc + 1) IN Becomes(WithTop(v, [Top(v) EXCEPT !.temp = S(1)]))
  \/ Is("PUSH_TEMP") /\ LET v == Goes(0, <<Top(vm).temp>>, Pc + 1)
                        IN Becomes(WithTop(v, [Top(v) EXCEPT !.temp = None]))

(* What is wrong with reading or writing property name of object o. *)
PropertyError(o, name, allowed) ==
  CASE name[1] # "str" \/ o[1] # "obj"             -> "E_TYPE"
    [] ~valid(o[2])                                -> "E_INVIND"
    [] <<o[2], name[2]>> \notin DOMAIN vm.props     -> "E_PROPNF"
    [] <<o[2], name[2]>> \notin allowed             -> "E_PERM"
    [] OTHER                                       -> "E_NONE"

PropertyValue(o, name) ==
  LET e == PropertyError(o, name, Readable)
  IN IF e = "E_NONE" THEN vm.props[o[2], name[2]] ELSE Raise(e)

GetProp ==
  \/ Is("GET_PROP") /\ ThenGives(2, PropertyValue(S(2), S(1)))
  \/ Is("PUSH_GET_PROP") /\ Becomes(Gives(0, PropertyValue(S(2), S(1)), Pc + 1))

PutProp ==
  /\ Is("PUT_PROP")
  /\ LET e == PropertyError(S(3), S(2), Writable)
     IN IF e # "E_NONE" THEN Becomes(PushError(3, e, Pc + 1))
        ELSE Becomes([Goes(3, <<S(1)>>, Pc + 1) EXCEPT !.props[S(3)[2], S(2)[2]] = S(1)])

(* The values of the list at the top go to n targets, nreq of them required and
   one, if rest <= n, taking what is left.  where is the code for the first
   default that is needed. *)
Scattered(list, n, nreq, rest, at(_)) ==
  LET len == Len(list)
      nrest == IF rest <= n /\ len >= n THEN len - n + 1 ELSE 0
      target(acc, i) ==
        LET id == Operand(at(i), "var")
            label == Operand(Beyond(at(i), "var"), "label")
            item == IF i = rest THEN List(SubSeq(list, i, i + nrest - 1))
                    ELSE list[i + acc.offset]
            taken == [acc EXCEPT !.env[id] = item]
        IN CASE i = rest -> [taken EXCEPT !.offset = @ + nrest - 1]
             [] i # rest /\ label = 0 -> taken
             [] i # rest /\ label # 0 /\ acc.avail > 0 -> [taken EXCEPT !.avail = @ - 1]
             [] OTHER -> [acc EXCEPT !.offset = @ - 1,
                                     !.where = IF @ = 0 /\ label # 1 THEN label ELSE @]
  IN FoldLeft(target, [env |-> Top(vm).env, offset |-> 0, avail |-> len - nreq, where |-> 0],
              [i \in 1 .. n |-> i])

Scatter ==
  /\ IsExtended("SCATTER")
  /\ LET byte(k) == Bc.vector[Pc + k + 1][2]
         n == byte(2)
         rest == byte(4)
         at(i) == Pc + 5 + (i - 1) * (Width("var") + Width("label"))
         done == Operand(at(n + 1), "label")
         e == IF S(1)[1] # "list" THEN "E_TYPE"
              ELSE IF Len(S(1)[2]) < byte(3) \/ (rest > n /\ Len(S(1)[2]) > n) THEN "E_ARGS"
              ELSE "E_NONE"
         r == Scattered(S(1)[2], n, byte(3), rest, at)
         v == Goes(0, <<>>, IF r.where = 0 THEN done ELSE r.where)
     IN IF e # "E_NONE" THEN Becomes(PushError(1, e, done))
        ELSE Becomes(WithTop(v, [Top(v) EXCEPT !.env = r.env]))

-----------------------------------------------------------------------------
(* Handlers *)

PushMarker ==
  \/ IsExtended("PUSH_LABEL")
     /\ Becomes(Goes(0, <<Num(Operand(Pc + 2, "label"))>>, Beyond(Pc + 2, "label")))
  \/ IsExtended("TRY_FINALLY")
     /\ Becomes(Goes(0, <<<<"FINALLY", Operand(Pc + 2, "label")>>>>, Beyond(Pc + 2, "label")))
  \/ IsExtended("CATCH") /\ Becomes(Goes(0, <<<<"CATCH", 1>>>>, Pc + 2))
  \/ IsExtended("TRY_EXCEPT") /\ Becomes(Goes(0, <<<<"CATCH", Bc.vector[Pc + 3][2]>>>>, Pc + 3))

(* The code panics if no marker is where it must be. *)
EndHandlers ==
  \/ /\ IsExtended("END_CATCH") /\ S(2) = <<"CATCH", 1>>
     /\ Becomes(Goes(4, <<S(1)>>, Operand(Pc + 2, "label")))
  \/ /\ IsExtended("END_EXCEPT") /\ S(1)[1] = "CATCH"
     /\ Becomes(Goes(1 + 2 * S(1)[2], <<>>, Operand(Pc + 2, "label")))

EndFinally ==
  IsExtended("END_FINALLY") /\ S(1)[1] = "FINALLY"
    /\ Becomes(Goes(1, <<Num("FIN_FALL_THRU"), Num(0)>>, Pc + 2))

(* Mutant: what was under way is forgotten. *)
Continue_forgets == IsExtended("CONTINUE") /\ Becomes(Goes(2, <<>>, Pc + 2))

(* What the handler interrupted goes on. *)
Continue ==
  /\ IsExtended("CONTINUE")
  /\ LET v == Goes(2, <<>>, Pc + 2)
     IN Becomes(IF S(2) = Num("FIN_FALL_THRU") THEN v ELSE unwind_stack(v, S(2)[2], S(1)))

-----------------------------------------------------------------------------
(* Calls *)

CallVerb ==
  /\ Is("CALL_VERB")
  /\ LET args == S(1)
         verb == S(2)
         obj == S(3)
         v == Goes(3, <<>>, Pc + 1)
         r == CASE verb[1] # "str" \/ args[1] # "list" \/ obj[1] \notin {"obj", "waif"} -> Raise("E_TYPE")
                [] obj[1] = "obj" /\ verb[2][1] = WAIF_VERB_PREFIX -> Raise("E_VERBNF")
                [] OTHER -> call_verb2(v, obj[2],
                                       IF obj[1] = "waif" THEN <<WAIF_VERB_PREFIX>> \o verb[2] ELSE verb[2],
                                       obj, args)
     IN Becomes(IF Raises(r) THEN PushError(3, r[2], Pc + 1) ELSE r[2])

Return ==
  \E op \in {"RETURN", "RETURN0", "DONE"} :
    /\ Is(op)
    /\ LET ret_val == IF op = "RETURN" THEN S(1) ELSE Num(0)
           v == Goes(IF op = "RETURN" THEN 1 ELSE 0, <<>>, Pc + 1)
           u == unwind_stack(v, "FIN_RETURN", ret_val)
       IN Becomes(IF u.outcome = "OUTCOME_DONE" THEN [u EXCEPT !.result = ret_val] ELSE u)

(* The package the function called here returns, unless its arguments are none. *)
Package == call_bi_func(Goes(1, <<>>, Pc + 2), Bc.vector[Pc + 2][2], S(1)[2], 1, <<>>)

CallBuiltin ==
  /\ Is("BI_FUNC_CALL")
  /\ IF S(1)[1] # "list" THEN Becomes(PushError(1, "E_TYPE", Pc + 2))
     ELSE /\ Package.kind # "BI_SUSPEND"
          /\ Becomes(Delivered(Package, Bc.vector[Pc + 2][2]))

(* check_user_task_limit() *)
Suspend ==
  /\ Is("BI_FUNC_CALL") /\ S(1)[1] = "list" /\ Package.kind = "BI_SUSPEND"
  /\ IF vm.quota
     THEN /\ vm' = [Stopped(Package.vm, "OUTCOME_BLOCKED") EXCEPT !.activ_stack = <<>>]
          /\ tasks' = Append(tasks, [kind |-> "suspended", activ_stack |-> Package.vm.activ_stack,
                                     root_activ_vector |-> vm.root_activ_vector,
                                     told |-> vm.told, history |-> vm.history])
     ELSE Becomes(PushError(1, "E_QUOTA", Pc + 2))

TASK_ID == Num(7)

(* Forks the statements of vector f; v is vm after the instruction. *)
enqueue_forked_task2(v, f, id) ==
  LET w == IF id = NoId THEN v ELSE Assigned(v, id, TASK_ID)
      a == [Top(w) EXCEPT !.pc = 0, !.error_pc = 0, !.rts = <<>>, !.bi = <<>>, !.temp = None]
  IN /\ vm' = [w EXCEPT !.history.forks = Append(@, <<a.prog, f, a.env>>)]
     /\ tasks' = Append(tasks, [kind |-> "forked", activ_stack |-> <<a>>, root_activ_vector |-> f])

(* In a verb without the d flag a time that is no number is read as whatever its
   memory holds: the fork happens or not. *)
Fork ==
  \E op \in {"FORK", "FORK_WITH_ID"}, garbage \in BOOLEAN :
    /\ Is(op)
    /\ LET q == Beyond(Pc + 1, "fork")
           id == IF op = "FORK" THEN NoId ELSE Operand(q, "var")
           v == Goes(1, <<>>, IF op = "FORK" THEN q ELSE Beyond(q, "var"))
           number == S(1)[1] = "int"
           wrong == CASE ~number -> "E_TYPE"  [] number /\ S(1)[2] < 0 -> "E_INVARG"
                      [] ~vm.quota -> "E_QUOTA"  [] OTHER -> "E_NONE"
       IN /\ number \/ Top(vm).debug => ~garbage
          /\ IF wrong = "E_NONE" \/ (garbage /\ vm.quota)
             THEN enqueue_forked_task2(v, Operand(Pc + 1, "fork"), id)
             ELSE Becomes(IF Top(vm).debug THEN raise_error(v, make_error_pack(v, wrong)) ELSE v)

-----------------------------------------------------------------------------
(* Around run() *)

(* Not in the code: how the task began, what it forked, and how much it had told
   when it was aborted for want of time, -1 if it was not. *)
Began(a, vector, props) ==
  [a |-> a, vector |-> vector, props |-> props, forks |-> <<>>, cut |-> -1]

(* run_interpreter() with activations a. *)
Starts(v, a, vector) ==
  [v EXCEPT !.activ_stack = a, !.root_activ_vector = vector, !.outcome = "running",
            !.handler = <<>>, !.ticks_remaining = v.limit, !.result = None]

(* do_server_program_task(): #1:v(@args), called by the server. *)
StartedTask(v, prog, this, verb, args) ==
  Starts(v, <<fresh(prog, this, verb, this[2], rt_env(this, Obj(NOTHING), Str(verb), args))>>,
         MAIN_VECTOR)

CanHandle == vm.tracebacks /\ vm.handler[1] \in DOMAIN Handler

Failed == vm.outcome = "OUTCOME_ABORTED" /\ vm.handler # <<>>

(* run_interpreter() calls the handler verb of #0 ... *)
CallHandler ==
  /\ Failed /\ CanHandle
  /\ Becomes([StartedTask(vm, <<Handler[vm.handler[1]]>>, Obj(SYSTEM_OBJECT),
                          <<vm.handler[1]>>, vm.handler[2])
               EXCEPT !.tracebacks = FALSE, !.handling = vm.handler])

Traceback(info) == List(<<Str(<<"traceback">>), info[2]>>)

(* ... or shows the player the traceback. *)
ShowTraceback ==
  /\ Failed /\ ~CanHandle
  /\ Becomes([vm EXCEPT !.told = Append(@, Traceback(vm.handler)), !.handler = <<>>])

Over == vm.outcome # "running" /\ ~Failed

(* The traceback is shown unless the handler verb returned true or suspended.
   If it returned through a finally its value is not there (see Return and
   Continue), and the code decides by an uninitialized variable. *)
HandlerDone ==
  /\ Over /\ vm.handling # <<>>
  /\ \E handled \in BOOLEAN :
       /\ vm.result # None => handled = is_true(vm.result)
       /\ LET ok == vm.outcome = "OUTCOME_BLOCKED" \/ (vm.outcome = "OUTCOME_DONE" /\ handled)
          IN Becomes([vm EXCEPT !.told = IF ok THEN @ ELSE Append(@, Traceback(vm.handling)),
                                !.handling = <<>>, !.outcome = "OUTCOME_ABORTED", !.result = None])

Idle == Over /\ vm.handling = <<>> /\ ~vm.unreadable

Without(i) == SubSeq(tasks, 1, i - 1) \o SubSeq(tasks, i + 1, Len(tasks))

(* do_forked_task() and resume_from_previous_vm(): suspend() returns or raises
   the value the task was resumed with. *)
StartedAgain(t) ==
  LET new == t.kind = "forked"
      v == [Starts(vm, t.activ_stack, t.root_activ_vector)
            EXCEPT !.tracebacks = TRUE, !.told = IF new THEN <<>> ELSE t.told,
                   !.history = IF new THEN Began(t.activ_stack[1], t.root_activ_vector, vm.props)
                               ELSE t.history]
      w == WithTop(v, [Top(v) EXCEPT !.error_pc = Top(v).pc])
  IN CASE new -> v
       [] ~new /\ vm.answer[1] # "err" -> Pushed(v, vm.answer)
       [] ~new /\ vm.answer[1] = "err" ->
            ErrorIn(w, vm.answer[2])

RunTask ==
  /\ Idle
  /\ \E i \in DOMAIN tasks : vm' = StartedAgain(tasks[i]) /\ tasks' = Without(i)

(* Whether read_activ() accepts the pc of activation i of task t. *)
check_pc_validity(t, i) ==
  LET a == t.activ_stack[i]
      bc == CodeOf(Program(a.prog), IF i = 1 THEN t.root_activ_vector ELSE MAIN_VECTOR)
  IN /\ a.pc < bc.size
     /\ \/ bc.vector[a.pc] = <<"op", "CALL_VERB">>
        \/ bc.vector[a.pc - 1] = <<"op", "BI_FUNC_CALL">>

(* A task as it is written to a dump and read back: its programs are decompiled
   and compiled again, of a forked one the forked statements only. *)
ReadBack(t) ==
  IF t.kind = "forked"
  THEN [t EXCEPT !.activ_stack[1].prog = <<@[1], t.root_activ_vector>>, !.root_activ_vector = MAIN_VECTOR]
  ELSE [t EXCEPT !.activ_stack = [i \in DOMAIN @ |-> [@[i] EXCEPT !.prog = <<@[1], MAIN_VECTOR>>]]]

(* The server stops and another starts from its dump.  Bound: a program is read
   back once. *)
Restart ==
  LET again == [i \in DOMAIN tasks |-> ReadBack(tasks[i])]
      valid_pcs == \A i \in DOMAIN again :
                     again[i].kind = "suspended" =>
                       \A k \in DOMAIN again[i].activ_stack : check_pc_validity(again[i], k)
  IN /\ Idle /\ tasks # <<>>
     /\ \A i \in DOMAIN tasks : \A k \in DOMAIN tasks[i].activ_stack :
          Len(tasks[i].activ_stack[k].prog) = 1
     /\ tasks' = again
     /\ vm' = [vm EXCEPT !.unreadable = ~valid_pcs]

(* Nothing is left to do. *)
Finished == Over /\ vm.handling = <<>> /\ tasks = <<>> /\ UNCHANGED ip_vars

-----------------------------------------------------------------------------
(* A verb without arguments of object #1, from a prompt that waits for what it
   returns; limit is the number of ticks a task gets, quota whether its owner
   may have another task, answer what suspended tasks are resumed with. *)
IdleVm(props, limit, quota, answer, slow) ==
  [activ_stack |-> <<>>, root_activ_vector |-> MAIN_VECTOR, ticks_remaining |-> limit,
   handler |-> <<>>, handling |-> <<>>, outcome |-> "running", result |-> None, told |-> <<>>,
   props |-> props, limit |-> limit, quota |-> quota, answer |-> answer, tracebacks |-> TRUE, slow |-> slow,
   unreadable |-> FALSE, history |-> <<>>]

Statement == Branch \/ WhileId \/ Jump \/ ForList \/ ForRange \/ Pop \/ Exit

Expression ==
  \/ Imm \/ Number \/ Push \/ GPush \/ Put \/ GPut \/ ListOps \/ Arith \/ Exp \/ Compare \/ Unary
  \/ AndOr \/ Index \/ IndexAssign \/ PushIndexed \/ RangeIndex \/ RangeAssign \/ Length \/ Temp
  \/ GetProp \/ PutProp \/ Scatter

Handlers == PushMarker \/ EndHandlers \/ EndFinally \/ Continue

Calls == CallVerb \/ Return \/ CallBuiltin \/ Suspend \/ Fork

run_interpreter == CallHandler \/ ShowTraceback \/ HandlerDone \/ OutOfTime \/ TimedOut

Next == Statement \/ Expression \/ Handlers \/ Calls \/ run_interpreter \/ RunTask \/ Restart \/ Finished
=============================================================================
