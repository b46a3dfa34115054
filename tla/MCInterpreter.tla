--------------------------- MODULE MCInterpreter ---------------------------
(***************************************************************************)
(* Programs for the interpreter.  Variables 4 to 7 have opcodes of their   *)
(* own, 8 and 9 do not.  Object 1 is a child of 2; 0 is the system object. *)
(* Tasks start as verb m of object 1.                                     *)
(***************************************************************************)
EXTENDS Semantics

CONSTANT Mains

N(n)    == <<"lit", Num(n)>>
L(v)    == <<"lit", v>>
V(x)    == <<"id", x>>
E(e)    == L(Err(e))
T(s)    == L(Str(s))
Plain(es) == [i \in DOMAIN es |-> <<"normal", es[i]>>]
Lst(es) == <<"list", Plain(es)>>
F(f, es) == <<"call", f, Plain(es)>>
Ns(ns)  == Lst([i \in DOMAIN ns |-> N(ns[i])])
Bin(op, a, b) == <<"bin", op, a, b>>
Prop(o, name) == Bin("GET_PROP", o, T(<<name>>))
At(a, i) == <<"index", a, i>>
Part(a, i, j) == <<"range", a, i, j>>
Set(p, e) == <<"asgn", p, e>>
Call(o, name, es) == <<"verb", L(Obj(o)), T(<<name>>), Plain(es)>>
Catch(e, codes, other) == <<"catch", e, codes, other>>
OrErr(e)  == Catch(e, <<>>, <<>>)

Do(e)   == <<"expr", e, "">>
Tell(e) == Do(F("notify", <<e>>))
Put_(x, e) == Do(Set(V(x), e))
Ret(e)  == <<"return", <<e>>, "">>
If(c, a, b) == <<"if", <<<<c, a, "">>>>, b, "">>
For(x, e, body) == <<"for", x, e, body, "">>
Count(x, i, j, body) == <<"range", x, i, j, body, "">>
While(x, e, body) == <<"while", x, e, body, "">>
Fork_(x, e, body) == <<"fork", x, e, body, "">>
Break(x) == <<"break", x, "">>
Again(x) == <<"continue", x, "">>
Try(body, arms) == <<"try", body, arms, "">>
Arm(x, es, body) == <<x, Plain(es), body, "">>
Finally_(body, handler) == <<"finally", body, handler, "">>

Suspending == Do(F("suspend", <<N(0)>>))
Raising(e) == Do(F("raise", <<E(e)>>))

x == 4
y == 5
z == 6
g == 8
h == 9

-----------------------------------------------------------------------------
(* Verbs *)

Verbs ==
  << \* 1 #0:handle_uncaught_error
     <<Tell(At(V(SLOT_ARGS), N(1))),
       <<"if", << <<Bin("EQ", At(V(SLOT_ARGS), N(1)), E("E_DIV")), <<Ret(N(1))>>, "">>,
                  <<Bin("EQ", At(V(SLOT_ARGS), N(1)), E("E_PERM")), <<Do(Bin("DIV", N(1), N(0)))>>, "">> >>,
               <<Ret(N(0))>>, "">> >>,
     \* 2 #0:handle_task_timeout
     <<Ret(Bin("EQ", At(V(SLOT_ARGS), N(1)), T(<<"ticks">>)))>>,
     \* 3 #0:bf_listset
     <<Tell(V(SLOT_CALLER)), Ret(Catch(F("listset", <<At(V(SLOT_ARGS), N(1)), N(9), N(5)>>),
                                       Plain(<<E("E_RANGE")>>), <<N(8)>>))>>,
     \* 4 #2:f
     <<Tell(V(SLOT_ARGS)), Tell(F("callers", <<>>)), Ret(Lst(<<V(SLOT_THIS), V(SLOT_VERB)>>))>>,
     \* 5 #1:f
     <<Ret(Lst(<<N(1), <<"call", "pass", <<<<"splice", V(SLOT_ARGS)>>>>>>>>))>>,
     \* 6 #1:r
     <<Do(OrErr(Call(1, "r", <<>>))), Tell(N(24)), Ret(Call(1, "r", <<>>))>>,
     \* 7 #1:e
     <<Finally_(<<Do(Bin("DIV", N(1), N(0)))>>, <<Tell(N(20))>>), Ret(N(1))>>,
     \* 8 #1:u, without the d flag
     <<Put_(x, Bin("DIV", N(1), N(0))), Tell(V(x)), Put_(x, F("raise", <<E("E_PERM")>>)),
       For(y, N(5), <<Tell(N(21))>>), Tell(V(g)), Put_(y, F("pass", <<>>)),
       Do(Set(<<"scatter", <<"required", y, <<>>>>>>, Ns(<<1, 2>>))),
       <<"fork", NoId, N(-1), <<Tell(N(22))>>, "">>,
       Ret(Lst(<<V(x), V(y), OrErr(F("call_function", <<T(<<"no">>)>>))>>))>>,
     \* 9 for eval()
     <<Put_(x, N(5)), Ret(Lst(<<V(x), V(SLOT_ARGS), OrErr(F("callers", <<>>))>>))>>,
     \* 10 #1:s
     <<Finally_(<<Put_(x, F("suspend", <<N(0)>>)), Tell(V(x))>>, <<Tell(N(23))>>), Ret(N(3))>>,
     \* 11 #2::_index
     <<Ret(Bin("ADD", At(V(SLOT_ARGS), N(1)), N(1)))>>,
     \* 12 #2::_set_index
     <<Tell(V(SLOT_ARGS)), If(Bin("EQ", At(V(SLOT_ARGS), N(1)), N(2)), <<Suspending>>, <<>>),
       Ret(V(SLOT_THIS))>>,
     \* 13 writes into a waif whose class suspends
     <<Put_(x, L(Waif(2))), Do(Set(At(V(x), N(2)), N(4)))>> >>

-----------------------------------------------------------------------------
(* What may happen in a try, and in the finally it passes through. *)

Events ==
  << <<>>, <<Raising("E_PERM")>>, <<Do(Bin("DIV", N(1), N(0)))>>, <<Ret(N(5))>>, <<Break(NoId)>>,
     <<Again(NoId)>>, <<Break(g)>>, <<Again(g)>>, <<Do(F("kill_task", <<>>))>>,
     <<Tell(Call(1, "e", <<>>))>>, <<Tell(Call(1, "s", <<>>))>> >>

(* The argument says what the finally does. *)
Handlings ==
  LET is(k) == Bin("EQ", V(SLOT_ARGS), Ns(<<k>>))
  IN <<"if", << <<is(1), <<Raising("E_PERM")>>, "">>, <<is(2), <<Ret(N(6))>>, "">>,
                <<is(3), <<Break(NoId)>>, "">>, <<is(4), <<Again(g)>>, "">>,
                <<is(5), <<Try(<<Raising("E_ARGS")>>, <<Arm(NoId, <<E("E_ARGS")>>, <<>>)>>)>>, "">>,
                <<is(6), <<Suspending>>, "">> >>, <<>>, "">>

Nested(event) ==
  <<Count(g, N(1), N(2),
     <<For(x, Lst(<<N(7), E("E_DIV")>>),
        <<Try(<<Finally_(event \o <<Tell(N(1))>>, <<Tell(N(2)), Handlings>>), Tell(N(3))>>,
              <<Arm(y, <<E("E_PERM"), V(x)>>, <<Tell(V(y))>>)>>),
          Tell(N(4))>>)>>),
    Ret(V(x))>>

-----------------------------------------------------------------------------
Scatterings ==
  LET req(v) == <<"required", v, <<>>>>   opt(v) == <<"optional", v, <<>>>>
      dft(v, e) == <<"optional", v, <<e>>>>   rest(v) == <<"rest", v, <<>>>>
  IN << <<req(x), req(g)>>, <<req(x), opt(y), dft(z, V(x))>>, <<dft(x, N(8)), rest(y)>>,
        <<rest(x), req(y)>>, <<req(x), dft(g, Bin("ADD", V(x), N(1))), rest(y), req(z)>>,
        <<dft(x, Bin("DIV", N(1), N(0))), opt(g), dft(z, N(6)), rest(h)>>, <<opt(y), req(x), rest(z)>> >>

Scattered_(sc) ==
  <<Put_(x, N(0)), Put_(y, N(0)), Put_(z, N(0)), Put_(g, N(0)), Put_(h, N(0)),
    For(7, L(List(<<List(<<>>), List(<<Num(1)>>), List(<<Num(1), Num(2)>>),
                    List(<<Num(1), Num(2), Num(3)>>), List([i \in 1 .. 5 |-> Num(i)]), Num(3)>>)),
      <<Try(<<Do(Set(<<"scatter">> \o sc, V(7))), Tell(Lst(<<V(x), V(y), V(z), V(g), V(h)>>))>>,
            <<Arm(x, <<>>, <<Tell(At(V(x), N(1)))>>)>>)>>)>>

(* Expressions told for every i and j of a range, errors as values. *)
Tabled(from, to, e) ==
  Count(x, N(from), N(to), <<Count(y, N(from), N(to), <<Tell(OrErr(e))>>)>>)

L123 == Lst(<<N(1), T(<<"a">>), N(3)>>)

Expressions ==
  << Bin("DIV", V(x), V(y)), Bin("MOD", V(x), V(y)), Bin("EXP", V(x), V(y)),
     Part(L123, V(x), V(y)), Part(T(<<"a", "B">>), V(x), V(y)),
     Set(Part(V(z), V(x), V(y)), Ns(<<8, 9>>)), F("listinsert", <<L123, V(x), V(y)>>),
     F("listappend", <<L123, V(x), V(y)>>), F("listdelete", <<L123, V(y)>>),
     F("listset", <<L123, N(7), V(y)>>), F("setremove", <<Ns(<<1, 2, 1>>), V(x)>>),
     F("remove_duplicates", <<Lst(<<V(x), T(<<"a">>), V(y), T(<<"A">>), V(x)>>)>>),
     F("assoc", <<V(x), Lst(<<N(1), Lst(<<V(y), N(2)>>), Ns(<<2, 2>>)>>), V(y)>>) >>

Operations(e) == <<Put_(z, L123), Tabled(-2, 4, e), Tell(V(z))>>

-----------------------------------------------------------------------------
Others ==
  << \* assignments to places
     <<Put_(x, Lst(<<Ns(<<1, 2, 3>>), T(<<"a", "b">>)>>)),
       Tell(Set(At(At(V(x), N(1)), <<"length">>), N(9))), Tell(V(x)),
       Tell(Set(Part(At(V(x), N(1)), N(2), <<"length">>), Ns(<<>>))), Tell(V(x)),
       Tell(Set(At(At(V(x), N(2)), N(1)), T(<<"B">>))), Tell(V(x)),
       Tell(At(V(x), Bin("MINUS", <<"length">>, At(Ns(<<0, 1>>), <<"length">>)))),
       Tell(Catch(Set(At(At(V(x), N(1)), N(7)), N(1)), Plain(<<E("E_RANGE")>>), <<>>)),
       Tell(Lst(<<Set(V(y), N(3)), V(y)>>)), Do(Set(At(V(g), N(1)), N(2)))>>,
     <<Do(Set(At(Prop(L(Obj(1)), "p"), N(2)), Set(V(g), N(4)))), Tell(Prop(L(Obj(1)), "p")),
       Tell(OrErr(Prop(L(Obj(1)), "q"))), Tell(OrErr(Set(Prop(L(Obj(1)), "w"), N(1)))),
       Tell(OrErr(Set(Prop(L(Obj(2)), "p"), N(1)))), Tell(OrErr(Set(Prop(L(Obj(5)), "p"), N(1)))),
       Do(Set(Prop(L(Obj(1)), "p"), N(6))), Do(Set(At(Prop(L(Obj(1)), "p"), N(2)), N(1)))>>,
     <<Put_(g, Ns(<<1, 2>>)), Put_(x, OrErr(Set(At(V(g), At(V(g), N(2))), Set(V(g), N(5))))),
       Tell(V(x)), Tell(V(g)), Tell(At(L(Waif(2)), N(3))), Tell(OrErr(At(L(Waif(0)), N(3)))),
       Tell(OrErr(At(L(Waif(7)), N(3)))), Put_(x, L(Waif(2))), Tell(Set(At(V(x), N(3)), N(4))), Tell(V(x))>>,
     \* conditions
     <<For(x, Lst(<<N(0), N(1), T(<<>>), T(<<"a">>), Lst(<<>>), Ns(<<0>>), E("E_NONE"), L(Obj(1))>>),
         <<Tell(<<"and", V(x), <<"or", <<"un", "NOT", V(x)>>, N(3)>>>>),
           Tell(<<"cond", V(x), N(1), <<"cond", <<"un", "NOT", V(x)>>, N(2), N(3)>>>>),
           <<"if", << <<Bin("EQ", V(x), N(0)), <<Tell(N(30))>>, "">>, <<V(x), <<Tell(N(31))>>, "">>,
                      <<Bin("EQ", V(x), T(<<>>)), <<Tell(N(32))>>, "">> >>, <<Tell(N(33))>>, "">>>>)>>,
     <<For(x, Lst(<<N(0), N(5), T(<<"a">>), T(<<"A", "b">>), Ns(<<1>>), E("E_DIV"), L(Obj(1))>>),
         <<For(y, Lst(<<N(1), T(<<"b">>), T(<<"A">>), T(<<>>), Ns(<<1>>), E("E_PERM"), L(Obj(2))>>),
            <<Tell(Lst(<<OrErr(Bin("LT", V(x), V(y))), OrErr(Bin("GE", V(x), V(y))), Bin("EQ", V(x), V(y)),
                         Bin("NE", V(x), V(y)), OrErr(Bin("IN", V(y), V(x))), OrErr(Bin("ADD", V(x), V(y))),
                         OrErr(F("is_member", <<V(x), Lst(<<V(y), V(x)>>)>>)), F("equal", <<V(x), V(y)>>),
                         OrErr(<<"un", "UNARY_MINUS", V(x)>>), OrErr(F("length", <<V(x)>>)), F("enlist", <<V(x)>>),
                         OrErr(F("setadd", <<V(x), V(y)>>)), OrErr(F("iassoc", <<V(x), V(y)>>))>>))>>)>>)>>,
     \* loops
     <<Count(x, N(MAXINT - 1), N(MAXINT), <<Tell(V(x))>>), Count(g, L(Obj(1)), L(Obj(2)), <<Tell(V(g))>>),
       Tell(V(x)), Put_(x, N(0)),
       While(g, Bin("LT", V(x), N(4)),
         <<Put_(x, Bin("ADD", V(x), N(1))),
           Count(y, N(1), N(3), <<If(Bin("EQ", V(y), V(x)), <<Again(g)>>, <<>>),
                                 If(Bin("EQ", V(x), N(3)), <<Break(g)>>, <<>>), Tell(V(y))>>), Tell(N(40))>>),
       While(NoId, Bin("LT", V(x), N(5)), <<Put_(x, N(5)), Again(NoId)>>),
       Tell(V(g)), For(x, V(g), <<>>)>>,
     <<Count(x, N(1), L(Obj(1)), <<>>)>>,
     \* handlers
     <<For(g, Lst(<<E("E_PERM"), E("E_DIV"), L(Obj(1)), N(4), L(Waif(1)), Ns(<<1>>)>>),
         <<Try(<<Do(F("raise", <<V(g), T(<<"a">>), N(7)>>))>>,
               <<Arm(x, <<E("E_PERM"), N(4)>>, <<Tell(V(x))>>), Arm(NoId, <<L(Obj(2))>>, <<Tell(N(50))>>),
                 <<h, <<<<"splice", Lst(<<E("E_DIV"), N(3)>>)>>>>, <<Tell(V(h))>>, "">>,
                 Arm(y, <<>>, <<Tell(At(V(y), N(1)))>>)>>)>>),
       Tell(Catch(Catch(Bin("DIV", N(1), N(0)), Plain(<<E("E_PERM")>>), <<N(1)>>),
                  Plain(<<E("E_DIV"), E("E_PERM")>>), <<N(2)>>)),
       Tell(Lst(<<N(1), Catch(Call(1, "e", <<>>), Plain(<<E("E_DIV")>>), <<Lst(<<V(SLOT_ARGS), OrErr(V(9))>>)>>)>>)),
       Do(Catch(Call(2, "no", <<>>), Plain(<<E("E_DIV")>>), <<>>))>>,
     <<Try(<<Try(<<Raising("E_DIV")>>, <<Arm(x, <<E("E_DIV")>>, <<Raising("E_PERM")>>)>>)>>,
           <<Arm(NoId, <<Bin("DIV", N(1), N(0))>>, <<>>)>>)>>,
     \* calls
     <<Tell(Call(1, "f", <<N(1), N(2)>>)), Tell(Call(2, "f", <<>>)), Tell(OrErr(Call(1, "r", <<>>))),
       Tell(OrErr(Call(9, "f", <<>>))), Tell(OrErr(<<"verb", N(1), T(<<"f">>), <<>>>>)),
       Tell(OrErr(<<"verb", L(Obj(1)), T(<<":", "_index">>), <<>>>>)), Tell(Call(1, "u", <<>>)),
       Tell(<<"verb", L(Waif(2)), T(<<"_index">>), Plain(<<N(1)>>)>>),
       Tell(OrErr(F("pass", <<>>))), Tell(F("eval", <<T(<<"9">>)>>)), Tell(F("eval", <<T(<<"99">>)>>)),
       Tell(F("call_function", <<T(<<"eval">>), T(<<"9">>)>>)),
       Tell(OrErr(F("call_function", <<T(<<"raise">>), E("E_QUOTA")>>))), Do(Call(1, "r", <<>>))>>,
     <<Tell(F("listset", <<Ns(<<1>>), N(2), N(1)>>)), Tell(OrErr(F("is_member", <<N(1), Lst(<<>>)>>))),
       Tell(OrErr(F("length", <<>>))), Tell(OrErr(F("listdelete", <<N(1), N(1)>>))),
       Tell(OrErr(<<"call", "length", <<<<"splice", N(1)>>>>>>)),
       Tell(<<"list", <<<<"normal", N(1)>>, <<"splice", Ns(<<2, 3>>)>>, <<"normal", N(4)>>>>>>),
       Tell(OrErr(<<"list", <<<<"splice", Ns(<<1>>)>>, <<"splice", N(2)>>>>>>)),
       Tell(F("eval", <<T(<<"14">>)>>)), Tell(N(61))>>,
     <<Tell(F("eval", <<T(<<"10">>)>>)), Do(Call(1, "e", <<>>))>>,
     \* forks
     <<Fork_(g, N(0), <<Tell(V(g)), Fork_(NoId, N(1), <<Tell(Call(1, "s", <<>>)), Tell(N(70))>>), Ret(N(1))>>),
       Do(Call(1, "s", <<>>)), Fork_(NoId, Lst(<<>>), <<>>)>>,
     <<Count(x, N(1), N(2), <<Fork_(y, V(x), <<Do(Set(Prop(L(Obj(1)), "p"), V(x)))>>)>>), Tell(V(y)),
       Try(<<Fork_(NoId, N(-1), <<>>)>>, <<Arm(z, <<E("E_INVARG"), E("E_QUOTA")>>, <<Tell(N(71))>>)>>),
       Fork_(NoId, T(<<>>), <<Raising("E_PERM")>>)>> >>

-----------------------------------------------------------------------------
const_Texts ==
  Verbs \o Others \o [i \in DOMAIN Scatterings |-> Scattered_(Scatterings[i])]
    \o [i \in DOMAIN Expressions |-> Operations(Expressions[i])]
    \o [i \in DOMAIN Events |-> Nested(Events[i])]

const_ObjectCodes == LET codes == Compiles(const_Texts) IN codes
const_RereadCodes == LET codes == CompilesAgain(Compiled) IN codes
const_MisreadPrograms == LET programs == MisreadOf(Compiled) IN programs
const_MisplacedLines == LET lines == MisplacedOf(Compiled) IN lines

const_Parsed == (<<"9">> :> 9) @@ (<<"10">> :> 10) @@ (<<"14">> :> 14)
const_Unflagged == {8}
const_Parent == (0 :> NOTHING) @@ (1 :> 2) @@ (2 :> NOTHING)
const_Verb ==
  (<<0, <<"handle_uncaught_error">>>> :> 1) @@ (<<0, <<"handle_task_timeout">>>> :> 2)
    @@ (<<0, <<"bf_", "listset">>>> :> 3) @@ (<<2, <<"f">>>> :> 4) @@ (<<1, <<"f">>>> :> 5)
    @@ (<<1, <<"r">>>> :> 6) @@ (<<1, <<"e">>>> :> 7) @@ (<<1, <<"u">>>> :> 8)
    @@ (<<1, <<"s">>>> :> 10) @@ (<<2, waif_index_verb>> :> 11) @@ (<<2, waif_indexset_verb>> :> 12)
const_Handler == [handle_uncaught_error |-> 1, handle_task_timeout |-> 2]
const_Properties == (<<1, <<"p">>>> :> List(<<Num(1), Num(2)>>)) @@ (<<1, <<"q">>>> :> Num(3))
                      @@ (<<1, <<"w">>>> :> Num(5))
const_Readable == {<<1, <<"p">>>>, <<1, <<"w">>>>}
const_Writable == {<<1, <<"p">>>>}
const_Protected == {"listset", "is_member"}

(* A task: a program, its arguments, whether its owner may have another task,
   what it is resumed with, its ticks, and whether its seconds may run out. *)
Task(prog, args, quota, answer, limit, slow) ==
  [prog |-> prog, args |-> args, quota |-> quota, answer |-> answer, limit |-> limit, slow |-> slow]

Plenty == 5000

(* A finally that suspends loses the traceback of an error nobody catches, so it
   is not put together with events 3 and 10. *)
const_Mains ==
  LET nested == Len(const_Texts) - Len(Events)
      simple == {<<i, <<>>>> : i \in Len(Verbs) + 1 .. nested}
      tries == {<<nested + e, <<Num(k)>>>> : e \in DOMAIN Events, k \in 0 .. 5}
                 \cup {<<nested + e, <<Num(6)>>>> : e \in DOMAIN Events \ {3, 10}}
      suspending == {m \in tries : m[1] = nested + 11 \/ m[2] = <<Num(6)>>}
                      \cup {<<Len(Verbs) + i, <<>>>> : i \in Len(Others) - 1 .. Len(Others)}
  IN {Task(m[1], m[2], TRUE, Num(0), Plenty, FALSE) : m \in simple \cup tries}
       \cup {Task(m[1], m[2], FALSE, Num(0), Plenty, FALSE) : m \in suspending}
       \cup {Task(m[1], m[2], TRUE, Err("E_INVARG"), Plenty, FALSE) : m \in suspending}
       \cup {Task(m[1], m[2], TRUE, Num(0), limit, FALSE) :
               m \in tries \cup suspending, limit \in {9, 30}}
       \cup {Task(m[1], m[2], TRUE, Num(0), 30, TRUE) : m \in {n \in tries : n[2] = <<Num(0)>>}}

(* A verb that returns 5 from a try ... finally. *)
const_Returning == {Task(Len(const_Texts) - Len(Events) + 4, <<Num(0)>>, TRUE, Num(0), Plenty, FALSE)}

const_WaifWriters == {Task(13, <<>>, TRUE, Num(0), Plenty, FALSE)}

Started(m) ==
  LET v == StartedTask(IdleVm(const_Properties, m.limit, m.quota, m.answer, m.slow),
                       <<m.prog>>, Obj(1), <<"m">>, List(m.args))
  IN [v EXCEPT !.history = Began(v.activ_stack[1], MAIN_VECTOR, v.props)]

Init == tasks = <<>> /\ \E m \in Mains : vm = Started(m)

Spec == Init /\ [][Next]_ip_vars
=============================================================================
