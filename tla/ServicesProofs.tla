--------------------------- MODULE ServicesProofs ---------------------------
(***************************************************************************)
(* Proofs about NameLookup and Timers, which the server has around its     *)
(* tasks, for any number of requests, of faults and of timers.             *)
(***************************************************************************)
EXTENDS NameLookup, Timers, SequenceTheorems, TLAPS

-----------------------------------------------------------------------------
(* Name lookup: one request is on its way at a time, and whoever waits for *)
(* its answer finds in the pipe that he reads a piece of an answer to this *)
(* request or nothing; a pipe that held anything else was closed.          *)

Requests == [n : Nat, kind : Kinds]

Length(r, found) == Msg("len", r, found)
Name(r) == Msg("name", r, TRUE)
Address(r, found) == Msg("addr", r, found)

(* What the reader of a pipe who has yet to see the answer to r from its   *)
(* beginning, or only its name, may find: the whole of it, ...             *)
Whole(r, begun) ==
  IF begun THEN {<<Name(r)>>}
  ELSE IF r.kind = "REQ_NAME_FROM_ADDR"
    THEN {<<Length(r, FALSE)>>, <<Length(r, TRUE), Name(r)>>}
    ELSE {<<Address(r, FALSE)>>, <<Address(r, TRUE)>>}

(* ... or the length, which is written before the name. *)
Half(r, begun) ==
  IF ~begun /\ r.kind = "REQ_NAME_FROM_ADDR" THEN <<Length(r, TRUE)>> ELSE <<>>

TypeLookup ==
  /\ request \in Requests
  /\ server \in {"idle", "len", "addr", "data"}
  /\ intermediary \in {"idle", "len", "data", "name", "dead"}
  /\ lookup \in {"read", "resolve", "name", "dead"}
  /\ server \in {"len", "data"} => request.kind = "REQ_NAME_FROM_ADDR"
  /\ server = "addr" => request.kind = "REQ_ADDR_FROM_NAME"

(* Between the server and the intermediary. *)
Asked == to_intermediary = <<Msg("request", request, TRUE)>> /\ from_intermediary = <<>>
ServerSide ==
  /\ server = "idle" =>
       /\ from_intermediary = <<>> /\ intermediary \in {"idle", "dead"}
       /\ intermediary = "idle" => to_intermediary = <<>>
  /\ server # "idle" =>
       LET begun == server = "data"
       IN CASE intermediary = "idle" ->
                 \/ ~begun /\ Asked
                 \/ to_intermediary = <<>> /\ from_intermediary \in Whole(request, begun)
            [] intermediary \in {"len", "data"} ->
                 /\ ~begun /\ serving = request
                 /\ to_intermediary = <<>> /\ from_intermediary = <<>>
                 /\ intermediary = "data" => request.kind = "REQ_NAME_FROM_ADDR"
            [] intermediary = "name" ->
                 /\ serving = request /\ request.kind = "REQ_NAME_FROM_ADDR"
                 /\ to_intermediary = <<>>
                 /\ from_intermediary = Half(request, begun)
            [] intermediary = "dead" ->
                 from_intermediary \in {<<>>, Half(request, begun)} \cup Whole(request, begun)

(* Between the intermediary and the lookup process. *)
LookupSide ==
  /\ intermediary \in {"idle", "name"} =>
       to_lookup = <<>> /\ from_lookup = <<>> /\ lookup \in {"read", "dead"}
  /\ intermediary \in {"len", "data"} =>
       LET begun == intermediary = "data"
       IN \/ /\ lookup \in {"read", "resolve", "dead"} /\ from_lookup = <<>> /\ ~begun
             /\ to_lookup = <<Msg("request", request, TRUE)>>
          \/ /\ lookup \in {"name", "dead"} /\ request.kind = "REQ_NAME_FROM_ADDR"
             /\ to_lookup = <<Msg("request", request, TRUE)>>
             /\ from_lookup = Half(request, begun)
          \/ /\ lookup \in {"read", "dead"} /\ to_lookup = <<>>
             /\ from_lookup \in Whole(request, begun)
          \/ lookup = "dead" /\ from_lookup = <<>>

LookupInv == TypeLookup /\ ServerSide /\ LookupSide /\ AnswersMatch

(* Pipes hold at most two messages. *)
LEMMA PipeFacts ==
  ASSUME NEW a, NEW b
  PROVE  /\ Append(<<>>, a) = <<a>> /\ Append(<<a>>, b) = <<a, b>>
         /\ Head(<<a>>) = a /\ Tail(<<a>>) = <<>>
         /\ Head(<<a, b>>) = a /\ Tail(<<a, b>>) = <<b>>
         /\ <<a>> # <<>> /\ <<a, b>> # <<>>
<1>1. Append(<<>>, a) = <<a>>
  OBVIOUS
<1>2. Append(<<a>>, b) = <<a, b>>
  <2> DEFINE s == Append(<<a>>, b)
             t == <<a, b>>
  <2>1. <<a>> \in Seq({a, b}) /\ t \in Seq({a, b})
    OBVIOUS
  <2>2. s \in Seq({a, b}) /\ Len(s) = 2 /\ s[1] = a /\ s[2] = b
    BY <2>1, AppendProperties, Len(<<a>>) = 1
  <2>3. Len(t) = 2 /\ t[1] = a /\ t[2] = b
    OBVIOUS
  <2> HIDE DEF s, t
  <2>4. \A i \in 1 .. Len(s) : s[i] = t[i]
    BY <2>2, <2>3
  <2> QED BY <2>1, <2>2, <2>3, <2>4, SeqEqual DEF s, t
<1>3. Head(<<a>>) = a /\ Head(<<a, b>>) = a
  OBVIOUS
<1>4. Tail(<<a>>) = <<>>
  OBVIOUS
<1>5. Tail(<<a, b>>) = <<b>>
  OBVIOUS
<1>6. <<a>> # <<>> /\ <<a, b>> # <<>>
  OBVIOUS
<1> QED BY <1>1, <1>2, <1>3, <1>4, <1>5, <1>6

(* The answer with a name is a pipe's longest. *)
LEMMA AnswerFacts ==
  ASSUME NEW r
  PROVE  /\ Head(<<Length(r, TRUE), Name(r)>>) = Length(r, TRUE)
         /\ Tail(<<Length(r, TRUE), Name(r)>>) = <<Name(r)>>
         /\ Append(<<Length(r, TRUE)>>, Name(r)) = <<Length(r, TRUE), Name(r)>>
         /\ Append(<<>>, Name(r)) = <<Name(r)>>
         /\ Head(<<Length(r, TRUE)>>) = Length(r, TRUE) /\ Tail(<<Length(r, TRUE)>>) = <<>>
         /\ <<Length(r, TRUE)>> # <<Length(r, TRUE), Name(r)>>
         /\ Length(r, TRUE) # Length(r, FALSE)
<1> DEFINE a == Length(r, TRUE)
           b == Name(r)
<1>1. <<a>> # <<a, b>>
  <2>1. Len(<<a>>) = 1 /\ Len(<<a, b>>) = 2
    OBVIOUS
  <2> QED BY <2>1
<1>2. Length(r, TRUE) # Length(r, FALSE)
  BY DEF Length, Msg
<1> HIDE DEF a, b
<1>3. /\ Head(<<a, b>>) = a /\ Tail(<<a, b>>) = <<b>> /\ Append(<<a>>, b) = <<a, b>>
      /\ Append(<<>>, b) = <<b>> /\ Head(<<a>>) = a /\ Tail(<<a>>) = <<>>
  BY PipeFacts
<1> QED BY <1>1, <1>2, <1>3 DEF a, b

(* At first nothing has been asked. *)
LEMMA LookupInvInit == InitLookup => LookupInv
  BY DEF InitLookup, LookupInv, TypeLookup, ServerSide, LookupSide, AnswersMatch, NoRequest,
     Requests, Kinds, Fallback, Msg

(* One step of any of the processes. *)
LEMMA LookupInvNext == LookupInv /\ [NextLookup]_lookup_vars => LookupInv'
<1> SUFFICES ASSUME LookupInv, [NextLookup]_lookup_vars PROVE LookupInv'
  OBVIOUS
<1> USE DEF LookupInv
<1>1. ASSUME NEW kind \in Kinds, LookUp(kind) PROVE LookupInv'
  <2>0. request' \in Requests /\ request'.kind = kind
    BY <1>1 DEF LookUp, TypeLookup, Requests
  <2>1. TypeLookup'
    BY <1>1, <2>0 DEF LookUp, TypeLookup, abandon_intermediary, helper_vars, Kinds
  <2>2. ServerSide'
    <3>1. server = "idle" /\ from_intermediary' = <<>> /\ intermediary' \in {"idle", "dead"}
      BY <1>1 DEF LookUp, ServerSide, helper_vars
    <3>2. CASE server' = "idle"
      BY <1>1, <3>1, <3>2 DEF LookUp, ServerSide, abandon_intermediary, helper_vars,
         HelpersGone
    <3>3. CASE server' # "idle"
      <4>1. server' # "data" /\ to_intermediary' = Append(to_intermediary, Msg("request", request', TRUE))
        BY <1>1, <3>1, <3>3 DEF LookUp, abandon_intermediary
      <4>2. intermediary = "idle" => Asked'
        BY <3>1, <4>1, PipeFacts DEF ServerSide, Asked
      <4> QED BY <1>1, <3>1, <3>3, <4>1, <4>2 DEF LookUp, ServerSide, helper_vars
    <3> QED BY <3>2, <3>3
  <2>3. LookupSide'
    BY <1>1 DEF LookUp, LookupSide, helper_vars, ServerSide
  <2>4. AnswersMatch'
    BY <1>1 DEF LookUp, AnswersMatch, abandon_intermediary
  <2> QED BY <2>1, <2>2, <2>3, <2>4
<1>2. ASSUME ServerReads PROVE LookupInv'
  <2> DEFINE m == Head(from_intermediary)
  <2>0. /\ intermediary \in {"idle", "name", "dead"}
        /\ from_intermediary = Half(request, server = "data") \/ from_intermediary \in Whole(request, server = "data")
    BY <1>2, PipeFacts DEF ServerReads, ServerSide, Asked, TypeLookup
  <2>1. CASE server = "addr"
    <3>1. \E f \in BOOLEAN : from_intermediary = <<Address(request, f)>>
      BY <1>2, <2>0, <2>1, PipeFacts DEF ServerReads, Half, Whole, TypeLookup
    <3>2. PICK f \in BOOLEAN : m = Address(request, f) /\ from_intermediary' = <<>>
      BY <1>2, <3>1, PipeFacts DEF ServerReads
    <3>3. server' = "idle" /\ answer' = (IF f THEN m ELSE Fallback) /\ m.of = request /\ m.what = "addr"
      BY <1>2, <2>1, <3>2 DEF ServerReads, Address, Msg
    <3>4. AnswersMatch'
      BY <1>2, <2>0, <2>1, <3>1, <3>2, <3>3 DEF ServerReads, AnswersMatch, TypeLookup
    <3>5. intermediary = "idle" => to_intermediary = <<>>
      BY <1>2, <2>1, <3>3, PipeFacts DEF ServerSide, Asked, ServerReads
    <3>6. intermediary # "name"
      BY <1>2, <2>1, <3>1, PipeFacts DEF ServerSide, Half, TypeLookup, ServerReads
    <3> QED
      BY <1>2, <2>0, <3>2, <3>3, <3>4, <3>5, <3>6 DEF ServerReads, TypeLookup,
         ServerSide, LookupSide, helper_vars
  <2>2. CASE server = "data"
    <3>1. from_intermediary = <<Name(request)>>
      BY <1>2, <2>0, <2>2, PipeFacts DEF ServerReads, Half, Whole, TypeLookup
    <3>2. m = Name(request) /\ from_intermediary' = <<>>
      BY <1>2, <3>1, PipeFacts DEF ServerReads
    <3>3. server' = "idle" /\ answer' = m /\ m.of = request /\ m.what = "name"
      BY <1>2, <2>2, <3>2 DEF ServerReads, Name, Msg
    <3>4. AnswersMatch'
      BY <1>2, <2>0, <2>2, <3>1, <3>2, <3>3 DEF ServerReads, AnswersMatch, TypeLookup
    <3>5. intermediary = "idle" => to_intermediary = <<>>
      BY <1>2, <2>2, <3>3, PipeFacts DEF ServerSide, Asked, ServerReads
    <3>6. intermediary # "name"
      BY <1>2, <2>2, <3>1, PipeFacts DEF ServerSide, Half, TypeLookup, ServerReads
    <3> QED
      BY <1>2, <2>0, <3>2, <3>3, <3>4, <3>5, <3>6 DEF ServerReads, TypeLookup,
         ServerSide, LookupSide, helper_vars
  <2>3. CASE server = "len"
    <3>1. \/ from_intermediary = <<Length(request, FALSE)>>
          \/ from_intermediary = <<Length(request, TRUE)>>
          \/ from_intermediary = <<Length(request, TRUE), Name(request)>>
      BY <2>0, <2>3 DEF Half, Whole, TypeLookup
    <3>2. CASE from_intermediary = <<Length(request, FALSE)>>
      <4>1. m = Length(request, FALSE) /\ from_intermediary' = <<>>
        BY <1>2, <3>2, PipeFacts DEF ServerReads
      <4>2. server' = "idle" /\ answer' = Fallback
        BY <1>2, <2>3, <4>1 DEF ServerReads, Length, Msg
      <4>3. intermediary = "idle" => to_intermediary = <<>>
        BY <1>2, <2>3, <3>2, PipeFacts DEF ServerSide, Asked, ServerReads
      <4>4. intermediary # "name"
        BY <2>3, <3>2, PipeFacts DEF ServerSide, Half, Length, Msg, ServerReads
      <4> QED
        BY <1>2, <2>0, <2>3, <4>1, <4>2, <4>3, <4>4 DEF ServerReads, TypeLookup,
           ServerSide, LookupSide,
           AnswersMatch, helper_vars
    <3>3. CASE from_intermediary # <<Length(request, FALSE)>>
      <4>1. /\ from_intermediary' = <<>> \/ from_intermediary' = <<Name(request)>>
            /\ intermediary = "name" => from_intermediary' = <<>>
            /\ m = Length(request, TRUE)
        <5>1. /\ from_intermediary' = Tail(from_intermediary)
              /\ \/ from_intermediary = <<Length(request, TRUE)>>
                 \/ from_intermediary = <<Length(request, TRUE), Name(request)>>
          BY <1>2, <3>1, <3>3 DEF ServerReads
        <5>2. intermediary = "name" => from_intermediary = <<Length(request, TRUE)>>
          BY <2>3 DEF ServerSide, Half
        <5> QED BY <5>1, <5>2, AnswerFacts
      <4>2. server' = "data" /\ UNCHANGED answer
        BY <1>2, <2>3, <4>1 DEF ServerReads, Length, Msg
      <4>3. ServerSide'
        <5>1. intermediary = "idle" => from_intermediary' = <<Name(request)>> /\ to_intermediary = <<>>
          <6>1. ASSUME intermediary = "idle" PROVE
                    from_intermediary \in Whole(request, FALSE) /\ to_intermediary = <<>>
            BY <1>2, <2>3, <6>1 DEF ServerSide, Asked, ServerReads
          <6>2. ASSUME intermediary = "idle"
                PROVE  from_intermediary = <<Length(request, TRUE), Name(request)>>
            BY <2>3, <3>3, <6>1, <6>2 DEF Whole, TypeLookup
          <6> QED BY <1>2, <6>1, <6>2, AnswerFacts DEF ServerReads
        <5> QED
          BY <1>2, <2>0, <2>3, <4>1, <4>2, <5>1 DEF ServerSide, Whole, Half, ServerReads,
             helper_vars
      <4> QED
        BY <1>2, <2>3, <4>2, <4>3 DEF ServerReads, TypeLookup, LookupSide, AnswersMatch,
           helper_vars
    <3> QED BY <3>2, <3>3
  <2> QED BY <1>2, <2>1, <2>2, <2>3 DEF ServerReads, TypeLookup
<1>3. ASSUME ServerGivesUp PROVE LookupInv'
  BY <1>3 DEF ServerGivesUp, abandon_intermediary, pipes, helper_vars, TypeLookup,
     ServerSide, LookupSide,
     AnswersMatch, HelpersGone
<1>4. ASSUME Forward PROVE LookupInv'
  <2>1. /\ server # "idle" /\ server # "data" /\ from_intermediary = <<>>
        /\ to_intermediary = <<Msg("request", request, TRUE)>>
    BY <1>4 DEF Forward, ServerSide, Asked
  <2>2. serving' = request /\ to_intermediary' = <<>> /\ Head(to_intermediary) = Msg("request", request, TRUE)
    BY <1>4, <2>1, PipeFacts DEF Forward, Msg
  <2>3. /\ from_lookup = <<>> /\ lookup \in {"read", "dead"}
        /\ lookup = "read" => to_lookup' = <<Msg("request", request, TRUE)>>
    BY <1>4, <2>2, PipeFacts DEF Forward, LookupSide
  <2> QED
    BY <1>4, <2>1, <2>2, <2>3 DEF Forward, TypeLookup, ServerSide, LookupSide,
       AnswersMatch, server_vars
<1>5. ASSUME NEW ok \in BOOLEAN, ForwardToNew(ok) PROVE LookupInv'
  <2>1. /\ server # "idle" /\ server # "data" /\ from_intermediary = <<>>
        /\ to_intermediary = <<Msg("request", request, TRUE)>>
    BY <1>5 DEF ForwardToNew, ServerSide, Asked
  <2>2. serving' = request /\ to_intermediary' = <<>> /\ Head(to_intermediary) = Msg("request", request, TRUE)
    BY <1>5, <2>1, PipeFacts DEF ForwardToNew, Msg
  <2>3. CASE ok
    BY <1>5, <2>1, <2>2, <2>3 DEF ForwardToNew, TypeLookup, ServerSide, LookupSide,
       AnswersMatch, server_vars
  <2>4. CASE ~ok
    <3>1. from_intermediary' = <<Failure(request)>> /\ intermediary' = "idle" /\ to_lookup' = <<>>
      BY <1>5, <2>1, <2>2, <2>4, PipeFacts DEF ForwardToNew, Reply, Msg
    <3>2. from_intermediary' \in Whole(request, FALSE)
      BY <3>1 DEF Whole, Failure, Length, Address
    <3> QED
      BY <1>5, <2>1, <2>2, <2>4, <3>1, <3>2 DEF ForwardToNew, TypeLookup, ServerSide,
         LookupSide, AnswersMatch, server_vars
  <2> QED BY <2>3, <2>4
<1>6. ASSUME IntermediaryReads PROVE LookupInv'
  <2> DEFINE m == Head(from_lookup)
  <2>0. /\ server # "idle" /\ server # "data" /\ serving = request
        /\ to_intermediary = <<>> /\ from_intermediary = <<>>
    BY <1>6 DEF IntermediaryReads, ServerSide
  <2>1. CASE intermediary = "data"
    <3>1. from_lookup = <<Name(request)>> /\ lookup \in {"read", "dead"} /\ to_lookup = <<>>
      BY <1>6, <2>1 DEF IntermediaryReads, LookupSide, Half, Whole
    <3>2. m.of = request /\ from_lookup' = <<>>
      BY <1>6, <3>1, PipeFacts DEF IntermediaryReads, Name, Msg
    <3>3. intermediary' = "name" /\ from_intermediary' = <<Length(request, TRUE)>>
      BY <1>6, <2>0, <2>1, <3>2, PipeFacts DEF IntermediaryReads, Length
    <3> QED
      BY <1>6, <2>0, <2>1, <3>1, <3>2, <3>3 DEF IntermediaryReads, TypeLookup,
         ServerSide, LookupSide, AnswersMatch,
         server_vars, Half
  <2>2. CASE intermediary = "len"
    <3>1. \/ /\ request.kind = "REQ_NAME_FROM_ADDR" /\ from_lookup = <<Length(request, TRUE)>>
             /\ lookup \in {"name", "dead"} /\ to_lookup = <<Msg("request", request, TRUE)>>
          \/ /\ lookup \in {"read", "dead"} /\ to_lookup = <<>>
             /\ from_lookup \in Whole(request, FALSE)
      BY <1>6, <2>2 DEF IntermediaryReads, LookupSide, Half
    <3>2. CASE m = Length(request, TRUE)
      <4>1. intermediary' = "data" /\ UNCHANGED from_intermediary
        BY <1>6, <2>2, <3>2 DEF IntermediaryReads, Length, Msg
      <4>2. request.kind = "REQ_NAME_FROM_ADDR"
        BY <3>1, <3>2, PipeFacts DEF Whole, Address, Length, Msg
      <4>3. from_lookup = <<Length(request, TRUE)>> \/ from_lookup = <<Length(request, TRUE), Name(request)>>
        BY <3>1, <3>2, <4>2, PipeFacts DEF Whole, Length, Msg
      <4>4. /\ from_lookup = <<Length(request, TRUE)>> => from_lookup' = <<>>
            /\ from_lookup = <<Length(request, TRUE), Name(request)>> => from_lookup' = <<Name(request)>>
        BY <1>6, AnswerFacts DEF IntermediaryReads
      <4>5. LookupSide'
        <5>1. CASE from_lookup = <<Length(request, TRUE)>>
          <6>1. lookup \in {"name", "dead"} /\ to_lookup = <<Msg("request", request, TRUE)>>
            BY <3>1, <5>1, <4>2 DEF Whole, Length, Msg
          <6> QED BY <1>6, <4>1, <4>2, <4>4, <5>1, <6>1 DEF LookupSide, Half,
                     IntermediaryReads, server_vars
        <5>2. CASE from_lookup = <<Length(request, TRUE), Name(request)>>
          <6>1. lookup \in {"read", "dead"} /\ to_lookup = <<>>
            BY <3>1, <5>2
          <6> QED BY <1>6, <4>1, <4>4, <5>2, <6>1 DEF LookupSide, Whole,
                     IntermediaryReads, server_vars
        <5> QED BY <4>3, <5>1, <5>2
      <4> QED
        BY <1>6, <2>0, <4>1, <4>2, <4>5 DEF IntermediaryReads, TypeLookup, ServerSide,
           AnswersMatch, server_vars
    <3>3. CASE m # Length(request, TRUE)
      <4>1. \/ request.kind = "REQ_NAME_FROM_ADDR" /\ from_lookup = <<Length(request, FALSE)>>
            \/ request.kind # "REQ_NAME_FROM_ADDR" /\ \E f \in BOOLEAN : from_lookup = <<Address(request, f)>>
        <5>1. /\ from_lookup # <<Length(request, TRUE)>>
              /\ from_lookup # <<Length(request, TRUE), Name(request)>>
          BY <3>3, AnswerFacts
        <5> QED BY <3>1, <5>1 DEF Whole
      <4>2. from_lookup = <<m>> /\ from_lookup' = <<>> /\ lookup \in {"read", "dead"} /\ to_lookup = <<>>
        BY <1>6, <3>1, <3>3, <4>1, PipeFacts DEF IntermediaryReads
      <4>3. intermediary' = "idle" /\ from_intermediary' = <<m>>
        <5>1. ~(m.what = "len" /\ m.found)
          BY <4>1, <4>2, PipeFacts DEF Length, Address, Msg
        <5> QED BY <1>6, <2>0, <2>2, <5>1, PipeFacts DEF IntermediaryReads, Reply
      <4>4. <<m>> \in Whole(request, FALSE)
        BY <4>1, <4>2 DEF Whole
      <4> QED
        BY <1>6, <2>0, <4>2, <4>3, <4>4 DEF IntermediaryReads, TypeLookup, ServerSide,
           LookupSide, AnswersMatch, server_vars
    <3> QED BY <3>2, <3>3
  <2> QED BY <1>6, <2>1, <2>2 DEF IntermediaryReads
<1>7. ASSUME PassName PROVE LookupInv'
  <2>1. from_intermediary' \in Whole(request, server = "data")
    <3>1. /\ from_intermediary' = Append(from_intermediary, Name(request))
          /\ server # "idle" /\ request.kind = "REQ_NAME_FROM_ADDR"
          /\ from_intermediary = Half(request, server = "data")
      BY <1>7 DEF PassName, Reply, ServerSide, Name
    <3> QED BY <3>1, AnswerFacts DEF Whole, Half
  <2> QED BY <1>7, <2>1 DEF PassName, Reply, TypeLookup, ServerSide, LookupSide,
             AnswersMatch, server_vars
<1>8. ASSUME NEW ok \in BOOLEAN, IntermediaryRestarts(ok) PROVE LookupInv'
  <2>0. /\ server # "idle" /\ server # "data" /\ serving = request
        /\ to_intermediary = <<>> /\ from_intermediary = <<>>
    BY <1>8 DEF IntermediaryRestarts, ServerSide
  <2>1. from_intermediary' = <<Failure(request)>>
    BY <1>8, <2>0, PipeFacts DEF IntermediaryRestarts, Reply
  <2>2. from_intermediary' \in Whole(request, FALSE)
    BY <2>1 DEF Whole, Failure, Length, Address
  <2> QED
    BY <1>8, <2>0, <2>2 DEF IntermediaryRestarts, restart_lookup, Reply, TypeLookup,
       ServerSide, LookupSide,
       AnswersMatch, server_vars
<1>9. ASSUME LookupReads PROVE LookupInv'
  BY <1>9 DEF LookupReads, TypeLookup, ServerSide, LookupSide, AnswersMatch, server_vars,
     pipes, Asked
<1>10. ASSUME NEW found \in BOOLEAN, Resolved(found) PROVE LookupInv'
  <2>1. CASE intermediary \in {"len", "data"}
    <3>1. /\ intermediary = "len" /\ from_lookup = <<>>
          /\ to_lookup = <<Msg("request", request, TRUE)>>
      BY <1>10, <2>1 DEF Resolved, LookupSide
    <3>2. Head(to_lookup).of = request /\ Tail(to_lookup) = <<>>
      BY <3>1, PipeFacts DEF Msg
    <3>3. LookupSide'
      <4>1. CASE request.kind = "REQ_ADDR_FROM_NAME"
        <5>1. from_lookup' = <<Address(request, found)>> /\ to_lookup' = <<>> /\ lookup' = "read"
          BY <1>10, <3>1, <3>2, <4>1, PipeFacts DEF Resolved, Address
        <5> QED BY <1>10, <3>1, <4>1, <5>1 DEF LookupSide, Resolved, Whole, server_vars
      <4>2. CASE request.kind # "REQ_ADDR_FROM_NAME"
        <5>1. request.kind = "REQ_NAME_FROM_ADDR"
          BY <4>2 DEF TypeLookup, Requests, Kinds
        <5>2. /\ from_lookup' = <<Length(request, found)>>
              /\ IF found THEN lookup' = "name" /\ to_lookup' = to_lookup
                 ELSE lookup' = "read" /\ to_lookup' = <<>>
          BY <1>10, <3>1, <3>2, <4>2, PipeFacts DEF Resolved, Length
        <5> QED BY <1>10, <3>1, <5>1, <5>2 DEF LookupSide, Resolved, Whole, Half,
                   server_vars
      <4> QED BY <4>1, <4>2
    <3> QED
      BY <1>10, <3>3 DEF Resolved, TypeLookup, ServerSide, AnswersMatch, server_vars, Asked
  <2>2. CASE intermediary \notin {"len", "data"}
    BY <1>10, <2>2 DEF Resolved, TypeLookup, ServerSide, LookupSide, AnswersMatch,
       server_vars, Asked
  <2> QED BY <2>1, <2>2
<1>11. ASSUME WriteName PROVE LookupInv'
  <2>1. CASE intermediary \in {"len", "data"}
    <3>1. /\ request.kind = "REQ_NAME_FROM_ADDR" /\ to_lookup = <<Msg("request", request, TRUE)>>
          /\ from_lookup = Half(request, intermediary = "data")
      BY <1>11, <2>1 DEF WriteName, LookupSide
    <3>2. from_lookup' = Append(from_lookup, Name(request)) /\ to_lookup' = <<>>
      <4>1. Head(to_lookup).of = request /\ Tail(to_lookup) = <<>>
        BY <3>1, PipeFacts DEF Msg
      <4> QED BY <1>11, <4>1 DEF WriteName, Name
    <3>3. from_lookup' \in Whole(request, intermediary = "data")
      BY <3>1, <3>2, AnswerFacts DEF Whole, Half
    <3> QED
      BY <1>11, <2>1, <3>1, <3>2, <3>3 DEF WriteName, TypeLookup, ServerSide, LookupSide,
         AnswersMatch, server_vars, Asked
  <2>2. CASE intermediary \notin {"len", "data"}
    BY <1>11, <2>2 DEF WriteName, TypeLookup, ServerSide, LookupSide, AnswersMatch,
       server_vars, Asked
  <2> QED BY <2>1, <2>2
<1>12. ASSUME TimedOut \/ LookupOrphaned \/ LookupDies PROVE LookupInv'
  BY <1>12 DEF TimedOut, LookupOrphaned, LookupDies, LookupExits, TypeLookup, ServerSide,
     LookupSide,
     AnswersMatch, server_vars, pipes, Asked, HelpersGone
<1>13. ASSUME IntermediaryDies PROVE LookupInv'
  <2>1. server # "idle" /\ intermediary' = "dead" /\ UNCHANGED <<server_vars, pipes, lookup>>
    BY <1>13 DEF IntermediaryDies
  <2>2. from_intermediary \in {<<>>, Half(request, server = "data")} \cup Whole(request, server = "data")
    BY <1>13, <2>1 DEF ServerSide, TypeLookup, IntermediaryDies, Asked
  <2> QED
    BY <2>1, <2>2 DEF TypeLookup, ServerSide, LookupSide, AnswersMatch, server_vars, pipes
<1>14. ASSUME UNCHANGED lookup_vars PROVE LookupInv'
  BY <1>14 DEF lookup_vars, server_vars, pipes, helper_vars, TypeLookup, ServerSide,
     LookupSide, AnswersMatch, Asked
<1> QED BY <1>1, <1>2, <1>3, <1>4, <1>5, <1>6, <1>7, <1>8, <1>9, <1>10, <1>11, <1>12,
           <1>13, <1>14
        DEF NextLookup, ServerSteps, IntermediarySteps, SlaveSteps

(* Whatever dies, and whenever, the answer that the server takes is the     *)
(* answer to what it asked last: network_connection_name() and              *)
(* open_network_connection() never get the name of another host.            *)
THEOREM AnswersAreForTheRequest == SpecLookup => []AnswersMatch
  BY LookupInvInit, LookupInvNext, PTL DEF SpecLookup, LookupInv

-----------------------------------------------------------------------------
(* Timers.  Beside the clock's being set for the head of the list, the      *)
(* invariant says what a timer's number stands for: a number in the list or *)
(* of the virtual timer was given out, to one timer only, which has neither *)
(* fired nor been cancelled.                                                *)

TimerRecords ==
  [id : 0 .. MaxTimers - 1, when : 0 .. MaxTime + MaxSeconds, raises : BOOLEAN]

TypeTimers ==
  /\ now \in 0 .. MaxTime /\ next_id \in 0 .. MaxTimers
  /\ active_timers \in Seq(TimerRecords)
  /\ alarm \in Nat /\ sigalrm \in BOOLEAN
  /\ virtual_timer \in 0 .. NoTimer
  /\ fired \subseteq Nat /\ cancelled \subseteq Nat

Numbered ==
  /\ \A i \in DOMAIN active_timers :
       /\ active_timers[i].id < next_id /\ active_timers[i].id # virtual_timer
       /\ active_timers[i].id \notin fired \cup cancelled
       /\ \A j \in DOMAIN active_timers : active_timers[i].id = active_timers[j].id => i = j
  /\ virtual_timer # NoTimer =>
       virtual_timer < next_id /\ virtual_timer \notin fired \cup cancelled
  /\ \A id \in fired \cup cancelled : id < next_id

TimersInv == TypeTimers /\ Numbered /\ Armed

(* NoAlarm is later than any time that a timer is set for. *)
LEMMA NoAlarmIsLate == NoAlarm \in Nat /\ NoAlarm > MaxTime + MaxSeconds
<1>1. \A m, s \in Nat : s > 0 => m * s \in Nat /\ m * s >= m
  OBVIOUS
<1> QED BY <1>1, TimersAssumption DEF NoAlarm

(* What the list holds after a timer went into it, or out of it. *)
LEMMA InsertAtFacts ==
  ASSUME NEW s \in Seq(TimerRecords), NEW p \in 1 .. Len(s) + 1, NEW e \in TimerRecords
  PROVE  /\ InsertAt(s, p, e) \in Seq(TimerRecords) /\ Len(InsertAt(s, p, e)) = Len(s) + 1
         /\ \A i \in 1 .. Len(s) + 1 :
              InsertAt(s, p, e)[i] = IF i < p THEN s[i] ELSE IF i = p THEN e ELSE s[i - 1]
<1> DEFINE b == SubSeq(s, 1, p - 1)
           a == SubSeq(s, p, Len(s))
<1>1. /\ b \in Seq(TimerRecords) /\ Len(b) = p - 1
      /\ \A i \in 1 .. p - 1 : b[i] = s[i]
  <2>1. \A i \in 1 .. p - 1 : s[i] \in TimerRecords
    OBVIOUS
  <2> QED BY <2>1, SubSeqProperties
<1>2. /\ a \in Seq(TimerRecords) /\ Len(a) = Len(s) - p + 1
      /\ \A i \in 1 .. Len(s) - p + 1 : a[i] = s[i + p - 1]
  <2>1. \A i \in p .. Len(s) : s[i] \in TimerRecords
    OBVIOUS
  <2> QED BY <2>1, SubSeqProperties
<1> HIDE DEF a, b
<1>3. /\ b \o <<e>> \in Seq(TimerRecords) /\ Len(b \o <<e>>) = p
      /\ \A i \in 1 .. p : (b \o <<e>>)[i] = IF i < p THEN s[i] ELSE e
  BY <1>1
<1>4. Len(s) \in Nat /\ p \in Nat /\ p <= Len(s) + 1
  OBVIOUS
<1> DEFINE c == b \o <<e>>
           d == c \o a
<1> HIDE DEF c
<1>5. d \in Seq(TimerRecords) /\ Len(d) = Len(s) + 1
  <2>1. c \in Seq(TimerRecords) /\ Len(c) = p
    BY <1>3 DEF c
  <2>2. d \in Seq(TimerRecords) /\ Len(d) = p + (Len(s) - p + 1)
    BY <1>2, <2>1
  <2> QED BY <1>4, <2>2
<1>6. \A i \in 1 .. Len(s) + 1 : d[i] = IF i <= p THEN c[i] ELSE a[i - p]
  BY <1>2, <1>3 DEF c
<1> HIDE DEF d
<1>7. ASSUME NEW i \in 1 .. Len(s) + 1
      PROVE  d[i] = IF i < p THEN s[i] ELSE IF i = p THEN e ELSE s[i - 1]
  <2>1. CASE i > p
    <3>1. i - p \in 1 .. Len(s) - p + 1 /\ (i - p) + p - 1 = i - 1
      BY <1>4, <2>1
    <3>2. d[i] = a[i - p]
      BY <1>4, <1>6, <2>1
    <3>3. a[i - p] = s[(i - p) + p - 1]
      BY <1>2, <3>1
    <3> QED BY <1>4, <2>1, <3>1, <3>2, <3>3
  <2>2. CASE i <= p
    <3>1. i \in 1 .. p
      BY <1>4, <2>2
    <3>2. d[i] = c[i] /\ c[i] = IF i < p THEN s[i] ELSE e
      BY <1>6, <1>3, <2>2, <3>1 DEF c
    <3> QED BY <1>4, <2>2, <3>2
  <2> QED BY <1>4, <2>1, <2>2
<1> QED BY <1>5, <1>7 DEF InsertAt, a, b, c, d

(* What is left of a list when one entry is taken out. *)
LEMMA RemoveAtFacts ==
  ASSUME NEW S, NEW s \in Seq(S), NEW p \in 1 .. Len(s)
  PROVE  /\ RemoveAt(s, p) \in Seq(S) /\ Len(RemoveAt(s, p)) = Len(s) - 1
         /\ \A i \in 1 .. Len(s) - 1 : RemoveAt(s, p)[i] = IF i < p THEN s[i] ELSE s[i + 1]
<1> DEFINE b == SubSeq(s, 1, p - 1)
           a == SubSeq(s, p + 1, Len(s))
<1>1. /\ b \in Seq(S) /\ Len(b) = p - 1
      /\ \A i \in 1 .. p - 1 : b[i] = s[i]
  <2>1. \A i \in 1 .. p - 1 : s[i] \in S
    OBVIOUS
  <2> QED BY <2>1, SubSeqProperties
<1>2. /\ a \in Seq(S) /\ Len(a) = Len(s) - p
      /\ \A i \in 1 .. Len(s) - p : a[i] = s[i + p]
  <2>1. \A i \in p + 1 .. Len(s) : s[i] \in S
    OBVIOUS
  <2> QED BY <2>1, SubSeqProperties
<1> HIDE DEF a, b
<1>3. b \o a \in Seq(S) /\ Len(b \o a) = Len(s) - 1
  BY <1>1, <1>2
<1>4. \A i \in 1 .. Len(s) - 1 : (b \o a)[i] = IF i < p THEN b[i] ELSE a[i - p + 1]
  BY <1>1, <1>2
<1>5. \A i \in 1 .. Len(s) - 1 : (b \o a)[i] = IF i < p THEN s[i] ELSE s[i + 1]
  BY <1>1, <1>2, <1>4
<1> QED BY <1>3, <1>5 DEF RemoveAt, a, b

(* Whatever list the clock is set for, it is set as Armed says. *)
LEMMA ClockIsSet ==
  ASSUME TypeTimers, NEW list \in Seq(TimerRecords), restart_timers(list)
  PROVE  /\ alarm' \in Nat /\ sigalrm' \in BOOLEAN
         /\ list = <<>> <=> alarm' = NoAlarm /\ ~sigalrm'
         /\ alarm' # NoAlarm => alarm' = Head(list).when
<1>1. list # <<>> => Head(list) \in TimerRecords
  OBVIOUS
<1>2. list # <<>> => Head(list).when \in 0 .. MaxTime + MaxSeconds
  BY <1>1 DEF TimerRecords
<1>3. CASE list = <<>>
  BY <1>3, NoAlarmIsLate DEF restart_timers
<1>4. CASE list # <<>> /\ now < Head(list).when
  BY <1>2, <1>4, NoAlarmIsLate, TimersAssumption DEF restart_timers, TypeTimers
<1>5. CASE list # <<>> /\ ~(now < Head(list).when)
  <2>1. sigalrm' = TRUE /\ alarm' = NoAlarm
    <3>1. now \in Int /\ Head(list).when \in Int
      BY <1>2, <1>5, TimersAssumption DEF TypeTimers
    <3>2. now >= Head(list).when
      BY <1>5, <3>1
    <3> QED BY <1>5, <3>2 DEF restart_timers
  <2> QED BY <1>5, <2>1, NoAlarmIsLate
<1> QED BY <1>3, <1>4, <1>5

(* The lists of timers keep to their type. *)
LEMMA ListTypes ==
  ASSUME NEW list \in Seq(TimerRecords), NEW i \in DOMAIN list
  PROVE  /\ list[i] \in TimerRecords
         /\ list[i].id \in Nat /\ list[i].id # NoTimer /\ list[i].when \in Nat
<1>1. list[i] \in TimerRecords
  OBVIOUS
<1>2. list[i].id \in 0 .. MaxTimers - 1 /\ list[i].when \in 0 .. MaxTime + MaxSeconds
  BY <1>1 DEF TimerRecords
<1>3. list[i].id \in Nat /\ list[i].id # MaxTimers
  BY <1>2, TimersAssumption
<1> QED BY <1>1, <1>2, <1>3 DEF NoTimer

(* No timer is set at first. *)
LEMMA TimersInvInit == InitTimers => TimersInv
<1> SUFFICES ASSUME InitTimers PROVE TimersInv
  OBVIOUS
<1> USE TimersAssumption DEF InitTimers
<1>1. active_timers \in Seq(TimerRecords) /\ Len(active_timers) = 0 /\ DOMAIN active_timers = {}
  OBVIOUS
<1>2. TypeTimers
  <2>1. now \in 0 .. MaxTime /\ next_id \in 0 .. MaxTimers /\ virtual_timer \in 0 .. NoTimer
    BY DEF NoTimer
  <2>2. alarm \in Nat /\ sigalrm \in BOOLEAN /\ fired \subseteq Nat /\ cancelled \subseteq Nat
    BY NoAlarmIsLate
  <2> QED BY <1>1, <2>1, <2>2 DEF TypeTimers
<1>3. Numbered
  BY <1>1 DEF Numbered
<1>4. Armed
  BY <1>1 DEF Armed
<1> QED BY <1>2, <1>3, <1>4 DEF TimersInv

(* Every step keeps the timers numbered and the clock armed. *)
LEMMA TimersInvNext == TimersInv /\ [NextTimers]_timer_vars => TimersInv'
<1> SUFFICES ASSUME TimersInv, [NextTimers]_timer_vars PROVE TimersInv'
  OBVIOUS
<1> USE TimersAssumption DEF NoTimer
<1>1. ASSUME NEW seconds \in 0 .. MaxSeconds, NEW raises \in BOOLEAN, set_timer(seconds, raises)
      PROVE  TimersInv'
  <2> DEFINE t == [id |-> next_id, when |-> now + seconds, raises |-> raises]
  <2>1. PICK p \in Places(now + seconds) : active_timers' = InsertAt(active_timers, p, t)
    BY <1>1 DEF set_timer
  <2>2. /\ t \in TimerRecords /\ active_timers \in Seq(TimerRecords)
        /\ p \in 1 .. Len(active_timers) + 1
        /\ t.id = next_id /\ t.when = now + seconds /\ now + seconds \in Nat
    BY <1>1 DEF TimersInv, TypeTimers, TimerRecords, set_timer, Places
  <2> HIDE DEF t
  <2>3. /\ active_timers' \in Seq(TimerRecords) /\ Len(active_timers') = Len(active_timers) + 1
        /\ \A i \in 1 .. Len(active_timers) + 1 :
             active_timers'[i] = IF i < p THEN active_timers[i]
                                 ELSE IF i = p THEN t ELSE active_timers[i - 1]
    <3>1. active_timers' = InsertAt(active_timers, p, t)
      BY <2>1 DEF t
    <3>2. /\ InsertAt(active_timers, p, t) \in Seq(TimerRecords)
          /\ Len(InsertAt(active_timers, p, t)) = Len(active_timers) + 1
          /\ \A i \in 1 .. Len(active_timers) + 1 :
               InsertAt(active_timers, p, t)[i] =
                 IF i < p THEN active_timers[i] ELSE IF i = p THEN t ELSE active_timers[i - 1]
      <4> DEFINE s == active_timers
      <4>1. s \in Seq(TimerRecords) /\ t \in TimerRecords /\ p \in 1 .. Len(s) + 1
        BY <2>2
      <4> HIDE DEF s
      <4>2. /\ InsertAt(s, p, t) \in Seq(TimerRecords) /\ Len(InsertAt(s, p, t)) = Len(s) + 1
            /\ \A i \in 1 .. Len(s) + 1 :
                 InsertAt(s, p, t)[i] = IF i < p THEN s[i] ELSE IF i = p THEN t ELSE s[i - 1]
        BY <4>1, InsertAtFacts
      <4> QED BY <4>2 DEF s
    <3> QED BY <3>1, <3>2
  <2>4. /\ alarm' \in Nat /\ sigalrm' \in BOOLEAN
        /\ active_timers' = <<>> <=> alarm' = NoAlarm /\ ~sigalrm'
        /\ alarm' # NoAlarm => alarm' = Head(active_timers').when
    BY <1>1, <2>3, ClockIsSet DEF TimersInv, set_timer
  <2>5. TypeTimers'
    BY <1>1, <2>3, <2>4 DEF TimersInv, TypeTimers, set_timer, restart_virtual
  <2>6. Numbered'
    <3>1. \A i \in DOMAIN active_timers' :
            \/ i < p /\ i \in DOMAIN active_timers /\ active_timers'[i] = active_timers[i]
            \/ i = p /\ active_timers'[i] = t
            \/ i > p /\ i - 1 \in DOMAIN active_timers /\ active_timers'[i] = active_timers[i - 1]
      BY <2>2, <2>3
    <3>2. next_id' = next_id + 1 /\ UNCHANGED <<fired, cancelled, virtual_timer>> /\ next_id < NoTimer
      BY <1>1 DEF set_timer, restart_virtual
    <3>3. \A i \in DOMAIN active_timers : active_timers[i].id < next_id /\ active_timers[i].id \in Nat
      BY ListTypes DEF TimersInv, Numbered, TypeTimers
    <3>4. next_id \notin fired \cup cancelled /\ next_id # virtual_timer
      BY <3>2 DEF TimersInv, Numbered, TypeTimers
    <3>5. \A i \in DOMAIN active_timers' :
            /\ active_timers'[i].id < next_id' /\ active_timers'[i].id # virtual_timer'
            /\ active_timers'[i].id \notin fired' \cup cancelled'
      BY <2>2, <3>1, <3>2, <3>3, <3>4 DEF TimersInv, Numbered, TypeTimers
    <3>6. ASSUME NEW i \in DOMAIN active_timers', NEW j \in DOMAIN active_timers',
                 active_timers'[i].id = active_timers'[j].id
          PROVE  i = j
      <4>1. i \in Int /\ j \in Int /\ p \in Int /\ next_id \in Int
        BY <2>2, <2>3 DEF TimersInv, TypeTimers
      <4>2. \A m, n \in DOMAIN active_timers : active_timers[m].id = active_timers[n].id => m = n
        BY DEF TimersInv, Numbered
      <4>3. /\ active_timers'[i].id = next_id <=> i = p
            /\ active_timers'[j].id = next_id <=> j = p
        BY SMTT(30), <3>1, <3>3, <2>2, <4>1
      <4> QED BY <3>6, <3>1, <4>1, <4>2, <4>3
    <3>7. /\ virtual_timer' # NoTimer => virtual_timer' < next_id' /\ virtual_timer' \notin fired' \cup cancelled'
          /\ \A id \in fired' \cup cancelled' : id < next_id'
      BY <3>2 DEF TimersInv, Numbered, TypeTimers
    <3> QED BY <3>5, <3>6, <3>7 DEF Numbered
  <2>7. Armed'
    <3>1. \A i \in 1 .. p - 1 : active_timers[i].when <= t.when
      BY <2>2 DEF Places
    <3>2. p <= Len(active_timers) => t.when < active_timers[p].when
      BY <2>2 DEF Places
    <3>3. \A i \in 1 .. Len(active_timers) - 1 : active_timers[i].when <= active_timers[i + 1].when
      BY DEF TimersInv, Armed
    <3>4. \A i \in DOMAIN active_timers : active_timers[i].when \in Nat
      BY ListTypes DEF TimersInv, TypeTimers
    <3>5. ASSUME NEW i \in 1 .. Len(active_timers') - 1
          PROVE  active_timers'[i].when <= active_timers'[i + 1].when
      <4>1. CASE i + 1 < p
        <5>1. i \in 1 .. Len(active_timers) - 1 /\ i < p /\ i + 1 \in 1 .. Len(active_timers) + 1
          BY <2>2, <2>3, <4>1
        <5>2. active_timers'[i] = active_timers[i] /\ active_timers'[i + 1] = active_timers[i + 1]
          BY <2>3, <4>1, <5>1
        <5> QED BY <3>3, <5>1, <5>2
      <4>2. CASE i + 1 = p
        BY <2>2, <2>3, <3>1, <4>2
      <4>3. CASE i = p
        BY <2>2, <2>3, <3>2, <3>4, <4>3
      <4>4. CASE i > p
        BY <2>2, <2>3, <3>3, <4>4
      <4> QED BY <2>2, <2>3, <4>1, <4>2, <4>3, <4>4
    <3>6. fired' \cap cancelled' = {}
      BY <1>1 DEF set_timer, TimersInv, Armed
    <3> QED BY <2>4, <3>5, <3>6 DEF Armed
  <2> QED BY <2>5, <2>6, <2>7 DEF TimersInv
<1>2. ASSUME NEW seconds \in 1 .. MaxSeconds, set_virtual_timer(seconds) PROVE TimersInv'
  <2>1. /\ alarm' \in Nat /\ sigalrm' \in BOOLEAN
        /\ active_timers = <<>> <=> alarm' = NoAlarm /\ ~sigalrm'
        /\ alarm' # NoAlarm => alarm' = Head(active_timers).when
    BY <1>2, ClockIsSet DEF TimersInv, TypeTimers, set_virtual_timer
  <2>2. /\ next_id < NoTimer /\ virtual_timer' = next_id /\ next_id' = next_id + 1
        /\ UNCHANGED <<now, active_timers, fired, cancelled>>
    BY <1>2 DEF set_virtual_timer, restart_virtual
  <2>3. TypeTimers'
    BY <2>1, <2>2 DEF TimersInv, TypeTimers
  <2>4. Numbered'
    <3>1. \A i \in DOMAIN active_timers : active_timers[i].id < next_id /\ active_timers[i].id \in Nat
      BY ListTypes DEF TimersInv, Numbered, TypeTimers
    <3>2. next_id \in Nat /\ fired \subseteq Nat /\ cancelled \subseteq Nat
      BY DEF TimersInv, TypeTimers
    <3> QED BY <2>2, <3>1, <3>2 DEF TimersInv, Numbered
  <2>5. Armed'
    BY <2>1, <2>2 DEF TimersInv, Armed
  <2> QED BY <2>3, <2>4, <2>5 DEF TimersInv
<1>3. ASSUME NEW id \in 0 .. MaxTimers - 1, cancel_timer(id) PROVE TimersInv'
  <2> DEFINE at == {p \in DOMAIN active_timers : active_timers[p].id = id /\ id # virtual_timer}
  <2>0. /\ id < next_id /\ UNCHANGED <<now, next_id, fired>>
        /\ virtual_timer' = IF id = virtual_timer THEN NoTimer ELSE virtual_timer
        /\ cancelled' = IF at # {} \/ id = virtual_timer THEN cancelled \cup {id} ELSE cancelled
    BY <1>3 DEF cancel_timer, restart_virtual
  <2>1. active_timers' \in Seq(TimerRecords) =>
          /\ alarm' \in Nat /\ sigalrm' \in BOOLEAN
          /\ active_timers' = <<>> <=> alarm' = NoAlarm /\ ~sigalrm'
          /\ alarm' # NoAlarm => alarm' = Head(active_timers').when
    BY <1>3, ClockIsSet DEF TimersInv, cancel_timer
  <2>2. \A i, j \in DOMAIN active_timers : active_timers[i].id = active_timers[j].id => i = j
    BY DEF TimersInv, Numbered
  <2>3. CASE at = {}
    <3>1. UNCHANGED active_timers
      BY <1>3, <2>3 DEF cancel_timer
    <3>2. TypeTimers'
      BY <2>0, <2>1, <3>1 DEF TimersInv, TypeTimers
    <3>3. \A i \in DOMAIN active_timers : active_timers[i].id # id
      BY <2>3 DEF TimersInv, Numbered
    <3>4. Numbered'
      <4>1. \A x \in cancelled' : x \in cancelled \/ x = id
        BY <2>0
      <4>2. \A i \in DOMAIN active_timers : active_timers[i].id # NoTimer
        BY ListTypes DEF TimersInv, TypeTimers
      <4>3. virtual_timer' # NoTimer => virtual_timer' = virtual_timer /\ id # virtual_timer
        BY <2>0
      <4> QED BY <2>0, <3>1, <3>3, <4>1, <4>2, <4>3 DEF TimersInv, Numbered
    <3>5. Armed'
      <4>1. fired' \cap cancelled' = {}
        BY <2>0, <2>3 DEF TimersInv, Numbered, Armed, TypeTimers
      <4> QED BY <2>1, <3>1, <3>2, <4>1 DEF TimersInv, Armed, TypeTimers
    <3> QED BY <3>2, <3>4, <3>5 DEF TimersInv
  <2>4. CASE at # {}
    <3>1. PICK p \in at : active_timers' = RemoveAt(active_timers, p)
      BY <1>3, <2>4 DEF cancel_timer
    <3>2. /\ active_timers \in Seq(TimerRecords) /\ p \in 1 .. Len(active_timers)
          /\ active_timers[p].id = id /\ id # virtual_timer
      BY DEF TimersInv, TypeTimers
    <3>3. /\ active_timers' \in Seq(TimerRecords) /\ Len(active_timers') = Len(active_timers) - 1
          /\ \A i \in 1 .. Len(active_timers) - 1 :
               active_timers'[i] = IF i < p THEN active_timers[i] ELSE active_timers[i + 1]
      BY <3>1, <3>2, RemoveAtFacts
    <3>4. TypeTimers'
      BY <2>0, <2>1, <3>3 DEF TimersInv, TypeTimers
    <3>5. Numbered'
      <4>1. \A i \in DOMAIN active_timers' :
              \/ i < p /\ i \in DOMAIN active_timers /\ active_timers'[i] = active_timers[i]
              \/ i >= p /\ i + 1 \in DOMAIN active_timers /\ active_timers'[i] = active_timers[i + 1]
        BY <3>2, <3>3
      <4>2. \A i \in DOMAIN active_timers : active_timers[i].id = id => i = p
        BY <2>2, <3>2
      <4>3. \A i \in DOMAIN active_timers' : active_timers'[i].id # id
        BY <3>2, <3>3, <4>1, <4>2
      <4>4. \A i \in DOMAIN active_timers' :
              /\ active_timers'[i].id < next_id /\ active_timers'[i].id # virtual_timer
              /\ active_timers'[i].id \notin fired \cup cancelled
        BY <4>1 DEF TimersInv, Numbered
      <4>5. ASSUME NEW i \in DOMAIN active_timers', NEW j \in DOMAIN active_timers',
                   active_timers'[i].id = active_timers'[j].id
            PROVE  i = j
        <5>1. i \in Int /\ j \in Int /\ p \in Int
          BY <3>2, <3>3
        <5> QED BY <4>1, <4>5, <2>2, <5>1
      <4> QED BY <2>0, <2>4, <3>2, <4>3, <4>4, <4>5 DEF TimersInv, Numbered
    <3>6. Armed'
      <4>1. \A i \in 1 .. Len(active_timers) - 1 : active_timers[i].when <= active_timers[i + 1].when
        BY DEF TimersInv, Armed
      <4>2. \A i \in DOMAIN active_timers : active_timers[i].when \in Nat
        BY ListTypes DEF TimersInv, TypeTimers
      <4>3. ASSUME NEW i \in 1 .. Len(active_timers') - 1
            PROVE  active_timers'[i].when <= active_timers'[i + 1].when
        <5>1. CASE i + 1 < p
          <6>1. /\ i \in 1 .. Len(active_timers) - 1 /\ i < p
                /\ i + 1 \in 1 .. Len(active_timers) - 1
            BY <3>2, <3>3, <5>1
          <6>2. active_timers'[i] = active_timers[i] /\ active_timers'[i + 1] = active_timers[i + 1]
            BY <3>3, <5>1, <6>1
          <6> QED BY <4>1, <6>1, <6>2
        <5>2. CASE i + 1 = p
          <6>1. active_timers'[i] = active_timers[i] /\ active_timers'[i + 1] = active_timers[i + 2]
            BY <3>2, <3>3, <5>2
          <6>2. /\ i \in 1 .. Len(active_timers) - 1 /\ i + 1 \in 1 .. Len(active_timers) - 1
                /\ (i + 1) + 1 = i + 2
            BY <3>2, <3>3, <5>2
          <6>3. active_timers[i].when <= active_timers[i + 1].when
            BY <4>1, <6>2
          <6>4. active_timers[i + 1].when <= active_timers[i + 2].when
            BY <4>1, <6>2
          <6>5. i \in DOMAIN active_timers /\ i + 1 \in DOMAIN active_timers /\ i + 2 \in DOMAIN active_timers
            BY <3>2, <3>3, <5>2
          <6> QED BY <4>2, <6>1, <6>3, <6>4, <6>5
        <5>3. CASE i >= p
          BY SMTT(30), <3>2, <3>3, <4>1, <5>3
        <5> QED BY <3>2, <3>3, <5>1, <5>2, <5>3
      <4>4. fired' \cap cancelled' = {}
        BY <2>0, <3>2 DEF TimersInv, Numbered, Armed
      <4> QED BY <2>1, <3>3, <4>3, <4>4 DEF Armed
    <3> QED BY <3>4, <3>5, <3>6 DEF TimersInv
  <2> QED BY <2>3, <2>4
<1>4. ASSUME wakeup_call PROVE TimersInv'
  <2> DEFINE self == Head(active_timers)
  <2>1. active_timers \in Seq(TimerRecords) /\ active_timers # <<>>
    BY <1>4 DEF TimersInv, TypeTimers, Armed, wakeup_call
  <2>2. /\ active_timers' \in Seq(TimerRecords) /\ Len(active_timers') = Len(active_timers) - 1
        /\ \A i \in 1 .. Len(active_timers) - 1 : active_timers'[i] = active_timers[i + 1]
        /\ self = active_timers[1] /\ 1 \in DOMAIN active_timers
    BY <1>4, <2>1, HeadTailProperties DEF wakeup_call
  <2>3. /\ alarm' \in Nat /\ sigalrm' \in BOOLEAN
        /\ active_timers' = <<>> <=> alarm' = NoAlarm /\ ~sigalrm'
        /\ alarm' # NoAlarm => alarm' = Head(active_timers').when
    BY <1>4, <2>2, ClockIsSet DEF TimersInv, wakeup_call
  <2>4. fired' = fired \cup {self.id} /\ UNCHANGED <<now, next_id, virtual_timer, cancelled>>
    BY <1>4 DEF wakeup_call
  <2>5. self.id \in Nat /\ self.id < next_id /\ self.id \notin cancelled /\ self.id # virtual_timer
    BY <2>2, ListTypes DEF TimersInv, TypeTimers, Numbered
  <2>6. TypeTimers'
    BY <2>2, <2>3, <2>4, <2>5 DEF TimersInv, TypeTimers
  <2>7. Numbered'
    <3>1. \A i \in DOMAIN active_timers' :
            i + 1 \in DOMAIN active_timers /\ i + 1 # 1 /\ active_timers'[i] = active_timers[i + 1]
      BY <2>2
    <3>2. \A i \in DOMAIN active_timers' : active_timers'[i].id # self.id
      BY <3>1, <2>2 DEF TimersInv, Numbered
    <3>3. ASSUME NEW i \in DOMAIN active_timers', NEW j \in DOMAIN active_timers',
                 active_timers'[i].id = active_timers'[j].id
          PROVE  i = j
      <4>1. i + 1 = j + 1
        BY <3>1, <3>3 DEF TimersInv, Numbered
      <4> QED BY <2>2, <4>1
    <3>4. \A i \in DOMAIN active_timers' :
            /\ active_timers'[i].id < next_id /\ active_timers'[i].id # virtual_timer
            /\ active_timers'[i].id \notin fired \cup cancelled
      BY <3>1 DEF TimersInv, Numbered
    <3>5. \A id \in fired' \cup cancelled' : id < next_id
      BY <2>4, <2>5 DEF TimersInv, Numbered
    <3> QED BY <2>4, <2>5, <3>2, <3>3, <3>4, <3>5 DEF TimersInv, Numbered
  <2>8. Armed'
    <3>1. \A i \in 1 .. Len(active_timers') - 1 : active_timers'[i].when <= active_timers'[i + 1].when
      BY <2>2 DEF TimersInv, Armed
    <3>2. fired' \cap cancelled' = {}
      BY <2>4, <2>5 DEF TimersInv, Armed
    <3> QED BY <2>3, <3>1, <3>2 DEF Armed
  <2> QED BY <2>6, <2>7, <2>8 DEF TimersInv
<1>5. ASSUME HandlerReturns \/ reenable_timers PROVE TimersInv'
  <2>1. UNCHANGED <<now, active_timers, next_id, alarm, sigalrm, virtual_timer, fired, cancelled>>
    BY <1>5 DEF HandlerReturns, reenable_timers
  <2> QED BY <2>1 DEF TimersInv, TypeTimers, Numbered, Armed
<1>6. ASSUME virtual_wakeup_call PROVE TimersInv'
  <2>1. /\ virtual_timer # NoTimer /\ virtual_timer' = NoTimer /\ fired' = fired \cup {virtual_timer}
        /\ UNCHANGED <<now, active_timers, next_id, alarm, sigalrm, cancelled>>
    BY <1>6 DEF virtual_wakeup_call
  <2>2. TypeTimers'
    BY <2>1 DEF TimersInv, TypeTimers
  <2>3. Numbered'
    <3>1. \A i \in DOMAIN active_timers : active_timers[i].id # NoTimer
      BY ListTypes DEF TimersInv, TypeTimers
    <3> QED BY <2>1, <3>1 DEF TimersInv, Numbered
  <2>4. Armed'
    BY <2>1 DEF TimersInv, Numbered, Armed
  <2> QED BY <2>2, <2>3, <2>4 DEF TimersInv
<1>7. ASSUME NEW busy \in BOOLEAN, Tick(busy) PROVE TimersInv'
  <2>1. /\ now < MaxTime /\ now' = now + 1
        /\ UNCHANGED <<active_timers, next_id, virtual_timer, fired, cancelled>>
        /\ \/ sigalrm' = TRUE /\ alarm' = NoAlarm /\ alarm <= now'
           \/ UNCHANGED <<sigalrm, alarm>>
    BY <1>7 DEF Tick
  <2>2. TypeTimers'
    <3>1. now' \in 0 .. MaxTime
      BY <2>1 DEF TimersInv, TypeTimers
    <3>2. alarm' \in Nat /\ sigalrm' \in BOOLEAN
      BY <2>1, NoAlarmIsLate DEF TimersInv, TypeTimers
    <3> QED BY <2>1, <3>1, <3>2 DEF TimersInv, TypeTimers
  <2>3. Numbered'
    BY <2>1 DEF TimersInv, Numbered
  <2>4. alarm <= now' => alarm # NoAlarm
    BY <2>1, NoAlarmIsLate DEF TimersInv, TypeTimers
  <2>5. Armed'
    BY <2>1, <2>4 DEF TimersInv, Armed
  <2> QED BY <2>2, <2>3, <2>5 DEF TimersInv
<1>8. ASSUME UNCHANGED timer_vars PROVE TimersInv'
  BY <1>8 DEF timer_vars, TimersInv, TypeTimers, Numbered, Armed
<1> QED BY <1>1, <1>2, <1>3, <1>4, <1>5, <1>6, <1>7, <1>8 DEF NextTimers

(* However many timers are set and cancelled, and however late the signal,  *)
(* the alarm clock is set for the next of them or has gone off, and nothing *)
(* that cancel_timer() took back is announced.                              *)
THEOREM ClockIsArmed == SpecTimers => []Armed
  BY TimersInvInit, TimersInvNext, PTL DEF SpecTimers, TimersInv

=============================================================================
