------------------------------ MODULE NetworkIO ------------------------------
(***************************************************************************)
(* What net_multi.c keeps for one connection: the bytes that came in and   *)
(* have not made a line yet, and the output that the client has not taken. *)
(* A byte is one of a few kinds; a line of output is a number and a        *)
(* length, which may be 0.  The client takes as much as it likes whenever  *)
(* the server writes, and its bytes come in pieces of any size.            *)
(***************************************************************************)
EXTENDS Integers, Sequences, SequencesExt

CONSTANTS
  Bytes,               \* of "a", "L" and "T" (of a two-byte character), "BS", "CR", "LF"
  MaxBytes,            \* bound: what a client types
  Lengths,             \* the lengths of lines of output
  MAX_QUEUED_OUTPUT,
  MaxLines             \* bound: lines of output

ASSUME NetworkAssumption ==
  /\ Lengths \subseteq Nat /\ MAX_QUEUED_OUTPUT \in Nat
  /\ MaxBytes \in Nat /\ MaxLines \in Nat

VARIABLES
  open,                   \* the handle is in all_nhandles
  wire,                   \* what the client sent and the server has not read
  input, last_input_was_CR, excess_utf, input_suspended, binary,
  lines,                  \* what server_receive_line was given
  typed,                  \* everything that was read
  split,                  \* a read found part of a character left over
  output,                 \* the queue of text blocks
  output_length, output_lines_flushed,
  printed,                \* the lines that the client has got whole, in order
  reported,               \* how many it was told have been lost
  taken                   \* the lines that the server accepted

in_vars == <<wire, input, last_input_was_CR, excess_utf, lines, typed, split>>
out_vars == <<output, output_length, output_lines_flushed, printed, reported, taken>>
net_vars == <<open, in_vars, out_vars, input_suspended, binary>>

(* new_nhandle *)
InitNetwork ==
  /\ open = TRUE
  /\ wire = <<>> /\ input = <<>> /\ last_input_was_CR = FALSE /\ excess_utf = <<>>
  /\ input_suspended = FALSE /\ binary = FALSE
  /\ lines = <<>> /\ typed = <<>> /\ split = FALSE
  /\ output = <<>> /\ output_length = 0 /\ output_lines_flushed = 0
  /\ printed = <<>> /\ reported = 0 /\ taken = 0

(***************************************************************************)
(* Input.                                                                  *)
(***************************************************************************)
(* How many bytes a character takes that begins with this one. *)
clearance_utf(b) == IF b = "L" THEN 2 ELSE 1

(* The character at position i, and the bytes it takes: a lead byte that   *)
(* no trailing byte follows is taken alone, and stands for no character.   *)
get_utf(buffer, i) ==
  IF buffer[i] = "L" /\ buffer[i + 1] = "T" THEN [rune |-> "LT", size |-> 2]
  ELSE [rune |-> IF buffer[i] \in {"L", "T"} THEN "INVALID_RUNE" ELSE buffer[i], size |-> 1]

(* One turn of the loop of pull_input; s holds the position and the stream. *)
Pull(buffer, s) ==
  IF s.at > Len(buffer) \/ s.at + clearance_utf(buffer[s.at]) - 1 > Len(buffer) THEN s
  ELSE LET g == get_utf(buffer, s.at)
           c == g.rune
           line == c = "CR" \/ (c = "LF" /\ ~s.cr)
       IN [at |-> s.at + g.size, cr |-> c = "CR",
           input |-> CASE c = "BS" -> IF s.input = <<>> THEN <<>> ELSE Front(s.input)
                       [] c \in {"CR", "LF"} -> IF line THEN <<>> ELSE s.input
                       [] OTHER -> Append(s.input, c),
           lines |-> IF line THEN Append(s.lines, s.input) ELSE s.lines]

(* The whole loop, which a turn takes further by a byte or more, or ends. *)
Turns(buffer, s) ==
  LET turn[i \in 0..Len(buffer)] == IF i = 0 THEN s ELSE Pull(buffer, turn[i - 1])
  IN turn

PullAll(buffer, s) == Turns(buffer, s)[Len(buffer)]

(* Mutant: the line feed after a carriage return makes a line of its own. *)
MutantAt(from_input, from_lines, cr) ==
  [at |-> 1, input |-> from_input, lines |-> from_lines, cr |-> FALSE]

At(from_input, from_lines, cr) == [at |-> 1, input |-> from_input, lines |-> from_lines, cr |-> cr]

ClientTypes(b) ==
  /\ open /\ Len(typed) + Len(wire) < MaxBytes
  /\ wire' = Append(wire, b)
  /\ UNCHANGED <<open, input, last_input_was_CR, excess_utf, lines, typed, split, out_vars,
                 input_suspended, binary>>

(* pull_input: the bytes that were left over go before those that are read *)
(* now; the loop goes over as many bytes as were read, so that when some   *)
(* were left over as many at the end are not looked at.                    *)
pull_input(k) ==
  /\ open /\ ~input_suspended /\ k \in 1..Len(wire)
  /\ LET all == excess_utf \o SubSeq(wire, 1, k)
         buffer == SubSeq(all, 1, k)
         s == PullAll(buffer, At(input, lines, last_input_was_CR))
     IN IF binary
          THEN /\ lines' = Append(lines, input \o <<"~">> \o buffer)
               /\ input' = <<>> /\ excess_utf' = <<>> /\ last_input_was_CR' = FALSE
          ELSE /\ lines' = s.lines /\ input' = s.input /\ last_input_was_CR' = s.cr
               /\ excess_utf' = SubSeq(buffer, s.at, k)
  /\ typed' = typed \o SubSeq(wire, 1, k)
  /\ wire' = SubSeq(wire, k + 1, Len(wire))
  /\ split' = (split \/ excess_utf # <<>> \/ binary)
  /\ UNCHANGED <<open, out_vars, input_suspended, binary>>

(***************************************************************************)
(* Output.                                                                 *)
(***************************************************************************)
Queue == [blocks |-> output, length |-> output_length, flushed |-> output_lines_flushed,
          printed |-> printed, reported |-> reported]

(* How many bytes the first i blocks hold, for every i. *)
Left(blocks) ==
  LET sum[i \in 0..Len(blocks)] == IF i = 0 THEN 0 ELSE sum[i - 1] + blocks[i].left
  IN sum

(* What the client may take when the server writes: the notice of an       *)
(* overflow, which comes first, or not the whole of it; then a number of   *)
(* whole blocks, and a part of the next.                                   *)
Takes ==
  {t \in [notice : BOOLEAN, whole : 0..Len(output),
          part : {0} \cup UNION {0..output[i].left - 1 : i \in DOMAIN output}] :
     IF t.notice
       THEN IF t.whole = Len(output) THEN t.part = 0 ELSE t.part < output[t.whole + 1].left
       ELSE output_lines_flushed > 0 /\ t.whole = 0 /\ t.part = 0}

(* What is left of q when the client took that much of its blocks. *)
Written(q, take) ==
  LET rest == SubSeq(q.blocks, take.whole + 1, Len(q.blocks))
  IN [q EXCEPT !.blocks = [i \in DOMAIN rest |->
                             IF i = 1 THEN [rest[i] EXCEPT !.left = @ - take.part] ELSE rest[i]],
               !.length = @ - Left(q.blocks)[take.whole] - take.part,
               !.printed = @ \o [i \in 1..take.whole |-> q.blocks[i].line]]

(* Mutant: a notice that was written in part counts as written. *)
MutantPushOutput(q, take) ==
  IF take.notice THEN Written([q EXCEPT !.reported = @ + q.flushed, !.flushed = 0], take)
  ELSE [q EXCEPT !.flushed = 0]

(* push_output: first the notice of the lines that were lost, which is     *)
(* written again from its beginning until it is taken whole at once.       *)
push_output(q, take) ==
  IF take.notice THEN Written([q EXCEPT !.reported = @ + q.flushed, !.flushed = 0], take)
  ELSE q

(* As few blocks from the front as make up for the excess, or all of them. *)
MakesRoom(blocks, excess, k) ==
  /\ k = Len(blocks) \/ Left(blocks)[k] >= excess
  /\ \A j \in 0..k - 1 : Left(blocks)[j] < excess

(* enqueue_output throws those blocks away; the first may have been        *)
(* written in part.                                                        *)
Flushed(q, k) ==
  [q EXCEPT !.blocks = SubSeq(@, k + 1, Len(@)), !.length = @ - Left(q.blocks)[k],
            !.flushed = @ + k]

SetQueue(q) ==
  /\ output' = q.blocks /\ output_length' = q.length /\ output_lines_flushed' = q.flushed
  /\ printed' = q.printed /\ reported' = q.reported

(* The line is accepted and goes to the end of what is queued. *)
Accept(q, length) ==
  /\ SetQueue([q EXCEPT !.blocks = Append(@, [line |-> taken + 1, left |-> length]),
                        !.length = @ + length])
  /\ taken' = taken + 1

(* network_send_line and network_send_bytes: a line that would overflow    *)
(* the queue and may not flush is refused, after what can be was written.  *)
enqueue_output(length, flush_ok) ==
  /\ open /\ taken < MaxLines
  /\ IF output_length # 0 /\ output_length + length > MAX_QUEUED_OUTPUT
       THEN \E take \in Takes :
              LET q == push_output(Queue, take)
                  excess == q.length + length - MAX_QUEUED_OUTPUT
              IN \/ /\ excess > 0 /\ ~flush_ok
                    /\ SetQueue(q) /\ UNCHANGED taken
                 \/ /\ excess <= 0 \/ flush_ok
                    /\ \E k \in 0..Len(q.blocks) :
                         MakesRoom(q.blocks, excess, k) /\ Accept(Flushed(q, k), length)
       ELSE Accept(Queue, length)
  /\ UNCHANGED <<open, in_vars, input_suspended, binary>>

(* network_process_io finds the connection writable. *)
WriteReady(take) ==
  /\ open /\ output # <<>>
  /\ SetQueue(push_output(Queue, take))
  /\ UNCHANGED <<open, in_vars, input_suspended, binary, taken>>

(* The client closes, or the server does: what can be is written, and the  *)
(* rest is forgotten.                                                      *)
close_nhandle(take) ==
  /\ open /\ open' = FALSE
  /\ SetQueue([push_output(Queue, take) EXCEPT !.blocks = <<>>, !.length = 0])
  /\ UNCHANGED <<in_vars, input_suspended, binary, taken>>

(* network_suspend_input and network_resume_input, on behalf of the queue  *)
(* of tasks, and network_set_connection_binary.                            *)
SuspendInput ==
  /\ open /\ input_suspended' = ~input_suspended
  /\ UNCHANGED <<open, in_vars, out_vars, binary>>

SetBinary ==
  /\ open /\ binary' = ~binary
  /\ UNCHANGED <<open, in_vars, out_vars, input_suspended>>

NextInput ==
  \/ \E b \in Bytes : ClientTypes(b)
  \/ \E k \in 1..MaxBytes : pull_input(k)
  \/ SuspendInput \/ SetBinary

NextOutput ==
  \/ \E length \in Lengths, flush_ok \in BOOLEAN : enqueue_output(length, flush_ok)
  \/ \E take \in Takes : WriteReady(take) \/ close_nhandle(take)

SpecNetwork == InitNetwork /\ [][NextInput \/ NextOutput]_net_vars

(***************************************************************************)
(* Properties.                                                             *)
(***************************************************************************)

(* However the bytes are cut into reads, the lines that the server gets,   *)
(* and the one it has begun, are those that the client typed; except that  *)
(* bytes are lost once a read begins with a part of a character left over  *)
(* from the one before (split).                                            *)
InputFaithful ==
  ~split =>
    LET whole == PullAll(typed, At(<<>>, <<>>, FALSE))
    IN lines = whole.lines /\ input = whole.input

(* Every line that the server accepted has been printed, waits, or has     *)
(* been lost and the client was told or will be; lines keep their order;   *)
(* the queue is as long as its length says, and no longer than it may be   *)
(* unless one line makes it so; a loss that is not reported yet does not   *)
(* wait on an empty queue, which nobody would write.                       *)
OutputAccounted ==
  open =>
    /\ Len(printed) + Len(output) + reported + output_lines_flushed = taken
    /\ LET order == printed \o [i \in DOMAIN output |-> output[i].line]
       IN \A i \in 1..Len(order) - 1 : order[i] < order[i + 1]
    /\ output_length = Left(output)[Len(output)]
    /\ output_length > MAX_QUEUED_OUTPUT =>
         \A i, j \in DOMAIN output : output[i].left > 0 /\ output[j].left > 0 => i = j
    /\ output_lines_flushed > 0 => output # <<>>
=============================================================================
