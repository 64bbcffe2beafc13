-------------------------------- MODULE Calc --------------------------------
(***************************************************************************)
(* bench/calc.c, the calculator of the benchmarks: every line is a term,   *)
(* parsed with a stack of operators into a queue in reverse Polish         *)
(* notation, which is then evaluated on the same stack. A division runs    *)
(* the loop of LongDivision.                                               *)
(*                                                                         *)
(* A step is one iteration of a loop of the code.                          *)
(***************************************************************************)
EXTENDS Fix16

CONSTANTS
  Files,          \* what there is to read: sequences of characters, "eof" at the end
  STACK_SIZE, QUEUE_SIZE      \* 255 and 255 in the code

ASSUME CalcSizes == STACK_SIZE \in Nat \ {0} /\ QUEUE_SIZE \in Nat \ {0}

ASSUME FilesAssumption ==
  \A f \in Files : f \in Seq(STRING) /\ Len(f) > 0 /\ \A k \in DOMAIN f : f[k] = "eof" <=> k = Len(f)

VARIABLES
  text,           \* the characters not read yet
  at,             \* the loop the program is in
  t,              \* the token of parse_term
  stack,          \* the first num_stack elements of that array
  queue, queue_start, queue_size,
  left, right,    \* the operands of a division
  console,        \* what has been printed
  term            \* the tokens of this line
cvars == <<text, at, t, stack, queue, queue_start, queue_size, left, right, console, term>>

Operators == {"PLUS", "MINUS", "MULT", "DIV"}
Ops == Operators \cup {"NUMBER", "LPAR", "RPAR", "END", "INVALID"}

Say(message) == [message |-> message]

Token(op) == [op |-> op, number |-> 0]
Tokens == [op : Ops, number : Fix]

Characters == {"-", "+", "*", "/", "(", ")", "nl"}
OpOf == [c \in Characters |->
           CASE c = "-" -> "MINUS" [] c = "+" -> "PLUS" [] c = "*" -> "MULT" [] c = "/" -> "DIV"
             [] c = "(" -> "LPAR" [] c = ")" -> "RPAR" [] c = "nl" -> "END"]

(* parse_token: the token and what is left of the text. A character that   *)
(* belongs to no token is reported; the end of the text is not.            *)
parse_token(s) ==
  LET n == CHOOSE k \in 1..Len(s) : s[k] # " " /\ \A j \in 1..k - 1 : s[j] = " "
      c == s[n]
      from == SubSeq(s, n, Len(s))
      parsed == fix_parse(from)
      Read(token, rest, said) == [defined |-> TRUE, token |-> token, rest |-> rest, said |-> said]
  IN CASE c \in Characters -> Read(Token(OpOf[c]), Tail(from), <<>>)
       [] IsDigit(c) -> [Read([op |-> "NUMBER", number |-> parsed.number], parsed.rest, <<>>)
                           EXCEPT !.defined = parsed.defined]
       [] OTHER -> Read(Token("INVALID"), Tail(from),
                        IF c = "eof" THEN <<>> ELSE <<Say("Invalid token")>>)

get_precedence(op) ==
  CASE op \in {"PLUS", "MINUS"} -> 1
    [] op \in {"MULT", "DIV"} -> 2
    [] OTHER -> 0

(***************************************************************************)
(* The stack and the queue. When there is no room the token is lost.       *)
(***************************************************************************)
CInit ==
  /\ LInit
  /\ text \in Files
  /\ at = "parse"
  /\ t = Token("INVALID")
  /\ stack = <<>>
  /\ queue = [k \in 0..QUEUE_SIZE - 1 |-> Token("INVALID")]
  /\ queue_start = 0 /\ queue_size = 0
  /\ left = 0 /\ right = 0
  /\ console = <<>>
  /\ term = <<>>

Top == IF stack = <<>> THEN Token("INVALID") ELSE Last(stack)
Popped == IF stack = <<>> THEN stack ELSE Front(stack)

push_stack(s, x) == IF Len(s) = STACK_SIZE THEN s ELSE Append(s, x)
StackSaid(s) == IF Len(s) = STACK_SIZE THEN <<Say("Stack already full")>> ELSE <<>>

QueueSaid == IF queue_size = QUEUE_SIZE THEN <<Say("Queue already full")>> ELSE <<>>

push_queue(x) ==
  /\ IF queue_size = QUEUE_SIZE
     THEN UNCHANGED <<queue, queue_size>>
     ELSE LET index == queue_start + queue_size
          IN /\ queue' = [queue EXCEPT
                            ![IF index >= QUEUE_SIZE THEN index - QUEUE_SIZE ELSE index] = x]
             /\ queue_size' = queue_size + 1
  /\ UNCHANGED queue_start

qvars == <<queue, queue_start, queue_size>>

(***************************************************************************)
(* parse_term                                                              *)
(***************************************************************************)
ReadToken ==
  /\ at = "parse"
  /\ LET p == parse_token(text)
         x == p.token
     IN /\ p.defined
        /\ t' = x
        /\ text' = p.rest
        /\ term' = Append(term, x)
        /\ at' = CASE x.op \in Operators -> "operator"
                   [] x.op = "RPAR"    -> "parenthesis"
                   [] x.op = "END"     -> "drain"
                   [] x.op = "INVALID" -> "returned"
                   [] OTHER            -> "parse"
        /\ IF x.op = "NUMBER" THEN push_queue(x) ELSE UNCHANGED qvars
        /\ stack' = IF x.op = "LPAR" THEN push_stack(stack, x) ELSE stack
        /\ console' = console \o p.said \o
             CASE x.op = "NUMBER" -> QueueSaid [] x.op = "LPAR" -> StackSaid(stack) [] OTHER -> <<>>
  /\ UNCHANGED <<lvars, left, right>>

(* fix_parse divides by 0, for which C defines no result: nothing is       *)
(* claimed of what comes after.                                            *)
ReadUndefined ==
  /\ at = "parse"
  /\ ~parse_token(text).defined
  /\ at' = "undefined"
  /\ UNCHANGED <<lvars, text, t, stack, qvars, left, right, console, term>>

(* The loop of a closing parenthesis. *)
PopToParenthesis ==
  /\ at = "parenthesis"
  /\ stack' = Popped
  /\ CASE Top.op = "LPAR"    -> at' = "parse" /\ console' = console /\ UNCHANGED qvars
       [] Top.op = "INVALID" ->
            /\ at' = "returned"
            /\ console' = Append(console, Say("Mismatched parentheses"))
            /\ UNCHANGED qvars
       [] OTHER -> push_queue(Top) /\ console' = console \o QueueSaid /\ UNCHANGED at
  /\ UNCHANGED <<lvars, text, t, left, right, term>>

(* Mutant: operators of the same precedence stay on the stack. *)
PopOperatorsRight ==
  /\ at = "operator"
  /\ IF Top.op \in Operators /\ get_precedence(t.op) < get_precedence(Top.op)
     THEN /\ stack' = Popped /\ push_queue(Top)
          /\ console' = console \o QueueSaid
          /\ UNCHANGED at
     ELSE /\ stack' = push_stack(stack, t)
          /\ console' = console \o StackSaid(stack)
          /\ at' = "parse"
          /\ UNCHANGED qvars
  /\ UNCHANGED <<lvars, text, t, left, right, term>>

(* The loop of an operator: all operators associate to the left. What the  *)
(* last pop took away is pushed back before the operator.                  *)
PopOperators ==
  /\ at = "operator"
  /\ IF Top.op \in Operators /\ get_precedence(t.op) <= get_precedence(Top.op)
     THEN /\ stack' = Popped /\ push_queue(Top)
          /\ console' = console \o QueueSaid
          /\ UNCHANGED at
     ELSE /\ stack' = push_stack(stack, t)
          /\ console' = console \o StackSaid(stack)
          /\ at' = "parse"
          /\ UNCHANGED qvars
  /\ UNCHANGED <<lvars, text, t, left, right, term>>

(* The line is at its end: what is on the stack goes to the queue, and     *)
(* behind it the invalid token of the empty stack.                         *)
Drain ==
  /\ at = "drain"
  /\ stack' = Popped
  /\ push_queue(Top)
  /\ console' = console \o QueueSaid
  /\ at' = IF Top.op = "INVALID" THEN "calc" ELSE "drain"
  /\ UNCHANGED <<lvars, text, t, left, right, term>>

(***************************************************************************)
(* calc_term, and the loop of main                                         *)
(***************************************************************************)
Front2 == Front(Front(stack))
TwoNumbers == /\ Len(stack) >= 2
              /\ stack[Len(stack)].op = "NUMBER" /\ stack[Len(stack) - 1].op = "NUMBER"

Number_(n) == [op |-> "NUMBER", number |-> n]

(* What pop_queue returns. *)
NextToken == IF queue_size = 0 THEN Token("INVALID") ELSE queue[queue_start]
Ended == NextToken.op = "INVALID"

pop_queue ==
  /\ queue_start' = queue_start + 1
  /\ queue_size' = queue_size - 1
  /\ UNCHANGED queue

(* Mutant: the queue is not cleared. *)
EndLineKept(message) ==
  /\ stack' = <<>>
  /\ UNCHANGED qvars
  /\ console' = Append(console, message)
  /\ term' = <<>>
  /\ at' = "parse"
  /\ UNCHANGED <<lvars, text, t, left, right>>

(* Both are cleared after every line. *)
EndLine(message) ==
  /\ stack' = <<>>
  /\ queue_start' = 0 /\ queue_size' = 0 /\ UNCHANGED queue
  /\ console' = Append(console, message)
  /\ term' = <<>>
  /\ at' = "parse"
  /\ UNCHANGED <<lvars, text, t, left, right>>

CalcNumber ==
  /\ at = "calc" /\ ~Ended
  /\ NextToken.op = "NUMBER"
  /\ pop_queue
  /\ stack' = push_stack(stack, NextToken)
  /\ console' = console \o StackSaid(stack)
  /\ UNCHANGED <<lvars, text, at, t, left, right, term>>

Second == stack[Len(stack) - 1].number
First  == stack[Len(stack)].number

CalcOperator ==
  /\ at = "calc" /\ ~Ended
  /\ NextToken.op \in {"PLUS", "MINUS", "MULT"} /\ TwoNumbers
  /\ pop_queue
  /\ stack' = Append(Front2, Number_(CASE NextToken.op = "PLUS"  -> fix_add(Second, First)
                                       [] NextToken.op = "MINUS" -> fix_sub(Second, First)
                                       [] NextToken.op = "MULT"  -> fix_mul(Second, First)))
  /\ UNCHANGED <<lvars, text, at, t, left, right, console, term>>

CalcDivision ==
  /\ at = "calc" /\ ~Ended
  /\ NextToken.op = "DIV" /\ TwoNumbers
  /\ pop_queue
  /\ left' = Second /\ right' = First
  /\ IF First = 0
     THEN /\ stack' = Append(Front2, Number_(FIX_MAX))
          /\ UNCHANGED <<at, lvars>>
     ELSE /\ stack' = Front2
          /\ at' = "divide"
          /\ Divide(Magnitude(Second) * One, Magnitude(First))
  /\ UNCHANGED <<text, t, console, term>>

DivideStep ==
  /\ at = "divide"
  /\ Iterate
  /\ UNCHANGED cvars

DivideEnd ==
  /\ at = "divide"
  /\ i = 0
  /\ stack' = Append(stack, Number_(fix_div_result(left, right, quot)))
  /\ at' = "calc"
  /\ UNCHANGED <<lvars, text, t, qvars, left, right, console, term>>

(* Another token, or two operands that are not numbers. *)
CalcRefused ==
  /\ at = "calc" /\ ~Ended
  /\ NextToken.op # "NUMBER"
  /\ IF ~TwoNumbers THEN EndLine(Say("Numbers expected"))
     ELSE NextToken.op \notin Operators /\ EndLine(Say("Invalid token"))

PrintResult ==
  /\ at = "calc" /\ Ended
  /\ EndLine(IF Top.op = "NUMBER" THEN fix_print(Top.number) ELSE Say("Result expected"))

CNext == ReadToken \/ ReadUndefined \/ PopToParenthesis \/ PopOperators \/ Drain
           \/ CalcNumber \/ CalcOperator \/ CalcDivision \/ DivideStep \/ DivideEnd \/ CalcRefused \/ PrintResult

CSpec == CInit /\ [][CNext]_<<lvars, cvars>> /\ WF_<<lvars, cvars>>(CNext)

(***************************************************************************)
(* Properties                                                              *)
(***************************************************************************)
Loops == {"parse", "parenthesis", "operator", "drain", "calc", "divide", "returned", "undefined"}

(* Every variable has its type; the operands of a division are numbers of  *)
(* the register's width.                                                   *)
CTypeOK ==
  /\ at \in Loops
  /\ text \in Seq(STRING)
  /\ t \in Tokens /\ term \in Seq(Tokens)
  /\ stack \in Seq(Tokens)
  /\ queue \in [0..QUEUE_SIZE - 1 -> Tokens]
  /\ left \in Fix /\ right \in Fix

(* pop_queue moves queue_start without a limit: it is only because both    *)
(* counters are cleared after every line that no token is read behind the  *)
(* array, and that neither counter leaves its 8 bits.                      *)
QueueInside ==
  /\ queue_start \in Nat /\ queue_size \in Nat
  /\ queue_start + queue_size <= QUEUE_SIZE
  /\ Len(stack) <= STACK_SIZE

(* A division by the calculator is one by the loop of LongDivision. *)
ImplementsDivision == LSpec
=============================================================================
