---------------------------- MODULE Expressions ----------------------------
(***************************************************************************)
(* A WHERE clause at work: ShuntingYard::convert turns its tokens into     *)
(* postfix once, ExpressionEvaluator::evaluate runs them on every row that *)
(* the executor (Engine) hands it.                                         *)
(*                                                                         *)
(* A token is its type and a number: the value of a literal, the number of *)
(* a name.  Strings stand in their order; a float counts tenths, to which  *)
(* the product of two is cut; values stay far from the ends of an int.     *)
(* The stacks and the queue of 256 and 512 entries do not fill up: a       *)
(* clause holds 255 characters.                                            *)
(***************************************************************************)
EXTENDS Tokenizer, SequencesExt

Operators == { "PLUS", "MINUS", "MULTIPLY", "MODULO", "EQUALS", "NOT_EQUALS", "LESS",
               "GREATER", "LESS_EQ", "GREATER_EQ", "AND", "OR" }
Literals == { "NUMBER_INT", "NUMBER_FLOAT", "STRING_LITERAL" }
Operands == Literals \union {"IDENTIFIER"}
Token == [type : Operators \union Operands \union {"LPAREN", "RPAREN"} \union Keywords, value : Int]

\* A Field, or nullptr.
Field == [type : {"INT", "FLOAT", "VARCHAR"}, value : Int]
Null == [type |-> "NULL", value |-> 0]

VARIABLES
  clause,     \* the expression the user means, or NoClause
  schema,     \* the names of the table's columns
  infix,      \* infixTokens
  phase,      \* where the executor is: "idle", "convert", "plan", "scan",
              \* "evaluate" or "answered", or "crashed"
  next,       \* the loop counter i of convert or evaluate, from 1
  ops,        \* operatorStack, its top last
  out,        \* outputQueue, then postfix
  row,        \* the row evaluate is given
  evalStack,  \* evalStack, its top last
  match       \* what evaluate returned for row

clauseVars == << clause, schema, infix, phase, next, ops, out, row, evalStack, match >>

NoClause == [op |-> "none"]

(***************************************************************************)
(* Tokens and fields.                                                      *)
(***************************************************************************)
\* Tokenizer::setPrecedence.
Precedence(t) ==
  CASE t.type \in {"MULTIPLY", "MODULO"}                       -> 5
    [] t.type \in {"PLUS", "MINUS"}                            -> 4
    [] t.type \in {"LESS", "GREATER", "LESS_EQ", "GREATER_EQ"} -> 3
    [] t.type \in {"EQUALS", "NOT_EQUALS"}                     -> 2
    [] t.type = "AND"                                          -> 1
    [] OTHER                                                   -> 0

\* The equals and lessThan of the fields: false if the types differ, INT and
\* FLOAT among them.
Equals(f, g) == f # Null /\ g # Null /\ f.type = g.type /\ f.value = g.value
LessThan(f, g) == f # Null /\ g # Null /\ f.type = g.type /\ f.value < g.value

Truth(b) == [type |-> "INT", value |-> IF b THEN 1 ELSE 0]
IsTrue(f) == f.type = "INT" /\ f.value # 0

\* The remainder of C++, with the sign of x; y is not 0.
Remainder(x, y) ==
  LET abs(n) == IF n < 0 THEN -n ELSE n
  IN  IF x < 0 THEN -(abs(x) % abs(y)) ELSE x % abs(y)

AreNumbers(f, g) == {f.type, g.type} \subseteq {"INT", "FLOAT"}

\* coerceToFloat, for a number.
CoerceToFloat(f) == IF f.type = "FLOAT" THEN f.value ELSE Tenths * f.value

\* The cast of a number to int, by which a float loses its fraction.
CutToInt(f) ==
  IF f.type = "INT" THEN f.value
  ELSE IF f.value < 0 THEN -((-f.value) \div Tenths) ELSE f.value \div Tenths

\* Both sides are floats if one is; but the remainder is one of ints.
Computed(op, f, g) ==
  LET x == CoerceToFloat(f)
      y == CoerceToFloat(g)
  IN  IF f.type = "INT" /\ g.type = "INT"
        THEN Tok("INT", CASE op = "PLUS"     -> f.value + g.value
                          [] op = "MINUS"    -> f.value - g.value
                          [] op = "MULTIPLY" -> f.value * g.value
                          [] op = "MODULO"   -> Remainder(f.value, g.value))
        ELSE Tok("FLOAT", CASE op = "PLUS"     -> x + y
                            [] op = "MINUS"    -> x - y
                            [] op = "MULTIPLY" -> (x * y) \div Tenths
                            [] op = "MODULO"   -> Tenths * Remainder(CutToInt(f), CutToInt(g)))

\* Mutation: the result is pushed even if there is none.
Arithmetic_NoResult(op, f, g) == IF AreNumbers(f, g) THEN Computed(op, f, g) ELSE Null

\* The four arithmetic operators; 0 unless both sides are numbers.
Arithmetic(op, f, g) == IF AreNumbers(f, g) THEN Computed(op, f, g) ELSE Truth(FALSE)

\* What evaluate pushes for operator op; <= and >= are the negations of > and <.
Applied(op, left, right) ==
  CASE op = "EQUALS"     -> Truth(Equals(left, right))
    [] op = "NOT_EQUALS" -> Truth(~ Equals(left, right))
    [] op = "LESS"       -> Truth(LessThan(left, right))
    [] op = "GREATER"    -> Truth(LessThan(right, left))
    [] op = "LESS_EQ"    -> Truth(~ LessThan(right, left))
    [] op = "GREATER_EQ" -> Truth(~ LessThan(left, right))
    [] op = "AND"        -> Truth(IsTrue(left) /\ IsTrue(right))
    [] op = "OR"         -> Truth(IsTrue(left) \/ IsTrue(right))
    [] OTHER             -> Arithmetic(op, left, right)

FieldType == [NUMBER_INT |-> "INT", NUMBER_FLOAT |-> "FLOAT", STRING_LITERAL |-> "VARCHAR"]

\* TableSchema::getColumnIndex, from 1: the first of that name, or 0 if there is none.
Column(names, name) == SelectInSeq(names, LAMBDA n : n = name)

(***************************************************************************)
(* convert.                                                                *)
(***************************************************************************)
\* The loop of convert has the token t before it.
Converts(t) ==
  /\ phase = "convert" /\ next <= Len(infix) /\ t = infix[next]
  /\ next' = next + 1
  /\ UNCHANGED << clause, schema, infix, phase, row, evalStack, match >>

\* The operators above position k leave the stack, the top first.
PopTo(k) == out' = out \o Reverse(SubSeq(ops, k + 1, Len(ops)))

ConvertOperand ==
  \E t \in ToSet(infix) :
    /\ Converts(t)
    /\ t.type \in Operands
    /\ out' = Append(out, t)
    /\ UNCHANGED ops

\* Mutation: only operators that bind tighter leave, so that chains group to the right.
Yields_Tighter(top, t) == top.type # "LPAREN" /\ Precedence(top) > Precedence(t)

\* The operator top leaves the stack before t is put on it.
Yields(top, t) == top.type # "LPAREN" /\ Precedence(top) >= Precedence(t)

ConvertOperator ==
  \E t \in ToSet(infix) :
    /\ Converts(t)
    /\ t.type \in Operators
    /\ LET k == SelectLastInSeq(ops, LAMBDA o : ~ Yields(o, t))
       IN  /\ PopTo(k)
           /\ ops' = Append(SubSeq(ops, 1, k), t)

ConvertOpening ==
  \E t \in ToSet(infix) :
    /\ Converts(t)
    /\ t.type = "LPAREN"
    /\ ops' = Append(ops, t)
    /\ UNCHANGED out

\* All operators leave if there is no opening parenthesis.
ConvertClosing ==
  \E t \in ToSet(infix) :
    /\ Converts(t)
    /\ t.type = "RPAREN"
    /\ LET k == SelectLastInSeq(ops, LAMBDA o : o.type = "LPAREN")
       IN  /\ PopTo(k)
           /\ ops' = SubSeq(ops, 1, k - 1)

\* NOT is neither an operand nor an operator, nor are the words of a query.
ConvertOther ==
  \E t \in ToSet(infix) :
    /\ Converts(t)
    /\ t.type \in Keywords \ {"AND", "OR"}
    /\ UNCHANGED << ops, out >>

\* After the last token the stack is emptied; an unmatched parenthesis goes
\* into the output, too.
ConvertEnd ==
  /\ phase = "convert" /\ next > Len(infix)
  /\ PopTo(0)
  /\ ops' = << >>
  /\ phase' = "plan"
  /\ UNCHANGED << clause, schema, infix, next, row, evalStack, match >>

(***************************************************************************)
(* evaluate.                                                               *)
(***************************************************************************)
\* evaluate is called for row r.
Evaluate(r) ==
  /\ row' = r
  /\ phase' = "evaluate" /\ next' = 1 /\ evalStack' = << >>
  /\ UNCHANGED << clause, schema, infix, ops, out, match >>

Evaluates(t) ==
  /\ phase = "evaluate" /\ next <= Len(out) /\ t = out[next]
  /\ next' = next + 1
  /\ UNCHANGED << clause, schema, infix, phase, ops, out, row, match >>

\* A name the schema does not have, or a column the row does not have, pushes
\* nothing.
EvaluateIdentifier ==
  \E t \in ToSet(out) :
    /\ Evaluates(t)
    /\ t.type = "IDENTIFIER"
    /\ evalStack' = IF Column(schema, t.value) \in DOMAIN row
                    THEN Append(evalStack, row[Column(schema, t.value)]) ELSE evalStack

EvaluateLiteral ==
  \E t \in ToSet(out) :
    /\ Evaluates(t)
    /\ t.type \in Literals
    /\ evalStack' = Append(evalStack, Tok(FieldType[t.type], t.value))

\* The n-th field from the top of stack s, and s without its n topmost fields;
\* pop of an empty stack returns nullptr.
Popped(s, n) == IF n <= Len(s) THEN s[Len(s) - n + 1] ELSE Null
Below(s, n) == SubSeq(s, 1, Len(s) - n)

\* Neither the % of two ints nor that of floats, cut to ints, looks at its right
\* side: 0 it may be, or a fraction.
RemainderByZero(op, f, g) == op = "MODULO" /\ AreNumbers(f, g) /\ CutToInt(g) = 0

EvaluateOperator ==
  \E t \in ToSet(out) :
    /\ Evaluates(t)
    /\ t.type \in Operators
    /\ ~ RemainderByZero(t.type, Popped(evalStack, 2), Popped(evalStack, 1))
    /\ evalStack' = Append(Below(evalStack, 2),
                           Applied(t.type, Popped(evalStack, 2), Popped(evalStack, 1)))

\* An unmatched parenthesis is passed over.
EvaluateOther ==
  \E t \in ToSet(out) :
    /\ Evaluates(t)
    /\ t.type = "LPAREN"
    /\ UNCHANGED evalStack

\* The remainder by 0 ends the process (an integer division by 0 traps).
Trap ==
  /\ phase = "evaluate" /\ next <= Len(out)
  /\ RemainderByZero(out[next].type, Popped(evalStack, 2), Popped(evalStack, 1))
  /\ phase' = "crashed"
  /\ UNCHANGED << clause, schema, infix, next, ops, out, row, evalStack, match >>

Return ==
  /\ phase = "evaluate" /\ next > Len(out)
  /\ match' = IsTrue(Popped(evalStack, 1))
  /\ phase' = "scan"
  /\ UNCHANGED << clause, schema, infix, next, ops, out, row, evalStack >>

ClauseNext ==
  \/ ConvertOperand \/ ConvertOperator \/ ConvertOpening \/ ConvertClosing
  \/ ConvertOther \/ ConvertEnd
  \/ EvaluateIdentifier \/ EvaluateLiteral \/ EvaluateOperator \/ EvaluateOther
  \/ Trap

(***************************************************************************)
(* Properties.                                                             *)
(***************************************************************************)
\* The types of the variables; no nullptr is ever pushed.
ClauseTypeOK ==
  /\ infix \in Seq(Token) /\ ops \in Seq(Token) /\ out \in Seq(Token)
  /\ phase \in {"idle", "convert", "plan", "scan", "evaluate", "answered", "crashed"}
  /\ next \in 1 .. Len(infix) + Len(out) + 1
  /\ row \in Seq(Field)
  /\ evalStack \in Seq(Field)
  /\ match \in BOOLEAN

\* Between two parentheses the operators on the stack of convert bind tighter
\* and tighter, whatever the user typed: no operator waits for one that binds
\* less (the loop of convert over the operators, with its >=).
StackClimbs ==
  \A i \in 2 .. Len(ops) :
    ops[i].type # "LPAREN" /\ ops[i - 1].type # "LPAREN" =>
      Precedence(ops[i - 1]) < Precedence(ops[i])
=============================================================================
