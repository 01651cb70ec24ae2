------------------------------ MODULE CrasExpr ------------------------------
(***************************************************************************)
(* The disable expressions of the DSP configuration, cras_expr.c: values,  *)
(* the environment, the parser and the evaluator.                          *)
(*                                                                         *)
(* A text is a sequence of tokens.  Memory is left out: every value is     *)
(* copied and freed by the function that owns it.                          *)
(***************************************************************************)
EXTENDS Integers, Sequences

NoValue == [type |-> "none", v |-> "none"]
Boolean(b) == [type |-> "boolean", v |-> b]
Integer(n) == [type |-> "integer", v |-> n]
String(s) == [type |-> "string", v |-> s]
Function(f) == [type |-> "function", v |-> f]

IsFalse(x) == x.type = "boolean" /\ ~x.v
Same(x, y) == x.type = y.type /\ x.v = y.v

-----------------------------------------------------------------------------
(* The environment, a function from names to values.                       *)

install_builtins == [f \in {"not", "and", "or", "equal?"} |-> Function(f)]

\* cras_dsp.c installs the builtins and three variables of its own.
initialize_environment ==
  [x \in {"disable_eq", "disable_drc", "dsp_name"} |->
     IF x = "dsp_name" THEN String("") ELSE Boolean(FALSE)]

NewEnv == [x \in DOMAIN install_builtins \cup DOMAIN initialize_environment |->
             IF x \in DOMAIN install_builtins THEN install_builtins[x]
             ELSE initialize_environment[x]]

env_set_variable(env, name, value) ==
  [x \in DOMAIN env \cup {name} |-> IF x = name THEN value ELSE env[x]]

-----------------------------------------------------------------------------
(* The builtin functions; ops[1] is the function itself.                   *)

function_not(ops) == IF Len(ops) # 2 THEN NoValue ELSE Boolean(IsFalse(ops[2]))

function_and(ops) ==
  CASE Len(ops) <= 1 -> Boolean(TRUE)
    [] \E i \in 2..Len(ops) : IsFalse(ops[i]) -> Boolean(FALSE)
    [] OTHER -> ops[Len(ops)]

function_or(ops) ==
  LET true == {i \in 2..Len(ops) : ~IsFalse(ops[i])} IN
  IF true = {} THEN Boolean(FALSE)
  ELSE ops[CHOOSE i \in true : \A j \in true : i <= j]

function_equal(ops) ==
  Boolean(\A i \in 3..Len(ops) : Same(ops[i - 1], ops[i]))

Invoke(ops) ==
  IF ops = <<>> \/ ops[1].type # "function" THEN NoValue
  ELSE CASE ops[1].v = "not" -> function_not(ops)
         [] ops[1].v = "and" -> function_and(ops)
         [] ops[1].v = "or" -> function_or(ops)
         [] ops[1].v = "equal?" -> function_equal(ops)

-----------------------------------------------------------------------------
(* The parser.  A result holds the expression, <<>> for NULL, and the text *)
(* that is left.  A token "hash" is a # before anything but t and f, a     *)
(* token "quote" one that no second quote matches.                         *)

Literal(value) == <<[kind |-> "literal", value |-> value]>>
Variable(name) == <<[kind |-> "variable", value |-> name]>>
Compound(children) == <<[kind |-> "compound", value |-> children]>>

RECURSIVE parse_one_expr(_), sub_expressions(_)

parse_one_expr(text) ==
  IF text = <<>> THEN [expr |-> <<>>, rest |-> text]
  ELSE LET token == Head(text) IN
       CASE token.t = "literal" -> [expr |-> Literal(token.v), rest |-> Tail(text)]
         [] token.t = "quote" -> [expr |-> Literal(String("")), rest |-> Tail(text)]
         [] token.t = "hash" -> [expr |-> <<>>, rest |-> Tail(text)]
         [] token.t = "name" -> [expr |-> Variable(token.v), rest |-> Tail(text)]
         [] token.t = "open" ->
              LET sub == sub_expressions(Tail(text)) IN
              IF sub.rest # <<>> /\ Head(sub.rest).t = "close"
              THEN [expr |-> Compound(sub.exprs), rest |-> Tail(sub.rest)]
              ELSE [expr |-> <<>>, rest |-> sub.rest]
         [] OTHER -> [expr |-> <<>>, rest |-> text]

sub_expressions(text) ==
  LET one == parse_one_expr(text) IN
  IF one.expr = <<>> THEN [exprs |-> <<>>, rest |-> one.rest]
  ELSE LET more == sub_expressions(one.rest) IN
       [exprs |-> one.expr \o more.exprs, rest |-> more.rest]

-----------------------------------------------------------------------------
RECURSIVE cras_expr_expression_eval(_, _)

cras_expr_expression_eval(expr, env) ==
  CASE expr.kind = "literal" -> expr.value
    [] expr.kind = "variable" ->
         IF expr.value \in DOMAIN env THEN env[expr.value] ELSE NoValue
    [] expr.kind = "compound" ->
         Invoke([i \in 1..Len(expr.value) |->
                 cras_expr_expression_eval(expr.value[i], env)])

\* What cras_expr_expression_eval_boolean reports as true.
eval_boolean(expr, env) ==
  LET value == cras_expr_expression_eval(expr, env) IN
  value.type = "boolean" /\ value.v

=============================================================================
