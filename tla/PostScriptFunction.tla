-------------------------- MODULE PostScriptFunction --------------------------
(***************************************************************************)
(* PostScript calculator functions (seren-core/src/document/function.ts    *)
(* and parser/ps_parser.ts): PostScriptParser flattens nested blocks into  *)
(* code with jumps, PostScriptEvaluator interprets code on a stack, and    *)
(* PostScriptCompiler, where it can, makes expressions of it, with bounds  *)
(* that spare it comparisons.  The expressions are kept as their values.   *)
(*                                                                         *)
(* What the parser gives is seldom the code of the text (ParsedIsCode).  To *)
(* see what is right or wrong of the compiler and the interpreter, they get *)
(* that code as well, which the program never gives them.                  *)
(*                                                                         *)
(* Numbers are integers; functions that leave them, as sine and division,  *)
(* are left out, and so are comments and the spelling of tokens.           *)
(***************************************************************************)
EXTENDS Integers, Sequences, SequencesExt

CONSTANTS
    Functions,      \* records: tokens, code (what they are in code), domain and range, which
                    \* are pairs, and means: the results for each of some inputs
    MaxStack        \* MAX_STACK_SIZE: 100

ASSUME FunctionAssumption == MaxStack \in Nat

VARIABLES
    func,           \* the function
    args,           \* src: the inputs, within the domain
    given,          \* the code that is run: what is "parsed", or what is "right"
    parser,         \* PostScriptParser: token, operators, the calls of parseCondition, and how it ended
    compiler,       \* compile(): i, stack, and how it ended
    evaluator       \* execute(): counter, stack, and how it ended

functionVars == <<func, args, given, parser, compiler, evaluator>>

Number(v)   == [is |-> "number", v |-> v, op |-> ""]
Operator(o) == [is |-> "operator", v |-> 0, op |-> o]
NullItem    == [is |-> "null", v |-> 0, op |-> ""]
Bool(b)     == [is |-> "bool", v |-> IF b THEN 1 ELSE 0, op |-> ""]
NaN         == [is |-> "NaN", v |-> 0, op |-> ""]
Undefined   == [is |-> "undefined", v |-> 0, op |-> ""]

Least(S)    == CHOOSE x \in S : \A y \in S : x <= y
Greatest(S) == CHOOSE x \in S : \A y \in S : x >= y
Clip(x, low, high) == IF x < low THEN low ELSE IF x > high THEN high ELSE x

FunctionInit ==
    /\ func \in Functions
    /\ args \in DOMAIN func.means
    /\ given = "none"
    /\ parser = [at |-> 1, operators |-> << >>, open |-> << >>, ended |-> "no"]
    /\ compiler = [i |-> 1, ended |-> "no",
                   stack |-> [n \in DOMAIN args |->
                                [type |-> "args", min |-> func.domain[n][1], max |-> func.domain[n][2],
                                 val |-> args[n], rest |-> << >>]]]
    /\ evaluator = [counter |-> 0, ended |-> "no", stack |-> [n \in DOMAIN args |-> Number(args[n])]]

------------------------------------------------------------------------------
(* PostScriptParser.                                                        *)

Ahead == func.tokens[parser.at]
Accepts(op) == parser.ended = "no" /\ parser.at \in DOMAIN func.tokens /\ Ahead = Operator(op)

\* The call of parseCondition that runs, and the block it is in: the first, between
\* the two, the second, after it.
InBlock(block) == parser.open # << >> /\ Last(parser.open).block = block
Placed(operators, at, target, op) ==
    [operators EXCEPT ![at + 1] = Number(target), ![at + 2] = Operator(op)]

Parses(operators, open) ==
    /\ parser' = [parser EXCEPT !.at = @ + 1, !.operators = operators, !.open = open]
    /\ UNCHANGED <<func, args, given, compiler, evaluator>>
ParsingEnds(how) ==
    /\ parser' = [parser EXCEPT !.ended = how] /\ UNCHANGED <<func, args, given, compiler, evaluator>>

\* What parseBlock pushes for the token it accepts: prev was read before.
Pushed == func.tokens[parser.at - 1]

\* A number or an operator of a block.
ParseItem ==
    /\ parser.ended = "no" /\ parser.at \in 2 .. Len(func.tokens)
    /\ ~InBlock("between") /\ ~InBlock("after")
    /\ Ahead \notin {Operator(op) : op \in {"{", "}", "if", "ifelse"}}
    /\ Parses(Append(parser.operators, Pushed), parser.open)

\* The first brace, and parseCondition at one within a block; what a condition pushes is
\* set when it ends.
ParseOpen ==
    /\ Accepts("{") /\ ~InBlock("between") /\ ~InBlock("after")
    /\ IF parser.at = 1 THEN Parses(parser.operators, parser.open)
       ELSE Parses(parser.operators \o <<NullItem, NullItem>>,
                   Append(parser.open, [block |-> "first", condition |-> Len(parser.operators), jump |-> 0]))

\* The end of a block.
ParseClose ==
    /\ Accepts("}") /\ ~InBlock("between") /\ ~InBlock("after")
    /\ IF parser.open = << >> THEN ParsingEnds("done")
       ELSE Parses(parser.operators,
                   [parser.open EXCEPT ![Len(parser.open)].block = IF @ = "first" THEN "between" ELSE "after"])

ParseIf ==
    /\ Accepts("if") /\ InBlock("between")
    /\ Parses(Placed(parser.operators, Last(parser.open).condition, Len(parser.operators), "jz"),
              Front(parser.open))

\* The second block begins: room for the jump at the end of the first.
ParseElse ==
    /\ Accepts("{") /\ InBlock("between")
    /\ Parses(parser.operators \o <<NullItem, NullItem>>,
              [parser.open EXCEPT ![Len(parser.open)].block = "second",
                                  ![Len(parser.open)].jump = Len(parser.operators)])

\* Where the second block begins.
EndOfTrue(jump) == jump + 2

ParseIfElse ==
    /\ Accepts("ifelse") /\ InBlock("after")
    /\ LET call == Last(parser.open)
       IN  Parses(Placed(Placed(parser.operators, call.jump, Len(parser.operators), "j"),
                         call.condition, EndOfTrue(call.jump), "jz"),
                  Front(parser.open))

\* Any other token is not expected.
Unexpected ==
    IF parser.at > Len(func.tokens) THEN TRUE
    ELSE IF InBlock("between") THEN Ahead \notin {Operator("if"), Operator("{")}
    ELSE IF InBlock("after") THEN Ahead # Operator("ifelse")
    ELSE Ahead \in {Operator("if"), Operator("ifelse")} \/ (parser.at = 1 /\ Ahead # Operator("{"))

ParseFails == parser.ended = "no" /\ Unexpected /\ ParsingEnds("failed")

ParseNext == ParseItem \/ ParseOpen \/ ParseClose \/ ParseIf \/ ParseElse \/ ParseIfElse \/ ParseFails

------------------------------------------------------------------------------
(* The code.                                                                *)

Code == IF given = "parsed" THEN parser.operators ELSE func.code

TakeCode ==
    /\ parser.ended = "done" /\ given = "none" /\ given' \in {"parsed", "right"}
    /\ UNCHANGED <<func, args, parser, compiler, evaluator>>

------------------------------------------------------------------------------
(* PostScriptCompiler.  A node has its type, its bounds and its value; rest *)
(* is x in 1 - x.                                                           *)

Literal(n) == [type |-> "literal", min |-> n, max |-> n, val |-> n, rest |-> << >>]
Binary(val, min, max) == [type |-> "binary", min |-> min, max |-> max, val |-> val, rest |-> << >>]
IsLiteral(node, n) == node.type = "literal" /\ node.val = n
Literals(num1, num2) == num1.type = "literal" /\ num2.type = "literal"

BuildAdd(num1, num2) ==
    CASE IsLiteral(num2, 0)   -> num1
      [] IsLiteral(num1, 0)   -> num2
      [] Literals(num1, num2) -> Literal(num1.val + num2.val)
      [] OTHER -> Binary(num1.val + num2.val, num1.min + num2.min, num1.max + num2.max)

BuildMul(num1, num2) ==
    CASE IsLiteral(num2, 0) \/ IsLiteral(num1, 0) -> Literal(0)
      [] IsLiteral(num2, 1)   -> num1
      [] IsLiteral(num1, 1)   -> num2
      [] Literals(num1, num2) -> Literal(num1.val * num2.val)
      [] OTHER ->
           LET corners == {num1.min * num2.min, num1.min * num2.max,
                           num1.max * num2.min, num1.max * num2.max}
           IN  Binary(num1.val * num2.val, Least(corners), Greatest(corners))

\* Mutant of BuildSub: the bounds of the second operand are not exchanged.
BuildSubSameBounds(num1, num2) ==
    CASE IsLiteral(num2, 0)   -> num1
      [] Literals(num1, num2) -> Literal(num1.val - num2.val)
      [] IsLiteral(num1, 1) /\ num2.rest # << >> -> num2.rest[1]
      [] OTHER -> Binary(num1.val - num2.val, num1.min - num2.min, num1.max - num2.max)

\* ... with 1 - (1 - x) made x.
BuildSub(num1, num2) ==
    CASE IsLiteral(num2, 0)   -> num1
      [] Literals(num1, num2) -> Literal(num1.val - num2.val)
      [] IsLiteral(num1, 1) /\ num2.rest # << >> -> num2.rest[1]
      [] OTHER -> [Binary(num1.val - num2.val, num1.min - num2.max, num1.max - num2.min)
                     EXCEPT !.rest = IF IsLiteral(num1, 1) THEN <<num2>> ELSE << >>]

BuildMin(num1, max) ==
    CASE num1.min >= max -> Literal(max)
      [] num1.max <= max -> num1
      [] OTHER -> [type |-> "max", min |-> num1.min, max |-> max, val |-> Least({num1.val, max}), rest |-> << >>]

Ast == compiler.stack
Depth == Len(Ast)
Item == Code[compiler.i]
Compiling(op) == compiler.ended = "no" /\ compiler.i \in DOMAIN Code /\ Item = Operator(op)
Below(n) == SubSeq(Ast, 1, Depth - n)

CompiledTo(stack, items) ==
    /\ compiler' = [compiler EXCEPT !.i = @ + items, !.stack = stack]
    /\ UNCHANGED <<func, args, given, parser, evaluator>>
CompilingEnds(how) ==
    /\ compiler' = [compiler EXCEPT !.ended = how] /\ UNCHANGED <<func, args, given, parser, evaluator>>

\* A node that is used twice becomes a variable, unless it is one or a literal.
Shared(node) ==
    IF node.type \in {"literal", "var"} THEN node ELSE [node EXCEPT !.type = "var", !.rest = << >>]

CompileNumber ==
    /\ compiler.ended = "no" /\ compiler.i \in DOMAIN Code /\ Item.is = "number"
    /\ CompiledTo(Append(Ast, Literal(Item.v)), 1)

CompileBinary ==
    /\ Depth >= 2
    /\ \/ Compiling("add") /\ CompiledTo(Append(Below(2), BuildAdd(Ast[Depth - 1], Ast[Depth])), 1)
       \/ Compiling("mul") /\ CompiledTo(Append(Below(2), BuildMul(Ast[Depth - 1], Ast[Depth])), 1)
       \/ Compiling("sub") /\ CompiledTo(Append(Below(2), BuildSub(Ast[Depth - 1], Ast[Depth])), 1)

CompileMove ==
    \/ Compiling("cvr")  /\ Depth >= 1 /\ CompiledTo(Ast, 1)
    \/ Compiling("pop")  /\ Depth >= 1 /\ CompiledTo(Below(1), 1)
    \/ Compiling("exch") /\ Depth >= 2 /\ CompiledTo(Below(2) \o <<Ast[Depth], Ast[Depth - 1]>>, 1)

CompileIndex ==
    /\ Compiling("index") /\ Depth >= 1 /\ Ast[Depth].type = "literal"
    /\ LET place == Depth - 1 - Ast[Depth].val
       IN  /\ place \in 1 .. Depth - 1
           /\ CompiledTo(Append([Below(1) EXCEPT ![place] = Shared(@)], Shared(Ast[place])), 1)

\* "dup n gt jz pop n": the lesser of two numbers.
IsMin(i) ==
    /\ i + 6 <= Len(Code) /\ Code[i + 1].is = "number"
    /\ SubSeq(Code, i + 2, i + 6) =
          <<Operator("gt"), Number(i + 6), Operator("jz"), Operator("pop"), Code[i + 1]>>

CompileDup ==
    /\ Compiling("dup") /\ Depth >= 1
    /\ IF IsMin(compiler.i)
       THEN CompiledTo(Append(Below(1), BuildMin(Ast[Depth], Code[compiler.i + 1].v)), 7)
       ELSE CompiledTo(Below(1) \o <<Shared(Ast[Depth]), Shared(Ast[Depth])>>, 1)

CompileRoll ==
    /\ Compiling("roll") /\ Depth >= 2 /\ Literals(Ast[Depth - 1], Ast[Depth])
    /\ LET n == Ast[Depth - 1].val
           j == IF n > 0 THEN Ast[Depth].val % n ELSE 0
       IN  /\ n > 0 /\ Depth - 2 >= n
           /\ CompiledTo(Below(n + 2) \o SubSeq(Ast, Depth - 1 - j, Depth - 2)
                         \o SubSeq(Ast, Depth - 1 - n, Depth - 2 - j), 1)

\* What cannot be compiled is interpreted.
CompileNull ==
    /\ compiler.ended = "no"
    /\ IF compiler.i > Len(Code) THEN Depth # Len(func.range)
       ELSE /\ Item.is = "operator"
            /\ \/ Item.op \notin {"add", "mul", "sub", "cvr", "pop", "exch", "index", "dup", "roll"}
               \/ Depth < (IF Item.op \in {"add", "mul", "sub", "exch", "roll"} THEN 2 ELSE 1)
               \/ Item.op = "index" /\ (Ast[Depth].type # "literal" \/ Ast[Depth].val \notin 0 .. Depth - 1)
               \/ /\ Item.op = "roll"
                  /\ \/ ~Literals(Ast[Depth - 1], Ast[Depth])
                     \/ Ast[Depth - 1].val \notin 1 .. Depth - 2
    /\ CompilingEnds("null")

\* index reaches just below the stack: its node is undefined.
CompileThrows ==
    /\ Compiling("index") /\ Depth >= 1 /\ Ast[Depth].type = "literal" /\ Ast[Depth].val = Depth - 1
    /\ CompilingEnds("thrown")

CompileDone ==
    /\ compiler.ended = "no" /\ compiler.i > Len(Code) /\ Depth = Len(func.range)
    /\ CompilingEnds("done")

CompileNext ==
    \/ CompileNumber \/ CompileBinary \/ CompileMove \/ CompileIndex \/ CompileDup \/ CompileRoll
    \/ CompileNull \/ CompileThrows \/ CompileDone

\* What the compiled function writes: it compares only with bounds that can be passed.
Assigned(n) ==
    LET node == Ast[n]
        low  == func.range[n][1]
        high == func.range[n][2]
        from == IF low > node.min THEN Greatest({low, node.val}) ELSE node.val
    IN  IF high < node.max THEN Least({high, from}) ELSE from

------------------------------------------------------------------------------
(* PostScriptEvaluator.                                                     *)

Stack == evaluator.stack
Height == Len(Stack)
FromTop(n) == Stack[Height - n + 1]
Rest(n) == SubSeq(Stack, 1, Height - n)
Next1 == Code[evaluator.counter + 1]
Evaluating == evaluator.ended = "no" /\ evaluator.counter < Len(Code)
Executing(ops, operands) ==
    Evaluating /\ Next1.is = "operator" /\ Next1.op \in ops /\ Height >= operands

Evaluated(stack, counter) ==
    /\ evaluator' = [evaluator EXCEPT !.stack = stack, !.counter = counter]
    /\ UNCHANGED <<func, args, given, parser, compiler>>
EvaluatingEnds(how) ==
    /\ evaluator' = [evaluator EXCEPT !.ended = how] /\ UNCHANGED <<func, args, given, parser, compiler>>

\* push(): the stack has a limit.
Goes(stack) ==
    IF Len(stack) > MaxStack THEN EvaluatingEnds("failed") ELSE Evaluated(stack, evaluator.counter + 1)

EvaluateNumber == Evaluating /\ Next1.is = "number" /\ Goes(Append(Stack, Next1))

EvaluateConstant == Executing({"true", "false"}, 0) /\ Goes(Append(Stack, Bool(Next1.op = "true")))

\* "jz" and "j"; what is neither true nor a number but 0 is false.
EvaluateJump ==
    \/ Executing({"j"}, 1) /\ Evaluated(Rest(1), FromTop(1).v)
    \/ /\ Executing({"jz"}, 2)
       /\ Evaluated(Rest(2), IF FromTop(2).v = 0 THEN FromTop(1).v ELSE evaluator.counter + 1)

IsNaN(value) == value \in {NaN, Undefined}

\* Truncated division and its remainder; x | 0 of what is no number is 0.
Magnitude(x) == IF x < 0 THEN -x ELSE x
Sign(x) == IF x < 0 THEN -1 ELSE 1
Quotient(a, b) == IF b = 0 THEN 0 ELSE Sign(a) * Sign(b) * (Magnitude(a) \div Magnitude(b))

BinaryResult(op, a, b) ==
    CASE op = "eq" -> Bool(a = b /\ a # NaN)
      [] op = "ne" -> Bool(a # b \/ a = NaN)
      [] op \in {"ge", "gt", "le", "lt"} ->
           Bool(/\ ~IsNaN(a) /\ ~IsNaN(b)
                /\ CASE op = "ge" -> a.v >= b.v [] op = "gt" -> a.v > b.v
                     [] op = "le" -> a.v <= b.v [] op = "lt" -> a.v < b.v)
      [] op \in {"and", "or", "xor"} ->
           Bool(CASE op = "and" -> a.v = 1 /\ b.v = 1 [] op = "or" -> a.v = 1 \/ b.v = 1
                  [] op = "xor" -> a.v # b.v)
      [] op = "idiv" -> Number(IF IsNaN(a) \/ IsNaN(b) THEN 0 ELSE Quotient(a.v, b.v))
      [] IsNaN(a) \/ IsNaN(b) -> NaN
      [] op = "add" -> Number(a.v + b.v)
      [] op = "sub" -> Number(a.v - b.v)
      [] op = "mul" -> Number(a.v * b.v)
      [] op = "mod" -> IF b.v = 0 THEN NaN ELSE Number(a.v - b.v * Quotient(a.v, b.v))

\* The logical ones are those of Booleans.
EvaluateBinary ==
    /\ Executing({"eq", "ne", "ge", "gt", "le", "lt", "and", "or", "xor", "idiv", "add", "sub", "mul", "mod"}, 2)
    /\ Next1.op \in {"and", "or", "xor"} => FromTop(1).is = "bool" /\ FromTop(2).is = "bool"
    /\ Goes(Append(Rest(2), BinaryResult(Next1.op, FromTop(2), FromTop(1))))

UnaryResult(op, a) ==
    CASE op = "not" /\ a.is = "bool" -> Bool(a.v = 0)
      [] op = "not" -> Number(-1 - a.v)
      [] op = "cvi" /\ IsNaN(a) -> Number(0)
      [] IsNaN(a) -> NaN
      [] op = "abs" -> Number(Magnitude(a.v))
      [] op = "neg" -> Number(-a.v)
      [] OTHER -> Number(a.v)

\* An integer is not rounded.
EvaluateUnary ==
    /\ Executing({"not", "abs", "neg", "cvi", "ceiling", "floor", "round", "truncate"}, 1)
    /\ Goes(Append(Rest(1), UnaryResult(Next1.op, FromTop(1))))

EvaluateRemaining ==
    \/ Executing({"cvr"}, 0) /\ Goes(Stack)
    \/ Executing({"pop"}, 1) /\ Goes(Rest(1))

\* copy(n), which has a limit of its own, and index.
Copied(stack, n) ==
    IF Len(stack) + n >= MaxStack THEN EvaluatingEnds("failed")
    ELSE Goes(stack \o SubSeq(stack, Len(stack) - n + 1, Len(stack)))

EvaluateCopy ==
    \/ Executing({"dup"}, 1) /\ Copied(Stack, 1)
    \/ Executing({"copy"}, 1) /\ FromTop(1).v \in 0 .. Height - 1 /\ Copied(Rest(1), FromTop(1).v)

EvaluateIndex ==
    /\ Executing({"index"}, 1) /\ FromTop(1).v >= 0
    /\ Goes(Append(Rest(1), IF FromTop(1).v < Height - 1 THEN Stack[Height - 1 - FromTop(1).v] ELSE Undefined))

Mirrored(stack, from, to) ==
    [i \in DOMAIN stack |-> IF i \in from .. to THEN stack[from + to - i] ELSE stack[i]]

\* roll(n, p): the upper part is mirrored, and then each of its two parts.
Rolled(stack, n, p) ==
    LET l == Len(stack) - n
        c == l + (p % n)
    IN  Mirrored(Mirrored(Mirrored(stack, l + 1, Len(stack)), l + 1, c), c + 1, Len(stack))

EvaluateRoll ==
    \/ Executing({"exch"}, 2) /\ Goes(Rolled(Stack, 2, 1))
    \/ /\ Executing({"roll"}, 2) /\ FromTop(2).v \in 1 .. Height - 2
       /\ Goes(Rolled(Rest(2), FromTop(2).v, FromTop(1).v))

\* What the parser should not give.
Unknown == {"{", "}", "if", "ifelse"}
Operands(op) ==
    IF op \in Unknown THEN 0
    ELSE IF op \in {"jz", "eq", "ne", "ge", "gt", "le", "lt", "and", "or", "xor", "idiv", "add", "sub", "mul", "mod",
               "exch", "roll"} THEN 2
    ELSE IF op \in {"true", "false", "cvr"} THEN 0 ELSE 1

\* pop() of an empty stack.
EvaluateUnderflow ==
    /\ Evaluating /\ Next1.is = "operator" /\ Next1.op # "exch" /\ Height < Operands(Next1.op)
    /\ EvaluatingEnds("failed")

\* "Unknown operator".
EvaluateUnknown == Executing(Unknown, 0) /\ EvaluatingEnds("failed")

EvaluateDone ==
    /\ evaluator.ended = "no" /\ evaluator.counter >= Len(Code)
    /\ EvaluatingEnds("done")

EvaluateNext ==
    \/ EvaluateNumber \/ EvaluateConstant \/ EvaluateJump \/ EvaluateBinary \/ EvaluateUnary
    \/ EvaluateRemaining \/ EvaluateCopy \/ EvaluateIndex \/ EvaluateRoll
    \/ EvaluateUnderflow \/ EvaluateUnknown \/ EvaluateDone

\* What constructPostScript takes from the stack.
Interpreted(n) ==
    Clip(Stack[Height - Len(func.range) + n].v, func.range[n][1], func.range[n][2])

\* One after the other: they share nothing.  Code is interpreted where it cannot be
\* compiled, and where the platform has no eval, so that both are followed.
FunctionNext ==
    \/ ParseNext \/ TakeCode
    \/ given # "none" /\ CompileNext
    \/ given # "none" /\ compiler.ended # "no" /\ EvaluateNext

FunctionSpec == FunctionInit /\ [][FunctionNext]_functionVars

------------------------------------------------------------------------------

\* Given the code of a nested text, a function gives what the text means, compiled or
\* interpreted: jumps lead to where the blocks end, rolling and sharing of operands keep
\* their order, and no comparison is spared that would be needed.  Of what the parser
\* gives in its place this says nothing.
RightCodeMeans ==
    LET means == func.means[args]
    IN  given = "right" /\ means.defined =>
            /\ compiler.ended = "done" => \A n \in DOMAIN func.range : Assigned(n) = means.results[n]
            /\ compiler.ended # "thrown" /\ evaluator.ended # "failed"
            /\ evaluator.ended = "done" => \A n \in DOMAIN func.range : Interpreted(n) = means.results[n]

\* Compiled or interpreted, the function is the same, whatever the code is.
CompiledIsInterpreted ==
    compiler.ended = "done" /\ evaluator.ended = "done" =>
        \A n \in DOMAIN func.range : Assigned(n) = Interpreted(n)

\* The jumps of what is parsed are those of the code, at their places.
JumpsAreRight ==
    parser.ended = "done" =>
        /\ Len(parser.operators) = Len(func.code)
        /\ \A k \in DOMAIN func.code : func.code[k] \in {Operator("jz"), Operator("j")} =>
              SubSeq(parser.operators, k - 1, k) = SubSeq(func.code, k - 1, k)

\* "parses operators", as "sub" of { sub }: the operators are the code of the text.
ParsedIsCode == parser.ended = "done" => parser.operators = func.code
===============================================================================
