------------------------- MODULE MCPostScriptFunction -------------------------
(* Programs in blocks, what they are in tokens and in code, and what they mean: *)
(* written from the definitions of the operators.                               *)
EXTENDS PostScriptFunction

Oper(o)           == [is |-> "operator", v |-> 0, op |-> o, then |-> << >>, else |-> << >>]
Val(v)          == [is |-> "number", v |-> v, op |-> "", then |-> << >>, else |-> << >>]
If(t)           == [is |-> "if", v |-> 0, op |-> "", then |-> t, else |-> << >>]
IfElse(t, e)    == [is |-> "ifelse", v |-> 0, op |-> "", then |-> t, else |-> e]
Bare(item)     == [is |-> item.is, v |-> item.v, op |-> item.op]

RECURSIVE TokensOf(_)
TokensOf(block) ==
    FlattenSeq([n \in DOMAIN block |->
        LET item == block[n]
        IN  CASE item.is = "if" ->
                   <<Operator("{")>> \o TokensOf(item.then) \o <<Operator("}"), Operator("if")>>
              [] item.is = "ifelse" ->
                   <<Operator("{")>> \o TokensOf(item.then) \o <<Operator("}"), Operator("{")>>
                   \o TokensOf(item.else) \o <<Operator("}"), Operator("ifelse")>>
              [] OTHER -> <<Bare(item)>>])

RECURSIVE CodeOf(_, _)
CodeOf(block, at) ==
    IF block = << >> THEN << >>
    ELSE LET item == Head(block)
             then == CodeOf(item.then, at + 2)
             else == CodeOf(item.else, at + 4 + Len(then))
             end  == at + 4 + Len(then) + Len(else)
             first == CASE item.is = "if" -> <<Number(at + 2 + Len(then)), Operator("jz")>> \o then
                        [] item.is = "ifelse" ->
                             <<Number(at + 4 + Len(then)), Operator("jz")>> \o then
                             \o <<Number(end), Operator("j")>> \o else
                        [] OTHER -> <<Bare(item)>>
         IN  first \o CodeOf(Tail(block), at + Len(first))

NoMeaning == [defined |-> FALSE, stack |-> << >>]
Gives(s, n, v) == [defined |-> TRUE, stack |-> SubSeq(s, 1, Len(s) - n) \o v]
Arithmetic == {"add", "sub", "mul", "idiv", "mod", "gt", "ge", "lt", "le"}

\* The meaning of an operator on a stack.
Meaning(op, s) ==
    LET n == Len(s)
        x == s[n - 1]
        y == s[n]
        ints == n >= 2 /\ x.is = "number" /\ y.is = "number"
    IN  CASE op = "true" -> Gives(s, 0, <<Bool(TRUE)>>)
          [] op = "false" -> Gives(s, 0, <<Bool(FALSE)>>)
          [] op \in {"eq", "ne"} /\ n >= 2 -> Gives(s, 2, <<Bool((x = y) = (op = "eq"))>>)
          [] op \in Arithmetic /\ ints ->
               IF op \in {"idiv", "mod"} /\ y.v = 0 THEN NoMeaning
               ELSE Gives(s, 2,
                      <<CASE op = "add" -> Number(x.v + y.v) [] op = "sub" -> Number(x.v - y.v)
                          [] op = "mul" -> Number(x.v * y.v)
                          [] op = "gt" -> Bool(x.v > y.v) [] op = "ge" -> Bool(x.v >= y.v)
                          [] op = "lt" -> Bool(x.v < y.v) [] op = "le" -> Bool(x.v <= y.v)
                          [] op = "idiv" -> Number(CHOOSE q \in -9 .. 9 :
                               /\ Magnitude(q * y.v) <= Magnitude(x.v) /\ Magnitude(x.v - q * y.v) < Magnitude(y.v)
                               /\ x.v - q * y.v = 0 \/ (x.v - q * y.v < 0) = (x.v < 0))
                          [] op = "mod" -> Number(CHOOSE r \in -9 .. 9 :
                               /\ Magnitude(r) < Magnitude(y.v) /\ \E q \in -9 .. 9 : x.v = q * y.v + r
                               /\ r = 0 \/ (r < 0) = (x.v < 0))>>)
          [] op \in {"and", "or", "xor"} /\ n >= 2 /\ x.is = "bool" /\ y.is = "bool" ->
               Gives(s, 2, <<Bool(CASE op = "and" -> x.v + y.v = 2 [] op = "or" -> x.v + y.v > 0
                                    [] op = "xor" -> x.v + y.v = 1)>>)
          [] op = "not" /\ n >= 1 /\ y.is = "bool" -> Gives(s, 1, <<Bool(y.v = 0)>>)
          [] op = "not" /\ n >= 1 -> Gives(s, 1, <<Number(-1 - y.v)>>)
          [] op \in {"neg", "abs", "cvi", "cvr", "round"} /\ n >= 1 /\ y.is = "number" ->
               Gives(s, 1, <<Number(CASE op = "neg" -> -y.v [] op = "abs" -> Greatest({y.v, -y.v})
                                      [] OTHER -> y.v)>>)
          [] op = "pop" /\ n >= 1 -> Gives(s, 1, << >>)
          [] op = "dup" /\ n >= 1 -> Gives(s, 0, <<y>>)
          [] op = "exch" /\ n >= 2 -> Gives(s, 2, <<y, x>>)
          [] op = "copy" /\ n >= 1 /\ y.is = "number" /\ y.v \in 0 .. n - 1 ->
               Gives(s, 1, SubSeq(s, n - y.v, n - 1))
          [] op = "index" /\ n >= 1 /\ y.is = "number" /\ y.v \in 0 .. n - 2 ->
               Gives(s, 1, <<s[n - 1 - y.v]>>)
          [] op = "roll" /\ ints /\ x.v \in 1 .. n - 2 ->
               Gives(s, 2 + x.v, [k \in 1 .. x.v |-> s[n - 1 - x.v + ((k - 1 - y.v) % x.v)]])
          [] OTHER -> NoMeaning

RECURSIVE Run(_, _)
Run(block, state) ==
    IF block = << >> \/ ~state.defined THEN state
    ELSE LET item == Head(block)
             s == state.stack
         IN  Run(Tail(block),
                 CASE item.is = "number" -> Gives(s, 0, <<Bare(item)>>)
                   [] item.is = "operator" -> Meaning(item.op, s)
                   [] item.is \in {"if", "ifelse"} ->
                        IF s = << >> \/ Last(s).is # "bool" THEN NoMeaning
                        ELSE Run(IF Last(s).v = 1 THEN item.then ELSE item.else, Gives(s, 1, << >>)))

\* What a function gives for its inputs, within its range.
Results(block, range, inputs) ==
    LET ends == Run(block, [defined |-> TRUE, stack |-> [n \in DOMAIN inputs |-> Number(inputs[n])]])
        s == ends.stack
        m == Len(range)
        defined == ends.defined /\ Len(s) = m /\ \A n \in 1 .. m : s[n].is = "number"
    IN  [defined |-> defined,
         results |-> IF defined THEN [n \in 1 .. m |-> Clip(s[n].v, range[n][1], range[n][2])]
                     ELSE << >>]

Function(block, domain, range, inputs) ==
    [tokens |-> <<Operator("{")>> \o TokensOf(block) \o <<Operator("}")>>,
     code |-> CodeOf(block, 0), domain |-> domain, range |-> range,
     means |-> [i \in inputs |-> Results(block, range, i)]]

\* A number that is no greater than n, the way a program says it.
LesserOf(n) == <<Oper("dup"), Val(n), Oper("gt"), If(<<Oper("pop"), Val(n)>>)>>

\* Pieces of programs that a compiler knows, ...
Compiled == {<<Val(1)>>, <<Val(2), Oper("mul")>>, <<Oper("add")>>, <<Oper("sub")>>, <<Oper("mul")>>,
             <<Oper("dup")>>, <<Oper("exch")>>, <<Oper("pop")>>, <<Val(1), Oper("exch"), Oper("sub")>>,
             <<Val(1), Oper("index")>>, <<Val(0), Oper("index")>>, <<Val(3), Val(-1), Oper("roll")>>,
             <<Val(2), Val(1), Oper("roll")>>, LesserOf(1)}
\* ... and pieces that only the interpreter knows.
Branches == {<<Oper("copy")>>, <<Val(2), Oper("copy")>>, <<Oper("gt"), If(<<Val(7)>>)>>,
             <<Val(0), Oper("lt"), IfElse(<<Val(4)>>, <<Val(5), Val(6), Oper("pop")>>)>>,
             <<Val(0), Oper("ge"), IfElse(<<>>, <<Oper("neg")>>)>>,
             <<Oper("true"), If(<<Oper("dup"), Val(0), Oper("eq"), IfElse(<<Oper("pop"), Val(3)>>, <<>>)>>)>>,
             <<Oper("false"), If(<<Oper("add"), Oper("false"), If(<<Oper("pop")>>)>>)>>}
Operations == {<<Val(a), Val(b), Oper(o)>> : a \in {-3, 4}, b \in {2, -2}, o \in {"idiv", "mod"}}
              \cup {<<Val(0), Oper("le"), Oper("true"), Oper(o), IfElse(<<Val(1)>>, <<Val(2)>>)>> :
                       o \in {"and", "or", "xor", "ne"}}
              \cup {<<Oper(o)>> : o \in {"abs", "not", "cvi", "round", "cvr"}}
              \cup {<<Val(0), Oper("gt"), Oper("not"), If(<<Val(1)>>)>>}

Wide == <<-9, 9>>
Narrow == <<0, 2>>

Programs == {FlattenSeq(p) : p \in [1 .. 3 -> Compiled]}
            \cup {p \o q \o r : p \in {<< >>, <<Val(1)>>, <<Oper("exch")>>}, q \in Branches,
                                r \in {<< >>, <<Oper("sub")>>, <<Oper("exch")>>} \cup Branches}
            \cup {p \o r : p \in Operations, r \in {<< >>, <<Oper("mul")>>}}

\* Texts that do not parse.
Broken == {[tokens |-> tokens, code |-> << >>, domain |-> <<Wide>>, range |-> <<Wide>>,
            means |-> [i \in {<<1>>} |-> [defined |-> FALSE, results |-> << >>]]] :
           tokens \in {<<Number(1)>>, <<Operator("{")>>,
                       <<Operator("{"), Operator("{"), Operator("}"), Operator("}")>>,
                       <<Operator("{"), Operator("if"), Operator("}")>>,
                       <<Operator("{"), Operator("{"), Operator("}"), Operator("{"), Operator("}"),
                         Operator("if"), Operator("}")>>}}

SomeFunctions ==
    {Function(p, <<<<-1, 2>>, <<0, 3>>>>, range, {<<-1, 3>>, <<2, 0>>}) :
        p \in Programs, range \in {<<Narrow>>, <<Wide, Narrow>>}}
    \cup Broken
==============================================================================
