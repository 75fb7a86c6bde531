---------------------------- MODULE MCContentParser ----------------------------
(* Objects and operations, and how they are written.                          *)
EXTENDS ContentParser, TLC

Chars(word) == [i \in DOMAIN word |-> Mark("letter", <<word[i]>>, 0)]
Num(n)   == Mark("int", <<>>, n)
Name(l)  == Mark("name", <<l>>, 0)
Delim(d) == <<Mark("delim", <<d>>, 0)>>
SP       == Mark("space", <<" ">>, 0)
NL       == Mark("space", <<"\n">>, 0)
Bin      == Mark("bin", <<"#">>, 0)
Wrong    == Mark("error", <<")">>, 0)
Array(items) == [is |-> "array", items |-> items]
Dict(entries) == [is |-> "dict", entries |-> entries]
ARef(num, gen) == [is |-> "ref", num |-> num, gen |-> gen]
Entry(l, v) == (<<l>> :> v)

RECURSIVE WriteValue(_, _), WriteAll(_, _), WriteEntries(_, _, _)
WriteAll(items, sep) ==
    IF items = <<>> THEN <<>> ELSE WriteValue(Head(items), sep) \o sep \o WriteAll(Tail(items), sep)
WriteEntries(entries, keys, sep) ==
    IF keys = <<>> THEN <<>>
    ELSE <<Name(keys[1][1])>> \o sep \o WriteValue(entries[keys[1]], sep) \o sep
         \o WriteEntries(entries, Tail(keys), sep)
WriteValue(v, sep) ==
    CASE v.is = "array" -> Delim("[") \o sep \o WriteAll(v.items, sep) \o Delim("]")
      [] v.is = "dict"  -> Delim("<<") \o sep \o WriteEntries(v.entries, SetToSeq(DOMAIN v.entries), sep)
                           \o Delim(">>")
      [] v.is = "ref"   -> <<Num(v.num), SP, Num(v.gen), SP>> \o Chars(<<"R">>)
      [] OTHER          -> <<v>>

Text(marks, written, streams) ==
    [marks |-> marks, written |-> written, streams |-> streams, recovers |-> FALSE, ends |-> "end"]
Fails(t)    == [t EXCEPT !.ends = "failed", !.written = <<>>]
Recovers(t) == [t EXCEPT !.recovers = TRUE]

Leaves == {Num(1), Name("A"), ARef(2, 0)}
Nested == Leaves \cup {Array(<<a, b>>) : a, b \in Leaves} \cup {Dict(Entry("A", a)) : a \in Leaves}
Objects == Nested \cup {Array(<<Num(3), a, b>>) : a, b \in Nested}
                  \cup {Dict(Entry("A", a) @@ Entry("B", b)) : a, b \in Nested}
EndObj == Chars(<<"endobj">>)
ObjectTexts ==
    {Text(WriteValue(o, sep) \o <<NL>> \o EndObj, <<o>>, TRUE) : o \in Objects, sep \in {<<>>, <<SP>>}}

\* A stream, its length as it is said, and how it ends.
EndStream == Chars(<<"end", "strea", "m">>)
Data == {<<>>, <<Bin>>, <<Bin, SP, Bin, Bin, Bin, Bin>>, <<Wrong, Bin>>, <<Bin, Bin>> \o EndStream \o <<Bin>>}
Stream(data, said, between, ending, kept) ==
    LET entries == IF said = -1 THEN <<>> ELSE Entry("Length", Num(said))
    IN  Text(WriteValue(Dict(entries), <<>>) \o Chars(<<"stream">>) \o <<NL>> \o data \o between
             \o ending \o <<NL>> \o EndObj, <<[is |-> "stream", entries |-> entries, data |-> kept]>>, TRUE)
\* The data that a length says, if it ends among the spaces before "endstream".
KeptData(body, said, ending) ==
    IF ending = EndStream /\ said <= Len(body) /\ \A i \in said + 1 .. Len(body) : IsSpace(body[i])
    THEN SubSeq(body, 1, said) ELSE body
Clean(data) == {i \in DOMAIN data : data[i].of = <<"end">>} = {}
StreamTexts ==
    {Stream(data, Len(data), between, EndStream, data) : data \in Data, between \in {<<>>, <<NL>>, <<NL, NL>>}}
    \cup {Stream(data, said, between, ending, KeptData(data \o between, IF said < 0 THEN 0 ELSE said, ending)) :
              data \in {d \in Data : Clean(d)}, said \in {-1, 0, 7, 20}, between \in {<<>>, <<NL>>},
              ending \in {EndStream, Chars(<<"end", "steam">>), Chars(<<"end", "strea">>)}}
BrokenTexts ==
    {Fails(Stream(<<Bin, Bin>>, 0, <<NL>>, <<>>, <<>>)),
     Text(Delim("<<") \o <<Num(1), Name("A"), Num(2)>> \o Delim(">>"), <<Dict(Entry("A", Num(2)))>>, TRUE),
     Fails(Text(<<Wrong>>, <<>>, TRUE)),
     Fails(Text(Delim("[") \o <<Num(1)>>, <<>>, TRUE)),
     Recovers(Text(Delim("[") \o <<Num(1)>>, <<Array(<<Num(1)>>)>>, TRUE)),
     Fails(Text(Delim("<<") \o <<Name("A"), Num(1)>>, <<>>, TRUE)),
     Recovers(Text(Delim("<<") \o <<Name("A"), Num(1), Name("B")>>, <<Dict(Entry("A", Num(1)))>>, TRUE))}

\* Operations.
Op(fn, args) == [fn |-> fn, args |-> args]
NumArgs(numArgs) == [numArgs |-> numArgs, variableArgs |-> FALSE]
SomeCommands ==
    (<<"q">> :> NumArgs(0)) @@ (<<"Q">> :> NumArgs(0)) @@ (<<"w">> :> NumArgs(1)) @@ (<<"g", "s">> :> NumArgs(1))
    @@ (<<"T", "f">> :> NumArgs(2)) @@ (<<"f">> :> NumArgs(0)) @@ (<<"f", "*">> :> NumArgs(0))
    @@ (<<"n">> :> NumArgs(0)) @@ (<<"B">> :> NumArgs(0)) @@ (<<"B", "T">> :> NumArgs(0)) @@ (<<"E", "T">> :> NumArgs(0))
    @@ (<<"l">> :> NumArgs(2)) @@ (<<"s", "c">> :> [numArgs |-> 2, variableArgs |-> TRUE])
    @@ (<<"B", "I">> :> NumArgs(0)) @@ (<<"I", "D">> :> NumArgs(0)) @@ (<<"E", "I">> :> NumArgs(1))
    @@ (<<"D", "P">> :> NumArgs(2)) @@ (<<"B", "M", "C">> :> NumArgs(1)) @@ (<<"B", "D", "C">> :> NumArgs(2))
    @@ (<<"i">> :> NumArgs(1)) @@ (<<"r", "i">> :> NumArgs(1))
ReservedWords ==
    {<<"B", "M">>, <<"B", "D">>, <<"f", "a">>, <<"f", "a", "l">>, <<"f", "a", "l", "s">>,
     <<"f", "a", "l", "s", "e">>, <<"n", "u">>, <<"n", "u", "l">>, <<"n", "u", "l", "l">>,
     <<"t", "r", "u", "e">>}
SomePathOps == {<<"l">>, <<"f">>, <<"f", "*">>, <<"B">>, <<"n">>}

SomeOps ==
    {Op(<<"q">>, <<>>), Op(<<"B", "T">>, <<>>), Op(<<"f">>, <<>>), Op(<<"f", "*">>, <<>>),
     Op(<<"B">>, <<>>), Op(<<"w">>, <<Num(5)>>), Op(<<"l">>, <<Num(1), Num(2)>>),
     Op(<<"s", "c">>, <<>>), Op(<<"s", "c">>, <<Num(3)>>),
     Op(<<"D", "P">>, <<Name("A"), Dict(Entry("B", ARef(1, 0)))>>)}
WriteOp(op, sep) == WriteAll(op.args, sep) \o Chars(op.fn)
Content(ops, sep) == Text(FlattenSeq([i \in DOMAIN ops |-> WriteOp(ops[i], sep) \o sep]), ops, FALSE)
\* What is glued is read so that no command is longer than it was.
GluesWell(a, b) == b.args # <<>> \/ Append(a.fn, b.fn[1]) \notin DOMAIN SomeCommands
ContentTexts ==
    {Content(<<a, b, c>>, <<SP>>) : a, b, c \in SomeOps}
    \cup {Content(<<x[1], x[2], Op(<<"Q">>, <<>>)>>, <<>>) : x \in {y \in SomeOps \X SomeOps : GluesWell(y[1], y[2])}}
    \cup {Text(<<Name("F"), Name("G")>> \o Chars(<<"g", "s">>) \o <<Num(5)>> \o Chars(<<"T", "f">>),
               <<Op(<<"g", "s">>, <<Name("G")>>), Op(<<"T", "f">>, <<Name("F"), Num(5)>>)>>, FALSE),
          Text(<<Num(1)>> \o Chars(<<"x", "y">>) \o <<SP>> \o Chars(<<"w">>), <<Op(<<"w">>, <<Num(1)>>)>>, FALSE),
          Text(<<Num(1)>> \o Chars(<<"l">>) \o <<SP>> \o Chars(<<"q">>), <<Op(<<"q">>, <<>>)>>, FALSE),
          Fails(Text(<<Num(1)>> \o Chars(<<"l">>) \o <<Num(2)>> \o Chars(<<"l">>), <<>>, FALSE)),
          Text(<<Num(1)>> \o Chars(<<"l">>) \o <<SP>> \o Chars(<<"q">>) \o <<Num(2)>> \o Chars(<<"l">>),
               <<Op(<<"q">>, <<>>)>>, FALSE),
          Fails(Text([i \in 1 .. 5 |-> Num(i)] \o Chars(<<"s", "c">>), <<>>, FALSE))}

\* Inline images.
Image(entries, data) == [is |-> "image", entries |-> entries, data |-> data]
WriteImage(entries, data, after) ==
    Chars(<<"B", "I">>) \o <<SP>> \o WriteEntries(entries, SetToSeq(DOMAIN entries), <<>>) \o <<SP>>
    \o Chars(<<"I", "D">>) \o <<SP>> \o data \o after \o Chars(<<"E", "I">>) \o <<SP>>
EI == Chars(<<"E", "I">>)
ImageData ==
    {<<Bin>>, <<Bin, Bin, Bin, Bin>>, <<Bin>> \o EI \o <<SP, Bin>>, <<Bin>> \o EI \o <<SP>> \o Chars(<<"x", "y">>) \o <<Bin>>,
     <<Bin>> \o EI \o <<Bin>>, <<Bin>> \o EI \o <<SP, Num(1), Num(2), Num(3)>>}
Plain(entries, data) == Op(<<"E", "I">>, <<Image(entries, data)>>)
Width(n) == Entry("W", Num(n))
ImageTexts ==
    {Text(WriteImage(Width(1), data, after) \o Chars(<<"Q">>) \o <<SP, SP>>,
          <<Plain(Width(1), data), Op(<<"Q">>, <<>>)>>, FALSE) : data \in ImageData, after \in {<<>>, <<SP>>}}
    \cup {Text(WriteImage(Width(a), <<Bin>>, <<SP>>) \o Chars(<<"Q">>) \o <<SP>>
               \o WriteImage(Width(b), <<Bin>>, <<SP>>) \o Chars(<<"q">>),
               <<Plain(Width(a), <<Bin>>), Op(<<"Q">>, <<>>), Plain(Width(b), <<Bin>>), Op(<<"q">>, <<>>)>>,
               FALSE) : a, b \in {1, 2}}
    \cup {LET entries == Entry("F", Name(filter))
          IN  Text(WriteImage(entries, data, <<SP>>) \o Chars(<<"Q">>),
                   <<Plain(entries, data), Op(<<"Q">>, <<>>)>>, FALSE) :
              <<filter, data>> \in
                 {<<"AHx", <<Num(1)>> \o EI \o <<SP>> \o Chars(<<">">>)>>,
                  <<"A85", Chars(<<"x", "~", "x">>) \o EI \o <<SP>> \o Chars(<<"~">>) \o <<SP>> \o Chars(<<">">>)>>,
                  <<"A85", Chars(<<"x", "~", ">">>)>>,
                  <<"DCT", <<Mark("segment", <<"FF">>, 2), Mark("bin", <<"EOI">>, 0), Bin, Bin,
                             Mark("bin", <<"EOI">>, 0)>>>>,
                  <<"DCT", <<Bin, Bin>>>>}}

ParsedTexts == ObjectTexts \cup StreamTexts \cup BrokenTexts \cup ContentTexts \cup ImageTexts

\* "trueifalserinulln", and marked content.
False == Mark("literal", <<"f", "a", "l", "s", "e">>, 0)
True  == Mark("literal", <<"t", "r", "u", "e">>, 0)
LongTexts ==
    {Text(Chars(<<"t", "r", "u", "e", "i", "f", "a", "l", "s", "e", "r", "i", "n", "u", "l", "l", "n">>),
          <<Op(<<"i">>, <<True>>), Op(<<"r", "i">>, <<False>>), Op(<<"n">>, <<>>)>>, FALSE),
     Content(<<Op(<<"B", "M", "C">>, <<Name("P")>>)>>, <<SP>>)}
==============================================================================
