----------------------------- MODULE ContentParser -----------------------------
(***************************************************************************)
(* Lexer, Parser (seren-core/src/parser/parser.ts) and the operations that *)
(* EvaluatorPreprocessor.read (evaluator.ts) makes of what they give.  The *)
(* parser holds two tokens, buf1 and buf2; the place of the stream is the  *)
(* one after the lexer's current character, and the data of streams and    *)
(* inline images are found and skipped by setting it.                      *)
(*                                                                         *)
(* A text is a sequence of marks: numbers, names and [ ] << >> are one     *)
(* mark each, commands are letters, "endstream" is three of them, and the  *)
(* widths of the code are scaled with that.  Comments and strings are left *)
(* out, and so are ciphers.                                                *)
(***************************************************************************)
EXTENDS Integers, Sequences, FiniteSets, SequencesExt, FiniteSetsExt

CONSTANTS
    Texts,          \* records: marks, written (what they were written from), streams
                    \* (allowStreams: an object, else the operations of a content stream),
                    \* recovers (recoveryMode)
    Commands,       \* knownCommands: records [numArgs, variableArgs] of words
    Reserved,       \* the words in knownCommands that are null
    ScanBlock,      \* SCAN_BLOCK_LENGTH: 2048
    Following,      \* n of findDefaultInlineStreamEnd: 15
    MaxArgs,        \* 33
    PathOps,        \* the words from moveTo to endPath
    MaxInvalid      \* MAX_INVALID_PATH_OPS: 10

VARIABLES
    text,           \* what is parsed
    lex,            \* buf1, buf2, begin (beginInlineImagePos) and cur: the place of the
                    \* lexer's current character
    stack,          \* the objects that are not complete, the calls of getObj
    imageCache,     \* imageCache
    read,           \* args, nonProcessedArgs, _isPathOp, _numInvalidPathOPS
    out,            \* the object, or the operations
    ended           \* "no", "end", "failed"

parserVars == <<text, lex, stack, imageCache, read, out, ended>>

Mark(is, of, n) == [is |-> is, of |-> of, n |-> n]
Cmd(word)  == Mark("cmd", word, 0)
Null       == Mark("null", <<>>, 0)
EOF        == Mark("eof", <<>>, 0)
IsCmd(token, letter) == token = Cmd(<<letter>>)

------------------------------------------------------------------------------
(* Lexer.                                                                   *)

Place(marks, i) == IF i \in DOMAIN marks THEN marks[i] ELSE EOF
IsSpace(mark)   == mark.is = "space"
InWord(mark)    == mark.is \in {"letter", "bin"}
Word(marks, i, j) == FlattenSeq([k \in 1 .. j - i + 1 |-> marks[i + k - 1].of])

\* The first of some places, or the end.
FirstOf(marks, places) == IF places = {} THEN Len(marks) + 1 ELSE Min(places)

\* A word ends where it is a known command and is none with the next letter.
WordEnds(marks, i, j, known) ==
    \/ ~InWord(Place(marks, j + 1))
    \/ marks[i].is = "bin" /\ j = i /\ Place(marks, j + 1).is = "letter"
    \/ /\ known /\ Word(marks, i, j) \in DOMAIN Commands \cup Reserved
       /\ Word(marks, i, j + 1) \notin DOMAIN Commands

WordToken(word) ==
    CASE word = <<"n", "u", "l", "l">> -> Null
      [] word \in {<<"t", "r", "u", "e">>, <<"f", "a", "l", "s", "e">>} -> Mark("literal", word, 0)
      [] OTHER -> Cmd(word)

TokenAt(marks, i, known) ==
    LET m == Place(marks, i)
        e == Min({j \in i .. Len(marks) : WordEnds(marks, i, j, known)})
    IN  CASE m.is = "delim" -> [token |-> Cmd(m.of), cur |-> i + 1]
          [] InWord(m)      -> [token |-> WordToken(Word(marks, i, e)), cur |-> e + 1]
          [] m.is = "eof"   -> [token |-> m, cur |-> i]
          [] OTHER          -> [token |-> m, cur |-> i + 1]

\* getObj
Token(marks, cur, known) ==
    TokenAt(marks, FirstOf(marks, {k \in cur .. Len(marks) : ~IsSpace(marks[k])}), known)

------------------------------------------------------------------------------
(* The two tokens.                                                          *)

Marks == text.marks
NextToken(cur) == Token(Marks, cur, ~text.streams)

ReadAhead(token, next, begin) ==
    [buf1 |-> token, buf2 |-> next.token, cur |-> next.cur,
     begin |-> IF next.token = Cmd(<<"B", "I">>) THEN next.cur ELSE begin]

\* shift: after ID nothing is read ahead.
Shift(l) ==
    IF l.buf2 = Cmd(<<"I", "D">>) THEN [l EXCEPT !.buf1 = l.buf2, !.buf2 = Null]
    ELSE ReadAhead(l.buf2, NextToken(l.cur), l.begin)

\* nextChar from a place of the stream, and a token more.
ShiftFrom(l, place) == Shift([l EXCEPT !.cur = place])

------------------------------------------------------------------------------
(* Streams.                                                                 *)

Letters(i, word) == \A k \in DOMAIN word : Place(Marks, i + k - 1).of = <<word[k]>>

\* "endstream", or misspelled or truncated and then a space
Signature(i) ==
    \/ Letters(i, <<"end", "strea", "m">>)
    \/ \E word \in {<<"end", "strea">>, <<"end", "steam">>} :
           Letters(i, word) /\ IsSpace(Place(Marks, i + 2))

\* Mutant of Overlap: the next block begins where this one ends.
OverlapNone(scanned) == scanned

\* The next block begins where the last place of this one was looked at.
Overlap(scanned) == scanned - 3

\* #findStreamLength: the place of the signature, or 0.  Blocks overlap.
FindSignature(from) ==
    LET scan[at \in Nat] ==
            LET block == Min({ScanBlock, Len(Marks) - at})
                found == {i \in at + 1 .. at + block - 3 : Signature(i)}
            IN  IF block <= 3 THEN 0
                ELSE IF found # {} THEN Min(found) ELSE scan[at + Overlap(block)]
    IN  scan[from - 1]

\* makeStream.  The tokens are those behind "endstream"; a negative length is none.
MakeStream(entries) ==
    LET newline == FirstOf(Marks, {i \in lex.cur .. Len(Marks) : Marks[i].of = <<"\n">>})
        from    == newline + 1
        said    == IF <<"Length">> \in DOMAIN entries /\ entries[<<"Length">>].is = "int"
                   THEN entries[<<"Length">>].n ELSE 0
        tried   == ShiftFrom(lex, from + said)
        fits    == tried.buf2 = Cmd(<<"end", "strea", "m">>)
        found   == FindSignature(from)
        length  == IF fits THEN said ELSE found - from
    IN  [length |-> length,
         lex |-> IF fits THEN Shift(Shift(tried)) ELSE Shift(Shift(ShiftFrom(lex, Max({1, found})))),
         value |-> [is |-> "stream", entries |-> entries,
                    data |-> SubSeq(Marks, from, from + length - 1)]]

------------------------------------------------------------------------------
(* Inline images: from is the place of the first mark, the results are      *)
(* places after the end of the data and after EI.                           *)

\* findDefaultInlineStreamEnd looks whether a command comes within so many marks.
CommandComes(window) ==
    LET look[cur \in Nat, numArgs \in Nat] ==
            LET next == Token(window, cur, TRUE)
            IN  CASE next.token = EOF -> FALSE
                  [] next.token.is = "cmd" ->
                        /\ next.token.of \in DOMAIN Commands
                        /\ \/ LET spec == Commands[next.token.of]
                              IN  IF spec.variableArgs THEN numArgs <= spec.numArgs
                                  ELSE numArgs = spec.numArgs
                           \/ look[next.cur, 0]
                  [] OTHER -> look[next.cur, numArgs + 1]
    IN  look[1, 0]

\* Behind EI and a space come a command, or nothing.
Plausible(space) ==
    LET window == SubSeq(Marks, space + 1, Min({space + Following, Len(Marks)}))
    IN  window = <<>> \/ (~(\E i \in DOMAIN window : window[i].is = "bin") /\ CommandComes(window))

\* The states 0, 1, 2 of the search: E, I, what follows.  The last place with a space
\* is kept.
DefaultEnd(from) ==
    LET find[i \in Nat, state \in 0 .. 2, maybe \in Nat] ==
            LET m == Place(Marks, i)
            IN  IF m = EOF THEN IF maybe = 0 THEN Len(Marks) ELSE maybe
                ELSE IF state < 2
                THEN find[i + 1, IF m.of = (IF state = 0 THEN <<"E">> ELSE <<"I">>)
                                 THEN state + 1 ELSE 0, maybe]
                ELSE IF ~IsSpace(m) THEN find[i + 1, 0, maybe]
                ELSE IF Plausible(i) THEN i ELSE find[i + 1, 0, i]
        pos == find[from, 0, 0]
    IN  [end |-> IF IsSpace(Place(Marks, pos - 3)) THEN pos - 4 ELSE pos - 3, pos |-> pos]

\* inlineStreamSkipEI: the place after E, I and one more.
SkipEI(from) ==
    LET find[i \in Nat, state \in 0 .. 2] ==
            LET m == Place(Marks, i)
            IN  IF m = EOF THEN Len(Marks)
                ELSE IF state = 2 THEN i
                ELSE find[i + 1, IF m.of = (IF state = 0 THEN <<"E">> ELSE <<"I">>)
                                 THEN state + 1 ELSE 0]
    IN  find[from, 0]

Letter(i, letter) == Place(Marks, i).of = <<letter>>

\* The last mark of the data by its own end, or 0: '>'; '~' and '>', with space between,
\* or '~', space and EI; the end of the image, over the segments that have a length.
EndOfData(filter, from) ==
    LET places == from .. Len(Marks)
        solid(i) == FirstOf(Marks, {k \in i + 1 .. Len(Marks) : ~IsSpace(Marks[k])})
        ends == CASE filter = <<"AHx">> -> {i \in places : Letter(i, ">")}
                  [] filter = <<"A85">> ->
                        {solid(i) : i \in {k \in places : Letter(k, "~") /\ Letter(solid(k), ">")}}
                        \cup {solid(i) - 1 : i \in {k \in places : Letter(k, "~") /\ solid(k) > k + 1
                                /\ Letter(solid(k), "E") /\ Letter(solid(k) + 1, "I")}}
        eoi[i \in Nat] == CASE Place(Marks, i) = EOF -> 0
                            [] Marks[i].is = "segment" -> eoi[i + 1 + Marks[i].n]
                            [] Letter(i, "EOI") -> i
                            [] OTHER -> eoi[i + 1]
    IN  IF filter = <<"DCT">> THEN eoi[from] ELSE IF ends = {} THEN 0 ELSE Min(ends)

ImageEnd(filter, from) ==
    LET last == EndOfData(filter, from)
    IN  IF filter \notin {<<"AHx">>, <<"A85">>, <<"DCT">>} \/ last = 0 THEN DefaultEnd(from)
        ELSE [end |-> last, pos |-> SkipEI(last + 1)]

\* Mutant of CacheKey: the dictionary is not part of it.
CacheKeyOfData(from, end) == SubSeq(Marks, from, end)

\* The key is the text from BI on.
CacheKey(from, end) == SubSeq(Marks, lex.begin + 1, end)

------------------------------------------------------------------------------
(* EvaluatorPreprocessor.read.                                              *)

NewRead == [args |-> <<>>, pending |-> <<>>, isPathOp |-> FALSE, invalid |-> 0]

\* A command takes its arguments from the last ones; the ones before wait for a command
\* that has too few.
Operation(word) ==
    LET spec    == Commands[word]
        args    == read.args
        surplus == Len(args) - spec.numArgs
        kept    == IF surplus > 0 THEN SubSeq(args, 1, surplus) ELSE <<>>
        from    == IF surplus < 0 THEN Max({0, Len(read.pending) + surplus}) ELSE Len(read.pending)
        waiting == SubSeq(read.pending, 1, from)
        whole   == IF surplus > 0 THEN SubSeq(args, surplus + 1, Len(args))
                   ELSE SubSeq(read.pending, from + 1, Len(read.pending)) \o args
        before  == IF read.isPathOp THEN read.invalid ELSE 0
        isPath  == word \in PathOps
        short   == ~spec.variableArgs /\ Len(whole) < spec.numArgs
        invalid == before + (IF short /\ isPath THEN 1 ELSE 0)
        left    == [args |-> <<>>, pending |-> IF spec.variableArgs THEN read.pending ELSE waiting \o kept,
                    isPathOp |-> isPath, invalid |-> invalid]
    IN  /\ read' = left
        /\ out' = IF short THEN out
                  ELSE Append(out, [fn |-> word, args |-> IF spec.variableArgs THEN args ELSE whole])
        /\ ended' = IF short /\ isPath /\ invalid > MaxInvalid THEN "failed" ELSE ended

Argument(value) ==
    /\ read' = [read EXCEPT !.args = IF value = Null THEN @ ELSE Append(@, value)]
    /\ ended' = IF Len(read'.args) > MaxArgs THEN "failed" ELSE ended
    /\ UNCHANGED out

\* What getObj gives to its caller: an object, or a part of an operation.
GiveTop(value) ==
    IF text.streams
    THEN out' = Append(out, value) /\ ended' = "end" /\ UNCHANGED read
    ELSE IF value = EOF THEN ended' = "end" /\ UNCHANGED <<out, read>>
    ELSE IF value.is # "cmd" THEN Argument(value)
    ELSE IF value.of \in DOMAIN Commands THEN Operation(value.of)
    ELSE UNCHANGED <<out, read, ended>>

NoKey == <<>>

\* An element of the object that is on top after n calls have returned.
Give(value, n) ==
    LET below == SubSeq(stack, 1, Len(stack) - n)
        top   == Last(below)
    IN  IF below = <<>> THEN stack' = below /\ GiveTop(value)
        ELSE /\ stack' = [below EXCEPT ![Len(below)] =
                    IF top.is = "array" THEN [top EXCEPT !.items = Append(@, value)]
                    ELSE [top EXCEPT !.key = NoKey,
                              !.entries = [k \in DOMAIN @ \cup {top.key} |->
                                              IF k = top.key THEN value ELSE @[k]]]]
             /\ UNCHANGED <<out, read, ended>>

------------------------------------------------------------------------------
(* Parser.getObj.                                                           *)

ParserInit ==
    /\ text \in Texts
    /\ LET one == Token(text.marks, 1, ~text.streams)
           two == Token(text.marks, one.cur, ~text.streams)
       IN  lex = [buf1 |-> one.token, buf2 |-> two.token, cur |-> two.cur,
                  begin |-> IF one.token = Cmd(<<"B", "I">>) THEN one.cur
                            ELSE IF two.token = Cmd(<<"B", "I">>) THEN two.cur ELSE 0]
    /\ stack = <<>> /\ imageCache = <<>>
    /\ read = NewRead /\ out = <<>> /\ ended = "no"

Going == ended = "no" /\ lex.buf1.is # "error" /\ lex.buf2.is # "error"
Top(is) == stack # <<>> /\ Last(stack).is = is
AtKey   == stack # <<>> /\ Last(stack).is # "array" /\ Last(stack).key = NoKey

\* Is an object to be read here?
AtValue ==
    /\ Top("array") => ~IsCmd(lex.buf1, "]") /\ lex.buf1 # EOF
    /\ stack # <<>> /\ ~Top("array") => ~AtKey /\ lex.buf1 # EOF

Opens(token) == token \in {Cmd(<<"B", "I">>), Cmd(<<"[">>), Cmd(<<"<<">>)}

OpenContainer ==
    /\ Going /\ AtValue /\ Opens(lex.buf1)
    /\ stack' = Append(stack,
           CASE IsCmd(lex.buf1, "[")  -> [is |-> "array", items |-> <<>>]
             [] IsCmd(lex.buf1, "<<") -> [is |-> "dict", entries |-> <<>>, key |-> NoKey]
             [] OTHER                 -> [is |-> "image", entries |-> <<>>, key |-> NoKey])
    /\ lex' = Shift(lex)
    /\ UNCHANGED <<text, imageCache, read, out, ended>>

\* An integer, an integer and R are a reference.
Simple ==
    LET next == Shift(lex)
        ref  == lex.buf1.is = "int" /\ next.buf1.is = "int" /\ IsCmd(next.buf2, "R")
    IN  /\ Going /\ AtValue /\ ~Opens(lex.buf1)
        /\ lex' = IF ref THEN Shift(Shift(next)) ELSE next
        /\ Give(IF ref THEN [is |-> "ref", num |-> lex.buf1.n, gen |-> next.buf1.n] ELSE lex.buf1, 0)
        /\ UNCHANGED <<text, imageCache>>

EndArray ==
    /\ Going /\ Top("array") /\ IsCmd(lex.buf1, "]")
    /\ lex' = Shift(lex)
    /\ Give([is |-> "array", items |-> Last(stack).items], 1)
    /\ UNCHANGED <<text, imageCache>>

\* What is no name where a name should be is skipped in a dictionary, and an error in an
\* image.
Key ==
    /\ Going /\ AtKey /\ lex.buf1 # EOF
    /\ Top("dict") => ~IsCmd(lex.buf1, ">>")
    /\ Top("image") => lex.buf1 # Cmd(<<"I", "D">>)
    /\ IF lex.buf1.is = "name"
       THEN /\ stack' = [stack EXCEPT ![Len(stack)].key = lex.buf1.of]
            /\ lex' = Shift(lex) /\ UNCHANGED ended
       ELSE IF Top("dict") THEN lex' = Shift(lex) /\ UNCHANGED <<stack, ended>>
       ELSE ended' = "failed" /\ UNCHANGED <<stack, lex>>
    /\ UNCHANGED <<text, imageCache, read, out>>

EndDict ==
    /\ Going /\ Top("dict") /\ AtKey /\ IsCmd(lex.buf1, ">>")
    /\ IF IsCmd(lex.buf2, "stream") /\ text.streams
       THEN \E made \in {MakeStream(Last(stack).entries)} :
                IF made.length < 0 THEN ended' = "failed" /\ UNCHANGED <<lex, stack, read, out>>
                ELSE lex' = made.lex /\ Give(made.value, 1)
       ELSE /\ lex' = IF IsCmd(lex.buf2, "stream") THEN lex ELSE Shift(lex)
            /\ Give([is |-> "dict", entries |-> Last(stack).entries], 1)
    /\ UNCHANGED <<text, imageCache>>

ImageBegins == lex.buf1 \in {Cmd(<<"I", "D">>), EOF}

\* makeInlineImage.  After it the tokens are EI and the next one.
EndImage ==
    LET entries == Last(stack).entries
        from    == Min({lex.cur, Len(Marks)}) + 1
        filter  == IF <<"F">> \in DOMAIN entries /\ entries[<<"F">>].is = "name"
                   THEN entries[<<"F">>].of ELSE <<>>
    IN  /\ Going /\ Top("image") /\ ImageBegins /\ (AtKey \/ lex.buf1 = EOF)
        /\ \E image \in {ImageEnd(filter, from)} : \E key \in {CacheKey(from, image.end)} :
             LET hits == {i \in DOMAIN imageCache : imageCache[i].key = key}
                 new  == [is |-> "image", entries |-> entries, data |-> SubSeq(Marks, from, image.end)]
             IN  /\ imageCache' = IF hits # {} THEN imageCache
                                  ELSE Append(imageCache, [key |-> key, image |-> new])
                 /\ lex' = ReadAhead(Cmd(<<"E", "I">>), NextToken(image.pos + 1), lex.begin)
                 /\ Give(IF hits # {} THEN imageCache[Min(hits)].image ELSE new, 1)
        /\ UNCHANGED text

\* The text ends within an object.
EndOfText ==
    /\ Going /\ lex.buf1 = EOF /\ stack # <<>> /\ ~Top("image")
    /\ IF text.recovers
       THEN Give(IF Top("array") THEN [is |-> "array", items |-> Last(stack).items]
                 ELSE [is |-> "dict", entries |-> Last(stack).entries], 1)
       ELSE ended' = "failed" /\ UNCHANGED <<stack, read, out>>
    /\ UNCHANGED <<text, lex, imageCache>>

\* The lexer has thrown.
LexerFails ==
    /\ ended = "no" /\ ~Going
    /\ ended' = "failed"
    /\ UNCHANGED <<text, lex, stack, imageCache, read, out>>

ParserNext ==
    OpenContainer \/ Simple \/ EndArray \/ Key \/ EndDict \/ EndImage \/ EndOfText \/ LexerFails

ParserSpec == ParserInit /\ [][ParserNext]_parserVars

------------------------------------------------------------------------------

\* What is read is what was written: nested objects, references among numbers, streams
\* whose length is wrong, whose end is misspelled or whose data look like an end, glued
\* commands, arguments of nested commands, inline images whose data have EI in them, and
\* equal images of other dictionaries.
ParsedIsWritten == ended # "no" => ended = text.ends /\ (ended = "end" => out = text.written)

\* "if there a command that is a prefix of the other valid command or literal (e.g. 'f'
\* and 'false')", the words in between are known, so that the longer one is read.
LongWordsAreRead == ended # "no" => out = text.written
==============================================================================
