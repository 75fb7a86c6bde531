----------------------------- MODULE MCDocumentUse -----------------------------
(* Instances of DocumentUse for TLC.  What encoders make of contents is written *)
(* from the definitions of the filters.                                        *)
EXTENDS DocumentUse, MCContentParser, MCPostScriptFunction, MCPageViews, MCPageDrawing, MCSaving

Seqs(S, n) == UNION {[1 .. m -> S] : m \in 0 .. n}

\* A run of copied or of repeated bytes; a byte has eight values.
RunEncoded(run) == IF run.n < 4 THEN <<run.n>> \o run.bytes ELSE <<run.n, run.bytes[1]>>
RunContent(run) == IF run.n < 4 THEN run.bytes ELSE [i \in 1 .. 9 - run.n |-> run.bytes[1]]
Runs == {[n |-> n, bytes |-> [i \in 1 .. n + 1 |-> i]] : n \in 0 .. 3}
        \cup {[n |-> n, bytes |-> <<7>>] : n \in 5 .. 7}
RunLengthFiles ==
    {[filter |-> "RunLength", byte |-> 8,
      bytes |-> FlattenSeq([i \in DOMAIN runs |-> RunEncoded(runs[i])]) \o end,
      content |-> FlattenSeq([i \in DOMAIN runs |-> RunContent(runs[i])])] :
        runs \in Seqs(Runs, 2), end \in {<<4, 0>>, <<4>>, << >>}}

\* Digits, with a space somewhere, and perhaps a last byte that is half.
HexDigits(content) == FlattenSeq([i \in DOMAIN content |-> <<content[i] \div 4, content[i] % 4>>])
Spaced(chars, at) == IF at > Len(chars) THEN chars ELSE InsertAt(chars, at, Space)
HexFiles ==
    {[filter |-> "ASCIIHex", byte |-> 16,
      bytes |-> Spaced(HexDigits(content), at)
                \o (IF half THEN <<3>> ELSE << >>) \o <<HexEnd>> \o rest,
      content |-> IF half THEN Append(content, 12) ELSE content] :
        content \in Seqs({6, 9}, 3), at \in {1, 2, 4, 9}, half \in BOOLEAN, rest \in {<< >>, <<1, 1>>}}

\* Groups of four bytes of four values, five digits of base four; one digit more than
\* bytes for the rest.
DigitsOf(group) ==
    LET t == FoldLeft(LAMBDA sum, b : 4 * sum + b, 0, group \o Zeros(4 - Len(group)))
    IN  IF t = 0 /\ Len(group) = 4 THEN <<LowerZ>>
        ELSE SubSeq([i \in 1 .. 5 |-> (t \div 4 ^ (5 - i)) % 4], 1, Len(group) + 1)
Ascii85Files ==
    {[filter |-> "ASCII85", byte |-> 4, base |-> 4,
      bytes |-> Spaced(FlattenSeq([i \in DOMAIN groups |-> DigitsOf(groups[i])])
                       \o (IF last = << >> THEN << >> ELSE DigitsOf(last)), at) \o end,
      content |-> FlattenSeq(groups) \o last] :
        groups \in Seqs({<<0, 0, 0, 0>>, <<3, 0, 2, 1>>, <<0, 0, 1, 3>>}, 2),
        last \in {<< >>, <<2>>, <<1, 0>>, <<0, 3, 3>>}, at \in {1, 3, 6, 20},
        end \in {<<Tilde, HexEnd>>, << >>}}

\* A length and padding that counts itself; the cipher adds one.
DecryptFiles ==
    {LET padding == 3 - (Len(content) % 3)
     IN  [filter |-> "Decrypt", byte |-> 8, content |-> content,
          bytes |-> [i \in 1 .. Len(content) + padding |->
                        1 + (IF i <= Len(content) THEN content[i] ELSE padding)]] :
     content \in {[i \in 1 .. n |-> i % 3] : n \in 0 .. 8}}

\* An LZW encoder: the longest word that is known, and one word more; the dictionary
\* is cleared when it is full, or left full.
RECURSIVE LzwCodes(_, _, _, _)
LzwCodes(rest, words, clears, file) ==
    IF rest = << >> THEN <<[code |-> 5, size |-> words.size]>>
    ELSE LET known == {c \in DOMAIN words.known : words.known[c] # << >> /\ IsPrefix(words.known[c], rest)}
             code == CHOOSE c \in known : \A d \in known : Len(words.known[d]) <= Len(words.known[c])
             length == Len(words.known[code])
             left == SubSeq(rest, length + 1, Len(rest))
             next == words.next + 1
             learns == words.next < 16 /\ left # << >>
             \* the decoder is one word behind
             early == words.next + file.early
             size == IF early = 8 THEN 4 ELSE words.size
         IN  <<[code |-> code, size |-> words.size]>>
             \o (IF clears /\ words.next = 15
                 THEN <<[code |-> 4, size |-> size]>>
                      \o LzwCodes(left, [known |-> [c \in 0 .. 3 |-> <<c>>], next |-> 6, size |-> 3],
                                  clears, file)
                 ELSE LzwCodes(left,
                        [known |-> IF learns
                                   THEN [c \in DOMAIN words.known \cup {words.next} |->
                                            IF c = words.next
                                            THEN Append(words.known[code], left[1]) ELSE words.known[c]]
                                   ELSE words.known,
                         next |-> IF learns THEN next ELSE words.next,
                         size |-> size], clears, file))

Bits(code) == [i \in 1 .. code.size |-> (code.code \div 2 ^ (code.size - i)) % 2]

LzwFile(content, early, clears, begins) ==
    LET codes == LzwCodes(content, [known |-> [c \in 0 .. 3 |-> <<c>>], next |-> 6, size |-> 3],
                          clears, [early |-> early])
    IN  [filter |-> "LZW", byte |-> 4, bits |-> 2, maxLength |-> 4, early |-> early,
         content |-> content,
         bytes |-> (IF begins THEN <<1, 0, 0>> ELSE << >>)
                   \o FlattenSeq([i \in DOMAIN codes |-> Bits(codes[i])])]

LzwFiles ==
    {LzwFile(content, early, clears, begins) :
        content \in [1 .. 6 -> {0, 1}] \cup {[i \in 1 .. 24 |-> 0], [i \in 1 .. 40 |-> 0],
                     [i \in 1 .. 20 |-> i % 4], [i \in 1 .. 32 |-> (i * i) % 4], << >>},
        early \in {0, 1}, clears \in BOOLEAN, begins \in BOOLEAN}

\* Rows of four bytes, of which one or two make a pixel.
PngRaw(type, row, above, pixBytes) ==
    <<type>> \o [i \in DOMAIN row |->
        (row[i] + 512 - Predicted(type, IF i > pixBytes THEN row[i - pixBytes] ELSE 0, above[i],
                                  IF i > pixBytes THEN above[i - pixBytes] ELSE 0)) % 256]
PngFiles ==
    {[filter |-> "PNG", byte |-> 256, rowBytes |-> 3, pixBytes |-> pixBytes,
      bytes |-> PngRaw(s, one, Zeros(3), pixBytes) \o PngRaw(t, two, one, pixBytes),
      content |-> one \o two] :
        one \in [1 .. 3 -> {7, 250}], two \in {<<9, 130, 9>>, <<200, 3, 77>>},
        s \in {0, 1, 4}, t \in 0 .. 4, pixBytes \in {1, 2}}
TiffFiles ==
    {[filter |-> "TIFF", byte |-> 256, rowBytes |-> 4, pixBytes |-> colors,
      bytes |-> FlattenSeq([r \in DOMAIN rows |->
                    [i \in 1 .. 4 |-> (rows[r][i] + 256 - (IF i > colors THEN rows[r][i - colors] ELSE 0))
                                      % 256]]),
      content |-> FlattenSeq(rows)] :
        rows \in Seqs({<<1, 255, 2, 128>>, <<0, 0, 77, 200>>}, 2), colors \in {1, 2}}

EncodedFiles == RunLengthFiles \cup HexFiles \cup Ascii85Files \cup DecryptFiles
                \cup LzwFiles \cup PngFiles \cup TiffFiles
ReadLengths == {0, 2, 5}
==============================================================================
