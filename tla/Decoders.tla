------------------------------- MODULE Decoders -------------------------------
(***************************************************************************)
(* The decoding streams of seren-core/src/stream: DecodeStream, which      *)
(* decodes block by block into a buffer that grows, and the filters        *)
(* RunLength, ASCIIHex, ASCII85, LZW, the PNG and TIFF predictors and      *)
(* DecryptStream.  A reader asks for one byte, for some or for all the     *)
(* rest; the filter's readBlock runs until there are enough.               *)
(*                                                                         *)
(* A file says how many values a byte has, 256 in the code, and what       *)
(* depends on that is scaled with it.  LZW data are bits.  A write past    *)
(* the end of a buffer is lost, as in a typed array.                       *)
(***************************************************************************)
EXTENDS Integers, Sequences, SequencesExt

CONSTANTS
    Encoded,        \* the files: records of filter, byte, bytes, which are encoded,
                    \* content, which they stand for, and parameters of the filter
    Lengths,        \* what a reader asks getBytes for; 0 is all the rest
    MinBuffer,      \* minBufferLength: 512
    Block           \* UPSTREAM_BLOCK_SIZE, blockSize, chunkSize: 8000, 512, 512

ASSUME DecodersAssumption == MinBuffer \in Nat \ {0} /\ Block \in Nat \ {0}

VARIABLES
    coded,          \* the file that is read
    inPos,          \* how much of it has been read
    buffer,         \* buffer
    bufferLength,   \* bufferLength
    eof,            \* eof
    pos,            \* pos
    filterState,    \* firstDigit, lzwState or nextChunk of the filter
    wanted,         \* the position up to which a read waits for bytes, or Idle
    answer          \* what the last read gave

decoderVars == <<coded, inPos, buffer, bufferLength, eof, pos, filterState, wanted, answer>>

Idle      == -1
All       == -2     \* a read of all the rest
Zeros(n)  == [i \in 1 .. n |-> 0]
NoAnswer  == [at |-> 0, bytes |-> << >>]
Lesser(a, b) == IF a < b THEN a ELSE b

------------------------------------------------------------------------------
(* The buffer and the stream below.                                         *)

Input        == coded.bytes
InputOf(n)   == SubSeq(Input, inPos + 1, Lesser(inPos + n, Len(Input)))

Doubled[size \in Nat, least \in Nat] == IF size >= least THEN size ELSE Doubled[2 * size, least]

\* ensureBuffer
Ensure(buf, least) ==
    IF least <= Len(buf) THEN buf ELSE buf \o Zeros(Doubled[MinBuffer, least] - Len(buf))

WriteBytes(buf, at, bytes) ==
    [i \in DOMAIN buf |-> IF i > at /\ i <= at + Len(bytes) THEN bytes[i - at] % coded.byte
                          ELSE buf[i]]

\* A block: bytes are written where there is room, length of them are kept, and used
\* of the stream below.
PutBlock(bytes, length, room, used) ==
    /\ buffer' = WriteBytes(Ensure(buffer, bufferLength + room), bufferLength, bytes)
    /\ bufferLength' = bufferLength + length
    /\ inPos' = inPos + used

Ended == eof' = TRUE /\ UNCHANGED <<inPos, buffer, bufferLength, filterState>>

------------------------------------------------------------------------------
(* RunLengthStream.readBlock.                                               *)

RunEnd == coded.byte \div 2

\* Mutant of RunRoom: there is room for the copied bytes, and not for the first.
RunRoomShort(n) == n

RunRoom(n) == n + 1

RunLengthBlock ==
    LET header == InputOf(2)
        n      == header[1]
        copied == SubSeq(Input, inPos + 3, Lesser(inPos + 2 + n, Len(Input)))
        times  == coded.byte + 1 - n
    IN  IF Len(header) < 2 \/ header[1] = RunEnd THEN Ended
        ELSE /\ IF n < RunEnd
                THEN PutBlock(<<header[2]>> \o copied \o Zeros(n - Len(copied)), n + 1, RunRoom(n),
                         2 + Len(copied))
                ELSE PutBlock([i \in 1 .. times |-> header[2]], times, RunRoom(times), 2)
             /\ UNCHANGED <<eof, filterState>>

(* AsciiHexStream.readBlock: the digits are numbers.                        *)

HexEnd == 62
Space  == 32
HexBase == 4

HexStep(acc, ch) ==
    IF acc.ended \/ ch = Space THEN acc
    ELSE IF ch = HexEnd THEN [acc EXCEPT !.ended = TRUE]
    ELSE IF acc.first < 0 THEN [acc EXCEPT !.first = ch]
    ELSE [acc EXCEPT !.bytes = Append(@, acc.first * HexBase + ch), !.first = -1]

HexBlock ==
    LET block == InputOf(Block)
        read  == FoldLeft(HexStep, [bytes |-> << >>, first |-> filterState, ended |-> FALSE], block)
        half  == read.ended /\ read.first >= 0
        bytes == IF half THEN Append(read.bytes, read.first * HexBase) ELSE read.bytes
    IN  IF block = << >> THEN Ended
        ELSE /\ PutBlock(bytes, Len(bytes), (Len(block) + 1) \div 2, Len(block))
             /\ eof' = read.ended
             /\ filterState' = IF half THEN -1 ELSE read.first

(* Ascii85Stream.readBlock: five digits of a base for four bytes.           *)

Tilde == 126
LowerZ == 122

\* The places of the characters that are not white space.
Significant == SelectSeq([i \in 1 .. Len(Input) - inPos |-> inPos + i], LAMBDA i : Input[i] # Space)

AsciiEnds(k) == k > Len(Significant) \/ Input[Significant[k]] = Tilde

\* The bytes of a number, the last one first computed.
BytesOf(t) == [i \in 1 .. 4 |-> (t \div coded.byte ^ (4 - i)) % coded.byte]

Ascii85Block ==
    LET stops  == {k \in 2 .. 5 : AsciiEnds(k)}
        digits == IF stops = {} THEN 5 ELSE (CHOOSE k \in stops : \A l \in stops : k <= l) - 1
        t      == FoldLeft(LAMBDA sum, k : sum * coded.base
                              + (IF k <= digits THEN Input[Significant[k]] ELSE coded.base - 1),
                           0, <<1, 2, 3, 4, 5>>)
    IN  IF AsciiEnds(1) THEN Ended
        ELSE /\ IF Input[Significant[1]] = LowerZ
                THEN PutBlock(Zeros(4), 4, 4, Significant[1] - inPos) /\ UNCHANGED eof
                ELSE /\ PutBlock(BytesOf(t), digits - 1, digits - 1, Significant[digits] - inPos)
                     /\ eof' = (eof \/ digits < 5)
             /\ UNCHANGED filterState

(* DecryptStream.readBlock: one chunk ahead, to know the last one.          *)

\* External: a cipher that adds one; the last byte of the data counts the padding.
Decrypt(chunk, finalize) ==
    LET plain == [i \in DOMAIN chunk |-> (chunk[i] + coded.byte - 1) % coded.byte]
    IN  IF finalize THEN SubSeq(plain, 1, Len(plain) - plain[Len(plain)]) ELSE plain

DecryptBlock ==
    LET chunk == IF filterState.initialized THEN filterState.nextChunk ELSE InputOf(Block)
        used  == IF filterState.initialized THEN 0 ELSE Len(chunk)
        next  == SubSeq(Input, inPos + used + 1, Lesser(inPos + used + Block, Len(Input)))
        plain == Decrypt(chunk, next = << >>)
    IN  IF chunk = << >> THEN Ended
        ELSE /\ PutBlock(plain, Len(plain), Len(plain), used + Len(next))
             /\ filterState' = [initialized |-> TRUE, nextChunk |-> next]
             /\ UNCHANGED eof

------------------------------------------------------------------------------
(* LZWStream.readBlock: a byte has 2^k values, codes begin with k + 1 bits. *)

Clear == coded.byte
LzwEnd == coded.byte + 1
MaxCodes == 2 ^ coded.maxLength

NewLzw == [codeLength |-> coded.bits + 1, nextCode |-> coded.byte + 2, prevCode |-> 0,
           sequence |-> << >>, words |-> [c \in 0 .. coded.byte - 1 |-> <<c>>]]

\* readBits
BitsAt(at, n) == FoldLeft(LAMBDA sum, i : 2 * sum + Input[at + i], 0, [i \in 1 .. n |-> i])

\* The length of a code grows at powers of two.
GrownLength(lzw, next) ==
    LET early == next + coded.early
        exact == {n \in 0 .. coded.maxLength + 1 : 2 ^ n = early}
    IN  IF exact = {} THEN lzw.codeLength
        ELSE Lesser((CHOOSE n \in exact : TRUE) + 1, coded.maxLength)

Sequence(lzw, code) ==
    IF code < coded.byte THEN <<code>>
    ELSE IF code < lzw.nextCode THEN lzw.words[code]
    ELSE Append(lzw.sequence, lzw.sequence[1])

\* A word more, unless it is the first after a clearing; past the end of the
\* dictionary it is lost.
Learned(lzw, code, sequence) ==
    IF lzw.sequence = << >> THEN [lzw EXCEPT !.sequence = sequence, !.prevCode = code]
    ELSE [codeLength |-> GrownLength(lzw, lzw.nextCode + 1),
          nextCode |-> lzw.nextCode + 1, prevCode |-> code, sequence |-> sequence,
          words |-> IF lzw.nextCode >= MaxCodes THEN lzw.words
                    ELSE [c \in DOMAIN lzw.words \cup {lzw.nextCode} |->
                             IF c = lzw.nextCode
                             THEN Append(lzw.words[lzw.prevCode], sequence[1]) ELSE lzw.words[c]]]

LzwStep(acc, i) ==
    LET lzw  == acc.lzw
        code == BitsAt(acc.at, lzw.codeLength)
        next == [acc EXCEPT !.at = @ + lzw.codeLength]
    IN  IF acc.ended THEN acc
        ELSE IF code = LzwEnd THEN [next EXCEPT !.ended = TRUE]
        ELSE IF code = Clear
        THEN [next EXCEPT !.lzw = [NewLzw EXCEPT !.prevCode = lzw.prevCode, !.words = lzw.words]]
        ELSE LET sequence == Sequence(lzw, code)
             IN  [next EXCEPT !.lzw = Learned(lzw, code, sequence), !.bytes = @ \o sequence]

\* estimatedDecodedSize
Estimated(length) == Block * (IF length <= 2 * Block THEN 2 ELSE (length + Block - 1) \div Block)

LzwBlock ==
    LET read == FoldLeft(LzwStep, [lzw |-> filterState, at |-> inPos, bytes |-> << >>, ended |-> FALSE],
                         [i \in 1 .. Block |-> i])
    IN  /\ PutBlock(read.bytes, Len(read.bytes), Estimated(Len(read.bytes)), read.at - inPos)
        /\ eof' = read.ended
        /\ filterState' = read.lzw

------------------------------------------------------------------------------
(* PredictorStream: readBlockPng and readBlockTiff, the latter for 8 bits.  *)

Abs(n) == IF n < 0 THEN -n ELSE n

Paeth(left, up, upLeft) ==
    LET p == left + up - upLeft
    IN  IF Abs(p - left) <= Abs(p - up) /\ Abs(p - left) <= Abs(p - upLeft) THEN left
        ELSE IF Abs(p - up) <= Abs(p - upLeft) THEN up ELSE upLeft

Predicted(type, left, up, upLeft) ==
    CASE type = 0 -> 0 [] type = 1 -> left [] type = 2 -> up
      [] type = 3 -> (up + left) \div 2 [] type = 4 -> Paeth(left, up, upLeft)

\* A row from its raw bytes and the row above; what is left of the row is 0.
Row(type, raw, above, pixBytes) ==
    FoldLeft(LAMBDA row, i :
                LET back == i - pixBytes
                IN  Append(row, IF i > Len(raw) THEN 0
                                ELSE (raw[i] + Predicted(type, IF back < 1 THEN 0 ELSE row[back],
                                                         above[i],
                                                         IF back < 1 THEN 0 ELSE above[back]))
                                     % coded.byte),
             << >>, [i \in DOMAIN above |-> i])

PrevRow == IF bufferLength = 0 THEN Zeros(coded.rowBytes)
           ELSE SubSeq(buffer, bufferLength - coded.rowBytes + 1, bufferLength)

PredictorBlock ==
    LET type == IF coded.filter = "PNG" THEN InputOf(1) ELSE << >>
        raw  == SubSeq(Input, inPos + Len(type) + 1,
                       Lesser(inPos + Len(type) + coded.rowBytes, Len(Input)))
        row  == IF coded.filter = "PNG" THEN Row(type[1], raw, PrevRow, coded.pixBytes)
                ELSE Row(1, raw, Zeros(coded.rowBytes), coded.pixBytes)
    IN  IF raw = << >> THEN Ended
        ELSE /\ PutBlock(row, coded.rowBytes, coded.rowBytes, Len(type) + Len(raw))
             /\ eof' = FALSE
             /\ UNCHANGED filterState

------------------------------------------------------------------------------
(* DecodeStream.                                                            *)

DecodersInit ==
    /\ coded \in Encoded
    /\ inPos = 0 /\ buffer = << >> /\ bufferLength = 0 /\ eof = FALSE /\ pos = 0
    /\ filterState = CASE coded.filter = "ASCIIHex" -> -1
                       [] coded.filter = "LZW" -> NewLzw
                       [] coded.filter = "Decrypt" -> [initialized |-> FALSE, nextChunk |-> << >>]
                       [] OTHER -> 0
    /\ wanted = Idle /\ answer = NoAnswer

GetByte ==
    /\ wanted = Idle
    /\ wanted' = pos + 1
    /\ UNCHANGED <<coded, inPos, buffer, bufferLength, eof, pos, filterState, answer>>

GetBytes(length) ==
    /\ wanted = Idle
    /\ wanted' = IF length = 0 THEN All ELSE pos + length
    /\ buffer' = IF length = 0 THEN buffer ELSE Ensure(buffer, pos + length)
    /\ UNCHANGED <<coded, inPos, bufferLength, eof, pos, filterState, answer>>

Enough == eof \/ (wanted # All /\ bufferLength >= wanted)

ReadBlock ==
    /\ wanted # Idle /\ ~Enough
    /\ CASE coded.filter = "RunLength" -> RunLengthBlock
         [] coded.filter = "ASCIIHex"  -> HexBlock
         [] coded.filter = "ASCII85"   -> Ascii85Block
         [] coded.filter = "Decrypt"   -> DecryptBlock
         [] coded.filter = "LZW"       -> LzwBlock
         [] coded.filter \in {"PNG", "TIFF"} -> PredictorBlock
    /\ UNCHANGED <<coded, pos, wanted, answer>>

Answer ==
    /\ wanted # Idle /\ Enough
    /\ LET end == IF wanted = All THEN bufferLength ELSE Lesser(wanted, bufferLength)
       IN  answer' = [at |-> pos, bytes |-> SubSeq(buffer, pos + 1, end)] /\ pos' = end
    /\ wanted' = Idle
    /\ UNCHANGED <<coded, inPos, buffer, bufferLength, eof, filterState>>

Rewind ==
    /\ wanted = Idle /\ pos # 0
    /\ pos' = 0
    /\ UNCHANGED <<coded, inPos, buffer, bufferLength, eof, filterState, wanted, answer>>

DecodersNext ==
    \/ GetByte \/ (\E length \in Lengths : GetBytes(length))
    \/ ReadBlock \/ Answer \/ Rewind

DecodersSpec == DecodersInit /\ [][DecodersNext]_decoderVars

------------------------------------------------------------------------------

\* Bytes are those of the content from a place on.
IsPartOf(bytes, at) ==
    \A i \in DOMAIN bytes : at + i \in DOMAIN coded.content /\ bytes[i] = coded.content[at + i]

\* Whatever is read, in pieces of whatever length, is what the file stands for: blocks
\* that end within a group, a run, a code or a row lose nothing and add nothing, and
\* the buffer has always room.
DecodedIsContent ==
    /\ bufferLength <= Len(buffer) /\ IsPartOf(SubSeq(buffer, 1, bufferLength), 0)
    /\ IsPartOf(answer.bytes, answer.at)
    /\ eof => bufferLength = Len(coded.content)
==============================================================================
