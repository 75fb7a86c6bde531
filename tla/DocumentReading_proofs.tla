------------------------ MODULE DocumentReading_proofs ------------------------
(***************************************************************************)
(* What holds of a document that is read, for files of every size and      *)
(* shape, any number of reads, ranges and references, whatever fails: the  *)
(* sources give the file (TransportStream, DocumentSource), and the loader *)
(* finds everything (ObjectLoader).                                        *)
(*                                                                         *)
(* Each part has an inductive invariant of its own.  Where two threads     *)
(* talk, it follows a baton: the PULL that becomes a read and then a       *)
(* chunk.  The parts share nothing, so that the theorems follow one by     *)
(* one.                                                                    *)
(***************************************************************************)
EXTENDS DocumentReading, SequenceTheorems, FiniteSetTheorems, TLAPS

(* Ports.                                                                   *)

\* What a message that is posted changes.
IsPosted(port, m, after) ==
    /\ Len(port) \in Nat /\ Len(after) \in Nat /\ Len(after) = Len(port) + 1
    /\ \A i \in 1 .. Len(port) : i \in 1 .. Len(after) /\ after[i] = port[i]
    /\ \A i \in 1 .. Len(after) : i \in 1 .. Len(port) \/ i = Len(port) + 1
    /\ Len(port) + 1 \in 1 .. Len(after) /\ after[Len(port) + 1] = m

LEMMA Posted ==
    ASSUME NEW S, NEW port \in Seq(S), NEW m \in S
    PROVE  Append(port, m) \in Seq(S) /\ IsPosted(port, m, Append(port, m))
  <1> DEFINE after == Append(port, m)
  <1>1. /\ after \in Seq(S) /\ Len(port) \in Nat /\ Len(after) = Len(port) + 1
        /\ \A i \in 1 .. Len(port) : after[i] = port[i]
        /\ after[Len(port) + 1] = m
    BY AppendProperties, LenProperties
  <1> HIDE DEF after
  <1>2. /\ \A i \in 1 .. Len(port) : i \in 1 .. Len(after)
        /\ \A i \in 1 .. Len(after) : i \in 1 .. Len(port) \/ i = Len(port) + 1
        /\ Len(port) + 1 \in 1 .. Len(after)
    BY <1>1
  <1>3. IsPosted(port, m, after)
    BY <1>1, <1>2 DEF IsPosted
  <1> QED BY <1>1, <1>3 DEF after

\* What taking the first message changes.
IsTaken(port, m, after) ==
    /\ Len(port) \in Nat /\ Len(after) \in Nat /\ Len(port) = Len(after) + 1
    /\ 1 \in 1 .. Len(port) /\ m = port[1]
    /\ \A i \in 1 .. Len(after) : i + 1 \in 1 .. Len(port) /\ after[i] = port[i + 1]
    /\ \A i \in 1 .. Len(port) : i = 1 \/ (i - 1 \in 1 .. Len(after) /\ after[i - 1] = port[i])

LEMMA Taken ==
    ASSUME NEW S, NEW port \in Seq(S), port # << >>
    PROVE  Tail(port) \in Seq(S) /\ Head(port) \in S /\ IsTaken(port, Head(port), Tail(port))
  <1> DEFINE after == Tail(port)
  <1>1. /\ after \in Seq(S) /\ Len(after) \in Nat /\ Len(port) = Len(after) + 1
        /\ Head(port) \in S /\ Head(port) = port[1]
        /\ \A i \in 1 .. Len(after) : after[i] = port[i + 1]
    BY HeadTailProperties, EmptySeq
  <1> HIDE DEF after
  <1>2. /\ \A i \in 1 .. Len(port) : i = 1 \/ (i - 1 \in 1 .. Len(after) /\ after[i - 1] = port[i])
        /\ \A i \in 1 .. Len(after) : i + 1 \in 1 .. Len(port)
        /\ 1 \in 1 .. Len(port)
    BY <1>1
  <1>3. IsTaken(port, Head(port), after)
    BY <1>1, <1>2 DEF IsTaken
  <1> QED BY <1>1, <1>3 DEF after

\* A port has a message of a set S, or at most one.
HasOne(port, S)    == \E i \in 1 .. Len(port) : port[i] \in S
AtMostOne(port, S) == \A i, j \in 1 .. Len(port) : port[i] \in S /\ port[j] \in S => i = j

LEMMA AfterPosting ==
    ASSUME NEW port, NEW m, NEW after, IsPosted(port, m, after), NEW S
    PROVE  /\ HasOne(after, S) <=> HasOne(port, S) \/ m \in S
           /\ AtMostOne(port, S) /\ ~(HasOne(port, S) /\ m \in S) => AtMostOne(after, S)
  <1>1. HasOne(after, S) => HasOne(port, S) \/ m \in S
    BY DEF IsPosted, HasOne
  <1>2. HasOne(port, S) \/ m \in S => HasOne(after, S)
    BY DEF IsPosted, HasOne
  <1>3. ASSUME AtMostOne(port, S), ~(HasOne(port, S) /\ m \in S)
        PROVE  AtMostOne(after, S)
    BY <1>3 DEF IsPosted, AtMostOne, HasOne
  <1> QED BY <1>1, <1>2, <1>3

LEMMA AfterTaking ==
    ASSUME NEW port, NEW m, NEW after, IsTaken(port, m, after), NEW S
    PROVE  /\ HasOne(port, S) <=> HasOne(after, S) \/ m \in S
           /\ AtMostOne(port, S) => AtMostOne(after, S) /\ ~(HasOne(after, S) /\ m \in S)
  <1>1. HasOne(port, S) => HasOne(after, S) \/ m \in S
    BY DEF IsTaken, HasOne
  <1>2. HasOne(after, S) \/ m \in S => HasOne(port, S)
    BY DEF IsTaken, HasOne
  <1>3. ASSUME AtMostOne(port, S)
        PROVE  AtMostOne(after, S) /\ ~(HasOne(after, S) /\ m \in S)
    <2>1. \A i, j \in 1 .. Len(after) : after[i] \in S /\ after[j] \in S => i + 1 = j + 1
      BY <1>3 DEF IsTaken, AtMostOne
    <2>2. AtMostOne(after, S)
      BY <2>1 DEF AtMostOne, IsTaken
    <2>3. ASSUME NEW i \in 1 .. Len(after), after[i] \in S, m \in S PROVE FALSE
      <3>1. i + 1 = 1
        BY <1>3, <2>3 DEF IsTaken, AtMostOne
      <3> QED BY <3>1
    <2> QED BY <2>2, <2>3 DEF HasOne
  <1> QED BY <1>1, <1>2, <1>3

------------------------------------------------------------------------------
(* DocumentSource: what the worker's manager is given is the file.          *)

Data    == {"CHUNK", "CLOSE", "ERROR"}
Headers == {"HEADERS", "HEADERS_FAILED"}
SourceMessages == [kind : Data \cup Headers, chunk : Nat]
OfKind(kinds)  == {m \in SourceMessages : m.kind \in kinds}
Comes(kinds)   == HasOne(toWorker, OfKind(kinds))
Asks(what)     == HasOne(toMain, {what})

SourceTypes ==
    /\ plan \in Plans /\ response \in {"none", "ok", "failed"}
    /\ body \in [come : 0 .. Chunks, end : {"open", "end", "error"}]
    /\ fullReader \in [next : 0 .. Chunks, cancelled : BOOLEAN] /\ reading \in BOOLEAN
    /\ toWorker \in Seq(SourceMessages) /\ toMain \in Seq({"PULL", "CANCEL"})
    /\ loop \in {"wait", "over"} /\ manager \in {"none", "net", "local"}
    /\ cached \in Seq(Nat) /\ given \in Seq(Nat)
    /\ capability \in {"pending", "rejected", "net", "local"} /\ cancelXHRs \in BOOLEAN
    /\ terminated \in BOOLEAN /\ handed \in {"none", "net", "local", "ended"}

\* There is one baton: a PULL, a read, or what answers it.
OneBaton ==
    /\ AtMostOne(toMain, {"PULL"}) /\ AtMostOne(toWorker, OfKind(Data))
    /\ Asks("PULL") => ~reading
    /\ Asks("PULL") \/ reading => ~Comes(Data)

\* Headers come before data, and with ranges they make the manager.
HeadersFirst ==
    /\ response = "none" => toWorker = << >>
    /\ response # "ok" => manager = "none"
    /\ \A i \in 1 .. Len(toWorker) : toWorker[i].kind \in Headers => i = 1
    /\ Comes({"HEADERS"}) => response = "ok" /\ manager = "none"
    /\ response = "ok" /\ plan.range /\ manager # "net" => Comes({"HEADERS"})
    /\ manager = "local" => loop = "over"

\* While chunks are waited for, only the lack of streaming has cut them off.
CutOff ==
    loop = "wait" => ~Asks("CANCEL") /\ (fullReader.cancelled => response = "ok" /\ plan.range)

\* The chunks that the worker has got, wherever it keeps them.
Kept == IF manager = "none" THEN cached ELSE given

KeptInOrder ==
    /\ manager = "none" => given = << >>
    /\ manager = "net"  => cached = << >>
    /\ manager # "local" => \A i \in 1 .. Len(Kept) : Kept[i] = i - 1
    /\ manager = "local" => given = Prefix(Chunks)
    /\ capability = "local" => manager = "local"

NextIsNext ==
    /\ fullReader.next <= body.come /\ (body.end = "end" => body.come = Chunks)
    /\ loop = "wait" =>
          /\ \A i \in 1 .. Len(toWorker) : toWorker[i].kind = "CHUNK" =>
                toWorker[i].chunk = Len(Kept) /\ fullReader.next = Len(Kept) + 1
          /\ ~Comes({"CHUNK"}) => fullReader.next = Len(Kept)
          /\ Comes({"CLOSE"}) => response = "ok" /\ (plan.range \/ fullReader.next = Chunks)

SourceInv ==
    /\ SourceTypes /\ OneBaton /\ HeadersFirst /\ CutOff /\ KeptInOrder /\ NextIsNext
    /\ terminated => handed \in {"none", "ended"}


LEMMA PrefixIs ==
    ASSUME NEW chunks \in Seq(Nat), \A i \in 1 .. Len(chunks) : chunks[i] = i - 1
    PROVE  chunks = Prefix(Len(chunks))
  <1>1. chunks = [i \in 1 .. Len(chunks) |-> chunks[i]]
    BY DEF Prefix
  <1> QED BY <1>1 DEF Prefix

LEMMA PrefixHas ==
    ASSUME NEW n \in Nat
    PROVE  Prefix(n) \in Seq(Nat) /\ Len(Prefix(n)) = n /\ \A i \in 1 .. n : Prefix(n)[i] = i - 1
  BY DEF Prefix

LEMMA SourceFacts == \A kinds : \A m \in SourceMessages : m \in OfKind(kinds) <=> m.kind \in kinds
  BY DEF OfKind

LEMMA SourceStarts ==
    ASSUME SourceInit PROVE SourceInv
  <1> USE DEF SourceInit
  <1>1. SourceTypes
    <2>1. toWorker \in Seq(SourceMessages) /\ toMain \in Seq({"PULL", "CANCEL"})
      OBVIOUS
    <2>2. cached \in Seq(Nat) /\ given \in Seq(Nat)
      OBVIOUS
    <2>3. /\ body \in [come : 0 .. Chunks, end : {"open", "end", "error"}]
          /\ fullReader \in [next : 0 .. Chunks, cancelled : BOOLEAN]
      BY SourceAssumption
    <2> QED BY <2>1, <2>2, <2>3 DEF SourceTypes
  <1>2. ~Asks("CANCEL") /\ \A kinds : ~Comes(kinds)
    BY DEF Asks, Comes, HasOne
  <1>3. OneBaton
    BY <1>2 DEF OneBaton, AtMostOne
  <1>4. HeadersFirst /\ CutOff /\ KeptInOrder /\ NextIsNext
    BY <1>2, SourceAssumption DEF HeadersFirst, CutOff, KeptInOrder, NextIsNext, Kept
  <1> QED BY <1>1, <1>3, <1>4 DEF SourceInv

\* What the worker has got is known to each thread only by the counts.
LEMMA SourceStays ==
    ASSUME SourceInv, UNCHANGED sourceVars PROVE SourceInv'
  <1> USE DEF sourceVars, netVars, mainVars, workerVars
  <1>1. Kept' = Kept /\ Asks("PULL")' = Asks("PULL") /\ Asks("CANCEL")' = Asks("CANCEL")
    BY DEF Kept, Asks
  <1>2. /\ Comes(Data)' = Comes(Data) /\ Comes({"HEADERS"})' = Comes({"HEADERS"})
        /\ Comes({"CHUNK"})' = Comes({"CHUNK"}) /\ Comes({"CLOSE"})' = Comes({"CLOSE"})
    BY DEF Comes
  <1>3. SourceTypes' /\ OneBaton'
    BY <1>1, <1>2 DEF SourceInv, SourceTypes, OneBaton
  <1>4. HeadersFirst' /\ CutOff'
    BY <1>1, <1>2 DEF SourceInv, HeadersFirst, CutOff
  <1>5. KeptInOrder' /\ NextIsNext'
    BY <1>1, <1>2 DEF SourceInv, KeptInOrder, NextIsNext
  <1> QED BY <1>3, <1>4, <1>5 DEF SourceInv

LEMMA SourcePosts ==
    ASSUME SourceInv, NEW kind \in Data \cup Headers, NEW chunk \in Nat, PostChunk(kind, chunk)
    PROVE  /\ toWorker' \in Seq(SourceMessages)
           /\ IsPosted(toWorker, [kind |-> kind, chunk |-> chunk], toWorker')
           /\ \A kinds : HasOne(toWorker', OfKind(kinds)) <=>
                            HasOne(toWorker, OfKind(kinds)) \/ kind \in kinds
           /\ \A kinds : AtMostOne(toWorker, OfKind(kinds))
                         /\ ~(HasOne(toWorker, OfKind(kinds)) /\ kind \in kinds)
                            => AtMostOne(toWorker', OfKind(kinds))
  <1> DEFINE m == [kind |-> kind, chunk |-> chunk]
  <1>1. m \in SourceMessages /\ m.kind = kind
    BY DEF SourceMessages
  <1>2. toWorker \in Seq(SourceMessages) /\ toWorker' = Append(toWorker, m)
    BY DEF SourceInv, SourceTypes, PostChunk
  <1> HIDE DEF m
  <1>3. toWorker' \in Seq(SourceMessages) /\ IsPosted(toWorker, m, toWorker')
    BY <1>1, <1>2, Posted
  <1>4. \A kinds : m \in OfKind(kinds) <=> kind \in kinds
    BY <1>1, SourceFacts
  <1>5. \A kinds : HasOne(toWorker', OfKind(kinds)) <=>
                      HasOne(toWorker, OfKind(kinds)) \/ kind \in kinds
    BY <1>3, <1>4, AfterPosting, Zenon
  <1>6. \A kinds : AtMostOne(toWorker, OfKind(kinds))
                   /\ ~(HasOne(toWorker, OfKind(kinds)) /\ kind \in kinds)
                      => AtMostOne(toWorker', OfKind(kinds))
    BY <1>3, <1>4, AfterPosting, Zenon
  <1> QED BY <1>3, <1>5, <1>6 DEF m

LEMMA SourceReceives ==
    ASSUME SourceInv, NEW kindsTaken, Receives(kindsTaken)
    PROVE  /\ toWorker' \in Seq(SourceMessages) /\ IsTaken(toWorker, Head(toWorker), toWorker')
           /\ Head(toWorker) \in SourceMessages /\ Head(toWorker).kind \in kindsTaken
           /\ \A kinds : HasOne(toWorker, OfKind(kinds)) <=>
                            HasOne(toWorker', OfKind(kinds)) \/ Head(toWorker).kind \in kinds
           /\ \A kinds : AtMostOne(toWorker, OfKind(kinds)) =>
                            /\ AtMostOne(toWorker', OfKind(kinds))
                            /\ Head(toWorker).kind \in kinds => ~HasOne(toWorker', OfKind(kinds))
  <1>1. /\ toWorker \in Seq(SourceMessages) /\ toWorker # << >> /\ toWorker' = Tail(toWorker)
        /\ Head(toWorker).kind \in kindsTaken
    BY DEF SourceInv, SourceTypes, Receives
  <1>2. /\ toWorker' \in Seq(SourceMessages) /\ IsTaken(toWorker, Head(toWorker), toWorker')
        /\ Head(toWorker) \in SourceMessages
    BY <1>1, Taken
  <1>3. \A kinds : Head(toWorker) \in OfKind(kinds) <=> Head(toWorker).kind \in kinds
    BY <1>2, SourceFacts
  <1>4. \A kinds : HasOne(toWorker, OfKind(kinds)) <=>
                      HasOne(toWorker', OfKind(kinds)) \/ Head(toWorker).kind \in kinds
    BY <1>2, <1>3, AfterTaking, Zenon
  <1>5. \A kinds : AtMostOne(toWorker, OfKind(kinds)) =>
                      /\ AtMostOne(toWorker', OfKind(kinds))
                      /\ Head(toWorker).kind \in kinds => ~HasOne(toWorker', OfKind(kinds))
    BY <1>2, <1>3, AfterTaking, Zenon
  <1> QED BY <1>1, <1>2, <1>4, <1>5

\* The headers are posted to a worker that has nothing yet.
LEMMA HeadersArePosted ==
    ASSUME SourceInv, response = "none", NEW kind \in Headers, Post(kind)
    PROVE  /\ toWorker' \in Seq(SourceMessages)
           /\ \A i \in 1 .. Len(toWorker') : toWorker'[i].kind = kind /\ i = 1
           /\ ~HasOne(toWorker', OfKind(Data)) /\ ~HasOne(toWorker', OfKind({"CHUNK"}))
           /\ ~HasOne(toWorker', OfKind({"CLOSE"})) /\ AtMostOne(toWorker', OfKind(Data))
           /\ ~HasOne(toWorker, OfKind({"CHUNK"}))
           /\ HasOne(toWorker', OfKind({"HEADERS"})) <=> kind = "HEADERS"
  <1>1. toWorker = << >>
    BY DEF SourceInv, HeadersFirst
  <1>2. kind \in Data \cup Headers /\ kind \notin Data /\ PostChunk(kind, 0)
        /\ kind # "CHUNK" /\ kind # "CLOSE"
    BY DEF Post, Data, Headers
  <1>3. /\ toWorker' \in Seq(SourceMessages)
        /\ IsPosted(toWorker, [kind |-> kind, chunk |-> 0], toWorker')
        /\ \A kinds : HasOne(toWorker', OfKind(kinds)) <=>
                         HasOne(toWorker, OfKind(kinds)) \/ kind \in kinds
        /\ \A kinds : AtMostOne(toWorker, OfKind(kinds))
                      /\ ~(HasOne(toWorker, OfKind(kinds)) /\ kind \in kinds)
                         => AtMostOne(toWorker', OfKind(kinds))
    BY <1>2, SourcePosts
  <1>4. \A kinds : ~HasOne(toWorker, OfKind(kinds))
    BY <1>1 DEF HasOne
  <1>5. \A kinds : HasOne(toWorker', OfKind(kinds)) <=> kind \in kinds
    BY <1>3, <1>4, Zenon
  <1>6. \A i \in 1 .. Len(toWorker') : toWorker'[i].kind = kind /\ i = 1
    BY <1>1, <1>3 DEF IsPosted
  <1>7. AtMostOne(toWorker', OfKind(Data))
    BY <1>6 DEF AtMostOne
  <1> QED BY <1>2, <1>3, <1>4, <1>5, <1>6, <1>7

LEMMA HeadersArrive ==
    ASSUME SourceInv, ResponseOk \/ ResponseFails PROVE SourceInv'
  <1> DEFINE kind == IF ResponseOk THEN "HEADERS" ELSE "HEADERS_FAILED"
  <1>1. /\ response = "none" /\ Post(kind) /\ kind \in Headers
        /\ response' = IF kind = "HEADERS" THEN "ok" ELSE "failed"
    BY DEF ResponseOk, ResponseFails, Headers
  <1>2. /\ body' = body /\ reading' = reading /\ toMain' = toMain /\ plan' = plan
        /\ UNCHANGED workerVars
    BY DEF ResponseOk, ResponseFails, mainVars
  <1>3. \/ fullReader' = fullReader
        \/ response' = "ok" /\ plan.range /\ fullReader' = [fullReader EXCEPT !.cancelled = TRUE]
    <2>1. CASE ResponseOk
      <3>1. plan \in [range : BOOLEAN, streaming : BOOLEAN, closes : BOOLEAN]
        BY SourceAssumption DEF SourceInv, SourceTypes
      <3>2. fullReader \in [next : 0 .. Chunks, cancelled : BOOLEAN] /\ ~fullReader.cancelled
        BY <2>1 DEF SourceInv, SourceTypes, ResponseOk
      <3>3. CASE plan.range /\ ~plan.streaming
        BY <2>1, <3>3 DEF ResponseOk
      <3>4. CASE ~(plan.range /\ ~plan.streaming)
        <4>1. fullReader' = [fullReader EXCEPT !.cancelled = FALSE]
          BY <2>1, <3>1, <3>4 DEF ResponseOk
        <4> QED BY <3>2, <4>1
      <3> QED BY <3>3, <3>4
    <2>2. CASE ResponseFails
      BY <2>2 DEF ResponseFails, mainVars
    <2> QED BY <2>1, <2>2
  <1>4. /\ toWorker' \in Seq(SourceMessages)
        /\ \A i \in 1 .. Len(toWorker') : toWorker'[i].kind = kind /\ i = 1
        /\ ~Comes(Data)' /\ ~Comes({"CHUNK"})' /\ ~Comes({"CLOSE"})'
        /\ AtMostOne(toWorker', OfKind(Data)) /\ ~Comes({"CHUNK"})
        /\ Comes({"HEADERS"})' <=> kind = "HEADERS"
    BY <1>1, HeadersArePosted DEF Comes
  <1> HIDE DEF kind
  <1>5. /\ fullReader' \in [next : 0 .. Chunks, cancelled : BOOLEAN]
        /\ fullReader'.next = fullReader.next
        /\ fullReader'.cancelled => fullReader.cancelled \/ (response' = "ok" /\ plan.range)
    BY <1>3 DEF SourceInv, SourceTypes
  <1>6. SourceTypes'
    BY <1>1, <1>2, <1>4, <1>5 DEF SourceInv, SourceTypes, workerVars
  <1>7. Asks("PULL")' = Asks("PULL") /\ Asks("CANCEL")' = Asks("CANCEL") /\ Kept' = Kept
    BY <1>2 DEF Asks, Kept, workerVars
  <1>8. OneBaton'
    BY <1>2, <1>4, <1>7 DEF SourceInv, OneBaton
  <1>9. manager = "none"
    BY <1>1 DEF SourceInv, HeadersFirst
  <1>10. HeadersFirst'
    BY <1>1, <1>2, <1>4, <1>9 DEF SourceInv, SourceTypes, HeadersFirst, workerVars
  <1>11. CutOff'
    BY <1>1, <1>2, <1>5, <1>7 DEF SourceInv, CutOff, workerVars
  <1>12. KeptInOrder'
    BY <1>2, <1>7 DEF SourceInv, KeptInOrder, workerVars
  <1>13. NextIsNext'
    BY <1>1, <1>2, <1>4, <1>5, <1>7 DEF SourceInv, NextIsNext, workerVars, Headers
  <1> QED BY <1>2, <1>6, <1>8, <1>10, <1>11, <1>12, <1>13 DEF SourceInv, workerVars

LEMMA BodyGrows ==
    ASSUME SourceInv, BodyComes \/ BodyBreaks PROVE SourceInv'
  <1>1. /\ UNCHANGED <<plan, response, fullReader, reading, toWorker, toMain, loop, manager, cached,
                       given, capability, cancelXHRs, terminated, handed>>
        /\ response = "ok" /\ body.end = "open"
    BY DEF BodyComes, BodyBreaks, mainVars, workerVars
  <1>2. body \in [come : 0 .. Chunks, end : {"open", "end", "error"}]
    BY DEF SourceInv, SourceTypes
  <1>3. /\ body' \in [come : 0 .. Chunks, end : {"open", "end", "error"}]
        /\ body.come <= body'.come /\ (body'.end = "end" => body'.come = Chunks)
    BY <1>1, <1>2, SourceAssumption DEF BodyComes, BodyBreaks
  <1>4. Kept' = Kept /\ Asks("PULL")' = Asks("PULL") /\ Asks("CANCEL")' = Asks("CANCEL")
    BY <1>1 DEF Kept, Asks
  <1>5. /\ Comes(Data)' = Comes(Data) /\ Comes({"HEADERS"})' = Comes({"HEADERS"})
        /\ Comes({"CHUNK"})' = Comes({"CHUNK"}) /\ Comes({"CLOSE"})' = Comes({"CLOSE"})
    BY <1>1 DEF Comes
  <1>6. SourceTypes' /\ OneBaton'
    BY <1>1, <1>3, <1>4, <1>5 DEF SourceInv, SourceTypes, OneBaton
  <1>7. HeadersFirst' /\ CutOff' /\ KeptInOrder'
    BY <1>1, <1>4, <1>5 DEF SourceInv, HeadersFirst, CutOff, KeptInOrder
  <1>8. fullReader.next <= body.come /\ fullReader.next \in Int /\ body.come \in Int /\ body'.come \in Int
    BY <1>2, <1>3 DEF SourceInv, SourceTypes, NextIsNext
  <1>9. NextIsNext'
    BY <1>1, <1>3, <1>4, <1>5, <1>8 DEF SourceInv, NextIsNext
  <1> QED BY <1>1, <1>6, <1>7, <1>9 DEF SourceInv

\* What the main thread takes from its port.
LEMMA MainReceives ==
    ASSUME SourceInv, toMain # << >>, toMain' = Tail(toMain)
    PROVE  /\ toMain' \in Seq({"PULL", "CANCEL"})
           /\ Asks("PULL") <=> Asks("PULL")' \/ Head(toMain) = "PULL"
           /\ Asks("CANCEL") <=> Asks("CANCEL")' \/ Head(toMain) = "CANCEL"
           /\ AtMostOne(toMain', {"PULL"})
           /\ Head(toMain) = "PULL" => ~Asks("PULL")'
  <1>1. toMain' \in Seq({"PULL", "CANCEL"}) /\ IsTaken(toMain, Head(toMain), toMain')
    BY Taken DEF SourceInv, SourceTypes
  <1>2. \A what : HasOne(toMain, {what}) <=> HasOne(toMain', {what}) \/ Head(toMain) \in {what}
    BY <1>1, AfterTaking
  <1>3. AtMostOne(toMain, {"PULL"})
    BY DEF SourceInv, OneBaton
  <1>4. /\ AtMostOne(toMain', {"PULL"})
        /\ ~(HasOne(toMain', {"PULL"}) /\ Head(toMain) \in {"PULL"})
    BY <1>1, <1>3, AfterTaking
  <1> QED BY <1>1, <1>2, <1>4 DEF Asks

LEMMA MainTakes ==
    ASSUME SourceInv, OnPull \/ OnCancel PROVE SourceInv'
  <1>1. /\ UNCHANGED <<plan, response, body, toWorker, loop, manager, cached,
                       given, capability, cancelXHRs, terminated, handed>>
        /\ toMain # << >> /\ toMain' = Tail(toMain)
    BY DEF OnPull, OnCancel, netVars, workerVars
  <1>2. /\ toMain' \in Seq({"PULL", "CANCEL"})
        /\ Asks("PULL") <=> Asks("PULL")' \/ Head(toMain) = "PULL"
        /\ Asks("CANCEL") <=> Asks("CANCEL")' \/ Head(toMain) = "CANCEL"
        /\ AtMostOne(toMain', {"PULL"})
        /\ Head(toMain) = "PULL" => ~Asks("PULL")'
    BY <1>1, MainReceives
  <1>3. /\ Comes(Data)' = Comes(Data) /\ Comes({"HEADERS"})' = Comes({"HEADERS"})
        /\ Comes({"CHUNK"})' = Comes({"CHUNK"}) /\ Comes({"CLOSE"})' = Comes({"CLOSE"})
    BY <1>1 DEF Comes
  <1>4. fullReader \in [next : 0 .. Chunks, cancelled : BOOLEAN] /\ reading \in BOOLEAN
    BY DEF SourceInv, SourceTypes
  <1>5. \/ Head(toMain) = "PULL" /\ reading' = TRUE /\ fullReader' = fullReader
        \/ Head(toMain) = "CANCEL" /\ reading' = reading
           /\ fullReader' = [fullReader EXCEPT !.cancelled = TRUE]
    BY DEF OnPull, OnCancel
  <1>6. /\ fullReader' \in [next : 0 .. Chunks, cancelled : BOOLEAN] /\ reading' \in BOOLEAN
        /\ fullReader'.next = fullReader.next
        /\ fullReader'.cancelled => fullReader.cancelled \/ Head(toMain) = "CANCEL"
        /\ reading' => reading \/ Head(toMain) = "PULL"
    <2>1. CASE Head(toMain) = "PULL" /\ reading' = TRUE /\ fullReader' = fullReader
      BY <1>4, <2>1
    <2>2. CASE Head(toMain) = "CANCEL" /\ reading' = reading
               /\ fullReader' = [fullReader EXCEPT !.cancelled = TRUE]
      BY <1>4, <2>2
    <2> QED BY <1>5, <2>1, <2>2
  <1>7. Kept' = Kept
    BY <1>1 DEF Kept
  <1>8. SourceTypes'
    BY <1>1, <1>2, <1>6 DEF SourceInv, SourceTypes
  <1>9. OneBaton'
    <2>1. Asks("PULL")' => ~reading'
      BY <1>2, <1>6 DEF SourceInv, OneBaton
    <2> QED BY <1>1, <1>2, <1>3, <1>6, <2>1 DEF SourceInv, OneBaton
  <1>10. CutOff'
    BY <1>1, <1>2, <1>6 DEF SourceInv, CutOff
  <1>11. HeadersFirst' /\ KeptInOrder'
    BY <1>1, <1>3, <1>7 DEF SourceInv, HeadersFirst, KeptInOrder
  <1>12. NextIsNext'
    BY <1>1, <1>3, <1>6, <1>7 DEF SourceInv, NextIsNext
  <1> QED BY <1>1, <1>8, <1>9, <1>10, <1>11, <1>12 DEF SourceInv

LEMMA ReadIsAnswered ==
    ASSUME SourceInv, ReadAnswered PROVE SourceInv'
  <1>1. /\ UNCHANGED <<plan, response, body, toMain, loop, manager, cached,
                       given, capability, cancelXHRs, terminated, handed>>
        /\ reading /\ reading' = FALSE
    BY DEF ReadAnswered, netVars, workerVars
  <1>2. ~Comes(Data) /\ ~Asks("PULL") /\ AtMostOne(toWorker, OfKind(Data)) /\ AtMostOne(toMain, {"PULL"})
    BY <1>1 DEF SourceInv, OneBaton
  <1>3. ~Comes({"CHUNK"}) /\ ~Comes({"CLOSE"})
    BY <1>2 DEF Comes, HasOne, OfKind, Data
  <1>4. Kept' = Kept /\ Asks("PULL")' = Asks("PULL") /\ Asks("CANCEL")' = Asks("CANCEL")
    BY <1>1 DEF Kept, Asks
  <1>5. Len(Kept) \in Nat
    BY DEF SourceInv, SourceTypes, Kept
  <1>6. /\ fullReader \in [next : 0 .. Chunks, cancelled : BOOLEAN] /\ Chunks \in Nat
        /\ fullReader.next \in Nat /\ body.come \in 0 .. Chunks
        /\ fullReader.next <= body.come /\ (body.end = "end" => body.come = Chunks)
    BY SourceAssumption DEF SourceInv, SourceTypes, NextIsNext
  <1>7. loop = "wait" => fullReader.next = Len(Kept)
    BY <1>3 DEF SourceInv, NextIsNext
  <1>8. CASE toWorker' = toWorker /\ fullReader' = fullReader
    <2>1. /\ Comes(Data)' = Comes(Data) /\ Comes({"HEADERS"})' = Comes({"HEADERS"})
          /\ Comes({"CHUNK"})' = Comes({"CHUNK"}) /\ Comes({"CLOSE"})' = Comes({"CLOSE"})
      BY <1>8 DEF Comes
    <2>2. SourceTypes'
      BY ZenonT(60), <1>1, <1>8 DEF SourceInv, SourceTypes
    <2>5. OneBaton'
      BY <1>1, <1>2, <1>4, <1>8, <2>1 DEF OneBaton
    <2>3. HeadersFirst' /\ CutOff' /\ KeptInOrder'
      BY <1>1, <1>4, <1>8, <2>1 DEF SourceInv, HeadersFirst, CutOff, KeptInOrder
    <2>4. NextIsNext'
      BY <1>1, <1>4, <1>8, <2>1 DEF SourceInv, NextIsNext
    <2> QED BY <1>1, <2>2, <2>3, <2>4, <2>5 DEF SourceInv
  <1>9. ASSUME NEW kind \in Data, NEW chunk \in Nat, PostChunk(kind, chunk), response # "none",
               \/ kind # "CHUNK" /\ fullReader' = fullReader
               \/ /\ kind = "CHUNK" /\ chunk = fullReader.next /\ chunk < body.come
                  /\ fullReader' = [fullReader EXCEPT !.next = @ + 1],
               kind = "CLOSE" =>
                  response = "ok" /\ (fullReader.cancelled \/ fullReader.next = Chunks)
        PROVE  SourceInv'
    <2> DEFINE m == [kind |-> kind, chunk |-> chunk]
    <2>1. /\ toWorker' \in Seq(SourceMessages) /\ IsPosted(toWorker, m, toWorker')
          /\ \A kinds : HasOne(toWorker', OfKind(kinds)) <=>
                           HasOne(toWorker, OfKind(kinds)) \/ kind \in kinds
          /\ \A kinds : AtMostOne(toWorker, OfKind(kinds))
                        /\ ~(HasOne(toWorker, OfKind(kinds)) /\ kind \in kinds)
                           => AtMostOne(toWorker', OfKind(kinds))
      BY <1>9, SourcePosts
    <2>2. m.kind = kind /\ m.chunk = chunk /\ kind \notin Headers /\ kind # "HEADERS"
      BY DEF Data, Headers
    <2> HIDE DEF m
    <2>3. AtMostOne(toWorker', OfKind(Data))
      BY <1>2, <2>1 DEF Comes
    <2>4. /\ Comes({"HEADERS"})' <=> Comes({"HEADERS"})
          /\ Comes({"CHUNK"})' <=> kind = "CHUNK"
          /\ Comes({"CLOSE"})' <=> kind = "CLOSE"
      BY <1>3, <2>1, <2>2 DEF Comes
    <2>5. /\ fullReader' \in [next : 0 .. Chunks, cancelled : BOOLEAN]
          /\ fullReader'.cancelled = fullReader.cancelled
          /\ fullReader'.next = IF kind = "CHUNK" THEN fullReader.next + 1 ELSE fullReader.next
          /\ fullReader'.next <= body.come
      BY <1>6, <1>9
    <2>6. \A i \in 1 .. Len(toWorker') : toWorker'[i].kind = "CHUNK" =>
             kind = "CHUNK" /\ toWorker'[i].chunk = chunk
      <3>1. \A i \in 1 .. Len(toWorker) : toWorker[i].kind # "CHUNK"
        <4>1. \A i \in 1 .. Len(toWorker) : toWorker[i] \in SourceMessages
          BY DEF SourceInv, SourceTypes
        <4> QED BY <1>3, <4>1, SourceFacts DEF Comes, HasOne
      <3> QED BY <2>1, <2>2, <3>1 DEF IsPosted
    <2>7. SourceTypes'
      BY ZenonT(60), <1>1, <2>1, <2>5 DEF SourceInv, SourceTypes
    <2>8. OneBaton'
      BY <1>1, <1>2, <1>4, <2>3 DEF OneBaton
    <2>9. HeadersFirst'
      <3>1. \A i \in 1 .. Len(toWorker') : toWorker'[i].kind \in Headers => i = 1
        BY <2>1, <2>2 DEF SourceInv, HeadersFirst, IsPosted
      <3> QED BY <1>1, <1>9, <2>4, <3>1 DEF SourceInv, HeadersFirst
    <2>10. CutOff' /\ KeptInOrder'
      BY <1>1, <1>4, <2>5 DEF SourceInv, CutOff, KeptInOrder
    <2>11. ASSUME loop' = "wait"
           PROVE  /\ \A i \in 1 .. Len(toWorker') : toWorker'[i].kind = "CHUNK" =>
                        toWorker'[i].chunk = Len(Kept)' /\ fullReader'.next = Len(Kept)' + 1
                  /\ ~Comes({"CHUNK"})' => fullReader'.next = Len(Kept)'
                  /\ Comes({"CLOSE"})' => response' = "ok" /\ (plan'.range \/ fullReader'.next = Chunks)
      <3>1. loop = "wait" /\ fullReader.next = Len(Kept) /\ Len(Kept)' = Len(Kept)
        BY <1>1, <1>4, <1>7, <2>11
      <3>2. \A i \in 1 .. Len(toWorker') : toWorker'[i].kind = "CHUNK" =>
               toWorker'[i].chunk = Len(Kept)' /\ fullReader'.next = Len(Kept)' + 1
        BY <1>9, <2>5, <2>6, <3>1
      <3>3. ~Comes({"CHUNK"})' => fullReader'.next = Len(Kept)'
        BY <2>4, <2>5, <3>1
      <3>4. Comes({"CLOSE"})' => response' = "ok" /\ (plan'.range \/ fullReader'.next = Chunks)
        BY <1>1, <1>9, <2>4, <2>5, <3>1 DEF SourceInv, CutOff
      <3> QED BY <3>2, <3>3, <3>4
    <2>12. NextIsNext'
      BY <1>1, <1>6, <2>5, <2>11 DEF NextIsNext
    <2> QED BY <1>1, <2>7, <2>8, <2>9, <2>10, <2>12 DEF SourceInv
  <1>10. CASE ReadFails /\ Post("ERROR") /\ UNCHANGED fullReader
    <2>1. response # "none" /\ "ERROR" \in Data /\ PostChunk("ERROR", 0)
      BY <1>10 DEF ReadFails, Data, Post
    <2> QED BY <1>9, <1>10, <2>1
  <1>11. CASE ReadEnds /\ UNCHANGED fullReader /\ Post("CLOSE")
    <2>1. response = "ok" /\ "CLOSE" \in Data /\ PostChunk("CLOSE", 0)
          /\ (fullReader.cancelled \/ fullReader.next = Chunks)
      BY <1>6, <1>11 DEF ReadEnds, Data, Post
    <2> QED BY <1>9, <1>11, <2>1
  <1>12. CASE /\ response = "ok" /\ fullReader.next < body.come
              /\ fullReader' = [fullReader EXCEPT !.next = @ + 1]
              /\ PostChunk("CHUNK", fullReader.next)
    <2>1. "CHUNK" \in Data
      BY DEF Data
    <2> QED BY <1>6, <1>9, <1>12, <2>1
  <1> QED BY <1>8, <1>10, <1>11, <1>12 DEF ReadAnswered

\* What the worker knows of the message it takes.
LEMMA OnlyDataIsTaken ==
    ASSUME SourceInv, NEW kindsTaken, kindsTaken \subseteq Data, Receives(kindsTaken)
    PROVE  /\ Comes(Data) /\ ~Comes(Data)' /\ AtMostOne(toWorker', OfKind(Data))
           /\ ~Comes({"HEADERS"}) /\ ~Comes({"HEADERS"})' /\ ~Comes({"CHUNK"})' /\ ~Comes({"CLOSE"})'
           /\ \A i \in 1 .. Len(toWorker') : toWorker'[i].kind \notin Headers
           /\ Head(toWorker).kind = "CLOSE" => Comes({"CLOSE"}) /\ ~Comes({"CHUNK"})
           /\ Head(toWorker) = toWorker[1] /\ 1 \in 1 .. Len(toWorker)
           /\ toWorker' \in Seq(SourceMessages) /\ Head(toWorker) \in SourceMessages
           /\ response # "none"
  <1>1. /\ toWorker' \in Seq(SourceMessages) /\ IsTaken(toWorker, Head(toWorker), toWorker')
        /\ Head(toWorker) \in SourceMessages /\ Head(toWorker).kind \in Data
        /\ \A kinds : HasOne(toWorker, OfKind(kinds)) <=>
                         HasOne(toWorker', OfKind(kinds)) \/ Head(toWorker).kind \in kinds
        /\ \A kinds : AtMostOne(toWorker, OfKind(kinds)) =>
                         /\ AtMostOne(toWorker', OfKind(kinds))
                         /\ Head(toWorker).kind \in kinds => ~HasOne(toWorker', OfKind(kinds))
    BY SourceReceives
  <1>2. Comes(Data) /\ ~Comes(Data)' /\ AtMostOne(toWorker', OfKind(Data))
    BY <1>1 DEF SourceInv, OneBaton, Comes
  <1>3. ~Comes({"CHUNK"})' /\ ~Comes({"CLOSE"})'
    BY <1>2 DEF Comes, HasOne, OfKind, Data
  <1>4. Head(toWorker) = toWorker[1] /\ 1 \in 1 .. Len(toWorker) /\ toWorker[1].kind \notin Headers
    BY <1>1 DEF IsTaken, Data, Headers
  <1>5. \A i \in 1 .. Len(toWorker) : toWorker[i].kind \notin Headers
    BY <1>4 DEF SourceInv, HeadersFirst
  <1>6. ~Comes({"HEADERS"})
    BY <1>5 DEF Comes, HasOne, OfKind, Headers
  <1>7. ~Comes({"HEADERS"})'
    BY <1>1, <1>6 DEF Comes
  <1>8. \A i \in 1 .. Len(toWorker') : toWorker'[i].kind \notin Headers
    BY <1>1, <1>5 DEF IsTaken
  <1>9. ASSUME Head(toWorker).kind = "CLOSE" PROVE Comes({"CLOSE"}) /\ ~Comes({"CHUNK"})
    <2>1. Comes({"CLOSE"}) /\ Head(toWorker).kind \notin {"CHUNK"}
      BY <1>1, <1>9 DEF Comes
    <2> QED BY <1>1, <1>3, <2>1 DEF Comes
  <1>10. response # "none"
    BY <1>4 DEF SourceInv, HeadersFirst
  <1> QED BY <1>1, <1>2, <1>3, <1>4, <1>6, <1>7, <1>8, <1>9, <1>10

\* What an exception of the loop leaves.
LEMMA LoopHasFailed ==
    ASSUME SourceInv, LoopFails
    PROVE  /\ loop' = "over" /\ manager' = manager /\ cached' = cached /\ given' = given
           /\ Kept' = Kept
           /\ capability' \in {"pending", "rejected", "net", "local"} /\ cancelXHRs' \in BOOLEAN
           /\ capability' = "local" => capability = "local"
  BY DEF SourceInv, SourceTypes, LoopFails, Resolves, Kept

\* Data is taken: what it does to the loop is left open.
LEMMA DataIsTaken ==
    ASSUME SourceInv, NEW kindsTaken, kindsTaken \subseteq Data, Receives(kindsTaken),
           UNCHANGED <<netVars, mainVars, toMain, terminated, handed>>, loop' = "over",
           manager' \in {"none", "net", "local"}, cached' \in Seq(Nat), given' \in Seq(Nat),
           capability' \in {"pending", "rejected", "net", "local"}, cancelXHRs' \in BOOLEAN,
           manager' # manager => response = "ok" /\ manager' = "local" /\ ~plan.range,
           KeptInOrder'
    PROVE  SourceInv'
  <1>1. /\ Comes(Data) /\ ~Comes(Data)' /\ AtMostOne(toWorker', OfKind(Data))
        /\ ~Comes({"HEADERS"}) /\ ~Comes({"HEADERS"})' /\ ~Comes({"CHUNK"})' /\ ~Comes({"CLOSE"})'
        /\ \A i \in 1 .. Len(toWorker') : toWorker'[i].kind \notin Headers
        /\ toWorker' \in Seq(SourceMessages) /\ response # "none"
    BY OnlyDataIsTaken
  <1>2. Asks("PULL")' = Asks("PULL") /\ reading' = reading
    BY DEF Asks, mainVars
  <1>3. SourceTypes'
    BY <1>1 DEF SourceInv, SourceTypes, netVars, mainVars
  <1>4. OneBaton'
    BY <1>1, <1>2 DEF SourceInv, OneBaton
  <1>5. HeadersFirst'
    BY <1>1 DEF SourceInv, HeadersFirst, netVars
  <1>6. CutOff' /\ NextIsNext'
    BY DEF SourceInv, CutOff, NextIsNext, netVars, mainVars
  <1> QED BY <1>3, <1>4, <1>5, <1>6 DEF SourceInv

LEMMA ErrorIsTaken ==
    ASSUME SourceInv, OnError PROVE SourceInv'
  <1>1. /\ Receives({"ERROR"}) /\ {"ERROR"} \subseteq Data /\ LoopFails
        /\ UNCHANGED <<netVars, mainVars, toMain, terminated, handed>>
    BY DEF OnError, Data
  <1>2. /\ loop' = "over" /\ manager' = manager /\ cached' = cached /\ given' = given /\ Kept' = Kept
        /\ capability' \in {"pending", "rejected", "net", "local"} /\ cancelXHRs' \in BOOLEAN
        /\ capability' = "local" => capability = "local"
    BY <1>1, LoopHasFailed
  <1>3. KeptInOrder'
    BY <1>2 DEF SourceInv, KeptInOrder
  <1>4. /\ manager' \in {"none", "net", "local"} /\ cached' \in Seq(Nat) /\ given' \in Seq(Nat)
    BY <1>2 DEF SourceInv, SourceTypes
  <1> QED BY <1>1, <1>2, <1>3, <1>4, DataIsTaken

LEMMA CloseIsTaken ==
    ASSUME SourceInv, OnClose PROVE SourceInv'
  <1>1. /\ Receives({"CLOSE"}) /\ {"CLOSE"} \subseteq Data /\ loop = "wait"
        /\ UNCHANGED <<netVars, mainVars, toMain, terminated, handed>>
    BY DEF OnClose, Data
  <1>2. manager' \in {"none", "net", "local"} /\ cached \in Seq(Nat) /\ given \in Seq(Nat)
    BY DEF OnClose, ReadDone, LoopEnds, LoopFails, SourceInv, SourceTypes
  <1>3. CASE LoopFails
    <2>1. /\ loop' = "over" /\ manager' = manager /\ cached' = cached /\ given' = given /\ Kept' = Kept
          /\ capability' \in {"pending", "rejected", "net", "local"} /\ cancelXHRs' \in BOOLEAN
          /\ capability' = "local" => capability = "local"
      BY <1>3, LoopHasFailed
    <2>2. KeptInOrder'
      BY <2>1 DEF SourceInv, KeptInOrder
    <2> QED BY <1>1, <1>2, <2>1, <2>2, DataIsTaken
  <1>4. CASE LoopEnds /\ manager # "none"
    <2>1. /\ loop' = "over" /\ manager' = manager /\ cached' = cached /\ given' = given
          /\ capability' = capability /\ cancelXHRs' = FALSE
      BY <1>4 DEF LoopEnds
    <2>2. KeptInOrder'
      BY <2>1 DEF SourceInv, KeptInOrder, Kept
    <2>3. capability' \in {"pending", "rejected", "net", "local"} /\ cancelXHRs' \in BOOLEAN
      BY <2>1 DEF SourceInv, SourceTypes
    <2> QED BY <1>1, <1>2, <2>1, <2>2, <2>3, DataIsTaken
  <1>5. CASE LoopEnds /\ manager = "none"
    <2>1. /\ loop' = "over" /\ manager' = "local" /\ cached' = << >> /\ given' = cached
          /\ capability' \in {capability, "local"} /\ cancelXHRs' = FALSE
      BY <1>5 DEF LoopEnds, Resolves
    <2>2. /\ Comes({"CLOSE"}) /\ ~Comes({"CHUNK"}) /\ ~Comes({"HEADERS"})
      <3>1. Head(toWorker).kind = "CLOSE"
        BY <1>1 DEF Receives
      <3> QED BY <1>1, <3>1, OnlyDataIsTaken
    <2>3. response = "ok" /\ ~plan.range /\ fullReader.next = Chunks
      BY <1>1, <1>5, <2>2 DEF SourceInv, HeadersFirst, NextIsNext
    <2>4. Len(cached) = Chunks /\ \A i \in 1 .. Len(cached) : cached[i] = i - 1
      BY <1>1, <1>5, <2>2, <2>3 DEF SourceInv, NextIsNext, KeptInOrder, Kept
    <2>5. given' = Prefix(Chunks)
      BY <1>2, <2>1, <2>4, PrefixIs
    <2>6. KeptInOrder'
      BY <2>1, <2>5 DEF KeptInOrder
    <2>7. capability' \in {"pending", "rejected", "net", "local"} /\ cancelXHRs' \in BOOLEAN
      BY <2>1 DEF SourceInv, SourceTypes
    <2>8. cached' \in Seq(Nat) /\ given' \in Seq(Nat)
      BY <1>2, <2>1
    <2> QED BY <1>1, <2>1, <2>3, <2>6, <2>7, <2>8, DataIsTaken
  <1> QED BY <1>3, <1>4, <1>5 DEF OnClose, ReadDone

LEMMA LateIsDropped ==
    ASSUME SourceInv, Dropped PROVE SourceInv'
  <1>1. /\ Receives({"CLOSE", "ERROR", "CHUNK"}) /\ {"CLOSE", "ERROR", "CHUNK"} \subseteq Data
        /\ UNCHANGED <<netVars, mainVars, toMain, workerVars>> /\ loop = "over"
    BY DEF Dropped, Data
  <1>2. /\ loop' = "over" /\ manager' = manager /\ cached' = cached /\ given' = given
        /\ capability' = capability /\ cancelXHRs' = cancelXHRs
        /\ UNCHANGED <<netVars, mainVars, toMain, terminated, handed>>
    BY <1>1 DEF workerVars
  <1>3. KeptInOrder'
    BY <1>2 DEF SourceInv, KeptInOrder, Kept
  <1>4. /\ manager' \in {"none", "net", "local"} /\ cached' \in Seq(Nat) /\ given' \in Seq(Nat)
        /\ capability' \in {"pending", "rejected", "net", "local"} /\ cancelXHRs' \in BOOLEAN
    BY <1>2 DEF SourceInv, SourceTypes
  <1> QED BY <1>1, <1>2, <1>3, <1>4, DataIsTaken

\* A chunk is appended where the chunks are kept, and the next is asked for.
LEMMA ChunkIsTaken ==
    ASSUME SourceInv, OnChunk PROVE SourceInv'
  <1> DEFINE m == Head(toWorker)
  <1>1. /\ Receives({"CHUNK"}) /\ {"CHUNK"} \subseteq Data /\ loop = "wait"
        /\ UNCHANGED <<netVars, mainVars, terminated, handed>>
    BY DEF OnChunk, Data
  <1>2. /\ Comes(Data) /\ ~Comes(Data)' /\ AtMostOne(toWorker', OfKind(Data))
        /\ ~Comes({"HEADERS"}) /\ ~Comes({"HEADERS"})' /\ ~Comes({"CHUNK"})' /\ ~Comes({"CLOSE"})'
        /\ \A i \in 1 .. Len(toWorker') : toWorker'[i].kind \notin Headers
        /\ m = toWorker[1] /\ 1 \in 1 .. Len(toWorker)
        /\ toWorker' \in Seq(SourceMessages) /\ m \in SourceMessages /\ response # "none"
    BY <1>1, OnlyDataIsTaken
  <1>3. CASE ~GoesOn(terminated)
    <2>1. LoopFails /\ UNCHANGED toMain
      BY <1>3 DEF OnChunk
    <2>2. /\ loop' = "over" /\ manager' = manager /\ cached' = cached /\ given' = given /\ Kept' = Kept
          /\ capability' \in {"pending", "rejected", "net", "local"} /\ cancelXHRs' \in BOOLEAN
          /\ capability' = "local" => capability = "local"
      BY <2>1, LoopHasFailed
    <2>3. KeptInOrder'
      BY <2>2 DEF SourceInv, KeptInOrder
    <2>4. /\ manager' \in {"none", "net", "local"} /\ cached' \in Seq(Nat) /\ given' \in Seq(Nat)
      BY <2>2 DEF SourceInv, SourceTypes
    <2> QED BY <1>1, <2>1, <2>2, <2>3, <2>4, DataIsTaken
  <1>4. CASE GoesOn(terminated)
    <2> DEFINE q == IF manager = "none" THEN cached ELSE given
    <2>1. /\ TakeChunk(m.chunk) /\ toMain' = Append(toMain, "PULL")
          /\ UNCHANGED <<loop, manager, capability, cancelXHRs>>
      BY <1>4 DEF OnChunk
    <2>2. /\ manager # "local" /\ q \in Seq(Nat) /\ \A i \in 1 .. Len(q) : q[i] = i - 1
          /\ cached \in Seq(Nat) /\ given \in Seq(Nat)
          /\ q = Kept
      BY <1>1 DEF SourceInv, SourceTypes, HeadersFirst, KeptInOrder, Kept
    <2>3. m.kind = "CHUNK" /\ m.chunk \in Nat
      BY <1>1, <1>2 DEF SourceMessages, Receives
    <2>4. m.chunk = Len(q) /\ fullReader.next = Len(q) + 1
      BY <1>1, <1>2, <2>2, <2>3 DEF SourceInv, NextIsNext
    <2>5. /\ Kept' = Append(q, m.chunk) /\ cached' \in Seq(Nat) /\ given' \in Seq(Nat)
          /\ manager = "none" => given' = given
          /\ manager # "none" => cached' = cached
      <3> HIDE DEF m
      <3>1. CASE manager = "none"
        <4>1. cached' = Append(cached, m.chunk) /\ given' = given /\ manager' = "none" /\ q = cached
          BY <2>1, <3>1 DEF TakeChunk
        <4> QED BY <2>2, <2>3, <3>1, <4>1, AppendProperties DEF Kept
      <3>2. CASE manager # "none"
        <4>1. given' = Append(given, m.chunk) /\ cached' = cached /\ manager' # "none" /\ q = given
          BY <2>1, <3>2 DEF TakeChunk
        <4> QED BY <2>2, <2>3, <3>2, <4>1, AppendProperties DEF Kept
      <3> QED BY <3>1, <3>2
    <2> HIDE DEF q, m
    <2>6. IsPosted(q, m.chunk, Kept')
      BY <2>2, <2>3, <2>5, Posted
    <2>7. Len(Kept') = Len(q) + 1 /\ \A i \in 1 .. Len(Kept') : Kept'[i] = i - 1
      BY SMTT(30), <2>2, <2>4, <2>6 DEF IsPosted
    <2>8. KeptInOrder'
      BY <2>1, <2>2, <2>5, <2>7 DEF SourceInv, KeptInOrder
    <2>9. toMain \in Seq({"PULL", "CANCEL"}) /\ "PULL" \in {"PULL", "CANCEL"}
      BY DEF SourceInv, SourceTypes
    <2>10. toMain' \in Seq({"PULL", "CANCEL"}) /\ IsPosted(toMain, "PULL", toMain')
      BY <2>1, <2>9, Posted
    <2>11. ~Asks("PULL") /\ ~reading /\ AtMostOne(toMain, {"PULL"})
      BY <1>2, <1>1 DEF SourceInv, OneBaton
    <2>12. AtMostOne(toMain', {"PULL"}) /\ (Asks("CANCEL")' <=> Asks("CANCEL"))
      <3>1. AtMostOne(toMain', {"PULL"})
        BY <2>10, <2>11, AfterPosting DEF Asks
      <3>2. HasOne(toMain', {"CANCEL"}) <=> HasOne(toMain, {"CANCEL"}) \/ "PULL" \in {"CANCEL"}
        BY <2>10, AfterPosting
      <3> QED BY <3>1, <3>2 DEF Asks
    <2>13. SourceTypes'
      BY <1>1, <1>2, <2>1, <2>5, <2>10 DEF SourceInv, SourceTypes, netVars, mainVars
    <2>14. OneBaton'
      BY <1>1, <1>2, <2>11, <2>12 DEF OneBaton, mainVars
    <2>15. HeadersFirst' /\ CutOff'
      BY <1>1, <1>2, <2>1, <2>12 DEF SourceInv, HeadersFirst, CutOff, netVars, mainVars
    <2>16. \A i \in 1 .. Len(toWorker') : toWorker'[i].kind # "CHUNK"
      <3>1. \A i \in 1 .. Len(toWorker') : toWorker'[i] \in SourceMessages
        BY <1>2
      <3> QED BY <1>2, <3>1, SourceFacts DEF Comes, HasOne
    <2>17. NextIsNext'
      BY <1>1, <1>2, <2>4, <2>7, <2>16 DEF SourceInv, NextIsNext, netVars, mainVars
    <2> QED BY <1>1, <2>8, <2>13, <2>14, <2>15, <2>17 DEF SourceInv
  <1> QED BY <1>3, <1>4

\* The headers are taken.  With ranges the manager is given what has come before it.
LEMMA HeadersAreTaken ==
    ASSUME SourceInv, OnHeaders \/ OnHeadersFailed PROVE SourceInv'
  <1> DEFINE m == Head(toWorker)
  <1>1. /\ Receives(Headers) /\ UNCHANGED <<netVars, mainVars, toMain, loop, terminated, handed>>
    BY DEF OnHeaders, OnHeadersFailed, Receives, Headers
  <1>2. /\ toWorker' \in Seq(SourceMessages) /\ IsTaken(toWorker, m, toWorker')
        /\ m \in SourceMessages /\ m.kind \in Headers
        /\ \A kinds : HasOne(toWorker, OfKind(kinds)) <=>
                         HasOne(toWorker', OfKind(kinds)) \/ m.kind \in kinds
        /\ \A kinds : AtMostOne(toWorker, OfKind(kinds)) =>
                         /\ AtMostOne(toWorker', OfKind(kinds))
                         /\ m.kind \in kinds => ~HasOne(toWorker', OfKind(kinds))
    BY <1>1, SourceReceives
  <1>3. OnHeaders => m.kind = "HEADERS"
    BY DEF OnHeaders, Receives
  <1>4. OnHeadersFailed => m.kind # "HEADERS"
    BY DEF OnHeadersFailed, Receives
  <1> HIDE DEF m
  <1>5. /\ Comes(Data)' <=> Comes(Data)
        /\ Comes({"CHUNK"})' <=> Comes({"CHUNK"})
        /\ Comes({"CLOSE"})' <=> Comes({"CLOSE"})
        /\ AtMostOne(toWorker, OfKind(Data)) => AtMostOne(toWorker', OfKind(Data))
        /\ m.kind = "HEADERS" => Comes({"HEADERS"})
        /\ Comes({"HEADERS"})' => Comes({"HEADERS"})
        /\ Comes({"HEADERS"}) => m.kind = "HEADERS" \/ Comes({"HEADERS"})'
    <2>1. m.kind \notin Data /\ m.kind \notin {"CHUNK"} /\ m.kind \notin {"CLOSE"}
      BY <1>2 DEF Data, Headers
    <2> QED BY <1>2, <2>1 DEF Comes
  <1>6. \A i \in 1 .. Len(toWorker') : toWorker'[i].kind \notin Headers
    <2>1. \A i \in 1 .. Len(toWorker') : i + 1 \in 1 .. Len(toWorker) /\ toWorker'[i] = toWorker[i + 1]
                                         /\ i + 1 # 1
      BY <1>2 DEF IsTaken
    <2> QED BY <2>1 DEF SourceInv, HeadersFirst
  <1>7. ~Comes({"HEADERS"})'
    BY <1>6 DEF Comes, HasOne, OfKind, Headers
  <1>8. OneBaton' /\ CutOff'
    <2>1. Asks("PULL")' = Asks("PULL") /\ Asks("CANCEL")' = Asks("CANCEL")
      BY <1>1 DEF Asks
    <2>2. OneBaton'
      BY <1>1, <1>5, <2>1 DEF SourceInv, OneBaton, mainVars
    <2>3. CutOff'
      BY <1>1, <2>1 DEF SourceInv, CutOff, netVars, mainVars
    <2> QED BY <2>2, <2>3
  <1>9. response # "none" /\ plan \in [range : BOOLEAN, streaming : BOOLEAN, closes : BOOLEAN]
    <2>1. toWorker # << >>
      BY <1>1 DEF Receives
    <2> QED BY <2>1, SourceAssumption DEF SourceInv, SourceTypes, HeadersFirst
  <1>10. \A i \in 1 .. Len(toWorker') : toWorker'[i].kind = "CHUNK" =>
             \E j \in 1 .. Len(toWorker) : toWorker[j] = toWorker'[i]
    BY <1>2 DEF IsTaken
  <1>11. ASSUME Kept' = Kept, KeptInOrder', HeadersFirst', SourceTypes'
         PROVE  SourceInv'
    <2>1. NextIsNext'
      BY <1>1, <1>5, <1>10, <1>11 DEF SourceInv, NextIsNext, netVars, mainVars
    <2> QED BY <1>1, <1>8, <1>11, <2>1 DEF SourceInv
  <1>12. CASE OnHeaders /\ plan.range
    <2>1. /\ manager' = "net" /\ given' = cached /\ cached' = << >>
          /\ capability' \in {capability, "net"} /\ cancelXHRs' = FALSE
      BY <1>12 DEF OnHeaders, Resolves
    <2>2. manager = "none" /\ response = "ok"
      BY <1>3, <1>5, <1>12 DEF SourceInv, HeadersFirst
    <2>3. Kept' = Kept /\ Kept = cached
      BY <2>1, <2>2 DEF Kept
    <2>4. KeptInOrder'
      BY <2>1, <2>2, <2>3 DEF SourceInv, KeptInOrder
    <2>5. HeadersFirst'
      BY <1>1, <1>6, <1>7, <1>9, <2>1, <2>2 DEF HeadersFirst, netVars
    <2>6. SourceTypes'
      <3>1. /\ capability' \in {"pending", "rejected", "net", "local"} /\ cancelXHRs' \in BOOLEAN
            /\ manager' \in {"none", "net", "local"}
            /\ cached' \in Seq(Nat) /\ given' \in Seq(Nat)
        <4>1. /\ capability \in {"pending", "rejected", "net", "local"} /\ cached \in Seq(Nat)
              /\ << >> \in Seq(Nat)
          BY DEF SourceInv, SourceTypes
        <4> QED BY <2>1, <4>1
      <3> QED BY <1>1, <1>2, <3>1 DEF SourceInv, SourceTypes, netVars, mainVars
    <2> QED BY <1>11, <2>3, <2>4, <2>5, <2>6
  <1>13. CASE (OnHeaders /\ ~plan.range) \/ OnHeadersFailed
    <2>1. /\ UNCHANGED <<manager, given, cached>>
          /\ capability' \in {capability, "rejected"} /\ cancelXHRs' \in {cancelXHRs, FALSE}
      BY <1>13 DEF OnHeaders, OnHeadersFailed, Resolves
    <2>2. Kept' = Kept
      BY <2>1 DEF Kept
    <2>3. KeptInOrder'
      BY <2>1, <2>2 DEF SourceInv, KeptInOrder
    <2>4. response = "ok" /\ plan.range => manager = "net"
      BY <1>3, <1>4, <1>5, <1>7, <1>13 DEF SourceInv, HeadersFirst
    <2>5. HeadersFirst'
      BY <1>1, <1>6, <1>7, <1>9, <2>1, <2>4 DEF SourceInv, HeadersFirst, netVars
    <2>6. SourceTypes'
      <3>1. /\ capability' \in {"pending", "rejected", "net", "local"} /\ cancelXHRs' \in BOOLEAN
            /\ manager' \in {"none", "net", "local"}
            /\ cached' \in Seq(Nat) /\ given' \in Seq(Nat)
        BY <2>1 DEF SourceInv, SourceTypes
      <3> QED BY <1>1, <1>2, <3>1 DEF SourceInv, SourceTypes, netVars, mainVars
    <2> QED BY <1>11, <2>2, <2>3, <2>5, <2>6
  <1> QED BY <1>9, <1>12, <1>13

\* The manager is handed over or ended, and with it the reading.
LEMMA SourceEnds ==
    ASSUME SourceInv, HandOver \/ Terminate PROVE SourceInv'
  <1>1. UNCHANGED <<netVars, mainVars, toWorker>>
    BY DEF HandOver, Terminate
  <1>2. /\ terminated' \in BOOLEAN /\ handed' \in {"none", "net", "local", "ended"}
        /\ terminated' => handed' \in {"none", "ended"}
    <2>1. CASE HandOver
      <3>1. handed' = IF terminated THEN "ended" ELSE capability
        BY <2>1 DEF HandOver
      <3>2. terminated' = terminated /\ capability \in {"net", "local"} /\ terminated \in BOOLEAN
        BY <2>1 DEF HandOver, SourceInv, SourceTypes
      <3> QED BY <3>1, <3>2
    <2>2. CASE Terminate
      <3>1. terminated' = TRUE /\ handed' = IF handed = "none" THEN "none" ELSE "ended"
        BY <2>2 DEF Terminate
      <3> QED BY <3>1
    <2> QED BY <2>1, <2>2
  <1>3. /\ manager' = manager /\ given' = given /\ cached' = cached
        /\ loop' \in {loop, "over"} /\ capability' \in {capability, "rejected"}
        /\ cancelXHRs' \in {cancelXHRs, FALSE}
        /\ toMain' = toMain \/ (toMain' = Append(toMain, "CANCEL") /\ loop' = "over")
    <2>1. CASE ReaderCancelled
      <3>1. CASE loop = "wait"
        BY <2>1, <3>1 DEF ReaderCancelled, ReadDone, GoesOn, LoopFails, Resolves
      <3>2. CASE loop # "wait"
        BY <2>1, <3>2 DEF ReaderCancelled, SourceInv, SourceTypes
      <3> QED BY <3>1, <3>2
    <2>2. CASE GoesOnReading
      BY <2>2 DEF GoesOnReading
    <2> QED BY <2>1, <2>2 DEF HandOver, Terminate
  <1>4. /\ toMain' \in Seq({"PULL", "CANCEL"}) /\ AtMostOne(toMain', {"PULL"})
        /\ Asks("PULL")' <=> Asks("PULL")
        /\ loop' = "wait" => (Asks("CANCEL")' <=> Asks("CANCEL"))
    <2>1. toMain \in Seq({"PULL", "CANCEL"}) /\ "CANCEL" \in {"PULL", "CANCEL"}
          /\ AtMostOne(toMain, {"PULL"})
      BY DEF SourceInv, SourceTypes, OneBaton
    <2>2. CASE toMain' = toMain
      BY <2>1, <2>2 DEF Asks
    <2>3. CASE toMain' = Append(toMain, "CANCEL") /\ loop' = "over"
      <3>1. toMain' \in Seq({"PULL", "CANCEL"}) /\ IsPosted(toMain, "CANCEL", toMain')
        BY <2>1, <2>3, Posted
      <3>2. "CANCEL" \notin {"PULL"}
        OBVIOUS
      <3>3. AtMostOne(toMain', {"PULL"}) /\ (HasOne(toMain', {"PULL"}) <=> HasOne(toMain, {"PULL"}))
        BY <2>1, <3>1, <3>2, AfterPosting
      <3> QED BY <2>3, <3>1, <3>3 DEF Asks
    <2> QED BY <1>3, <2>2, <2>3
  <1>5. Kept' = Kept
    BY <1>3 DEF Kept
  <1>6. /\ Comes(Data)' = Comes(Data) /\ Comes({"HEADERS"})' = Comes({"HEADERS"})
        /\ Comes({"CHUNK"})' = Comes({"CHUNK"}) /\ Comes({"CLOSE"})' = Comes({"CLOSE"})
    BY <1>1 DEF Comes
  <1>7. SourceTypes'
    BY ZenonT(60), <1>1, <1>2, <1>3, <1>4 DEF SourceInv, SourceTypes, netVars, mainVars
  <1>8. OneBaton'
    BY <1>1, <1>4, <1>6 DEF SourceInv, OneBaton, mainVars
  <1>9. HeadersFirst'
    BY <1>1, <1>3, <1>6 DEF SourceInv, HeadersFirst, netVars
  <1>10. CutOff'
    BY <1>1, <1>3, <1>4 DEF SourceInv, CutOff, netVars, mainVars
  <1>11. KeptInOrder'
    BY <1>3, <1>5 DEF SourceInv, KeptInOrder
  <1>12. NextIsNext'
    BY <1>1, <1>3, <1>5, <1>6 DEF SourceInv, NextIsNext, netVars, mainVars
  <1> QED BY <1>2, <1>7, <1>8, <1>9, <1>10, <1>11, <1>12 DEF SourceInv

LEMMA SourceSteps ==
    ASSUME SourceInv, [SourceNext]_sourceVars PROVE SourceInv'
  BY HeadersArrive, BodyGrows, MainTakes, ReadIsAnswered, HeadersAreTaken, ChunkIsTaken,
     CloseIsTaken, ErrorIsTaken, LateIsDropped, SourceEnds, SourceStays
     DEF SourceNext, MainSteps, WorkerSteps

LEMMA SourceMeans ==
    ASSUME SourceInv PROVE SourceIsTheFile
  <1>1. capability = "local" => given = Prefix(Chunks)
    BY DEF SourceInv, KeptInOrder
  <1>2. /\ given \in Seq(Nat) /\ cached \in Seq(Nat) /\ manager \in {"none", "net", "local"}
    BY DEF SourceInv, SourceTypes
  <1>3. manager = "net" => given = Prefix(Len(given)) /\ cached = << >>
    BY <1>2, PrefixIs DEF SourceInv, KeptInOrder, Kept
  <1>4. manager = "none" => cached = Prefix(Len(cached)) /\ given = << >>
    BY <1>2, PrefixIs DEF SourceInv, KeptInOrder, Kept
  <1>5. terminated => handed \in {"none", "ended"}
    BY DEF SourceInv
  <1> QED BY <1>1, <1>3, <1>4, <1>5 DEF SourceIsTheFile, InOrder

ServerInv == subject = "server" => SourceInv

\* The manager that a server's document gets has the file: a local one all of it, one of
\* the network every chunk in order; and none is at work in a document that is terminated
\* (getPdfManager, worker.ts).
THEOREM SourceKeepsTheFile == ReadingSpec => []ServerGivesTheFile
  <1>1. ReadingInit => ServerInv
    BY SourceStarts DEF ReadingInit, ServerInv
  <1>2. ServerInv /\ [ReadingNext]_readingVars => ServerInv'
    <2> SUFFICES ASSUME ServerInv, [ReadingNext]_readingVars, subject' = "server" PROVE SourceInv'
      BY DEF ServerInv
    <2>1. CASE ServerStep
      BY <2>1, SourceSteps DEF ServerStep, OfServer, ServerInv
    <2>2. CASE UNCHANGED readingVars
      BY <2>2, SourceStays DEF readingVars, ServerInv
    <2> QED BY <2>1, <2>2 DEF ReadingNext, HostStep, XRefStep, LoaderStep, PagesStep, DocumentStep,
                              OfHost, OfXRef, OfLoader, OfPages, OfDocument
  <1>3. ServerInv => ServerGivesTheFile
    BY SourceMeans DEF ServerInv, ServerGivesTheFile
  <1> QED BY <1>1, <1>2, <1>3, PTL DEF ReadingSpec

------------------------------------------------------------------------------
(* TransportStream: the readers get what the host delivers.                 *)

Answers == {Pending, Done} \cup 1 .. MaxChunks

FullReaders ==
    [queue : Seq(1 .. MaxChunks), done : BOOLEAN, loaded : 0 .. MaxChunks,
     requests : Seq(1 .. MaxReads)]

\* The chunks that reads have returned.
Returned(reader) == reader.loaded - Len(reader.queue)

\* What reads have returned: first the chunks, then nothing yet, then the end.  The chunks
\* of the queue come next, and only when no read waits or has been told the end.
ReadsInOrder(back, chunks, asked, res) ==
    /\ back \in Nat /\ chunks \in Seq(1 .. MaxChunks) /\ asked \in Seq(1 .. MaxReads)
    /\ res \in Seq(Answers) /\ Len(res) <= MaxReads /\ back + Len(asked) <= Len(res)
    /\ \A i \in 1 .. Len(res) :
          /\ i <= back => res[i] = i
          /\ i > back /\ i <= back + Len(asked) => res[i] = Pending
          /\ i > back + Len(asked) => res[i] = Done
    /\ \A j \in 1 .. Len(chunks) : chunks[j] = back + j
    /\ \A j \in 1 .. Len(asked) : asked[j] = back + j
    /\ chunks # << >> => Len(res) = back

ReaderInOrder(reader, res) ==
    /\ reader \in FullReaders
    /\ ReadsInOrder(Returned(reader), reader.queue, reader.requests, res)

\* A reader that is not done has all that was sent, and told nobody the end; one that is
\* done has it as well, unless it was cancelled.
EndInTime(reader, res, n, over, cut) ==
    /\ n \in 0 .. MaxChunks /\ reader.loaded <= n
    /\ ~reader.done => /\ reader.loaded = n /\ ~over
                       /\ Returned(reader) + Len(reader.requests) = Len(res)
    /\ reader.done /\ ~cut => over /\ reader.loaded = n

BeforeReader ==
    /\ queuedChunks \in Seq(1 .. MaxChunks) /\ Len(queuedChunks) = sent
    /\ \A i \in 1 .. Len(queuedChunks) : queuedChunks[i] = i
    /\ results = << >> /\ skipped = {}

FullInv ==
    /\ queuedChunks \in Seq(1 .. MaxChunks) /\ progressiveDone \in BOOLEAN /\ closing \in BOOLEAN
    /\ sent \in 0 .. MaxChunks /\ results \in Seq(Answers)
    /\ ~HasFull => BeforeReader
    /\ HasFull => /\ full = <<Reader>>
                  /\ ReaderInOrder(Reader, results)
                  /\ EndInTime(Reader, results, sent, progressiveDone, closing)
                  /\ skipped \subseteq (0 .. MaxChunks) \X (0 .. MaxChunks)
                  /\ \A s \in skipped : s[2] <= Reader.loaded

\* A range reader is open until it has its data, which the next read gets.
RangeReaders ==
    [begin : 0 .. MaxChunks, end : 0 .. MaxChunks, queued : BOOLEAN, done : BOOLEAN,
     results : Seq(Int)]

RangeAsRead(reader, r) ==
    /\ reader \in RangeReaders /\ reader.begin < reader.end
    /\ ~reader.done => ~reader.queued /\ \A i \in 1 .. Len(reader.results) : reader.results[i] = Pending
    /\ reader.queued => reader.results = << >>
    /\ reader.done => \A i \in 1 .. Len(reader.results) :
          reader.results[i] = Done \/ (i = 1 /\ reader.results[i] = r)

\* Ranges do not overlap.
RangesAre(readers) ==
    /\ readers \in Seq(RangeReaders)
    /\ \A r \in 1 .. Len(readers) : RangeAsRead(readers[r], r)
    /\ \A r, s \in 1 .. Len(readers) :
          r # s => readers[s].end <= readers[r].begin \/ readers[r].end <= readers[s].begin

\* A reader is in the list once, if at all, and only as long as it is open.
ListIs(list, readers) ==
    /\ list \in Seq(1 .. Len(readers))
    /\ \A r \in 1 .. Len(readers) : HasOne(list, {r}) => ~readers[r].done
    /\ \A r \in 1 .. Len(readers) : AtMostOne(list, {r})

\* The readers that the host has not answered are in the list, until something is cancelled.
RangeInv ==
    /\ RangesAre(range) /\ ListIs(rangeReaders, range)
    /\ owed \subseteq 1 .. Len(range) /\ closing \in BOOLEAN /\ assertFailed \in BOOLEAN
    /\ ~closing => \A r \in owed : HasOne(rangeReaders, {r})
    /\ assertFailed => closing

LEMMA AnswersAre ==
    /\ Pending = 0 /\ Done = -1 /\ Answers \subseteq Int
    /\ \A i \in 1 .. MaxChunks : i \in Answers /\ i # Pending /\ i # Done /\ i > 0
    /\ \A a \in Answers : a # Pending /\ a # Done => a \in 1 .. MaxChunks
    /\ Pending \in Answers /\ Done \in Answers
  BY TransportAssumption DEF Pending, Done, Answers

\* What is known of a reader's lists.
LEMMA ReadsFacts ==
    ASSUME NEW back, NEW chunks, NEW asked, NEW res, ReadsInOrder(back, chunks, asked, res)
    PROVE  /\ back \in Nat /\ Len(chunks) \in Nat /\ Len(asked) \in Nat /\ Len(res) \in Nat
           /\ MaxReads \in Nat /\ MaxChunks \in Nat
           /\ chunks \in Seq(1 .. MaxChunks) /\ asked \in Seq(1 .. MaxReads) /\ res \in Seq(Answers)
           /\ Len(res) <= MaxReads /\ back + Len(asked) <= Len(res)
           /\ chunks # << >> => Len(res) = back /\ asked = << >>
  <1>1. /\ back \in Nat /\ chunks \in Seq(1 .. MaxChunks) /\ asked \in Seq(1 .. MaxReads)
        /\ res \in Seq(Answers) /\ Len(res) <= MaxReads /\ back + Len(asked) <= Len(res)
        /\ chunks # << >> => Len(res) = back
    BY DEF ReadsInOrder
  <1>2. Len(chunks) \in Nat /\ Len(asked) \in Nat /\ Len(res) \in Nat
    BY <1>1, LenProperties
  <1>3. chunks # << >> => Len(asked) = 0
    BY <1>1, <1>2
  <1>4. chunks # << >> => asked = << >>
    BY <1>1, <1>3, EmptySeq
  <1> QED BY <1>1, <1>2, <1>4, TransportAssumption

LEMMA AnswerIsAdded ==
    ASSUME NEW res \in Seq(Answers), NEW now \in Answers
    PROVE  /\ Append(res, now) \in Seq(Answers) /\ Len(Append(res, now)) \in Nat
           /\ Len(Append(res, now)) = Len(res) + 1 /\ Append(res, now)[Len(res) + 1] = now
           /\ \A i \in 1 .. Len(Append(res, now)) :
                 i = Len(res) + 1 \/ (i \in 1 .. Len(res) /\ Append(res, now)[i] = res[i])
  <1> DEFINE more == Append(res, now)
  <1>1. more \in Seq(Answers) /\ IsPosted(res, now, more)
    BY Posted
  <1> HIDE DEF more
  <1>2. /\ Len(more) \in Nat /\ Len(more) = Len(res) + 1 /\ more[Len(res) + 1] = now
        /\ \A i \in 1 .. Len(more) : i = Len(res) + 1 \/ (i \in 1 .. Len(res) /\ more[i] = res[i])
    BY <1>1 DEF IsPosted
  <1> QED BY <1>1, <1>2 DEF more

\* A new reader begins with what has come.
LEMMA ReaderIsNew ==
    ASSUME NEW chunks \in Seq(1 .. MaxChunks), \A i \in 1 .. Len(chunks) : chunks[i] = i
    PROVE  ReadsInOrder(0, chunks, << >>, << >>)
  <1>1. /\ << >> \in Seq(1 .. MaxReads) /\ << >> \in Seq(Answers) /\ Len(<< >>) = 0
        /\ MaxReads \in Nat /\ Len(chunks) \in Nat
    BY EmptySeq, LenProperties, TransportAssumption
  <1> QED BY <1>1 DEF ReadsInOrder

\* A read gets the next chunk of the queue.
LEMMA ChunkIsRead ==
    ASSUME NEW back, NEW chunks, NEW asked, NEW res, ReadsInOrder(back, chunks, asked, res),
           chunks # << >>, Len(res) < MaxReads
    PROVE  /\ Head(chunks) \in 1 .. MaxChunks /\ Len(Tail(chunks)) + 1 = Len(chunks)
           /\ Len(Tail(chunks)) \in Nat
           /\ ReadsInOrder(back + 1, Tail(chunks), asked, Append(res, Head(chunks)))
  <1> DEFINE rest == Tail(chunks)
             now  == Head(chunks)
             more == Append(res, now)
  <1>1. /\ back \in Nat /\ Len(chunks) \in Nat /\ Len(asked) = 0 /\ Len(res) \in Nat
        /\ chunks \in Seq(1 .. MaxChunks) /\ asked \in Seq(1 .. MaxReads) /\ res \in Seq(Answers)
        /\ Len(res) = back /\ MaxReads \in Nat
    BY ReadsFacts
  <1>2. rest \in Seq(1 .. MaxChunks) /\ now \in 1 .. MaxChunks /\ IsTaken(chunks, now, rest)
    BY <1>1, Taken
  <1>3. now \in Answers
    BY <1>2, AnswersAre
  <1>4. /\ more \in Seq(Answers) /\ Len(more) \in Nat /\ Len(more) = Len(res) + 1
        /\ more[Len(res) + 1] = now
        /\ \A i \in 1 .. Len(more) : i = Len(res) + 1 \/ (i \in 1 .. Len(res) /\ more[i] = res[i])
    BY <1>1, <1>3, AnswerIsAdded
  <1> HIDE DEF rest, now, more
  <1>5. now = back + 1
    BY <1>1, <1>2 DEF IsTaken, ReadsInOrder
  <1>6. \A i \in 1 .. Len(res) : res[i] = i
    BY <1>1 DEF ReadsInOrder
  <1>7. \A i \in 1 .. Len(more) : more[i] = i /\ i <= back + 1
    BY <1>1, <1>4, <1>5, <1>6
  <1>8. \A j \in 1 .. Len(rest) : rest[j] = back + 1 + j
    <2>1. \A j \in 1 .. Len(rest) : j + 1 \in 1 .. Len(chunks) /\ rest[j] = chunks[j + 1]
      BY <1>2 DEF IsTaken
    <2>2. \A j \in 1 .. Len(chunks) : chunks[j] = back + j
      BY DEF ReadsInOrder
    <2> QED BY <1>1, <2>1, <2>2
  <1>9. ReadsInOrder(back + 1, rest, asked, more)
    BY <1>1, <1>2, <1>4, <1>7, <1>8 DEF ReadsInOrder
  <1>10. Len(rest) + 1 = Len(chunks) /\ Len(rest) \in Nat
    BY <1>2 DEF IsTaken
  <1> QED BY <1>2, <1>9, <1>10 DEF rest, now, more

\* A read is told the end.
LEMMA EndIsRead ==
    ASSUME NEW back, NEW chunks, NEW asked, NEW res, ReadsInOrder(back, chunks, asked, res),
           chunks = << >>, Len(res) < MaxReads
    PROVE  ReadsInOrder(back, chunks, asked, Append(res, Done))
  <1> DEFINE more == Append(res, Done)
  <1>1. /\ back \in Nat /\ Len(chunks) \in Nat /\ Len(asked) \in Nat /\ Len(res) \in Nat
        /\ chunks \in Seq(1 .. MaxChunks) /\ asked \in Seq(1 .. MaxReads) /\ res \in Seq(Answers)
        /\ MaxReads \in Nat /\ back + Len(asked) <= Len(res)
    BY ReadsFacts
  <1>2. /\ more \in Seq(Answers) /\ Len(more) \in Nat /\ Len(more) = Len(res) + 1
        /\ more[Len(res) + 1] = Done
        /\ \A i \in 1 .. Len(more) : i = Len(res) + 1 \/ (i \in 1 .. Len(res) /\ more[i] = res[i])
    BY <1>1, AnswerIsAdded, AnswersAre
  <1> HIDE DEF more
  <1>3. \A i \in 1 .. Len(res) :
          /\ i <= back => res[i] = i
          /\ i > back /\ i <= back + Len(asked) => res[i] = Pending
          /\ i > back + Len(asked) => res[i] = Done
    BY DEF ReadsInOrder
  <1>4. \A i \in 1 .. Len(more) :
          /\ i <= back => more[i] = i
          /\ i > back /\ i <= back + Len(asked) => more[i] = Pending
          /\ i > back + Len(asked) => more[i] = Done
    BY <1>1, <1>2, <1>3
  <1>5. \A j \in 1 .. Len(asked) : asked[j] = back + j
    BY DEF ReadsInOrder
  <1>6. \A j \in 1 .. Len(chunks) : chunks[j] = back + j
    BY DEF ReadsInOrder
  <1>7. ReadsInOrder(back, chunks, asked, more)
    BY <1>1, <1>2, <1>4, <1>5, <1>6 DEF ReadsInOrder
  <1> QED BY <1>7 DEF more

\* A read waits behind the others.
LEMMA ReadWaitsItsTurn ==
    ASSUME NEW back, NEW chunks, NEW asked, NEW res, ReadsInOrder(back, chunks, asked, res),
           chunks = << >>, Len(res) < MaxReads, back + Len(asked) = Len(res)
    PROVE  LET waiting == Append(asked, Len(res) + 1)
           IN  /\ waiting \in Seq(1 .. MaxReads) /\ Len(waiting) \in Nat
               /\ Len(waiting) = Len(asked) + 1
               /\ ReadsInOrder(back, chunks, waiting, Append(res, Pending))
  <1> DEFINE more == Append(res, Pending)
             waiting == Append(asked, Len(res) + 1)
  <1>1. /\ back \in Nat /\ Len(chunks) \in Nat /\ Len(asked) \in Nat /\ Len(res) \in Nat
        /\ chunks \in Seq(1 .. MaxChunks) /\ asked \in Seq(1 .. MaxReads) /\ res \in Seq(Answers)
        /\ MaxReads \in Nat
    BY ReadsFacts
  <1>2. /\ more \in Seq(Answers) /\ Len(more) \in Nat /\ Len(more) = Len(res) + 1
        /\ more[Len(res) + 1] = Pending
        /\ \A i \in 1 .. Len(more) : i = Len(res) + 1 \/ (i \in 1 .. Len(res) /\ more[i] = res[i])
    BY <1>1, AnswerIsAdded, AnswersAre
  <1>3. Len(res) + 1 \in 1 .. MaxReads
    BY <1>1
  <1>4. waiting \in Seq(1 .. MaxReads) /\ IsPosted(asked, Len(res) + 1, waiting)
    BY <1>1, <1>3, Posted
  <1> HIDE DEF more, waiting
  <1>5. Len(waiting) \in Nat /\ Len(waiting) = Len(asked) + 1
    BY <1>4 DEF IsPosted
  <1>6. \A i \in 1 .. Len(res) :
          /\ i <= back => res[i] = i
          /\ i > back /\ i <= back + Len(asked) => res[i] = Pending
    BY DEF ReadsInOrder
  <1>7. \A i \in 1 .. Len(more) :
          /\ i <= back => more[i] = i
          /\ i > back /\ i <= back + Len(waiting) => more[i] = Pending
          /\ i <= back + Len(waiting)
    BY <1>1, <1>2, <1>5, <1>6
  <1>8. \A j \in 1 .. Len(waiting) : waiting[j] = back + j
    <2>1. \A j \in 1 .. Len(asked) : asked[j] = back + j
      BY DEF ReadsInOrder
    <2>2. \A j \in 1 .. Len(waiting) :
             (j \in 1 .. Len(asked) /\ waiting[j] = asked[j])
             \/ (j = Len(asked) + 1 /\ waiting[j] = Len(res) + 1)
      BY <1>4 DEF IsPosted
    <2> QED BY <1>1, <2>1, <2>2
  <1>9. \A j \in 1 .. Len(chunks) : chunks[j] = back + j
    BY DEF ReadsInOrder
  <1>10. back + Len(waiting) <= Len(more) /\ Len(more) <= MaxReads
    BY <1>1, <1>2, <1>5
  <1>11. ReadsInOrder(back, chunks, waiting, more)
    BY <1>1, <1>2, <1>4, <1>7, <1>8, <1>9, <1>10 DEF ReadsInOrder
  <1> QED BY <1>4, <1>5, <1>11 DEF more, waiting

\* A chunk that arrives is queued, or goes to the read that waits longest.
LEMMA ChunkIsQueued ==
    ASSUME NEW back, NEW chunks, NEW asked, NEW res, ReadsInOrder(back, chunks, asked, res),
           asked = << >>, Len(res) = back, back + Len(chunks) + 1 \in 1 .. MaxChunks
    PROVE  LET more == Append(chunks, back + Len(chunks) + 1)
           IN  Len(more) \in Nat /\ Len(more) = Len(chunks) + 1
               /\ ReadsInOrder(back, more, asked, res)
  <1> DEFINE chunk == back + Len(chunks) + 1
             more == Append(chunks, chunk)
  <1>1. /\ back \in Nat /\ Len(chunks) \in Nat /\ Len(asked) \in Nat /\ Len(res) \in Nat
        /\ chunks \in Seq(1 .. MaxChunks)
    BY ReadsFacts
  <1>2. more \in Seq(1 .. MaxChunks) /\ IsPosted(chunks, chunk, more)
    BY <1>1, Posted
  <1>3. chunk = back + (Len(chunks) + 1)
    BY <1>1
  <1> HIDE DEF more, chunk
  <1>4. \A j \in 1 .. Len(more) : more[j] = back + j
    <2>1. \A j \in 1 .. Len(chunks) : chunks[j] = back + j
      BY DEF ReadsInOrder
    <2>2. \A j \in 1 .. Len(more) : (j \in 1 .. Len(chunks) /\ more[j] = chunks[j])
                                    \/ (j = Len(chunks) + 1 /\ more[j] = chunk)
      BY <1>2 DEF IsPosted
    <2> QED BY <1>1, <1>3, <2>1, <2>2
  <1>5. Len(more) \in Nat /\ Len(more) = Len(chunks) + 1
    BY <1>2 DEF IsPosted
  <1>6. ReadsInOrder(back, more, asked, res)
    BY <1>2, <1>4 DEF ReadsInOrder
  <1> QED BY <1>5, <1>6 DEF more, chunk

Answered(res, place, chunk) == [i \in DOMAIN res |-> IF i = place THEN chunk ELSE res[i]]

LEMMA ChunkIsAwaited ==
    ASSUME NEW back, NEW chunks, NEW asked, NEW res, ReadsInOrder(back, chunks, asked, res),
           asked # << >>, back + 1 \in 1 .. MaxChunks,
           NEW after, after = Answered(res, Head(asked), back + 1)
    PROVE  /\ chunks = << >> /\ Len(Tail(asked)) \in Nat /\ Len(Tail(asked)) + 1 = Len(asked)
           /\ Len(after) = Len(res) /\ ReadsInOrder(back + 1, chunks, Tail(asked), after)
  <1> DEFINE rest == Tail(asked)
  <1>1. /\ back \in Nat /\ Len(chunks) \in Nat /\ Len(asked) \in Nat /\ Len(res) \in Nat
        /\ chunks \in Seq(1 .. MaxChunks) /\ asked \in Seq(1 .. MaxReads) /\ res \in Seq(Answers)
        /\ Len(res) <= MaxReads /\ back + Len(asked) <= Len(res) /\ MaxReads \in Nat
        /\ chunks = << >> /\ DOMAIN res = 1 .. Len(res)
    BY ReadsFacts, LenProperties
  <1>2. rest \in Seq(1 .. MaxReads) /\ IsTaken(asked, Head(asked), rest)
    BY <1>1, Taken
  <1> HIDE DEF rest
  <1>3. /\ Len(rest) \in Nat /\ Len(asked) = Len(rest) + 1
        /\ \A j \in 1 .. Len(rest) : j + 1 \in 1 .. Len(asked) /\ rest[j] = asked[j + 1]
    BY <1>2 DEF IsTaken
  <1>4. \A j \in 1 .. Len(asked) : asked[j] = back + j
    BY DEF ReadsInOrder
  <1>5. Head(asked) = back + 1
    BY <1>2, <1>4 DEF IsTaken
  <1>6. /\ after = [i \in 1 .. Len(res) |-> IF i = back + 1 THEN back + 1 ELSE res[i]]
    BY <1>1, <1>5 DEF Answered
  <1>7. \A i \in 1 .. Len(res) : (IF i = back + 1 THEN back + 1 ELSE res[i]) \in Answers
    BY <1>1, AnswersAre, ElementOfSeq
  <1>8. after \in Seq(Answers) /\ Len(after) = Len(res)
    BY <1>1, <1>6, <1>7, IsASeq
  <1>9. \A i \in 1 .. Len(res) :
          /\ i <= back => res[i] = i
          /\ i > back /\ i <= back + Len(asked) => res[i] = Pending
          /\ i > back + Len(asked) => res[i] = Done
    BY DEF ReadsInOrder
  <1>10. \A i \in 1 .. Len(after) : IF i = back + 1 THEN after[i] = back + 1 ELSE after[i] = res[i]
    BY <1>6, <1>8
  <1>11. \A i \in 1 .. Len(after) :
          /\ i <= back + 1 => after[i] = i
          /\ i > back + 1 /\ i <= back + 1 + Len(rest) => after[i] = Pending
          /\ i > back + 1 + Len(rest) => after[i] = Done
    BY <1>1, <1>3, <1>8, <1>9, <1>10
  <1>12. \A j \in 1 .. Len(rest) : rest[j] = back + 1 + j
    BY <1>1, <1>3, <1>4
  <1>13. back + 1 + Len(rest) <= Len(after) /\ Len(after) <= MaxReads /\ back + 1 \in Nat
    BY <1>1, <1>3, <1>8
  <1>14. ReadsInOrder(back + 1, chunks, rest, after)
    BY <1>1, <1>2, <1>8, <1>11, <1>12, <1>13 DEF ReadsInOrder
  <1> QED BY <1>1, <1>3, <1>8, <1>14 DEF rest

\* Those that wait are told the end.
LEMMA ReadsAreCancelled ==
    ASSUME NEW back, NEW chunks, NEW asked, NEW res, ReadsInOrder(back, chunks, asked, res),
           NEW after, after = [i \in DOMAIN res |-> IF res[i] = Pending THEN Done ELSE res[i]]
    PROVE  ReadsInOrder(back, chunks, << >>, after) /\ Len(after) = Len(res)
  <1>1. /\ back \in Nat /\ Len(chunks) \in Nat /\ Len(asked) \in Nat /\ Len(res) \in Nat
        /\ chunks \in Seq(1 .. MaxChunks) /\ asked \in Seq(1 .. MaxReads) /\ res \in Seq(Answers)
        /\ Len(res) <= MaxReads /\ back + Len(asked) <= Len(res)
        /\ DOMAIN res = 1 .. Len(res)
        /\ MaxReads \in Nat
    BY ReadsFacts, LenProperties
  <1>2. after = [i \in 1 .. Len(res) |-> IF res[i] = Pending THEN Done ELSE res[i]]
    BY <1>1
  <1>3. \A i \in 1 .. Len(res) : (IF res[i] = Pending THEN Done ELSE res[i]) \in Answers
    BY <1>1, AnswersAre, ElementOfSeq
  <1>4. after \in Seq(Answers) /\ Len(after) = Len(res)
    BY <1>1, <1>2, <1>3, IsASeq
  <1>5. \A i \in 1 .. Len(res) :
          /\ i <= back => res[i] = i
          /\ i > back /\ i <= back + Len(asked) => res[i] = Pending
          /\ i > back + Len(asked) => res[i] = Done
    BY DEF ReadsInOrder
  <1>6. \A i \in 1 .. Len(after) : after[i] = IF res[i] = Pending THEN Done ELSE res[i]
    BY <1>2, <1>4
  <1>7. \A i \in 1 .. Len(after) : (i <= back => after[i] = i) /\ (i > back => after[i] = Done)
    <2> SUFFICES ASSUME NEW i \in 1 .. Len(after)
                 PROVE  (i <= back => after[i] = i) /\ (i > back => after[i] = Done)
      OBVIOUS
    <2>1. i \in 1 .. Len(res) /\ i \in Int /\ i # Pending
      BY <1>1, <1>4, AnswersAre
    <2>2. i <= back => after[i] = i
      BY <1>5, <1>6, <2>1
    <2>3. i > back => res[i] \in {Pending, Done}
      BY <1>1, <1>5, <2>1
    <2>4. i > back => after[i] = Done
      BY <1>6, <2>1, <2>3
    <2> QED BY <2>2, <2>4
  <1>8. \A j \in 1 .. Len(chunks) : chunks[j] = back + j
    BY DEF ReadsInOrder
  <1>9. << >> \in Seq(1 .. MaxReads) /\ Len(<< >>) = 0
    BY EmptySeq
  <1>10. back + Len(<< >>) <= Len(after) /\ Len(after) <= MaxReads /\ back + Len(<< >>) = back
    BY <1>1, <1>4, <1>9
  <1>11. /\ \A i \in 1 .. Len(after) :
              /\ i <= back => after[i] = i
              /\ i > back /\ i <= back + Len(<< >>) => after[i] = Pending
              /\ i > back + Len(<< >>) => after[i] = Done
         /\ \A j \in 1 .. Len(<< >>) : << >>[j] = back + j
    BY <1>1, <1>4, <1>7, <1>9
  <1>12. chunks # << >> => Len(after) = back
    BY <1>4 DEF ReadsInOrder
  <1> QED BY <1>1, <1>4, <1>8, <1>9, <1>10, <1>11, <1>12 DEF ReadsInOrder

LEMMA ReaderFacts ==
    ASSUME FullInv, HasFull
    PROVE  /\ full = <<Reader>> /\ Reader \in FullReaders
           /\ Reader.queue \in Seq(1 .. MaxChunks) /\ Reader.requests \in Seq(1 .. MaxReads)
           /\ Reader.loaded \in 0 .. MaxChunks /\ Reader.done \in BOOLEAN
           /\ Returned(Reader) \in Nat /\ Len(Reader.queue) \in Nat /\ Len(Reader.requests) \in Nat
           /\ Returned(Reader) + Len(Reader.queue) = Reader.loaded
           /\ ReadsInOrder(Returned(Reader), Reader.queue, Reader.requests, results)
           /\ EndInTime(Reader, results, sent, progressiveDone, closing)
  <1>1. /\ full = <<Reader>> /\ Reader \in FullReaders
        /\ ReadsInOrder(Returned(Reader), Reader.queue, Reader.requests, results)
        /\ EndInTime(Reader, results, sent, progressiveDone, closing)
    BY DEF FullInv, ReaderInOrder
  <1> DEFINE reader == Reader
  <1> HIDE DEF reader
  <1>2. /\ reader.queue \in Seq(1 .. MaxChunks) /\ reader.requests \in Seq(1 .. MaxReads)
        /\ reader.loaded \in 0 .. MaxChunks /\ reader.done \in BOOLEAN
    <2>1. reader \in FullReaders
      BY <1>1 DEF reader
    <2> QED BY <2>1 DEF FullReaders
  <1>3. /\ Returned(reader) \in Nat /\ Len(reader.queue) \in Nat /\ Len(reader.requests) \in Nat
    BY <1>1, ReadsFacts DEF reader
  <1>4. Returned(reader) + Len(reader.queue) = reader.loaded
    <2>1. reader.loaded \in Int
      BY <1>2
    <2> QED BY <1>2, <1>3, <2>1 DEF Returned
  <1> QED BY <1>1, <1>2, <1>3, <1>4 DEF reader

\* The full reader becomes another one.
LEMMA FullBecomes ==
    ASSUME NEW reader \in FullReaders, full' = <<reader>>,
           queuedChunks' \in Seq(1 .. MaxChunks), progressiveDone' \in BOOLEAN, closing' \in BOOLEAN,
           sent' \in 0 .. MaxChunks, NEW back \in Nat, back + Len(reader.queue) = reader.loaded,
           ReadsInOrder(back, reader.queue, reader.requests, results'),
           EndInTime(reader, results', sent', progressiveDone', closing'),
           skipped' \subseteq (0 .. MaxChunks) \X (0 .. MaxChunks),
           \A s \in skipped' : s[2] <= reader.loaded
    PROVE  FullInv'
  <1>1. /\ reader.queue \in Seq(1 .. MaxChunks) /\ reader.loaded \in 0 .. MaxChunks
    BY DEF FullReaders
  <1>2. Len(reader.queue) \in Int /\ reader.loaded \in Int /\ back \in Int
    BY <1>1, LenProperties
  <1>3. Returned(reader) = back
    BY <1>2 DEF Returned
  <1>4. Reader' = reader /\ HasFull'
    BY DEF Reader, HasFull
  <1>5. results' \in Seq(Answers)
    BY DEF ReadsInOrder
  <1> QED BY <1>3, <1>4, <1>5 DEF FullInv, ReaderInOrder

LEMMA FullStays ==
    ASSUME FullInv, UNCHANGED <<queuedChunks, progressiveDone, full, results, skipped, sent>>,
           closing' \in BOOLEAN, closing => closing'
    PROVE  FullInv'
  <1>1. closing \in BOOLEAN
    BY DEF FullInv
  <1>2. HasFull' = HasFull /\ Reader' = Reader
    BY DEF HasFull, Reader
  <1>3. HasFull => EndInTime(Reader, results, sent, progressiveDone, closing')
    BY <1>1 DEF FullInv, EndInTime
  <1>4. BeforeReader => BeforeReader'
    BY DEF BeforeReader
  <1> QED BY <1>2, <1>3, <1>4 DEF FullInv

LEMMA FullStarts ==
    ASSUME Init PROVE FullInv
  <1>1. queuedChunks \in Seq(1 .. MaxChunks) /\ \A i \in 1 .. Len(queuedChunks) : queuedChunks[i] = i
    <2>1. 1 \in 1 .. MaxChunks
      BY TransportAssumption
    <2>2. CASE queuedChunks = << >>
      BY <2>2, EmptySeq
    <2>3. CASE queuedChunks = <<1>>
      BY <2>1, <2>3
    <2> QED BY <2>2, <2>3 DEF Init
  <1>2. sent \in 0 .. MaxChunks /\ Len(queuedChunks) = sent
    <2>1. Len(queuedChunks) \in {0, 1}
      BY DEF Init
    <2> QED BY <2>1, TransportAssumption DEF Init
  <1>3. ~HasFull /\ results = << >> /\ skipped = {} /\ progressiveDone \in BOOLEAN /\ closing = FALSE
    BY DEF Init, HasFull
  <1>4. results \in Seq(Answers)
    BY <1>3, EmptySeq
  <1> QED BY <1>1, <1>2, <1>3, <1>4 DEF FullInv, BeforeReader

LEMMA FullIsMade ==
    ASSUME FullInv, GetFullReader PROVE FullInv'
  <1> DEFINE reader == NewFullReader(queuedChunks, progressiveDone)
  <1>1. /\ ~HasFull /\ full' = <<reader>> /\ queuedChunks' = << >>
        /\ UNCHANGED <<progressiveDone, results, skipped, sent, closing>>
    BY DEF GetFullReader
  <1>2. /\ queuedChunks \in Seq(1 .. MaxChunks) /\ Len(queuedChunks) = sent
        /\ \A i \in 1 .. Len(queuedChunks) : queuedChunks[i] = i
        /\ results = << >> /\ skipped = {}
        /\ progressiveDone \in BOOLEAN /\ closing \in BOOLEAN /\ sent \in 0 .. MaxChunks
    BY <1>1 DEF FullInv, BeforeReader
  <1>3. /\ reader.queue = queuedChunks /\ reader.done = progressiveDone /\ reader.loaded = sent
        /\ reader.requests = << >>
    BY <1>2 DEF NewFullReader
  <1>4. reader \in FullReaders /\ queuedChunks' \in Seq(1 .. MaxChunks) /\ sent \in Int
    BY <1>1, <1>2, EmptySeq DEF NewFullReader, FullReaders
  <1> HIDE DEF reader
  <1>5. ReadsInOrder(0, queuedChunks, << >>, << >>)
    BY <1>2, ReaderIsNew
  <1>6. Returned(reader) = 0 /\ 0 + Len(reader.queue) = reader.loaded
    BY <1>2, <1>3, <1>4 DEF Returned
  <1>7. EndInTime(reader, << >>, sent, progressiveDone, closing)
    <2>1. Len(reader.requests) = 0 /\ Len(<< >>) = 0 /\ 0 + 0 = 0
      BY <1>3
    <2>2. Returned(reader) + Len(reader.requests) = Len(<< >>)
      BY <1>6, <2>1
    <2> QED BY <1>2, <1>3, <1>4, <2>2 DEF EndInTime
  <1> QED BY <1>1, <1>2, <1>3, <1>4, <1>5, <1>6, <1>7, FullBecomes

LEMMA FullIsRead ==
    ASSUME FullInv, ReadFull PROVE FullInv'
  <1> DEFINE now   == ReadNow(Reader)
             after == [Reader EXCEPT
                          !.queue    = IF now \in {Pending, Done} THEN @ ELSE Tail(@),
                          !.requests = IF now = Pending THEN Append(@, Len(results) + 1) ELSE @]
             back  == Returned(Reader)
  <1>1. /\ HasFull /\ Len(results) < MaxReads /\ results' = Append(results, now) /\ full' = <<after>>
        /\ UNCHANGED <<queuedChunks, progressiveDone, skipped, sent, closing>>
    BY DEF ReadFull
  <1>2. /\ Reader \in FullReaders
        /\ Reader.queue \in Seq(1 .. MaxChunks) /\ Reader.requests \in Seq(1 .. MaxReads)
        /\ Reader.loaded \in 0 .. MaxChunks /\ Reader.done \in BOOLEAN
        /\ back \in Nat /\ Len(Reader.queue) \in Nat /\ Len(Reader.requests) \in Nat
        /\ back + Len(Reader.queue) = Reader.loaded
        /\ ReadsInOrder(back, Reader.queue, Reader.requests, results)
        /\ EndInTime(Reader, results, sent, progressiveDone, closing)
    BY <1>1, ReaderFacts
  <1>3. /\ queuedChunks' \in Seq(1 .. MaxChunks) /\ progressiveDone' \in BOOLEAN /\ closing' \in BOOLEAN
        /\ sent' \in 0 .. MaxChunks /\ skipped' \subseteq (0 .. MaxChunks) \X (0 .. MaxChunks)
        /\ \A s \in skipped' : s[2] <= Reader.loaded
    BY <1>1 DEF FullInv
  <1>4. ASSUME NEW q \in Seq(1 .. MaxChunks), NEW waiting \in Seq(1 .. MaxReads),
               after = [Reader EXCEPT !.queue = q, !.requests = waiting],
               NEW b \in Nat, b + Len(q) = Reader.loaded,
               ReadsInOrder(b, q, waiting, results'),
               ~Reader.done => b + Len(waiting) = Len(results')
        PROVE  FullInv'
    <2>1. /\ after \in FullReaders /\ after.queue = q /\ after.requests = waiting
          /\ after.loaded = Reader.loaded /\ after.done = Reader.done
      BY <1>2, <1>4 DEF FullReaders
    <2> HIDE DEF after
    <2>2. Len(q) \in Int /\ Reader.loaded \in Int
      BY <1>2, LenProperties
    <2>3. Returned(after) = b
      BY <1>4, <2>1, <2>2 DEF Returned
    <2>4. EndInTime(after, results', sent', progressiveDone', closing')
      BY <1>1, <1>2, <1>4, <2>1, <2>3 DEF EndInTime
    <2> QED BY <1>1, <1>3, <1>4, <2>1, <2>4, FullBecomes
  <1>5. Len(results) \in Nat /\ MaxReads \in Nat
    BY <1>2, ReadsFacts
  <1>6. CASE Reader.queue # << >>
    <2>1. /\ Head(Reader.queue) \in 1 .. MaxChunks
          /\ Len(Tail(Reader.queue)) + 1 = Len(Reader.queue) /\ Len(Tail(Reader.queue)) \in Nat
          /\ ReadsInOrder(back + 1, Tail(Reader.queue), Reader.requests, Append(results, Head(Reader.queue)))
      BY <1>1, <1>2, <1>6, ChunkIsRead
    <2>2. now = Head(Reader.queue) /\ now \notin {Pending, Done} /\ now # Pending
      BY <1>6, <2>1, AnswersAre DEF ReadNow
    <2>3. after = [Reader EXCEPT !.queue = Tail(Reader.queue), !.requests = Reader.requests]
      BY <2>2
    <2>4. /\ Tail(Reader.queue) \in Seq(1 .. MaxChunks)
          /\ back + 1 + Len(Tail(Reader.queue)) = Reader.loaded /\ back + 1 \in Nat
      <3> HIDE DEF back
      <3>1. Tail(Reader.queue) \in Seq(1 .. MaxChunks)
        BY <1>2, <1>6, HeadTailProperties
      <3> DEFINE n == Len(Reader.queue)
                 m == Len(Tail(Reader.queue))
                 l == Reader.loaded
      <3>2. /\ back \in Int /\ n \in Int /\ m \in Int /\ l \in Int /\ back + n = l /\ m + 1 = n
        BY <1>2, <2>1
      <3> HIDE DEF n, m, l
      <3>3. back + 1 + m = l
        BY <3>2
      <3>4. back + 1 \in Nat
        BY <1>2
      <3> QED BY <3>1, <3>3, <3>4 DEF m, l
    <2>5. results' = Append(results, Head(Reader.queue))
      BY <1>1, <2>2
    <2>6. Len(results) = back /\ Len(Reader.requests) = 0 /\ Len(results') = Len(results) + 1
      <3>1. Len(results) = back /\ Reader.requests = << >> /\ results \in Seq(Answers)
            /\ Head(Reader.queue) \in Answers
        <4>1. Head(Reader.queue) \in Answers
          BY <2>1, AnswersAre, Zenon
        <4> QED BY <1>2, <1>6, <4>1, ReadsFacts, Zenon
      <3> QED BY <2>5, <3>1, AnswerIsAdded
    <2>7. back + 1 + Len(Reader.requests) = Len(results')
      BY <1>2, <2>6
    <2> HIDE DEF after, now, back
    <2> QED BY <1>2, <1>4, <2>1, <2>3, <2>4, <2>5, <2>7
  <1>7. CASE Reader.queue = << >> /\ Reader.done
    <2>1. now = Done /\ now # Pending
      BY <1>7, AnswersAre DEF ReadNow
    <2>2. after = [Reader EXCEPT !.queue = Reader.queue, !.requests = Reader.requests]
      BY <2>1
    <2>3. ReadsInOrder(back, Reader.queue, Reader.requests, results')
      BY <1>1, <1>2, <1>7, <2>1, EndIsRead
    <2> HIDE DEF after, now, back
    <2> QED BY <1>2, <1>4, <1>7, <2>2, <2>3
  <1>8. CASE Reader.queue = << >> /\ ~Reader.done
    <2> DEFINE waiting == Append(Reader.requests, Len(results) + 1)
    <2>1. now = Pending
      BY <1>8, AnswersAre DEF ReadNow
    <2>2. after = [Reader EXCEPT !.queue = Reader.queue, !.requests = waiting]
      BY <2>1
    <2>3. back + Len(Reader.requests) = Len(results)
      BY <1>2, <1>8 DEF EndInTime
    <2>4. /\ waiting \in Seq(1 .. MaxReads) /\ Len(waiting) \in Nat
          /\ Len(waiting) = Len(Reader.requests) + 1
          /\ ReadsInOrder(back, Reader.queue, waiting, Append(results, Pending))
      BY <1>1, <1>2, <1>8, <2>3, ReadWaitsItsTurn
    <2>5. results' = Append(results, Pending) /\ Len(results') = Len(results) + 1
      <3>1. results \in Seq(Answers) /\ Pending \in Answers
        BY <1>2, ReadsFacts, AnswersAre
      <3> QED BY <1>1, <2>1, <3>1, AnswerIsAdded
    <2>6. back + Len(waiting) = Len(results')
      <3> HIDE DEF back, waiting
      <3> DEFINE r == Len(Reader.requests)
                 w == Len(waiting)
                 n == Len(results)
                 m == Len(results')
      <3>1. /\ back \in Int /\ r \in Int /\ w \in Int /\ n \in Int /\ m \in Int
            /\ back + r = n /\ w = r + 1 /\ m = n + 1
        BY <1>2, <1>5, <2>3, <2>4, <2>5
      <3> HIDE DEF r, w, n, m
      <3>2. back + w = m
        BY <3>1
      <3> QED BY <3>2 DEF w, m
    <2> HIDE DEF after, now, back, waiting
    <2> QED BY <1>2, <1>4, <2>2, <2>4, <2>5, <2>6
  <1> QED BY <1>2, <1>6, <1>7, <1>8

\* The full reader is cancelled: what is queued stays.
LEMMA FullIsCancelled ==
    ASSUME FullInv, HasFull, full' = <<CancelledFull(Reader)>>, results' = ResultsCancelled,
           closing' = TRUE, UNCHANGED <<queuedChunks, progressiveDone, skipped, sent>>
    PROVE  FullInv'
  <1> DEFINE after == CancelledFull(Reader)
  <1>1. /\ Reader \in FullReaders /\ Reader.queue \in Seq(1 .. MaxChunks)
        /\ Returned(Reader) \in Nat
        /\ Returned(Reader) + Len(Reader.queue) = Reader.loaded
        /\ ReadsInOrder(Returned(Reader), Reader.queue, Reader.requests, results)
        /\ EndInTime(Reader, results, sent, progressiveDone, closing)
    BY ReaderFacts
  <1>2. /\ after \in FullReaders /\ after.queue = Reader.queue /\ after.requests = << >>
        /\ after.loaded = Reader.loaded /\ after.done = TRUE
    <2>1. << >> \in Seq(1 .. MaxReads)
      BY EmptySeq
    <2> QED BY <1>1, <2>1 DEF CancelledFull, FullReaders
  <1> HIDE DEF after
  <1>3. ReadsInOrder(Returned(Reader), Reader.queue, << >>, results')
    BY <1>1, ReadsAreCancelled DEF ResultsCancelled
  <1>4. EndInTime(after, results', sent', progressiveDone', closing')
    BY <1>1, <1>2 DEF EndInTime
  <1>5. /\ queuedChunks' \in Seq(1 .. MaxChunks) /\ progressiveDone' \in BOOLEAN /\ closing' \in BOOLEAN
        /\ sent' \in 0 .. MaxChunks /\ skipped' \subseteq (0 .. MaxChunks) \X (0 .. MaxChunks)
        /\ \A s \in skipped' : s[2] <= after.loaded
    BY <1>2 DEF FullInv
  <1>6. full' = <<after>>
    BY DEF after
  <1> QED BY <1>1, <1>2, <1>3, <1>4, <1>5, <1>6, FullBecomes

LEMMA AllFullIsCancelled ==
    ASSUME FullInv, CancelFull \/ CancelAll PROVE FullInv'
  <1>1. /\ results' = ResultsCancelled /\ closing' = TRUE
        /\ UNCHANGED <<queuedChunks, progressiveDone, skipped, sent>>
    BY DEF CancelFull, CancelAll
  <1>2. HasFull => full' = <<CancelledFull(Reader)>>
    <2>1. CASE CancelFull
      BY <2>1 DEF CancelFull
    <2>2. CASE CancelAll
      <3>1. ASSUME HasFull PROVE full' = <<CancelledFull(Reader)>>
        <4>1. full = <<Reader>> /\ DOMAIN full = {1} /\ full[1] = Reader
          BY <3>1 DEF FullInv, Reader
        <4>2. full' = [i \in {1} |-> CancelledFull(Reader)]
          BY <2>2, <4>1 DEF CancelAll
        <4> QED BY <4>2
      <3> QED BY <3>1
    <2> QED BY <2>1, <2>2
  <1>3. ~HasFull => full' = full /\ results' = results
    <2> SUFFICES ASSUME ~HasFull PROVE full' = full /\ results' = results
      OBVIOUS
    <2>1. full' = full
      BY DEF CancelFull, CancelAll, HasFull
    <2>2. results = << >>
      BY DEF FullInv, BeforeReader
    <2>3. results' = results
      BY <1>1, <2>2 DEF ResultsCancelled
    <2> QED BY <2>1, <2>3
  <1>4. closing' \in BOOLEAN
    BY <1>1
  <1> QED BY <1>1, <1>2, <1>3, <1>4, FullIsCancelled, FullStays

\* There is no more data.
LEMMA FullIsDone ==
    ASSUME FullInv, ReceiveProgressiveDone PROVE FullInv'
  <1>1. /\ ~progressiveDone /\ progressiveDone' = TRUE
        /\ full' = [i \in DOMAIN full |-> [full[i] EXCEPT !.done = TRUE]]
        /\ UNCHANGED <<queuedChunks, results, skipped, sent, closing>>
    BY DEF ReceiveProgressiveDone
  <1>2. CASE HasFull
    <2> DEFINE after == [Reader EXCEPT !.done = TRUE]
    <2>1. /\ Reader \in FullReaders /\ Reader.queue \in Seq(1 .. MaxChunks)
          /\ Reader.loaded \in 0 .. MaxChunks /\ Reader.done \in BOOLEAN
          /\ Returned(Reader) \in Nat /\ full = <<Reader>>
          /\ Returned(Reader) + Len(Reader.queue) = Reader.loaded
          /\ ReadsInOrder(Returned(Reader), Reader.queue, Reader.requests, results)
          /\ EndInTime(Reader, results, sent, progressiveDone, closing)
      BY <1>2, ReaderFacts
    <2>2. full' = <<after>>
      <3>1. DOMAIN full = {1} /\ full[1] = Reader
        BY <2>1 DEF Reader
      <3>2. \A i \in DOMAIN full : [full[i] EXCEPT !.done = TRUE] = after
        BY <3>1, Zenon
      <3> HIDE DEF after
      <3>3. full' = [i \in {1} |-> after]
        BY <1>1, <3>1, <3>2
      <3> QED BY <3>3
    <2>3. /\ after \in FullReaders /\ after.queue = Reader.queue /\ after.requests = Reader.requests
          /\ after.loaded = Reader.loaded /\ after.done = TRUE
      BY <2>1 DEF FullReaders
    <2> HIDE DEF after
    <2>4. EndInTime(after, results', sent', progressiveDone', closing')
      BY <1>1, <2>1, <2>3 DEF EndInTime
    <2>5. /\ queuedChunks' \in Seq(1 .. MaxChunks) /\ progressiveDone' \in BOOLEAN
          /\ closing' \in BOOLEAN /\ sent' \in 0 .. MaxChunks
          /\ skipped' \subseteq (0 .. MaxChunks) \X (0 .. MaxChunks)
          /\ \A s \in skipped' : s[2] <= after.loaded
      BY <1>1, <1>2, <2>3 DEF FullInv
    <2> QED BY <1>1, <2>1, <2>2, <2>3, <2>4, <2>5, FullBecomes
  <1>3. CASE ~HasFull
    <2>1. full' = full
      BY <1>1, <1>3 DEF HasFull
    <2> QED BY <1>1, <1>3, <2>1 DEF FullInv, BeforeReader, HasFull
  <1> QED BY <1>2, <1>3

\* The next chunk comes.
LEMMA ChunkHasCome ==
    ASSUME FullInv, ReceiveProgressive PROVE FullInv'
  <1>1. /\ ~progressiveDone /\ sent < MaxChunks /\ sent' = sent + 1
        /\ UNCHANGED <<progressiveDone, skipped, closing>>
    BY DEF ReceiveProgressive
  <1>2. /\ sent \in 0 .. MaxChunks /\ sent \in Int /\ MaxChunks \in Int /\ sent' \in 1 .. MaxChunks
        /\ sent' \in 0 .. MaxChunks
        /\ queuedChunks \in Seq(1 .. MaxChunks) /\ progressiveDone' \in BOOLEAN
        /\ closing' \in BOOLEAN /\ closing \in BOOLEAN
    BY <1>1, TransportAssumption DEF FullInv
  <1>3. CASE ~HasFull
    <2>1. /\ queuedChunks' = Append(queuedChunks, sent') /\ UNCHANGED <<full, results>>
      BY <1>3 DEF ReceiveProgressive
    <2>2. BeforeReader
      BY <1>3 DEF FullInv
    <2>3. queuedChunks' \in Seq(1 .. MaxChunks) /\ IsPosted(queuedChunks, sent', queuedChunks')
      BY <1>2, <2>1, Posted
    <2>4. Len(queuedChunks') = sent' /\ \A i \in 1 .. Len(queuedChunks') : queuedChunks'[i] = i
      BY <1>1, <1>2, <2>2, <2>3 DEF IsPosted, BeforeReader
    <2> QED BY <1>1, <1>2, <1>3, <2>1, <2>2, <2>3, <2>4 DEF FullInv, BeforeReader, HasFull
  <1>4. CASE HasFull
    <2> DEFINE back == Returned(Reader)
    <2>1. /\ Reader \in FullReaders /\ full = <<Reader>>
          /\ Reader.queue \in Seq(1 .. MaxChunks) /\ Reader.requests \in Seq(1 .. MaxReads)
          /\ Reader.loaded \in 0 .. MaxChunks /\ Reader.done \in BOOLEAN
          /\ back \in Nat /\ Len(Reader.queue) \in Nat /\ Len(Reader.requests) \in Nat
          /\ back + Len(Reader.queue) = Reader.loaded
          /\ ReadsInOrder(back, Reader.queue, Reader.requests, results)
          /\ EndInTime(Reader, results, sent, progressiveDone, closing)
      BY <1>4, ReaderFacts
    <2>2. /\ skipped' \subseteq (0 .. MaxChunks) \X (0 .. MaxChunks)
          /\ \A s \in skipped : s \in (0 .. MaxChunks) \X (0 .. MaxChunks) /\ s[2] <= Reader.loaded
      BY <1>1, <1>4 DEF FullInv
    <2> HIDE DEF back
    <2>3. CASE Reader.done
      <3>1. UNCHANGED <<queuedChunks, full, results>>
        BY <1>4, <2>3 DEF ReceiveProgressive
      <3>2. EndInTime(Reader, results', sent', progressiveDone', closing')
        <4>1. Reader.loaded \in Int /\ Reader.loaded <= sent'
          BY <1>1, <1>2, <2>1 DEF EndInTime
        <4> QED BY <1>1, <1>2, <2>1, <2>3, <3>1, <4>1 DEF EndInTime
      <3>3. full' = <<Reader>> /\ queuedChunks' \in Seq(1 .. MaxChunks)
            /\ \A s \in skipped' : s[2] <= Reader.loaded
        BY <1>1, <1>2, <2>1, <2>2, <3>1
      <3>4. ReadsInOrder(back, Reader.queue, Reader.requests, results')
        BY <2>1, <3>1
      <3> QED BY <1>2, <2>1, <2>2, <3>2, <3>3, <3>4, FullBecomes
    <2>4. CASE ~Reader.done
      <3> DEFINE chunks == Reader.queue
                 asked == Reader.requests
                 loaded == Reader.loaded
                 after == EnqueueFull(Reader, sent')
      <3>1. /\ queuedChunks' = queuedChunks /\ full' = <<after>>
            /\ results' = [i \in DOMAIN results |->
                  IF asked # << >> /\ i = Head(asked) THEN sent' ELSE results[i]]
        BY <1>4, <2>4 DEF ReceiveProgressive
      <3>2. /\ chunks \in Seq(1 .. MaxChunks) /\ asked \in Seq(1 .. MaxReads)
            /\ loaded \in Int /\ Len(chunks) \in Nat /\ Len(asked) \in Nat
            /\ back \in Nat /\ back + Len(chunks) = loaded
            /\ ReadsInOrder(back, chunks, asked, results)
            /\ loaded = sent /\ back + Len(asked) = Len(results)
        BY <2>1, <2>4 DEF EndInTime, back
      <3>3. ASSUME NEW q \in Seq(1 .. MaxChunks), NEW waiting \in Seq(1 .. MaxReads),
                   after = [Reader EXCEPT !.queue = q, !.requests = waiting, !.loaded = sent'],
                   NEW b \in Nat, b + Len(q) = sent', ReadsInOrder(b, q, waiting, results'),
                   b + Len(waiting) = Len(results')
            PROVE  FullInv'
        <4>1. /\ after \in FullReaders /\ after.queue = q /\ after.requests = waiting
              /\ after.loaded = sent' /\ after.done = Reader.done
          BY <1>2, <2>1, <3>3 DEF FullReaders
        <4> HIDE DEF after, loaded, chunks, asked
        <4>2. Returned(after) = b
          <5>1. Len(q) \in Int
            BY LenProperties
          <5> QED BY <1>2, <3>3, <4>1, <5>1 DEF Returned
        <4>3. EndInTime(after, results', sent', progressiveDone', closing')
          BY <1>1, <1>2, <2>4, <3>3, <4>1, <4>2 DEF EndInTime
        <4>4. \A s \in skipped' : s[2] <= after.loaded
          <5> SUFFICES ASSUME NEW s \in skipped PROVE s[2] <= sent'
            BY <1>1, <4>1
          <5>1. s[2] <= loaded /\ s[2] \in Int
            BY <1>2, <2>2 DEF loaded
          <5> QED BY <1>1, <1>2, <3>2, <5>1
        <4>5. queuedChunks' \in Seq(1 .. MaxChunks)
          BY <1>2, <3>1
        <4> QED BY <1>1, <1>2, <2>2, <3>1, <3>3, <4>1, <4>3, <4>4, <4>5, FullBecomes
      <3>4. CASE asked = << >>
        <4> HIDE DEF after
        <4>1. Len(asked) = 0 /\ Len(results) = back
          BY <3>2, <3>4
        <4>2. /\ back + Len(chunks) + 1 = sent'
          BY <1>1, <3>2
        <4> DEFINE q == Append(chunks, sent')
        <4>3. Len(q) \in Nat /\ Len(q) = Len(chunks) + 1 /\ ReadsInOrder(back, q, asked, results)
          BY <1>2, <3>2, <3>4, <4>1, <4>2, ChunkIsQueued
        <4>4. results' = results
          <5>1. results \in Seq(Answers)
            BY <3>2, ReadsFacts
          <5>2. results' = [i \in DOMAIN results |-> results[i]]
            BY <3>1, <3>4
          <5> QED BY <5>1, <5>2
        <4>5. after = [Reader EXCEPT !.queue = q, !.requests = asked, !.loaded = sent']
          <5>1. after = [Reader EXCEPT !.queue = Append(@, sent'), !.loaded = @ + 1]
            BY <3>4 DEF after, EnqueueFull
          <5>2. Reader.loaded + 1 = sent'
            BY <1>1, <3>2
          <5> QED BY <2>1, <5>1, <5>2 DEF FullReaders
        <4>6. q \in Seq(1 .. MaxChunks)
          BY <4>3 DEF ReadsInOrder
        <4>7. back + Len(q) = sent'
          <5> HIDE DEF chunks, q
          <5> QED BY <3>2, <4>2, <4>3
        <4>8. back + Len(asked) = Len(results') /\ ReadsInOrder(back, q, asked, results')
          BY <3>2, <4>3, <4>4
        <4> HIDE DEF chunks, asked, loaded, q
        <4> QED BY <3>2, <3>3, <4>5, <4>6, <4>7, <4>8
      <3>5. CASE asked # << >>
        <4> HIDE DEF after
        <4> DEFINE rest == Tail(asked)
        <4>1. chunks = << >> /\ Len(chunks) = 0 /\ back + 1 = sent'
          <5>1. chunks = << >>
            BY <3>2, <3>5, ReadsFacts
          <5> HIDE DEF chunks
          <5> QED BY <1>1, <3>2, <5>1
        <4>2. results' = Answered(results, Head(asked), back + 1)
          BY <3>1, <3>5, <4>1 DEF Answered
        <4>3. /\ Len(rest) \in Nat /\ Len(rest) + 1 = Len(asked)
              /\ Len(results') = Len(results) /\ ReadsInOrder(back + 1, chunks, rest, results')
          <5>1. ReadsInOrder(back, chunks, asked, results) /\ back + 1 \in 1 .. MaxChunks
            BY <1>2, <3>2, <4>1
          <5> HIDE DEF chunks, asked
          <5> QED BY <3>5, <4>2, <5>1, ChunkIsAwaited
        <4>4. after = [Reader EXCEPT !.queue = chunks, !.requests = rest, !.loaded = sent']
          <5>1. after = [Reader EXCEPT !.requests = Tail(@), !.loaded = @ + 1]
            BY <3>5 DEF after, EnqueueFull
          <5>2. Reader.loaded + 1 = sent'
            BY <1>1, <3>2
          <5> QED BY <2>1, <5>1, <5>2 DEF FullReaders
        <4>5. rest \in Seq(1 .. MaxReads) /\ back + 1 \in Nat
          BY <4>3 DEF ReadsInOrder
        <4>6. back + 1 + Len(chunks) = sent'
          <5> HIDE DEF chunks
          <5> QED BY <3>2, <4>1
        <4>7. back + 1 + Len(rest) = Len(results')
          <5> HIDE DEF asked, rest
          <5> QED BY <3>2, <4>3
        <4> HIDE DEF chunks, asked, loaded, rest
        <4> QED BY <3>2, <3>3, <4>3, <4>4, <4>5, <4>6, <4>7
      <3> QED BY <3>4, <3>5
    <2> QED BY <2>1, <2>3, <2>4
  <1> QED BY <1>3, <1>4

\* A range is asked for: it comes from the full reader when that has it.
LEMMA FullServes ==
    ASSUME FullInv, NEW begin \in 0 .. MaxChunks, NEW end \in 0 .. MaxChunks,
           GetRangeReader(begin, end)
    PROVE  FullInv'
  <1>1. /\ HasFull /\ UNCHANGED <<queuedChunks, progressiveDone, full, results, sent, closing>>
        /\ skipped' = skipped \/ (skipped' = skipped \cup {<<begin, end>>} /\ ServedByFull(begin, end))
    BY DEF GetRangeReader
  <1>2. skipped \subseteq (0 .. MaxChunks) \X (0 .. MaxChunks) /\ \A s \in skipped : s[2] <= Reader.loaded
    BY <1>1 DEF FullInv
  <1>3. ASSUME ServedByFull(begin, end) PROVE <<begin, end>>[2] <= Reader.loaded
    BY <1>1, <1>3 DEF ServedByFull, ProgressiveDataLength
  <1>4. \A s \in skipped' : s[2] <= Reader.loaded
    BY <1>1, <1>2, <1>3
  <1>5. skipped' \subseteq (0 .. MaxChunks) \X (0 .. MaxChunks)
    BY <1>1, <1>2
  <1>6. HasFull' /\ Reader' = Reader
    BY <1>1 DEF HasFull, Reader
  <1> QED BY <1>1, <1>4, <1>5, <1>6 DEF FullInv, ReaderInOrder, EndInTime

LEMMA RangesLeaveTheFull ==
    ASSUME FullInv, NEW r, ReadRange(r) \/ CancelRange(r) \/ ReceiveRange(r) PROVE FullInv'
  <1>1. closing' \in BOOLEAN /\ (closing => closing')
    BY DEF FullInv, ReadRange, CancelRange, ReceiveRange
  <1> QED BY <1>1, FullStays DEF ReadRange, CancelRange, ReceiveRange

LEMMA FullSteps ==
    ASSUME FullInv, [Next]_vars PROVE FullInv'
  <1>1. CASE UNCHANGED vars
    BY <1>1, FullStays DEF vars, FullInv
  <1> QED BY <1>1, FullIsMade, FullIsRead, AllFullIsCancelled, FullIsDone, ChunkHasCome, FullServes,
             RangesLeaveTheFull DEF Next, Host

\* What has been read are the first chunks, as many as have left the queue.
LEMMA FullMeans ==
    ASSUME FullInv, owed \subseteq DOMAIN range, assertFailed \in BOOLEAN,
           \A i \in DOMAIN rangeReaders : rangeReaders[i] \in DOMAIN range
    PROVE  FullReaderIsTheFile
  <1>1. ASSUME HasFull
        PROVE  /\ full = <<Reader>> /\ Reader \in FullReaders
               /\ Reader.queue \in Seq(1 .. MaxChunks) /\ Reader.requests \in Seq(1 .. MaxReads)
               /\ Reader.loaded \in 0 .. MaxChunks /\ Reader.done \in BOOLEAN
               /\ Returned(Reader) \in Nat /\ Len(Reader.queue) \in Nat /\ Len(Reader.requests) \in Nat
               /\ Returned(Reader) + Len(Reader.queue) = Reader.loaded
               /\ ReadsInOrder(Returned(Reader), Reader.queue, Reader.requests, results)
               /\ EndInTime(Reader, results, sent, progressiveDone, closing)
    BY <1>1, ReaderFacts
  <1>2. /\ results \in Seq(Answers) /\ DOMAIN results = 1 .. Len(results) /\ Len(results) \in Nat
        /\ sent \in 0 .. MaxChunks
    BY LenProperties DEF FullInv
  <1>3. ~HasFull => full = << >> /\ results = << >> /\ skipped = {}
    BY DEF FullInv, BeforeReader, HasFull
  <1>4. TypeOK
    <2>1. CASE HasFull
      <3>1. Len(full) = 1 /\ DOMAIN full = {1} /\ full[1] = Reader
        BY <1>1, <2>1 DEF Reader
      <3> QED BY <1>1, <1>2, <2>1, <3>1, ElementOfSeq DEF TypeOK, FullInv, Answers
    <2>2. CASE ~HasFull
      <3>1. Len(full) = 0 /\ DOMAIN full = {}
        BY <1>3, <2>2, EmptySeq
      <3> QED BY <1>2, <3>1, ElementOfSeq DEF TypeOK, FullInv, Answers
    <2> QED BY <2>1, <2>2
  <1>5. CASE ~HasFull
    <2>1. DOMAIN results = {}
      BY <1>3, <1>5, EmptySeq
    <2> QED BY <1>3, <1>4, <1>5, <2>1 DEF FullReaderIsTheFile
  <1>6. CASE HasFull
    <2> DEFINE back == Returned(Reader)
               asked == Reader.requests
    <2>1. /\ back \in Nat /\ Len(asked) \in Nat /\ back + Len(asked) <= Len(results)
          /\ back + Len(Reader.queue) = Reader.loaded /\ Len(Reader.queue) \in Nat
      BY <1>1, <1>6 DEF ReadsInOrder
    <2>2. \A i \in 1 .. Len(results) :
              /\ i <= back => results[i] = i
              /\ i > back /\ i <= back + Len(asked) => results[i] = Pending
              /\ i > back + Len(asked) => results[i] = Done
      BY <1>1, <1>6 DEF ReadsInOrder
    <2>3. Reader.queue # << >> => Len(results) = back
      BY <1>1, <1>6 DEF ReadsInOrder
    <2>4. EndInTime(Reader, results, sent, progressiveDone, closing)
      BY <1>1, <1>6
    <2>5. Reader.queue = << >> => Len(Reader.queue) = 0
      OBVIOUS
    <2>6. \A s \in skipped : s[2] <= Reader.loaded /\ s[2] \in Int
      BY <1>6, TransportAssumption DEF FullInv
    <2>7. Reader.loaded \in Int
      BY <1>1, <1>6
    <2>8. ~Reader.done => back + Len(asked) = Len(results)
      BY <2>4 DEF EndInTime
    <2>9. Reader.done /\ ~closing => progressiveDone /\ Reader.loaded = sent
      BY <2>4 DEF EndInTime
    <2> DEFINE q == Len(Reader.queue)
               loaded == Reader.loaded
               done == Reader.done
    <2> HIDE DEF back, asked
    <2>10. q = 0 \/ Len(results) = back
      BY <2>3, <2>5
    <2> HIDE DEF q, loaded, done
    <2>11. \A i \in DOMAIN results : results[i] \in {i, Pending, Done}
      BY <1>2, <2>1, <2>2
    <2>12. ASSUME ~closing, NEW i \in DOMAIN results, results[i] = Done PROVE progressiveDone /\ i > sent
      <3>1. i \in 1 .. Len(results) /\ i \in Int /\ Pending # Done /\ i # Done
        BY <1>2, AnswersAre
      <3>2. i > back + Len(asked)
        BY <2>1, <2>2, <2>12, <3>1
      <3>3. back + Len(asked) # Len(results) /\ Len(results) # back
        <4> DEFINE r == Len(asked)
                   n == Len(results)
        <4>1. i <= n /\ i \in Int /\ n \in Int /\ r \in Nat /\ back \in Nat /\ i > back + r
          BY <1>2, <2>1, <3>1, <3>2
        <4> HIDE DEF r, n
        <4>2. back + r # n /\ n # back
          BY <4>1
        <4> QED BY <4>2 DEF r, n
      <3>4. Reader.done /\ q = 0
        BY <2>8, <2>10, <3>3
      <3>5. back + q = sent
        BY <2>1, <2>9, <2>12, <3>4 DEF q
      <3> QED BY <2>1, <2>9, <2>12, <3>1, <3>2, <3>4, <3>5
    <2>13. {i \in DOMAIN results : results[i] > 0} = 1 .. back
      <3>1. \A i \in DOMAIN results : results[i] > 0 <=> i <= back
        BY <1>2, <2>1, <2>2, AnswersAre
      <3>2. \A i \in 1 .. back : i \in DOMAIN results
        BY <1>2, <2>1
      <3>3. \A i \in DOMAIN results : i <= back => i \in 1 .. back
        BY <1>2, <2>1
      <3> QED BY <2>1, <3>1, <3>2, <3>3
    <2>14. Cardinality(1 .. back) = back
      <3>1. 0 \in Int /\ 1 \in Int /\ back \in Int
        BY <2>1
      <3>2. Cardinality(1 .. back) = IF 1 > back THEN 0 ELSE back - 1 + 1
        BY <3>1, FS_Interval
      <3> QED BY <2>1, <3>2
    <2>15. \A s \in skipped : s[2] <= q + back
      <3>1. q + back = loaded
        BY <2>1 DEF q, loaded
      <3> QED BY <2>6, <3>1 DEF loaded
    <2>16. \A s \in skipped : s[2] <= Len(Reader.queue) + Cardinality({i \in DOMAIN results : results[i] > 0})
      BY <2>13, <2>14, <2>15 DEF q
    <2> QED BY <1>4, <2>11, <2>12, <2>16 DEF FullReaderIsTheFile
  <1> QED BY <1>5, <1>6

\* What taking one element out of a list changes.
IsRemoved(list, i, after) ==
    /\ Len(list) \in Nat /\ Len(after) \in Nat /\ i \in 1 .. Len(list)
    /\ \A k \in 1 .. Len(after) : \/ k < i /\ k \in 1 .. Len(list) /\ after[k] = list[k]
                                  \/ k >= i /\ k + 1 \in 1 .. Len(list) /\ after[k] = list[k + 1]
    /\ \A k \in 1 .. Len(list) : \/ k = i
                                 \/ k < i /\ k \in 1 .. Len(after) /\ after[k] = list[k]
                                 \/ k > i /\ k - 1 \in 1 .. Len(after) /\ after[k - 1] = list[k]

LEMMA Removed ==
    ASSUME NEW S, NEW list \in Seq(S), NEW i \in 1 .. Len(list)
    PROVE  RemoveAt(list, i) \in Seq(S) /\ IsRemoved(list, i, RemoveAt(list, i))
  <1> DEFINE front == SubSeq(list, 1, i - 1)
             back  == SubSeq(list, i + 1, Len(list))
             after == RemoveAt(list, i)
             n     == Len(list)
  <1>1. n \in Nat /\ i \in 1 .. n /\ \A k \in 1 .. n : list[k] \in S
    BY LenProperties, ElementOfSeq
  <1> HIDE DEF n
  <1>2. /\ front \in Seq(S) /\ Len(front) = i - 1
        /\ \A k \in 1 .. i - 1 : front[k] = list[k]
    <2>1. 1 \in Int /\ i - 1 \in Int /\ \A k \in 1 .. i - 1 : list[k] \in S
      BY <1>1
    <2>2. /\ front \in Seq(S) /\ Len(front) = IF 1 <= i - 1 THEN (i - 1) - 1 + 1 ELSE 0
          /\ \A k \in 1 .. (i - 1) - 1 + 1 : front[k] = list[1 + k - 1]
      BY <2>1, SubSeqProperties
    <2>3. (i - 1) - 1 + 1 = i - 1 /\ \A k \in 1 .. i - 1 : 1 + k - 1 = k
      BY <1>1
    <2> HIDE DEF front
    <2> QED BY <1>1, <2>2, <2>3
  <1>3. /\ back \in Seq(S) /\ Len(back) = n - i
        /\ \A k \in 1 .. n - i : back[k] = list[i + k]
    <2>1. i + 1 \in Int /\ n \in Int /\ \A k \in i + 1 .. n : list[k] \in S
      BY <1>1
    <2>2. /\ back \in Seq(S) /\ Len(back) = IF i + 1 <= n THEN n - (i + 1) + 1 ELSE 0
          /\ \A k \in 1 .. n - (i + 1) + 1 : back[k] = list[(i + 1) + k - 1]
      BY <2>1, SubSeqProperties DEF n
    <2>3. n - (i + 1) + 1 = n - i /\ \A k \in 1 .. n - i : (i + 1) + k - 1 = i + k
      BY <1>1
    <2> HIDE DEF back
    <2> QED BY <1>1, <2>2, <2>3
  <1>4. /\ after \in Seq(S) /\ Len(after) = Len(front) + Len(back)
        /\ \A k \in 1 .. Len(front) + Len(back) :
              after[k] = IF k <= Len(front) THEN front[k] ELSE back[k - Len(front)]
    <2>1. after = front \o back
      BY DEF RemoveAt
    <2> HIDE DEF front, back
    <2> QED BY <1>2, <1>3, <2>1, ConcatProperties
  <1> HIDE DEF front, back, after
  <1>5. Len(after) = n - 1 /\ Len(after) \in Nat
    BY <1>1, <1>2, <1>3, <1>4
  <1>6. ASSUME NEW k \in 1 .. n - 1
        PROVE  after[k] = IF k < i THEN list[k] ELSE list[k + 1]
    <2>1. CASE k < i
      BY <1>1, <1>2, <1>3, <1>4, <2>1
    <2>2. CASE ~(k < i)
      <3>1. k - (i - 1) \in 1 .. n - i /\ i + (k - (i - 1)) = k + 1 /\ ~(k <= i - 1)
            /\ k \in 1 .. (i - 1) + (n - i)
        BY <1>1, <2>2
      <3>2. after[k] = back[k - (i - 1)]
        BY <1>2, <1>3, <1>4, <3>1
      <3> QED BY <1>3, <2>2, <3>1, <3>2
    <2> QED BY <2>1, <2>2
  <1>7. \A k \in 1 .. Len(after) : \/ k < i /\ k \in 1 .. n /\ after[k] = list[k]
                                   \/ k >= i /\ k + 1 \in 1 .. n /\ after[k] = list[k + 1]
    <2> SUFFICES ASSUME NEW k \in 1 .. n - 1
                 PROVE  \/ k < i /\ k \in 1 .. n /\ after[k] = list[k]
                        \/ k >= i /\ k + 1 \in 1 .. n /\ after[k] = list[k + 1]
      BY <1>5
    <2>1. k \in 1 .. n /\ k + 1 \in 1 .. n /\ (k < i \/ k >= i) /\ (k >= i => ~(k < i))
      BY <1>1
    <2> QED BY <1>6, <2>1
  <1>8. \A k \in 1 .. n : \/ k = i
                          \/ k < i /\ k \in 1 .. Len(after) /\ after[k] = list[k]
                          \/ k > i /\ k - 1 \in 1 .. Len(after) /\ after[k - 1] = list[k]
    <2> SUFFICES ASSUME NEW k \in 1 .. n, k # i
                 PROVE  \/ k < i /\ k \in 1 .. Len(after) /\ after[k] = list[k]
                        \/ k > i /\ k - 1 \in 1 .. Len(after) /\ after[k - 1] = list[k]
      OBVIOUS
    <2>1. CASE k < i
      <3>1. k \in 1 .. n - 1
        BY <1>1, <2>1
      <3> QED BY <1>5, <1>6, <2>1, <3>1
    <2>2. CASE k > i
      <3>1. k - 1 \in 1 .. n - 1 /\ ~(k - 1 < i) /\ (k - 1) + 1 = k
        BY <1>1, <2>2
      <3> QED BY <1>5, <1>6, <2>2, <3>1
    <2> QED BY <1>1, <2>1, <2>2
  <1>9. IsRemoved(list, i, after)
    BY <1>1, <1>5, <1>7, <1>8 DEF IsRemoved, n
  <1> QED BY <1>4, <1>9 DEF after

LEMMA AfterRemoving ==
    ASSUME NEW list, NEW i, NEW after, IsRemoved(list, i, after), NEW S
    PROVE  /\ HasOne(list, S) <=> HasOne(after, S) \/ list[i] \in S
           /\ AtMostOne(list, S) => AtMostOne(after, S) /\ ~(HasOne(after, S) /\ list[i] \in S)
  <1>1. HasOne(list, S) => HasOne(after, S) \/ list[i] \in S
    BY DEF IsRemoved, HasOne
  <1>2. HasOne(after, S) \/ list[i] \in S => HasOne(list, S)
    BY DEF IsRemoved, HasOne
  <1>3. ASSUME AtMostOne(list, S)
        PROVE  AtMostOne(after, S) /\ ~(HasOne(after, S) /\ list[i] \in S)
    <2>0. i \in Int
      BY DEF IsRemoved
    <2>1. ASSUME NEW k \in 1 .. Len(after), NEW l \in 1 .. Len(after), after[k] \in S, after[l] \in S
          PROVE  k = l
      <3>1. PICK a \in 1 .. Len(list) : /\ after[k] = list[a]
                                        /\ (k < i /\ a = k) \/ (k >= i /\ a = k + 1)
        BY DEF IsRemoved
      <3>2. PICK b \in 1 .. Len(list) : /\ after[l] = list[b]
                                        /\ (l < i /\ b = l) \/ (l >= i /\ b = l + 1)
        BY DEF IsRemoved
      <3>3. a = b
        BY <1>3, <2>1, <3>1, <3>2 DEF AtMostOne
      <3> QED BY <2>0, <3>1, <3>2, <3>3
    <2>2. ASSUME NEW k \in 1 .. Len(after), after[k] \in S, list[i] \in S PROVE FALSE
      <3>1. PICK a \in 1 .. Len(list) : /\ after[k] = list[a]
                                        /\ (k < i /\ a = k) \/ (k >= i /\ a = k + 1)
        BY DEF IsRemoved
      <3>2. a = i
        BY <1>3, <2>2, <3>1 DEF AtMostOne, IsRemoved
      <3> QED BY <2>0, <3>1, <3>2
    <2> QED BY <2>1, <2>2 DEF AtMostOne, HasOne
  <1> QED BY <1>1, <1>2, <1>3

\* A reader leaves the list, if it is in it.
LEMMA ReaderLeaves ==
    ASSUME RangesAre(range), ListIs(rangeReaders, range), NEW r \in 1 .. Len(range)
    PROVE  /\ Without(r) \in Seq(1 .. Len(range))
           /\ ~HasOne(Without(r), {r})
           /\ \A s \in 1 .. Len(range) :
                 /\ s # r => (HasOne(Without(r), {s}) <=> HasOne(rangeReaders, {s}))
                 /\ AtMostOne(Without(r), {s})
  <1>1. /\ rangeReaders \in Seq(1 .. Len(range)) /\ DOMAIN rangeReaders = 1 .. Len(rangeReaders)
        /\ \A s \in 1 .. Len(range) : AtMostOne(rangeReaders, {s})
    BY LenProperties DEF ListIs
  <1>2. CASE \E i \in DOMAIN rangeReaders : rangeReaders[i] = r
    <2>1. PICK i \in 1 .. Len(rangeReaders) : rangeReaders[i] = r
                                              /\ Without(r) = RemoveAt(rangeReaders, i)
      BY <1>1, <1>2 DEF Without
    <2>2. Without(r) \in Seq(1 .. Len(range)) /\ IsRemoved(rangeReaders, i, Without(r))
      BY <1>1, <2>1, Removed
    <2>3. ASSUME NEW S
          PROVE  /\ HasOne(rangeReaders, S) <=> HasOne(Without(r), S) \/ rangeReaders[i] \in S
                 /\ AtMostOne(rangeReaders, S)
                      => AtMostOne(Without(r), S) /\ ~(HasOne(Without(r), S) /\ rangeReaders[i] \in S)
      BY <2>2, AfterRemoving
    <2>4. ~HasOne(Without(r), {r})
      BY <1>1, <2>1, <2>3
    <2>5. ASSUME NEW s \in 1 .. Len(range)
          PROVE  /\ s # r => (HasOne(Without(r), {s}) <=> HasOne(rangeReaders, {s}))
                 /\ AtMostOne(Without(r), {s})
      BY <1>1, <2>1, <2>3
    <2> QED BY <2>2, <2>4, <2>5
  <1>3. CASE ~\E i \in DOMAIN rangeReaders : rangeReaders[i] = r
    <2>1. Without(r) = rangeReaders /\ ~HasOne(rangeReaders, {r})
      BY <1>1, <1>3 DEF Without, HasOne
    <2> QED BY <1>1, <2>1
  <1> QED BY <1>2, <1>3

LEMMA RangeReaderFacts ==
    ASSUME NEW reader, NEW r \in Nat \ {0}, RangeAsRead(reader, r)
    PROVE  /\ reader \in RangeReaders /\ reader.results \in Seq(Int) /\ Len(reader.results) \in Nat
           /\ DOMAIN reader.results = 1 .. Len(reader.results)
           /\ \A i \in 1 .. Len(reader.results) : reader.results[i] \in Int
           /\ reader.done \in BOOLEAN /\ reader.queued \in BOOLEAN
           /\ reader.begin \in Int /\ reader.end \in Int /\ reader.begin < reader.end
           /\ r # Pending /\ r # Done /\ Pending # Done
           /\ r \in Int /\ Pending \in Int /\ Done \in Int
  <1>1. reader \in RangeReaders /\ reader.begin < reader.end
    BY DEF RangeAsRead
  <1>2. /\ reader.results \in Seq(Int) /\ reader.done \in BOOLEAN /\ reader.queued \in BOOLEAN
        /\ reader.begin \in 0 .. MaxChunks /\ reader.end \in 0 .. MaxChunks
    BY <1>1 DEF RangeReaders
  <1>3. /\ Len(reader.results) \in Nat /\ DOMAIN reader.results = 1 .. Len(reader.results)
        /\ \A i \in 1 .. Len(reader.results) : reader.results[i] \in Int
    BY <1>2, LenProperties, ElementOfSeq
  <1>4. r # Pending /\ r # Done /\ Pending # Done /\ r \in Int /\ Pending \in Int /\ Done \in Int
    BY DEF Pending, Done
  <1> QED BY <1>1, <1>2, <1>3, <1>4

\* An open reader gets its data.
LEMMA RangeDataIsTaken ==
    ASSUME NEW r \in Nat \ {0}, NEW reader, RangeAsRead(reader, r), ~reader.done,
           NEW after, after = EnqueueRange(reader, r)
    PROVE  /\ RangeAsRead(after, r) /\ after.done
           /\ after.begin = reader.begin /\ after.end = reader.end
  <1> DEFINE res   == reader.results
             told  == [i \in DOMAIN res |->
                          IF res[i] # Pending THEN res[i]
                          ELSE IF \A j \in 1 .. i - 1 : res[j] # Pending THEN r ELSE Done]
  <1>1. /\ reader \in RangeReaders /\ res \in Seq(Int) /\ Len(res) \in Nat
        /\ DOMAIN res = 1 .. Len(res)
        /\ reader.begin < reader.end
        /\ r # Pending /\ r # Done /\ Pending # Done
        /\ r \in Int /\ Done \in Int
    BY RangeReaderFacts
  <1>2. \A i \in 1 .. Len(res) : res[i] = Pending
    BY DEF RangeAsRead
  <1>3. after = [reader EXCEPT !.done = TRUE, !.queued = ~Waits(reader), !.results = told]
    BY DEF EnqueueRange
  <1>4. told = [i \in 1 .. Len(res) |-> IF i = 1 THEN r ELSE Done]
    <2> SUFFICES ASSUME NEW i \in 1 .. Len(res)
                 PROVE  (IF res[i] # Pending THEN res[i]
                         ELSE IF \A j \in 1 .. i - 1 : res[j] # Pending THEN r ELSE Done)
                        = IF i = 1 THEN r ELSE Done
      BY <1>1
    <2>1. res[i] = Pending
      BY <1>2
    <2>2. CASE i = 1
      <3>1. 1 .. i - 1 = {}
        BY <2>2
      <3> QED BY <2>1, <2>2, <3>1
    <2>3. CASE i # 1
      <3>1. 1 \in 1 .. i - 1 /\ 1 \in 1 .. Len(res)
        BY <1>1, <2>3
      <3>2. res[1] = Pending
        BY <1>2, <3>1
      <3> QED BY <2>1, <2>3, <3>1, <3>2
    <2> QED BY <2>2, <2>3
  <1>5. told \in Seq(Int) /\ Len(told) = Len(res)
    <2>1. \A i \in 1 .. Len(res) : (IF i = 1 THEN r ELSE Done) \in Int
      BY <1>1
    <2> HIDE DEF told, res
    <2> QED BY <1>1, <1>4, <2>1, IsASeq
  <1>6. \A i \in 1 .. Len(told) : told[i] = Done \/ (i = 1 /\ told[i] = r)
    <2> HIDE DEF told
    <2> QED BY <1>4, <1>5
  <1>7. ~Waits(reader) => told = << >>
    <2>1. ASSUME ~Waits(reader) PROVE Len(res) = 0
      <3>1. \A i \in DOMAIN res : res[i] # Pending
        BY <2>1 DEF Waits
      <3>2. 1 \notin 1 .. Len(res)
        BY <1>1, <1>2, <3>1
      <3> QED BY <1>1, <3>2
    <2> HIDE DEF told, res
    <2> QED BY <1>5, <2>1, EmptySeq
  <1>8. Waits(reader) \in BOOLEAN
    BY DEF Waits
  <1> HIDE DEF told
  <1>9. /\ after \in RangeReaders /\ after.begin = reader.begin /\ after.end = reader.end
        /\ after.done = TRUE /\ after.queued = ~Waits(reader) /\ after.results = told
    BY <1>1, <1>3, <1>5, <1>8 DEF RangeReaders
  <1>10. RangeAsRead(after, r)
    BY <1>1, <1>6, <1>7, <1>9 DEF RangeAsRead
  <1> QED BY <1>9, <1>10

LEMMA RangeIsCancelled ==
    ASSUME NEW r \in Nat \ {0}, NEW reader, RangeAsRead(reader, r)
    PROVE  LET after == CancelledRange(reader)
           IN  /\ RangeAsRead(after, r) /\ after.done
               /\ after.begin = reader.begin /\ after.end = reader.end
  <1> DEFINE after == CancelledRange(reader)
             res   == reader.results
             told  == [i \in DOMAIN res |-> IF res[i] = Pending THEN Done ELSE res[i]]
  <1>1. /\ reader \in RangeReaders /\ res \in Seq(Int) /\ Len(res) \in Nat
        /\ DOMAIN res = 1 .. Len(res)
        /\ \A i \in 1 .. Len(res) : res[i] \in Int
        /\ reader.begin < reader.end
        /\ r # Pending /\ r # Done /\ Pending # Done
        /\ r \in Int /\ Done \in Int
    BY RangeReaderFacts
  <1>2. after = [reader EXCEPT !.done = TRUE, !.results = told]
    BY DEF CancelledRange
  <1>3. told \in Seq(Int) /\ Len(told) = Len(res)
    <2>1. \A i \in 1 .. Len(res) : (IF res[i] = Pending THEN Done ELSE res[i]) \in Int
      BY <1>1
    <2>2. told = [i \in 1 .. Len(res) |-> IF res[i] = Pending THEN Done ELSE res[i]]
      BY <1>1
    <2> HIDE DEF told, res
    <2> QED BY <1>1, <2>1, <2>2, IsASeq
  <1>4. \A i \in 1 .. Len(told) : told[i] = IF res[i] = Pending THEN Done ELSE res[i]
    BY <1>1, <1>3
  <1>5. ~reader.done => \A i \in 1 .. Len(res) : res[i] = Pending
    BY DEF RangeAsRead
  <1>6. reader.done => \A i \in 1 .. Len(res) : res[i] = Done \/ (i = 1 /\ res[i] = r)
    BY DEF RangeAsRead
  <1>7. reader.queued => told = << >>
    <2>1. reader.queued => Len(res) = 0
      BY DEF RangeAsRead
    <2> HIDE DEF told, res
    <2> QED BY <1>3, <2>1, EmptySeq
  <1> HIDE DEF told, after
  <1>8. \A i \in 1 .. Len(told) : told[i] = Done \/ (i = 1 /\ told[i] = r)
    BY <1>1, <1>3, <1>4, <1>5, <1>6
  <1>9. /\ after \in RangeReaders /\ after.begin = reader.begin /\ after.end = reader.end
        /\ after.done = TRUE /\ after.queued = reader.queued /\ after.results = told
    BY <1>1, <1>2, <1>3 DEF RangeReaders
  <1>10. RangeAsRead(after, r)
    BY <1>1, <1>7, <1>8, <1>9 DEF RangeAsRead
  <1> QED BY <1>9, <1>10 DEF after

LEMMA RangeIsRead ==
    ASSUME NEW r \in Nat \ {0}, NEW reader, RangeAsRead(reader, r)
    PROVE  LET after == WhenRead(reader, r)
           IN  /\ RangeAsRead(after, r) /\ after.done = reader.done
               /\ after.begin = reader.begin /\ after.end = reader.end
  <1> DEFINE after == WhenRead(reader, r)
             res   == reader.results
             now   == IF reader.queued THEN r ELSE IF reader.done THEN Done ELSE Pending
             told  == Append(res, now)
  <1>1. /\ reader \in RangeReaders /\ res \in Seq(Int) /\ Len(res) \in Nat
        /\ reader.begin < reader.end /\ reader.done \in BOOLEAN
        /\ r # Pending /\ r # Done /\ Pending # Done
        /\ r \in Int /\ Done \in Int /\ Pending \in Int
    BY RangeReaderFacts
  <1>2. after = [reader EXCEPT !.queued = FALSE, !.results = told]
    BY DEF WhenRead
  <1>3. told \in Seq(Int) /\ IsPosted(res, now, told)
    <2>1. now \in Int
      BY <1>1
    <2> HIDE DEF now, res
    <2> QED BY <1>1, <2>1, Posted
  <1>4. ~reader.done => ~reader.queued /\ \A i \in 1 .. Len(res) : res[i] = Pending
    BY DEF RangeAsRead
  <1>5. reader.done => \A i \in 1 .. Len(res) : res[i] = Done \/ (i = 1 /\ res[i] = r)
    BY DEF RangeAsRead
  <1>6. reader.queued => Len(res) = 0
    BY DEF RangeAsRead
  <1>7. /\ now = r \/ now = Done \/ now = Pending
        /\ ~reader.done => now = Pending
        /\ reader.done => (now = Done \/ (now = r /\ Len(res) = 0))
    BY <1>1, <1>4, <1>6
  <1>8. \A i \in 1 .. Len(told) : (i \in 1 .. Len(res) /\ told[i] = res[i])
                                  \/ (i = Len(res) + 1 /\ told[i] = now)
    BY <1>3 DEF IsPosted
  <1> HIDE DEF told, after, now
  <1>9. ~reader.done => \A i \in 1 .. Len(told) : told[i] = Pending
    BY <1>4, <1>7, <1>8
  <1>10. ASSUME reader.done
         PROVE  \A i \in 1 .. Len(told) : told[i] = Done \/ (i = 1 /\ told[i] = r)
    <2> SUFFICES ASSUME NEW i \in 1 .. Len(told) PROVE told[i] = Done \/ (i = 1 /\ told[i] = r)
      OBVIOUS
    <2>1. CASE i \in 1 .. Len(res) /\ told[i] = res[i]
      BY <1>5, <1>10, <2>1
    <2>2. CASE i = Len(res) + 1 /\ told[i] = now
      <3>1. Len(res) = 0 => i = 1
        BY <2>2
      <3> QED BY <1>7, <1>10, <2>2, <3>1
    <2> QED BY <1>8, <2>1, <2>2
  <1>11. /\ after \in RangeReaders /\ after.begin = reader.begin /\ after.end = reader.end
         /\ after.done = reader.done /\ after.queued = FALSE /\ after.results = told
    BY <1>1, <1>2, <1>3 DEF RangeReaders
  <1>12. RangeAsRead(after, r)
    BY <1>1, <1>9, <1>10, <1>11 DEF RangeAsRead
  <1> QED BY <1>11, <1>12 DEF after

\* One reader becomes another one of the same range.
Replaced(readers, r, reader) == [readers EXCEPT ![r] = reader]

LEMMA OneReaderBecomes ==
    ASSUME NEW readers, RangesAre(readers), NEW r \in 1 .. Len(readers), NEW reader,
           RangeAsRead(reader, r), reader.begin = readers[r].begin, reader.end = readers[r].end
    PROVE  LET after == Replaced(readers, r, reader)
           IN  /\ RangesAre(after) /\ Len(after) = Len(readers) /\ after[r] = reader
               /\ \A s \in 1 .. Len(readers) : s # r => after[s] = readers[s]
  <1> DEFINE after == Replaced(readers, r, reader)
  <1>1. readers \in Seq(RangeReaders) /\ reader \in RangeReaders /\ r \in 1 .. Len(readers)
    BY DEF RangesAre, RangeAsRead
  <1>2. /\ after \in Seq(RangeReaders) /\ Len(after) = Len(readers)
        /\ \A s \in 1 .. Len(readers) : after[s] = IF s = r THEN reader ELSE readers[s]
    BY <1>1, ExceptSeq DEF Replaced
  <1> HIDE DEF after
  <1>3. \A s \in 1 .. Len(after) : RangeAsRead(after[s], s)
    BY <1>2 DEF RangesAre
  <1>4. \A s \in 1 .. Len(after) : after[s].begin = readers[s].begin /\ after[s].end = readers[s].end
    BY <1>2
  <1>5. \A s, t \in 1 .. Len(after) :
            s # t => after[t].end <= after[s].begin \/ after[s].end <= after[t].begin
    BY <1>2, <1>4 DEF RangesAre
  <1>6. RangesAre(after)
    BY <1>2, <1>3, <1>5 DEF RangesAre
  <1> QED BY <1>2, <1>6 DEF after

LEMMA RangeStays ==
    ASSUME RangeInv, UNCHANGED <<rangeReaders, range, owed, assertFailed>>,
           closing' \in BOOLEAN, closing => closing'
    PROVE  RangeInv'
  BY DEF RangeInv

LEMMA RangeStarts ==
    ASSUME Init PROVE RangeInv
  <1>1. /\ range = << >> /\ rangeReaders = << >> /\ owed = {}
        /\ closing = FALSE /\ assertFailed = FALSE
    BY DEF Init
  <1>2. /\ << >> \in Seq(RangeReaders) /\ << >> \in Seq(1 .. 0) /\ Len(<< >>) = 0 /\ 1 .. 0 = {}
    BY EmptySeq
  <1>3. RangesAre(<< >>) /\ ListIs(<< >>, << >>)
    BY <1>2 DEF RangesAre, ListIs
  <1> QED BY <1>1, <1>3 DEF RangeInv

\* A new reader has a range of its own.
LEMMA RangeIsAsked ==
    ASSUME RangeInv, NEW begin \in 0 .. MaxChunks, NEW end \in 0 .. MaxChunks,
           GetRangeReader(begin, end)
    PROVE  RangeInv'
  <1>1. UNCHANGED <<closing, assertFailed>> /\ begin < end /\ Disjoint(begin, end)
    BY DEF GetRangeReader
  <1>2. CASE UNCHANGED <<rangeReaders, range, owed>>
    BY <1>1, <1>2, RangeStays DEF RangeInv
  <1>3. CASE ~UNCHANGED <<rangeReaders, range, owed>>
    <2> DEFINE reader == [begin |-> begin, end |-> end, queued |-> FALSE, done |-> FALSE,
                          results |-> << >>]
               n == Len(range) + 1
    <2>1. /\ range' = Append(range, reader) /\ rangeReaders' = Append(rangeReaders, Len(range'))
          /\ owed' = owed \cup {Len(range')}
      BY <1>3 DEF GetRangeReader
    <2>2. /\ range \in Seq(RangeReaders) /\ Len(range) \in Nat /\ DOMAIN range = 1 .. Len(range)
          /\ \A r \in 1 .. Len(range) : RangeAsRead(range[r], r)
          /\ rangeReaders \in Seq(1 .. Len(range))
      BY LenProperties DEF RangeInv, RangesAre, ListIs
    <2>3. RangeAsRead(reader, n)
      <3>1. << >> \in Seq(Int) /\ Len(<< >>) = 0
        BY EmptySeq
      <3> QED BY <1>1, <3>1 DEF RangeAsRead, RangeReaders
    <2>4. reader.begin = begin /\ reader.end = end /\ reader.done = FALSE
      OBVIOUS
    <2> HIDE DEF reader
    <2>5. range' \in Seq(RangeReaders) /\ IsPosted(range, reader, range')
      BY <2>1, <2>2, <2>3, Posted DEF RangeAsRead
    <2>6. /\ Len(range') = n /\ n \in Nat /\ range'[n] = reader
          /\ \A r \in 1 .. Len(range') : r = n \/ (r \in 1 .. Len(range) /\ range'[r] = range[r])
          /\ \A r \in 1 .. Len(range) : r # n
      BY <2>5 DEF IsPosted
    <2> HIDE DEF n
    <2>7. \A r \in 1 .. Len(range') : RangeAsRead(range'[r], r)
      BY <2>2, <2>3, <2>6
    <2>8. ASSUME NEW r \in 1 .. Len(range'), NEW s \in 1 .. Len(range'), r # s
          PROVE  range'[s].end <= range'[r].begin \/ range'[r].end <= range'[s].begin
      <3>1. \A t \in 1 .. Len(range) : end <= range[t].begin \/ range[t].end <= begin
        BY <1>1, <2>2 DEF Disjoint
      <3>2. CASE r = n
        <4>1. s \in 1 .. Len(range) /\ range'[s] = range[s] /\ range'[r] = reader
          BY <2>6, <2>8, <3>2
        <4> QED BY <2>4, <3>1, <4>1
      <3>3. CASE s = n
        <4>1. r \in 1 .. Len(range) /\ range'[r] = range[r] /\ range'[s] = reader
          BY <2>6, <2>8, <3>3
        <4> QED BY <2>4, <3>1, <4>1
      <3>4. CASE r # n /\ s # n
        <4>1. /\ r \in 1 .. Len(range) /\ range'[r] = range[r]
              /\ s \in 1 .. Len(range) /\ range'[s] = range[s]
          BY <2>6, <2>8, <3>4
        <4> QED BY <2>8, <4>1 DEF RangeInv, RangesAre
      <3> QED BY <3>2, <3>3, <3>4
    <2>9. RangesAre(range')
      BY <2>5, <2>7, <2>8 DEF RangesAre
    <2>10. rangeReaders' \in Seq(1 .. n) /\ IsPosted(rangeReaders, n, rangeReaders')
      <3>1. 1 .. Len(range) \subseteq 1 .. n /\ n \in 1 .. n
        BY <2>2, <2>6 DEF n
      <3>2. rangeReaders \in Seq(1 .. n)
        BY <2>2, <3>1, SeqMonotonic
      <3> QED BY <2>1, <2>6, <3>1, <3>2, Posted
    <2>11. \A i \in 1 .. Len(rangeReaders) : rangeReaders[i] \in 1 .. Len(range)
      BY <2>2, ElementOfSeq
    <2>12. \A S : /\ HasOne(rangeReaders', S) <=> HasOne(rangeReaders, S) \/ n \in S
                  /\ AtMostOne(rangeReaders, S) /\ ~(HasOne(rangeReaders, S) /\ n \in S)
                       => AtMostOne(rangeReaders', S)
      BY <2>10, AfterPosting
    <2>13. ~HasOne(rangeReaders, {n}) /\ AtMostOne(rangeReaders, {n})
      BY <2>6, <2>11 DEF HasOne, AtMostOne
    <2>14. ASSUME NEW r \in 1 .. Len(range')
           PROVE  (HasOne(rangeReaders', {r}) => ~range'[r].done) /\ AtMostOne(rangeReaders', {r})
      <3>1. CASE r = n
        BY <2>4, <2>6, <2>12, <2>13, <3>1
      <3>2. CASE r # n
        <4>1. r \in 1 .. Len(range) /\ range'[r] = range[r]
          BY <2>6, <3>2
        <4>2. (HasOne(rangeReaders, {r}) => ~range[r].done) /\ AtMostOne(rangeReaders, {r})
          BY <4>1 DEF RangeInv, ListIs
        <4> QED BY <2>12, <3>2, <4>1, <4>2
      <3> QED BY <3>1, <3>2
    <2>15. ListIs(rangeReaders', range')
      BY <2>6, <2>10, <2>14 DEF ListIs
    <2>16. ~closing' => \A r \in owed' : HasOne(rangeReaders', {r})
      <3>1. \A r \in owed' : r \in owed \/ r = n
        BY <2>1, <2>6
      <3>2. ~closing => \A r \in owed : HasOne(rangeReaders, {r})
        BY DEF RangeInv
      <3> QED BY <1>1, <2>12, <3>1, <3>2
    <2>17. owed' \subseteq 1 .. Len(range')
      <3>1. \A r \in 1 .. Len(range) : r \in 1 .. n
        BY <2>2 DEF n
      <3>2. n \in 1 .. n
        BY <2>2 DEF n
      <3>3. owed \subseteq 1 .. Len(range)
        BY DEF RangeInv
      <3> QED BY <2>1, <2>6, <3>1, <3>2, <3>3
    <2> QED BY <1>1, <2>9, <2>15, <2>16, <2>17 DEF RangeInv
  <1> QED BY <1>2, <1>3

\* A reader of the list changes, and stays open.
LEMMA RangeReadStays ==
    ASSUME RangeInv, NEW r \in DOMAIN range, ReadRange(r) PROVE RangeInv'
  <1> DEFINE reader == WhenRead(range[r], r)
  <1>1. /\ range \in Seq(RangeReaders) /\ Len(range) \in Nat /\ r \in 1 .. Len(range)
        /\ RangeAsRead(range[r], r) /\ r \in Nat \ {0}
    BY LenProperties DEF RangeInv, RangesAre
  <1>2. /\ range' = Replaced(range, r, reader)
        /\ UNCHANGED <<rangeReaders, owed, closing, assertFailed>>
    BY DEF ReadRange, Replaced
  <1>3. /\ RangeAsRead(reader, r) /\ reader.done = range[r].done
        /\ reader.begin = range[r].begin /\ reader.end = range[r].end
    BY <1>1, RangeIsRead
  <1> HIDE DEF reader
  <1>4. /\ RangesAre(range') /\ Len(range') = Len(range) /\ range'[r] = reader
        /\ \A s \in 1 .. Len(range) : s # r => range'[s] = range[s]
    <2>1. RangesAre(range)
      BY DEF RangeInv
    <2> QED BY <1>1, <1>2, <1>3, <2>1, OneReaderBecomes
  <1>5. \A s \in 1 .. Len(range) : range'[s].done = range[s].done
    BY <1>3, <1>4
  <1>6. ListIs(rangeReaders', range')
    BY <1>2, <1>4, <1>5 DEF RangeInv, ListIs
  <1> QED BY <1>2, <1>4, <1>6 DEF RangeInv

\* A reader is done and leaves the list.
LEMMA ReaderIsDone ==
    ASSUME RangeInv, NEW r \in 1 .. Len(range), NEW reader, RangeAsRead(reader, r), reader.done,
           reader.begin = range[r].begin, reader.end = range[r].end,
           range' = Replaced(range, r, reader), rangeReaders' = Without(r)
    PROVE  /\ RangesAre(range') /\ Len(range') = Len(range) /\ ListIs(rangeReaders', range')
           /\ \A s \in 1 .. Len(range) :
                 s # r /\ HasOne(rangeReaders, {s}) => HasOne(rangeReaders', {s})
  <1>1. /\ RangesAre(range') /\ Len(range') = Len(range)
        /\ \A s \in 1 .. Len(range) : s # r => range'[s] = range[s]
    <2>1. RangesAre(range)
      BY DEF RangeInv
    <2> QED BY <2>1, OneReaderBecomes
  <1>2. /\ rangeReaders' \in Seq(1 .. Len(range)) /\ ~HasOne(rangeReaders', {r})
        /\ \A s \in 1 .. Len(range) :
              /\ s # r => (HasOne(rangeReaders', {s}) <=> HasOne(rangeReaders, {s}))
              /\ AtMostOne(rangeReaders', {s})
    BY ReaderLeaves DEF RangeInv
  <1>3. \A s \in 1 .. Len(range) : HasOne(rangeReaders, {s}) => ~range[s].done
    BY DEF RangeInv, ListIs
  <1>4. \A s \in 1 .. Len(range) : HasOne(rangeReaders', {s}) => ~range'[s].done
    BY <1>1, <1>2, <1>3
  <1> QED BY <1>1, <1>2, <1>4 DEF ListIs

LEMMA ReaderIsCancelled ==
    ASSUME RangeInv, NEW r \in DOMAIN range, CancelRange(r) PROVE RangeInv'
  <1> DEFINE reader == CancelledRange(range[r])
  <1>1. /\ range \in Seq(RangeReaders) /\ Len(range) \in Nat /\ r \in 1 .. Len(range)
        /\ RangeAsRead(range[r], r) /\ r \in Nat \ {0}
    BY LenProperties DEF RangeInv, RangesAre
  <1>2. /\ range' = Replaced(range, r, reader) /\ rangeReaders' = Without(r) /\ closing' = TRUE
        /\ UNCHANGED <<owed, assertFailed>>
    BY DEF CancelRange, Replaced
  <1>3. /\ RangeAsRead(reader, r) /\ reader.done
        /\ reader.begin = range[r].begin /\ reader.end = range[r].end
    BY <1>1, RangeIsCancelled
  <1> HIDE DEF reader
  <1>4. RangesAre(range') /\ Len(range') = Len(range) /\ ListIs(rangeReaders', range')
    BY <1>1, <1>2, <1>3, ReaderIsDone
  <1> QED BY <1>2, <1>4 DEF RangeInv

\* All that are in the list are cancelled.
LEMMA AllAreCancelled ==
    ASSUME RangeInv, CancelAll PROVE RangeInv'
  <1>1. /\ range \in Seq(RangeReaders) /\ Len(range) \in Nat /\ DOMAIN range = 1 .. Len(range)
        /\ \A r \in 1 .. Len(range) : RangeAsRead(range[r], r)
    BY LenProperties DEF RangeInv, RangesAre
  <1> DEFINE InTheList(r) == \E i \in DOMAIN rangeReaders : rangeReaders[i] = r
             After(r)  == IF InTheList(r) THEN CancelledRange(range[r]) ELSE range[r]
  <1>2. /\ range' = [r \in 1 .. Len(range) |-> After(r)]
        /\ rangeReaders' = << >> /\ owed' = {} /\ closing' = TRUE /\ UNCHANGED assertFailed
    BY <1>1 DEF CancelAll
  <1>3. ASSUME NEW r \in 1 .. Len(range)
        PROVE  /\ RangeAsRead(After(r), r)
               /\ After(r).begin = range[r].begin /\ After(r).end = range[r].end
    <2>1. r \in Nat \ {0}
      OBVIOUS
    <2>2. CASE InTheList(r)
      BY <1>1, <2>1, <2>2, RangeIsCancelled
    <2>3. CASE ~InTheList(r)
      BY <1>1, <2>3
    <2> QED BY <2>2, <2>3
  <1> HIDE DEF After
  <1>4. \A r \in 1 .. Len(range) : After(r) \in RangeReaders
    BY <1>3 DEF RangeAsRead
  <1>5. range' \in Seq(RangeReaders) /\ Len(range') = Len(range)
    BY <1>1, <1>2, <1>4, IsASeq
  <1>6. \A r \in 1 .. Len(range) : range'[r] = After(r)
    BY <1>2
  <1>7. RangesAre(range')
    <2>1. \A r \in 1 .. Len(range') : RangeAsRead(range'[r], r)
      BY <1>3, <1>5, <1>6
    <2>2. \A r \in 1 .. Len(range) :
              range'[r].begin = range[r].begin /\ range'[r].end = range[r].end
      BY <1>3, <1>6
    <2>3. \A r, s \in 1 .. Len(range') :
              r # s => range'[s].end <= range'[r].begin \/ range'[r].end <= range'[s].begin
      BY <1>5, <2>2 DEF RangeInv, RangesAre
    <2> QED BY <1>5, <2>1, <2>3 DEF RangesAre
  <1>8. ListIs(<< >>, range')
    <2>1. << >> \in Seq(1 .. Len(range')) /\ Len(<< >>) = 0 /\ 1 .. 0 = {}
      BY EmptySeq
    <2>2. \A S : ~HasOne(<< >>, S) /\ AtMostOne(<< >>, S)
      BY <2>1 DEF HasOne, AtMostOne
    <2> QED BY <2>1, <2>2 DEF ListIs
  <1> QED BY <1>2, <1>5, <1>7, <1>8 DEF RangeInv

\* The data of a range goes to the reader that has asked for it: no other begins there.
LEMMA RangeHasCome ==
    ASSUME RangeInv, NEW r \in DOMAIN range, ReceiveRange(r) PROVE RangeInv'
  <1>1. /\ range \in Seq(RangeReaders) /\ Len(range) \in Nat /\ r \in 1 .. Len(range)
        /\ \A s \in 1 .. Len(range) : RangeAsRead(range[s], s)
        /\ r \in Nat \ {0}
        /\ rangeReaders \in Seq(1 .. Len(range)) /\ DOMAIN rangeReaders = 1 .. Len(rangeReaders)
    BY LenProperties DEF RangeInv, RangesAre, ListIs
  <1>2. /\ r \in owed /\ owed' = owed \ {r} /\ closing' = closing
    BY DEF ReceiveRange
  <1>3. CASE /\ ReadersAt(range[r].begin) = {} /\ assertFailed' = TRUE
             /\ UNCHANGED <<range, rangeReaders>>
    <2>1. closing
      <3> SUFFICES ASSUME ~closing PROVE FALSE
        BY DEF RangeInv
      <3>1. HasOne(rangeReaders, {r})
        BY <1>2 DEF RangeInv
      <3>2. PICK i \in 1 .. Len(rangeReaders) : rangeReaders[i] = r
        BY <3>1 DEF HasOne
      <3>3. i \in ReadersAt(range[r].begin)
        BY <1>1, <3>2 DEF ReadersAt
      <3> QED BY <1>3, <3>3
    <2> QED BY <1>2, <1>3, <2>1 DEF RangeInv
  <1>4. CASE \E i \in ReadersAt(range[r].begin) :
                /\ range' = [range EXCEPT ![rangeReaders[i]] = EnqueueRange(@, r)]
                /\ rangeReaders' = Without(rangeReaders[i])
                /\ UNCHANGED assertFailed
    <2>1. PICK i \in 1 .. Len(rangeReaders) :
              /\ range[rangeReaders[i]].begin = range[r].begin
              /\ range' = [range EXCEPT ![rangeReaders[i]] = EnqueueRange(@, r)]
              /\ rangeReaders' = Without(rangeReaders[i])
              /\ UNCHANGED assertFailed
      BY <1>1, <1>4 DEF ReadersAt
    <2>2. rangeReaders[i] = r
      <3> DEFINE s == rangeReaders[i]
      <3>1. s \in 1 .. Len(range)
        BY <1>1, ElementOfSeq
      <3> HIDE DEF s
      <3>2. s # r => range[s].end <= range[r].begin \/ range[r].end <= range[s].begin
        BY <1>1, <3>1 DEF RangeInv, RangesAre
      <3>3. /\ range[s].begin \in Int /\ range[s].end \in Int /\ range[s].begin < range[s].end
            /\ range[r].begin \in Int /\ range[r].end \in Int /\ range[r].begin < range[r].end
        BY <1>1, <3>1, RangeReaderFacts
      <3>4. range[s].begin = range[r].begin
        BY <2>1 DEF s
      <3>5. s = r
        BY <3>2, <3>3, <3>4
      <3> QED BY <3>5 DEF s
    <2>3. HasOne(rangeReaders, {r})
      BY <2>2 DEF HasOne
    <2>4. ~range[r].done
      BY <1>1, <2>3 DEF RangeInv, ListIs
    <2> DEFINE reader == EnqueueRange(range[r], r)
    <2>5. /\ RangeAsRead(reader, r) /\ reader.done
          /\ reader.begin = range[r].begin /\ reader.end = range[r].end
      <3>1. r \in Nat \ {0} /\ RangeAsRead(range[r], r)
        BY <1>1, <2>1
      <3> HIDE DEF reader
      <3>2. reader = EnqueueRange(range[r], r)
        BY DEF reader
      <3> QED BY <2>4, <3>1, <3>2, RangeDataIsTaken
    <2>6. range' = Replaced(range, r, reader) /\ rangeReaders' = Without(r)
      BY <2>1, <2>2 DEF Replaced
    <2> HIDE DEF reader
    <2>7. /\ RangesAre(range') /\ Len(range') = Len(range) /\ ListIs(rangeReaders', range')
          /\ \A s \in 1 .. Len(range) :
                s # r /\ HasOne(rangeReaders, {s}) => HasOne(rangeReaders', {s})
      BY <1>1, <2>5, <2>6, ReaderIsDone
    <2>8. ~closing' => \A s \in owed' : HasOne(rangeReaders', {s})
      BY <1>2, <2>7 DEF RangeInv
    <2> QED BY <1>2, <2>1, <2>7, <2>8 DEF RangeInv
  <1> QED BY <1>3, <1>4 DEF ReceiveRange

LEMMA RangeSteps ==
    ASSUME RangeInv, [Next]_vars PROVE RangeInv'
  <1>1. CASE UNCHANGED vars
    BY <1>1, RangeStays DEF vars, RangeInv
  <1>2. CASE ReceiveProgressive \/ ReceiveProgressiveDone \/ GetFullReader \/ ReadFull \/ CancelFull
    <2>1. /\ UNCHANGED <<rangeReaders, range, owed, assertFailed>>
          /\ closing' \in BOOLEAN /\ (closing => closing')
      BY <1>2 DEF RangeInv, ReceiveProgressive, ReceiveProgressiveDone, GetFullReader, ReadFull,
                  CancelFull
    <2> QED BY <2>1, RangeStays
  <1>3. CASE CancelAll
    BY <1>3, AllAreCancelled
  <1>4. CASE \E begin, end \in 0 .. MaxChunks : GetRangeReader(begin, end)
    BY <1>4, RangeIsAsked
  <1>5. CASE \E r \in DOMAIN range : ReadRange(r) \/ CancelRange(r) \/ ReceiveRange(r)
    BY <1>5, RangeReadStays, ReaderIsCancelled, RangeHasCome
  <1> QED BY <1>1, <1>2, <1>3, <1>4, <1>5 DEF Next, Host

LEMMA RangeMeans ==
    ASSUME RangeInv PROVE RangeReadsItsRange
  <1>1. range \in Seq(RangeReaders) /\ DOMAIN range = 1 .. Len(range) /\ Len(range) \in Nat
    BY LenProperties DEF RangeInv, RangesAre
  <1>2. ASSUME NEW r \in 1 .. Len(range), NEW i \in DOMAIN range[r].results
        PROVE  /\ range[r].results[i] \in {r, Done, Pending}
               /\ range[r].results[i] = r => \A j \in DOMAIN range[r].results : j # i =>
                     j > i /\ range[r].results[j] = Done
    <2> DEFINE reader == range[r]
               res    == reader.results
    <2>1. RangeAsRead(reader, r) /\ r \in Nat \ {0}
      BY DEF RangeInv, RangesAre
    <2> HIDE DEF reader
    <2>2. /\ DOMAIN res = 1 .. Len(res) /\ Len(res) \in Nat /\ r # Pending /\ r # Done
          /\ reader.done \in BOOLEAN
      BY <2>1, RangeReaderFacts
    <2>3. ~reader.done => \A j \in 1 .. Len(res) : res[j] = Pending
      BY <2>1 DEF RangeAsRead
    <2>4. reader.done => \A j \in 1 .. Len(res) : res[j] = Done \/ (j = 1 /\ res[j] = r)
      BY <2>1 DEF RangeAsRead
    <2>5. i \in 1 .. Len(res)
      BY <2>2 DEF reader
    <2> HIDE DEF res
    <2>6. res[i] \in {r, Done, Pending}
      BY <2>3, <2>4, <2>5
    <2>7. ASSUME res[i] = r, NEW j \in 1 .. Len(res), j # i PROVE j > i /\ res[j] = Done
      <3>1. reader.done /\ i = 1
        BY <2>2, <2>3, <2>4, <2>5, <2>7
      <3>2. j # 1 /\ j > 1
        BY <2>2, <2>7, <3>1
      <3> QED BY <2>4, <2>7, <3>1, <3>2
    <2> QED BY <2>2, <2>6, <2>7 DEF res, reader
  <1> QED BY <1>1, <1>2 DEF RangeReadsItsRange, RangeInv

HostInv == subject = "host" => FullInv /\ RangeInv

LEMMA HostKeepsItsInvariant == ReadingSpec => []HostInv
  <1>1. ReadingInit => HostInv
    BY FullStarts, RangeStarts DEF ReadingInit, HostInv
  <1>2. HostInv /\ [ReadingNext]_readingVars => HostInv'
    <2> SUFFICES ASSUME HostInv, [ReadingNext]_readingVars, subject' = "host"
                 PROVE  FullInv' /\ RangeInv'
      BY DEF HostInv
    <2>1. CASE HostStep
      BY <2>1, FullSteps, RangeSteps DEF HostStep, OfHost, HostInv
    <2>2. CASE UNCHANGED readingVars
      <3>1. subject = "host" /\ UNCHANGED vars
        BY <2>2 DEF readingVars
      <3> QED BY <3>1, FullSteps, RangeSteps DEF HostInv
    <2> QED BY <2>1, <2>2 DEF ReadingNext, ServerStep, XRefStep, LoaderStep, PagesStep, DocumentStep,
                              OfServer, OfXRef, OfLoader, OfPages, OfDocument
  <1> QED BY <1>1, <1>2, PTL DEF ReadingSpec

\* However reads, chunks and cancellations interleave, the n-th read of the full reader
\* returns the n-th chunk or the end, which comes after everything that was sent, and a range
\* is refused only when this reader has it (PDFDataTransportStreamReader).
THEOREM HostHandsOverTheFile == ReadingSpec => []HostGivesTheFile
  <1>1. HostInv => HostGivesTheFile
    <2> SUFFICES ASSUME HostInv, subject = "host" PROVE FullReaderIsTheFile
      BY DEF HostGivesTheFile
    <2>1. /\ owed \subseteq DOMAIN range /\ assertFailed \in BOOLEAN
          /\ \A i \in DOMAIN rangeReaders : rangeReaders[i] \in DOMAIN range
      BY LenProperties, ElementOfSeq DEF HostInv, RangeInv, RangesAre, ListIs
    <2> QED BY <2>1, FullMeans DEF HostInv
  <1> QED BY <1>1, HostKeepsItsInvariant, PTL

\* A range reader returns the data of its own range, once, and the assertion that somebody
\* waits for the data of a range holds until something is cancelled
\* (PDFDataTransportStreamRangeReader, _onReceiveData).
THEOREM HostHandsOverTheRange == ReadingSpec => []HostGivesTheRange
  <1>1. HostInv => HostGivesTheRange
    BY RangeMeans DEF HostInv, HostGivesTheRange
  <1> QED BY <1>1, HostKeepsItsInvariant, PTL

------------------------------------------------------------------------------
(* ObjectLoader: nothing that can be reached is forgotten.                  *)

RefNodes == {RefNode(ref) : ref \in Refs} \cup {StreamNode(ref) : ref \in Refs}

LoaderTypes ==
    /\ graph \in Graphs /\ streams \in StreamSets /\ bad \in BadSets
    /\ toVisit \in Seq(RefNodes) /\ toRevisit \in Seq(RefNodes) /\ refSet \subseteq Refs
    /\ phase \in {"walk", "wait", "waitAll", "loaded", "all"}

\* A reference has been met, or will be.
Met(ref) == ref \in refSet \/ HasOne(toVisit, {RefNode(ref)})

\* One that has been met was not there and will be visited again, or it is there,
\* its data is there or requested, and its children are met.
Missed(ref) == HasOne(toRevisit, {RefNode(ref)})
Visited(ref) ==
    /\ \A n \in 1 .. Pieces : <<ref, n>> \in data
    /\ ref \in streams => <<ref, 0>> \in data \cup requests
    /\ \A i \in 1 .. Len(graph[ref]) : Met(graph[ref][i])

WalkIsSound ==
    /\ \A i \in 1 .. Len(Keys) : Met(Keys[i])
    /\ \A ref \in refSet : Missed(ref) \/ Visited(ref)
    /\ (\E ref \in Refs : Missed(ref)) => requests # {}

LoaderInv ==
    /\ LoaderTypes
    /\ phase \in {"walk", "wait"} => WalkIsSound
    /\ phase = "wait" => toVisit = << >>
    /\ phase = "waitAll" => requests = AllPieces
    /\ LoadedMeansReachable


LEMMA NodesAre ==
    /\ \A ref \in Refs : RefNode(ref) \in RefNodes /\ StreamNode(ref) \in RefNodes
    /\ \A ref, other \in Refs : RefNode(ref) = RefNode(other) => ref = other
    /\ \A node \in RefNodes :
          /\ node.ref \in Refs /\ node.object \in BOOLEAN
          /\ ~node.object => node = RefNode(node.ref)
          /\ node.object => \A ref \in Refs : node # RefNode(ref)
  <1>1. \A ref : RefNode(ref).ref = ref /\ RefNode(ref).object = FALSE
    BY DEF RefNode
  <1>2. \A ref : StreamNode(ref).ref = ref /\ StreamNode(ref).object = TRUE
    BY DEF StreamNode
  <1>3. \A ref \in Refs : RefNode(ref) \in RefNodes /\ StreamNode(ref) \in RefNodes
    BY DEF RefNodes
  <1>4. ASSUME NEW ref \in Refs, NEW other \in Refs, RefNode(ref) = RefNode(other) PROVE ref = other
    <2>1. RefNode(ref).ref = RefNode(other).ref
      BY <1>4
    <2> QED BY <1>1, <2>1
  <1>5. ASSUME NEW node \in RefNodes
        PROVE  /\ node.ref \in Refs /\ node.object \in BOOLEAN
               /\ ~node.object => node = RefNode(node.ref)
               /\ node.object => \A ref \in Refs : node # RefNode(ref)
    <2>1. \/ \E ref \in Refs : node = RefNode(ref)
          \/ \E ref \in Refs : node = StreamNode(ref)
      BY DEF RefNodes
    <2>2. ASSUME NEW ref \in Refs, node = RefNode(ref)
          PROVE  node.ref \in Refs /\ node.object = FALSE /\ node = RefNode(node.ref)
      BY <1>1, <2>2, Zenon
    <2>3. ASSUME NEW ref \in Refs, node = StreamNode(ref)
          PROVE  node.ref \in Refs /\ node.object = TRUE /\ \A other \in Refs : node # RefNode(other)
      <3>1. node.ref \in Refs /\ node.object = TRUE
        BY <1>2, <2>3, Zenon
      <3>2. \A other \in Refs : node = RefNode(other) => node.object = FALSE
        BY <1>1, Zenon
      <3> QED BY <3>1, <3>2
    <2> QED BY <2>1, <2>2, <2>3
  <1> QED BY <1>3, <1>4, <1>5

\* What taking the last node leaves, and what putting a sequence behind another holds.
LEMMA FrontHas ==
    ASSUME NEW S, NEW q \in Seq(S), q # << >>
    PROVE  /\ Front(q) \in Seq(S) /\ Last(q) \in S
           /\ \A x : HasOne(q, {x}) <=> HasOne(Front(q), {x}) \/ x = Last(q)
  <1>1. Len(q) \in Nat \ {0} /\ \A i \in 1 .. Len(q) : q[i] \in S
    BY EmptySeq, LenProperties, ElementOfSeq
  <1>2. /\ Front(q) \in Seq(S) /\ Len(Front(q)) = Len(q) - 1
        /\ \A i \in 1 .. Len(q) - 1 : Front(q)[i] = q[i]
    <2> DEFINE n == Len(q) - 1
    <2>1. 1 \in 1 .. Len(q) + 1 /\ n \in 0 .. Len(q) /\ n - 1 + 1 = n
      BY <1>1
    <2>2. \A i \in 1 .. n : 1 + i - 1 = i
      BY <1>1
    <2> HIDE DEF n
    <2>3. /\ SubSeq(q, 1, n) \in Seq(S) /\ Len(SubSeq(q, 1, n)) = n
          /\ \A i \in 1 .. n : SubSeq(q, 1, n)[i] = q[i]
      <3>1. \A i \in 1 .. n : q[i] \in S
        BY <1>1, <2>1
      <3>2. 1 \in Int /\ n \in Int /\ n >= 0
        BY <2>1
      <3>3. n - 1 + 1 = n /\ (IF 1 <= n THEN n - 1 + 1 ELSE 0) = n
        BY <3>2
      <3> QED BY <2>2, <3>1, <3>2, <3>3, SubSeqProperties
    <2> QED BY <2>3 DEF Front, n
  <1>3. Last(q) = q[Len(q)] /\ Len(q) \in 1 .. Len(q)
    BY <1>1 DEF Last
  <1>4. \A i \in 1 .. Len(q) : i = Len(q) \/ i \in 1 .. Len(q) - 1
    BY <1>1
  <1>5. \A i \in 1 .. Len(q) - 1 : i \in 1 .. Len(q)
    BY <1>1
  <1>6. \A x : HasOne(q, {x}) => HasOne(Front(q), {x}) \/ x = Last(q)
    BY <1>2, <1>3, <1>4 DEF HasOne
  <1>7. \A x : HasOne(Front(q), {x}) => HasOne(q, {x})
    BY <1>2, <1>5 DEF HasOne
  <1>8. HasOne(q, {Last(q)})
    BY <1>3 DEF HasOne
  <1> QED BY <1>1, <1>2, <1>3, <1>6, <1>7, <1>8

LEMMA BothHave ==
    ASSUME NEW S, NEW p \in Seq(S), NEW q \in Seq(S)
    PROVE  /\ p \o q \in Seq(S)
           /\ \A x : HasOne(p, {x}) \/ HasOne(q, {x}) => HasOne(p \o q, {x})
  <1>1. /\ p \o q \in Seq(S) /\ Len(p \o q) = Len(p) + Len(q) /\ Len(p) \in Nat /\ Len(q) \in Nat
        /\ \A i \in 1 .. Len(p) + Len(q) : (p \o q)[i] = IF i <= Len(p) THEN p[i] ELSE q[i - Len(p)]
    BY ConcatProperties, LenProperties
  <1> DEFINE r == p \o q
  <1> HIDE DEF r
  <1>2. \A i \in 1 .. Len(p) : i \in 1 .. Len(r) /\ r[i] = p[i]
    BY <1>1 DEF r
  <1>3. \A i \in 1 .. Len(q) : Len(p) + i \in 1 .. Len(r) /\ r[Len(p) + i] = q[i]
    BY <1>1 DEF r
  <1>4. \A x : HasOne(p, {x}) \/ HasOne(q, {x}) => HasOne(r, {x})
    BY <1>2, <1>3 DEF HasOne
  <1> QED BY <1>1, <1>4 DEF r

LEMMA LoaderFacts ==
    ASSUME LoaderInv
    PROVE  /\ streams \subseteq Refs /\ graph \in [Refs -> Seq(Refs)]
           /\ toVisit \in Seq(RefNodes) /\ toRevisit \in Seq(RefNodes) /\ refSet \subseteq Refs
           /\ Keys \in Seq(Refs)
  BY LoaderAssumption DEF LoaderInv, LoaderTypes

LEMMA LoaderStarts ==
    ASSUME LoaderInit PROVE LoaderInv
  <1>1. Keys \in Seq(Refs) /\ Len(Keys) \in Nat /\ DOMAIN Keys = 1 .. Len(Keys)
    BY LoaderAssumption, LenProperties
  <1>2. toVisit = [i \in 1 .. Len(Keys) |-> RefNode(Keys[i])] /\ toRevisit = << >> /\ refSet = {}
    BY <1>1 DEF LoaderInit
  <1>3. \A i \in 1 .. Len(Keys) : Keys[i] \in Refs
    BY <1>1, ElementOfSeq
  <1>4. toVisit \in Seq(RefNodes) /\ Len(toVisit) = Len(Keys)
    <2>1. \A i \in 1 .. Len(Keys) : RefNode(Keys[i]) \in RefNodes
      BY <1>3, NodesAre
    <2> QED BY <1>1, <1>2, <2>1, IsASeq
  <1>5. LoaderTypes
    <2>1. << >> \in Seq(RefNodes)
      BY EmptySeq
    <2> QED BY <1>2, <1>4, <2>1 DEF LoaderInit, LoaderTypes
  <1>6. WalkIsSound
    <2>1. \A i \in 1 .. Len(Keys) : HasOne(toVisit, {RefNode(Keys[i])})
      BY <1>2, <1>4 DEF HasOne
    <2>2. \A ref \in Refs : ~Missed(ref)
      BY <1>2 DEF Missed, HasOne
    <2> QED BY <1>2, <2>1, <2>2 DEF WalkIsSound, Met
  <1>7. phase \in {"walk", "loaded"} /\ (phase = "loaded" => data = AllPieces)
    BY DEF LoaderInit
  <1>8. LoadedMeansReachable
    <2>1. UNION {PiecesOf(ref) : ref \in Reachable} \subseteq AllPieces
      BY DEF AllPieces, Reachable
    <2> QED BY <1>7, <2>1 DEF LoadedMeansReachable
  <1> QED BY <1>5, <1>6, <1>7, <1>8 DEF LoaderInv

LEMMA LoaderStays ==
    ASSUME LoaderInv, UNCHANGED loaderVars PROVE LoaderInv'
  <1> USE DEF loaderVars, loaderFile
  <1>1. LoaderTypes'
    BY DEF LoaderInv, LoaderTypes
  <1>2. WalkIsSound' <=> WalkIsSound
    BY DEF WalkIsSound, Met, Missed, Visited
  <1>3. AllPieces' = AllPieces
    BY DEF AllPieces, PiecesOf
  <1>4. LoadedMeansReachable' <=> LoadedMeansReachable
    BY DEF LoadedMeansReachable, Reachable, Closed, PiecesOf
  <1> QED BY <1>1, <1>2, <1>3, <1>4 DEF LoaderInv

\* What is met stays met, and what is kept in mind is not lost, in a step of the walk.
LEMMA WalkGoesOn ==
    ASSUME LoaderInv, phase = "walk", phase' = "walk", UNCHANGED <<loaderFile, data>>,
           toVisit' \in Seq(RefNodes), toRevisit' \in Seq(RefNodes), refSet' \subseteq Refs,
           requests \subseteq requests', requests # {} => requests' # {},
           \A ref \in Refs : Met(ref) => Met(ref)',
           \A ref \in Refs : Missed(ref) => Missed(ref)',
           \A ref \in refSet' : ref \in refSet \/ Missed(ref)' \/ Visited(ref)',
           \A ref \in Refs : Missed(ref)' => Missed(ref) \/ requests' # {}
    PROVE  LoaderInv'
  <1>1. /\ graph \in [Refs -> Seq(Refs)] /\ Keys \in Seq(Refs) /\ refSet \subseteq Refs
    BY LoaderFacts
  <1>2. WalkIsSound
    BY DEF LoaderInv
  <1>3. LoaderTypes'
    BY DEF LoaderInv, LoaderTypes, loaderFile
  <1>4. \A i \in 1 .. Len(Keys) : Met(Keys[i])'
    <2>1. \A i \in 1 .. Len(Keys) : Keys[i] \in Refs
      BY <1>1, ElementOfSeq
    <2> QED BY <1>2, <2>1 DEF WalkIsSound
  <1>5. ASSUME NEW ref \in refSet PROVE Missed(ref)' \/ Visited(ref)'
    <2>1. CASE Missed(ref)
      BY <1>1, <2>1
    <2>2. CASE Visited(ref)
      <3>1. graph' = graph /\ streams' = streams /\ data' = data
        BY DEF loaderFile
      <3>2. \A i \in 1 .. Len(graph[ref]) : graph[ref][i] \in Refs /\ Met(graph[ref][i])
        BY <1>1, <2>2, ElementOfSeq DEF Visited
      <3>3. \A r \in Refs : r \in refSet \/ HasOne(toVisit, {RefNode(r)}) =>
                             r \in refSet' \/ HasOne(toVisit', {RefNode(r)})
        BY DEF Met
      <3> QED BY <2>2, <3>1, <3>2, <3>3 DEF Visited, Met
    <2> QED BY <1>2, <2>1, <2>2 DEF WalkIsSound
  <1>6. \A ref \in refSet' : Missed(ref)' \/ Visited(ref)'
    BY <1>5
  <1>7. (\E ref \in Refs : Missed(ref)') => requests' # {}
    BY <1>2 DEF WalkIsSound
  <1>8. WalkIsSound'
    BY <1>4, <1>6, <1>7 DEF WalkIsSound
  <1>9. LoadedMeansReachable'
    BY DEF LoadedMeansReachable
  <1> QED BY <1>3, <1>8, <1>9 DEF LoaderInv

\* The node that is visited, and what is left.
LEMMA NodeIs ==
    ASSUME LoaderInv, toVisit # << >>
    PROVE  /\ Front(toVisit) \in Seq(RefNodes) /\ Node \in RefNodes
           /\ Node.ref \in Refs /\ Node.object \in BOOLEAN
           /\ ~Node.object => Node = RefNode(Node.ref)
           /\ \A ref \in Refs : HasOne(toVisit, {RefNode(ref)}) =>
                 HasOne(Front(toVisit), {RefNode(ref)}) \/ (~Node.object /\ ref = Node.ref)
  <1>1. toVisit \in Seq(RefNodes)
    BY LoaderFacts
  <1>2. /\ Front(toVisit) \in Seq(RefNodes) /\ Node \in RefNodes
        /\ \A x : HasOne(toVisit, {x}) <=> HasOne(Front(toVisit), {x}) \/ x = Node
    BY <1>1, FrontHas DEF Node
  <1>3. /\ Node.ref \in Refs /\ Node.object \in BOOLEAN
        /\ ~Node.object => Node = RefNode(Node.ref)
        /\ Node.object => \A ref \in Refs : Node # RefNode(ref)
    BY <1>2, NodesAre
  <1>4. ASSUME NEW ref \in Refs, RefNode(ref) = Node PROVE ~Node.object /\ ref = Node.ref
    BY <1>3, <1>4, NodesAre
  <1> QED BY <1>2, <1>3, <1>4

LEMMA NodeIsSkipped ==
    ASSUME LoaderInv, Visit, Skip PROVE LoaderInv'
  <1>1. /\ phase = "walk" /\ toVisit # << >> /\ UNCHANGED <<loaderFile, data>>
        /\ ~Node.object /\ Node.ref \in refSet /\ toVisit' = Front(toVisit)
        /\ UNCHANGED <<refSet, toRevisit, requests, phase>>
    BY DEF Visit, Skip
  <1>2. /\ Front(toVisit) \in Seq(RefNodes)
        /\ \A ref \in Refs : HasOne(toVisit, {RefNode(ref)}) =>
              HasOne(Front(toVisit), {RefNode(ref)}) \/ (~Node.object /\ ref = Node.ref)
    BY <1>1, NodeIs
  <1>3. \A ref \in Refs : Met(ref) => Met(ref)'
    BY <1>1, <1>2 DEF Met
  <1>4. \A ref \in Refs : Missed(ref)' <=> Missed(ref)
    BY <1>1 DEF Missed
  <1>5. /\ phase' = "walk" /\ toVisit' \in Seq(RefNodes) /\ toRevisit' \in Seq(RefNodes)
        /\ refSet' \subseteq Refs /\ requests' = requests
    BY <1>1, <1>2, LoaderFacts
  <1>6. \A ref \in refSet' : ref \in refSet
    BY <1>1
  <1> QED BY <1>1, <1>3, <1>4, <1>5, <1>6, WalkGoesOn

\* Putting a node in toRevisit.
LEMMA IsRevisited ==
    ASSUME LoaderInv, NEW node \in RefNodes
    PROVE  /\ Append(toRevisit, node) \in Seq(RefNodes)
           /\ \A ref : HasOne(Append(toRevisit, node), {RefNode(ref)}) <=>
                          HasOne(toRevisit, {RefNode(ref)}) \/ node = RefNode(ref)
  <1>1. toRevisit \in Seq(RefNodes)
    BY LoaderFacts
  <1>2. Append(toRevisit, node) \in Seq(RefNodes) /\ IsPosted(toRevisit, node, Append(toRevisit, node))
    BY <1>1, Posted
  <1> QED BY <1>2, AfterPosting

LEMMA NodeIsMissing ==
    ASSUME LoaderInv, Visit, Missing PROVE LoaderInv'
  <1>1. /\ phase = "walk" /\ toVisit # << >> /\ UNCHANGED <<loaderFile, data>>
        /\ ~Node.object /\ toVisit' = Front(toVisit) /\ phase' = phase
        /\ refSet' = refSet \cup {Node.ref} /\ toRevisit' = Append(toRevisit, Node)
    BY DEF Visit, Missing
  <1>2. requests \subseteq requests' /\ requests' # {}
    BY DEF Missing
  <1>3. /\ Front(toVisit) \in Seq(RefNodes) /\ Node \in RefNodes /\ Node.ref \in Refs
        /\ Node = RefNode(Node.ref)
        /\ \A ref \in Refs : HasOne(toVisit, {RefNode(ref)}) =>
              HasOne(Front(toVisit), {RefNode(ref)}) \/ ref = Node.ref
    BY <1>1, NodeIs
  <1>4. /\ toRevisit' \in Seq(RefNodes)
        /\ \A ref : HasOne(toRevisit', {RefNode(ref)}) <=>
                       HasOne(toRevisit, {RefNode(ref)}) \/ Node = RefNode(ref)
    BY <1>1, <1>3, IsRevisited
  <1>5. \A ref \in Refs : Met(ref) => Met(ref)'
    BY <1>1, <1>3 DEF Met
  <1>6. \A ref \in Refs : Missed(ref) => Missed(ref)'
    BY <1>4 DEF Missed
  <1>7. \A ref \in refSet' : ref \in refSet \/ Missed(ref)'
    BY <1>1, <1>3, <1>4 DEF Missed
  <1>8. toVisit' \in Seq(RefNodes) /\ refSet' \subseteq Refs /\ phase' = "walk"
    BY <1>1, <1>3, LoaderFacts
  <1> QED BY <1>1, <1>2, <1>4, <1>5, <1>6, <1>7, <1>8, WalkGoesOn

LEMMA NodeIsBroken ==
    ASSUME LoaderInv, Visit, Broken PROVE LoaderInv'
  <1>1. /\ UNCHANGED <<loaderFile, data, toVisit, toRevisit>>
        /\ phase' = "waitAll" /\ refSet' = {} /\ requests' = AllPieces
    BY DEF Visit, Broken
  <1>2. AllPieces' = AllPieces
    BY <1>1 DEF AllPieces, PiecesOf, loaderFile
  <1>3. LoaderTypes'
    BY <1>1 DEF LoaderInv, LoaderTypes, loaderFile
  <1>4. LoadedMeansReachable'
    BY <1>1 DEF LoadedMeansReachable
  <1> QED BY <1>1, <1>2, <1>3, <1>4 DEF LoaderInv

LEMMA ObjectIsVisited ==
    ASSUME LoaderInv, Visit, VisitObject PROVE LoaderInv'
  <1> DEFINE r == Node.ref
             late == r \in streams /\ <<r, 0>> \notin data
  <1>1. /\ phase = "walk" /\ toVisit # << >> /\ UNCHANGED <<loaderFile, data>> /\ phase' = phase
        /\ Node.object \/ Fetches(r)
        /\ requests' = requests \cup (IF late THEN {<<r, 0>>} ELSE {})
        /\ toRevisit' = IF late THEN Append(toRevisit, StreamNode(r)) ELSE toRevisit
        /\ refSet' = IF Node.object THEN refSet ELSE refSet \cup {r}
        /\ toVisit' = Front(toVisit) \o Children(r)
    BY DEF Visit, VisitObject, Revisited
  <1>2. /\ Front(toVisit) \in Seq(RefNodes) /\ r \in Refs /\ Node.object \in BOOLEAN
        /\ \A ref \in Refs : HasOne(toVisit, {RefNode(ref)}) =>
              HasOne(Front(toVisit), {RefNode(ref)}) \/ (~Node.object /\ ref = r)
    BY <1>1, NodeIs
  <1> HIDE DEF r, late
  <1>3. graph[r] \in Seq(Refs) /\ graph' = graph /\ streams' = streams /\ data' = data
    BY <1>1, <1>2, LoaderFacts DEF loaderFile
  <1>4. /\ Children(r) \in Seq(RefNodes)
        /\ \A i \in 1 .. Len(graph[r]) : graph[r][i] \in Refs /\ HasOne(Children(r), {RefNode(graph[r][i])})
    <2>1. Len(graph[r]) \in Nat /\ DOMAIN graph[r] = 1 .. Len(graph[r])
          /\ \A i \in 1 .. Len(graph[r]) : graph[r][i] \in Refs
      BY <1>3, LenProperties, ElementOfSeq
    <2>2. Children(r) = [i \in 1 .. Len(graph[r]) |-> RefNode(graph[r][i])]
      BY <2>1 DEF Children
    <2>3. \A i \in 1 .. Len(graph[r]) : RefNode(graph[r][i]) \in RefNodes
      BY <2>1, NodesAre
    <2>4. Children(r) \in Seq(RefNodes) /\ Len(Children(r)) = Len(graph[r])
      BY <2>1, <2>2, <2>3, IsASeq
    <2> QED BY <2>1, <2>2, <2>4 DEF HasOne
  <1>5. /\ toVisit' \in Seq(RefNodes)
        /\ \A x : HasOne(Front(toVisit), {x}) \/ HasOne(Children(r), {x}) => HasOne(toVisit', {x})
    BY <1>1, <1>2, <1>4, BothHave
  <1>6. \A ref \in Refs : Met(ref) => Met(ref)'
    BY <1>1, <1>2, <1>5 DEF Met
  <1>7. toRevisit' \in Seq(RefNodes) /\ \A ref \in Refs : Missed(ref) <=> Missed(ref)'
    <2>1. CASE late
      <3>1. StreamNode(r) \in RefNodes /\ \A ref : StreamNode(r) # RefNode(ref)
        <4>1. StreamNode(r).object = TRUE /\ \A ref : RefNode(ref).object = FALSE
          BY DEF StreamNode, RefNode
        <4> QED BY <1>2, <4>1, NodesAre
      <3> QED BY <1>1, <2>1, <3>1, IsRevisited DEF Missed
    <2>2. CASE ~late
      BY <1>1, <2>2, LoaderFacts DEF Missed
    <2> QED BY <2>1, <2>2
  <1>8. ASSUME NEW ref \in Refs, ref = r, ~Node.object PROVE Visited(ref)'
    <2>1. \A n \in 1 .. Pieces : <<ref, n>> \in data
      BY <1>1, <1>8 DEF Fetches, MissingPieces
    <2>2. ref \in streams => <<ref, 0>> \in data \cup requests'
      BY <1>1, <1>8 DEF late
    <2>3. \A i \in 1 .. Len(graph[ref]) : HasOne(toVisit', {RefNode(graph[ref][i])})
      BY <1>4, <1>5, <1>8
    <2> QED BY <1>3, <2>1, <2>2, <2>3 DEF Visited, Met
  <1>9. ASSUME NEW ref \in refSet' PROVE ref \in refSet \/ Visited(ref)'
    <2>1. ref \in refSet \/ (~Node.object /\ ref = r)
      BY <1>1, <1>2
    <2> QED BY <1>2, <1>8, <2>1
  <1>10. /\ refSet' \subseteq Refs /\ phase' = "walk" /\ requests \subseteq requests'
         /\ requests # {} => requests' # {}
    BY <1>1, <1>2, LoaderFacts
  <1> QED BY <1>1, <1>5, <1>6, <1>7, <1>9, <1>10, WalkGoesOn

\* The walk ends with everything that can be reached, or waits.
LEMMA WalkIsOver ==
    ASSUME LoaderInv, WalkEnds PROVE LoaderInv'
  <1>1. /\ phase = "walk" /\ toVisit = << >> /\ phase' = IF requests = {} THEN "loaded" ELSE "wait"
        /\ UNCHANGED <<loaderFile, data, toVisit, toRevisit, refSet, requests>>
    BY DEF WalkEnds
  <1>2. WalkIsSound
    BY <1>1 DEF LoaderInv
  <1>3. LoaderTypes'
    BY <1>1 DEF LoaderInv, LoaderTypes, loaderFile
  <1>4. WalkIsSound'
    BY <1>1, <1>2 DEF WalkIsSound, Met, Missed, Visited, loaderFile
  <1>5. ASSUME requests = {}
        PROVE  UNION {PiecesOf(ref) : ref \in Reachable} \subseteq data
    <2>1. /\ graph \in [Refs -> Seq(Refs)] /\ Keys \in Seq(Refs) /\ refSet \subseteq Refs
      BY LoaderFacts
    <2>2. \A ref \in Refs : Met(ref) => ref \in refSet
      BY <1>1 DEF Met, HasOne
    <2>3. \A ref \in refSet : Visited(ref)
      BY <1>2, <1>5, <2>1 DEF WalkIsSound
    <2>4. Closed(refSet)
      <3>1. ASSUME NEW i \in DOMAIN Keys PROVE Keys[i] \in refSet
        <4>1. i \in 1 .. Len(Keys) /\ Keys[i] \in Refs
          BY <2>1, LenProperties, ElementOfSeq
        <4> QED BY <1>2, <2>2, <4>1 DEF WalkIsSound
      <3>2. ASSUME NEW r \in refSet, NEW i \in DOMAIN graph[r] PROVE graph[r][i] \in refSet
        <4>1. graph[r] \in Seq(Refs)
          BY <2>1
        <4>2. i \in 1 .. Len(graph[r]) /\ graph[r][i] \in Refs
          BY <4>1, LenProperties, ElementOfSeq
        <4> QED BY <2>2, <2>3, <4>2 DEF Visited
      <3> QED BY <3>1, <3>2 DEF Closed
    <2>5. Reachable \subseteq refSet
      BY <2>1, <2>4 DEF Reachable
    <2>6. ASSUME NEW ref \in Reachable PROVE PiecesOf(ref) \subseteq data
      BY <1>5, <2>3, <2>5 DEF Visited, PiecesOf
    <2> QED BY <2>6
  <1>6. LoadedMeansReachable'
    <2>1. /\ data' = data /\ (phase' \in {"loaded", "all"} => requests = {})
          /\ UNION {PiecesOf(ref) : ref \in Reachable}' = UNION {PiecesOf(ref) : ref \in Reachable}
      BY <1>1 DEF Reachable, Closed, PiecesOf, loaderFile
    <2> QED BY <1>5, <2>1 DEF LoadedMeansReachable
  <1> QED BY <1>1, <1>3, <1>4, <1>6 DEF LoaderInv

LEMMA DataHasCome ==
    ASSUME LoaderInv, NEW piece, DataComes(piece) PROVE LoaderInv'
  <1>1. /\ phase \in {"wait", "waitAll"} /\ data \subseteq data'
        /\ UNCHANGED <<loaderFile, toVisit, toRevisit, refSet, requests, phase>>
    BY DEF DataComes
  <1>2. LoaderTypes'
    BY <1>1 DEF LoaderInv, LoaderTypes, loaderFile
  <1>3. WalkIsSound => WalkIsSound'
    BY <1>1 DEF WalkIsSound, Met, Missed, Visited, loaderFile
  <1>4. AllPieces' = AllPieces
    BY <1>1 DEF AllPieces, PiecesOf, loaderFile
  <1>5. LoadedMeansReachable'
    BY <1>1 DEF LoadedMeansReachable
  <1> QED BY <1>1, <1>2, <1>3, <1>4, <1>5 DEF LoaderInv

\* What was missing is met again; what is there stays there.
LEMMA WalkIsRepeated ==
    ASSUME LoaderInv, WalkAgain PROVE LoaderInv'
  <1>1. /\ phase = "wait" /\ toVisit = << >> /\ requests \subseteq data /\ phase' = "walk"
        /\ refSet' = refSet \ Forgotten(toRevisit) /\ toVisit' = toRevisit
        /\ toRevisit' = << >> /\ requests' = {} /\ UNCHANGED <<loaderFile, data>>
    BY DEF WalkAgain, LoaderInv
  <1>2. /\ graph \in [Refs -> Seq(Refs)] /\ Keys \in Seq(Refs) /\ refSet \subseteq Refs
        /\ toRevisit \in Seq(RefNodes)
    BY LoaderFacts
  <1>3. LoaderTypes'
    <2>1. << >> \in Seq(RefNodes)
      BY EmptySeq
    <2>2. toVisit' \in Seq(RefNodes) /\ toRevisit' \in Seq(RefNodes) /\ refSet' \subseteq Refs
      BY <1>1, <1>2, <2>1
    <2> QED BY <1>1, <2>2 DEF LoaderInv, LoaderTypes, loaderFile
  <1>4. WalkIsSound
    BY <1>1 DEF LoaderInv
  <1>5. \A ref \in refSet : ref \in refSet' \/ HasOne(toVisit', {RefNode(ref)})
    <2>1. ASSUME NEW ref \in Forgotten(toRevisit) PROVE HasOne(toRevisit, {RefNode(ref)})
      <3>1. DOMAIN toRevisit = 1 .. Len(toRevisit)
        BY <1>2, LenProperties
      <3>2. PICK i \in 1 .. Len(toRevisit) : ~toRevisit[i].object /\ ref = toRevisit[i].ref
        BY <3>1 DEF Forgotten
      <3>3. toRevisit[i] = RefNode(ref)
        BY <1>2, <3>2, ElementOfSeq, NodesAre
      <3> QED BY <3>3 DEF HasOne
    <2> QED BY <1>1, <2>1
  <1>6. \A ref \in Refs : Met(ref) => ref \in refSet' \/ HasOne(toVisit', {RefNode(ref)})
    BY <1>1, <1>5 DEF Met, HasOne
  <1>7. \A i \in 1 .. Len(Keys) : Met(Keys[i])'
    <2>1. \A i \in 1 .. Len(Keys) : Keys[i] \in Refs /\ Met(Keys[i])
      BY <1>2, <1>4, ElementOfSeq DEF WalkIsSound
    <2> QED BY <1>6, <2>1 DEF Met
  <1>8. ASSUME NEW ref \in refSet' PROVE Visited(ref)'
    <2>1. ref \in refSet /\ ref \notin Forgotten(toRevisit) /\ ref \in Refs
      BY <1>1, <1>2
    <2>2. ~Missed(ref)
      <3> SUFFICES ASSUME NEW i \in 1 .. Len(toRevisit), toRevisit[i] = RefNode(ref) PROVE FALSE
        BY DEF Missed, HasOne
      <3>1. DOMAIN toRevisit = 1 .. Len(toRevisit)
        BY <1>2, LenProperties
      <3>2. toRevisit[i].ref = ref /\ ~toRevisit[i].object
        BY DEF RefNode
      <3> QED BY <2>1, <3>1, <3>2 DEF Forgotten
    <2>3. Visited(ref)
      BY <1>4, <2>1, <2>2 DEF WalkIsSound
    <2>4. graph' = graph /\ streams' = streams /\ data' = data
      BY <1>1 DEF loaderFile
    <2>5. \A i \in 1 .. Len(graph[ref]) : graph[ref][i] \in Refs /\ Met(graph[ref][i])
      BY <1>2, <2>1, <2>3, ElementOfSeq DEF Visited
    <2>6. \A i \in 1 .. Len(graph[ref]) :
             graph[ref][i] \in refSet' \/ HasOne(toVisit', {RefNode(graph[ref][i])})
      BY <1>6, <2>5
    <2> QED BY <1>1, <2>3, <2>4, <2>6 DEF Visited, Met
  <1>9. \A ref \in Refs : ~Missed(ref)'
    BY <1>1 DEF Missed, HasOne
  <1>10. WalkIsSound'
    BY <1>7, <1>8, <1>9 DEF WalkIsSound
  <1>11. LoadedMeansReachable'
    BY <1>1 DEF LoadedMeansReachable
  <1> QED BY <1>1, <1>3, <1>10, <1>11 DEF LoaderInv

LEMMA AllHasCome ==
    ASSUME LoaderInv, AllComes PROVE LoaderInv'
  <1>1. /\ phase = "waitAll" /\ requests \subseteq data /\ phase' = "all" /\ requests = AllPieces
        /\ UNCHANGED <<loaderFile, data, toVisit, toRevisit, refSet, requests>>
    BY DEF AllComes, LoaderInv
  <1>2. LoaderTypes'
    BY <1>1 DEF LoaderInv, LoaderTypes, loaderFile
  <1>3. UNION {PiecesOf(ref) : ref \in Reachable} \subseteq data
    BY <1>1 DEF AllPieces, Reachable
  <1>4. UNION {PiecesOf(ref) : ref \in Reachable}' = UNION {PiecesOf(ref) : ref \in Reachable}
    BY <1>1 DEF Reachable, Closed, PiecesOf, loaderFile
  <1>5. LoadedMeansReachable'
    BY <1>1, <1>3, <1>4 DEF LoadedMeansReachable
  <1> QED BY <1>1, <1>2, <1>5 DEF LoaderInv

LEMMA LoaderSteps ==
    ASSUME LoaderInv, [LoaderNext]_loaderVars PROVE LoaderInv'
  BY NodeIsSkipped, NodeIsMissing, NodeIsBroken, ObjectIsVisited, WalkIsOver, DataHasCome,
     WalkIsRepeated, AllHasCome, LoaderStays DEF LoaderNext, Walks, Visit

ReachableInv == subject = "loader" => LoaderInv

\* When load() is answered, everything that can be reached is there, in a file of any
\* shape, with cycles and objects that are missing several times (ObjectLoader).
THEOREM LoaderFindsEverything == ReadingSpec => []LoadedIsComplete
  <1>1. ReadingInit => ReachableInv
    BY LoaderStarts DEF ReadingInit, ReachableInv
  <1>2. ReachableInv /\ [ReadingNext]_readingVars => ReachableInv'
    <2> SUFFICES ASSUME ReachableInv, [ReadingNext]_readingVars, subject' = "loader" PROVE LoaderInv'
      BY DEF ReachableInv
    <2>1. CASE LoaderStep
      BY <2>1, LoaderSteps DEF LoaderStep, OfLoader, ReachableInv
    <2>2. CASE UNCHANGED readingVars
      BY <2>2, LoaderStays DEF readingVars, ReachableInv
    <2> QED BY <2>1, <2>2 DEF ReadingNext, HostStep, ServerStep, XRefStep, PagesStep, DocumentStep,
                              OfHost, OfServer, OfXRef, OfPages, OfDocument
  <1>3. ReachableInv => LoadedIsComplete
    BY DEF ReachableInv, LoadedIsComplete, LoaderInv
  <1> QED BY <1>1, <1>2, <1>3, PTL DEF ReadingSpec

==============================================================================
