------------------------- MODULE MessageStream_proofs -------------------------
(***************************************************************************)
(* What a stream between two message handlers guarantees, for chunks of    *)
(* every size and number, any number of reads, handlers of both kinds and  *)
(* whatever fails, is closed or is cancelled meanwhile.                    *)
(*                                                                         *)
(* A call (start, pull, cancel) is a token that goes round: it is posted,  *)
(* taken by the sink, answered, and the answer is taken.  From where the   *)
(* tokens are follows what a handler may meet (StartToken, PullToken,      *)
(* CancelToken, Answered); from the order of a port follows that nothing   *)
(* comes after the end (EndIsLast, OverIsOver), and which chunks are under *)
(* way (ChunksUnderWay).  What the reader has to hold is counted along the *)
(* way of the pull token (RoomCounted).                                    *)
(***************************************************************************)
EXTENDS MessageStream, SequenceTheorems, WellFoundedInduction, TLAPS

(* The inductive invariant.                                                 *)

Has(port, kind)  == \E i \in 1 .. Len(port) : port[i].kind = kind
Once(port, kind) ==
    \A i, j \in 1 .. Len(port) : port[i].kind = kind /\ port[j].kind = kind => i = j

ChunkRecords == (1 .. MaxChunks) \X Sizes

Streams ==
    [state : {"readable", "closed", "errored"}, queue : Seq(ChunkRecords),
     closeRequested : BOOLEAN, started : BOOLEAN, pulling : BOOLEAN, pullAgain : BOOLEAN,
     reads : 0 .. MaxReads]
Sinks ==
    [known : BOOLEAN, isCancelled : BOOLEAN, desiredSize : Int,
     ready : {"pending", "resolved", "rejected"}]
Producers ==
    [running : BOOLEAN, starting : BOOLEAN, pulls : Nat, cancels : Nat, owed : Nat,
     goesBy : Handlers, closeTo : CloseAddresses]

TypeInv ==
    /\ toSink \in Seq(Messages) /\ toReader \in Seq(Replies)
    /\ entry \in {"none", "present", "deleted"}
    /\ isClosed \in BOOLEAN
    /\ calls \in [CallNames -> CallStates]
    /\ deleting \subseteq SUBSET CallNames
    /\ stream \in Streams /\ sink \in Sinks /\ producer \in Producers
    /\ produced \in 0 .. MaxChunks
    /\ delivered \in Seq(1 .. MaxChunks)

\* Nothing has happened at the sink before the action arrives.
NotCreated == entry = "none" \/ Has(toSink, "ACTION")

BeforeCreation ==
    /\ entry = "none" => toSink = << >> /\ calls = [c \in CallNames |-> "null"] /\ deleting = {}
                         /\ ~stream.pulling /\ ~stream.closeRequested /\ ~stream.started
                         /\ stream.state = "readable" /\ stream.queue = << >> /\ delivered = << >>
                         /\ stream.reads = 0 /\ ~isClosed
    /\ \A i \in 1 .. Len(toSink) :
          toSink[i].kind = "ACTION" => i = 1 /\ toSink[i].desiredSize = HighWaterMark
    /\ NotCreated =>
          /\ toReader = << >> /\ produced = 0
          /\ ~producer.running /\ ~producer.starting /\ producer.pulls = 0 /\ producer.cancels = 0
          /\ ~sink.known /\ ~sink.isCancelled /\ sink.desiredSize = 0

\* A call that is pending is in one place: posted, at the sink, or answered.
StartToken ==
    /\ Once(toReader, "START_COMPLETE")
    /\ Has(toSink, "ACTION") => ~producer.starting /\ ~Has(toReader, "START_COMPLETE")
    /\ producer.starting => ~Has(toReader, "START_COMPLETE")
    /\ Has(toSink, "ACTION") \/ producer.starting \/ Has(toReader, "START_COMPLETE")
          <=> calls["start"] = "pending"
    /\ entry # "none" => calls["start"] # "null"
    /\ stream.started => calls["start"] # "pending"

PullToken ==
    /\ Once(toSink, "PULL") /\ Once(toReader, "PULL_COMPLETE")
    /\ Has(toSink, "PULL") => producer.pulls = 0 /\ ~Has(toReader, "PULL_COMPLETE")
    /\ producer.pulls \in {0, 1}
    /\ producer.pulls = 1 => ~Has(toReader, "PULL_COMPLETE")
    /\ Has(toSink, "PULL") \/ producer.pulls = 1 \/ Has(toReader, "PULL_COMPLETE")
          <=> calls["pull"] = "pending"
    /\ stream.pulling <=> calls["pull"] = "pending"
    /\ stream.pulling => stream.started

\* A CANCEL that finds no sink is not answered.
Answerable ==
    \/ Has(toSink, "CANCEL") /\ (NotCreated \/ sink.known)
    \/ producer.cancels = 1 \/ Has(toReader, "CANCEL_COMPLETE")

CancelToken ==
    /\ Once(toSink, "CANCEL") /\ Once(toReader, "CANCEL_COMPLETE")
    /\ producer.cancels \in {0, 1}
    /\ Has(toSink, "CANCEL") => producer.cancels = 0 /\ ~Has(toReader, "CANCEL_COMPLETE")
    /\ producer.cancels = 1 => ~Has(toReader, "CANCEL_COMPLETE")
    /\ Has(toSink, "CANCEL") \/ producer.cancels = 1 \/ Has(toReader, "CANCEL_COMPLETE")
          => calls["cancel"] = "pending"
    /\ producer.cancels = 1 \/ Has(toReader, "CANCEL_COMPLETE") => sink.isCancelled
    /\ calls["cancel"] # "null" => isClosed /\ stream.state # "readable"

\* The sink posts no more data.
NoMore == sink.isCancelled \/ (~producer.running /\ ~NotCreated)

Data(m)  == m.kind \in {"ENQUEUE", "CLOSE", "ERROR"}
Final(m) ==
    \/ m.kind \in {"CLOSE", "ERROR", "CANCEL_COMPLETE"}
    \/ m.kind \in {"START_COMPLETE", "PULL_COMPLETE"} /\ ~m.success

HasData == \E i \in 1 .. Len(toReader) : Data(toReader[i])

EndIsLast ==
    /\ \A i, j \in 1 .. Len(toReader) : i < j /\ Final(toReader[i]) => ~Data(toReader[j])
    /\ (\E i \in 1 .. Len(toReader) : Final(toReader[i])) => NoMore

SinkIsKnown ==
    /\ producer.running /\ ~sink.isCancelled => sink.known
    /\ sink.known => ~NotCreated
    /\ Has(toReader, "CLOSE") => ~sink.known
    /\ sink.known /\ ~sink.isCancelled => (sink.ready = "pending" <=> sink.desiredSize <= 0)

\* The reading end has been told of the end, or of a failure.
Over ==
    \/ deleting # {} \/ entry = "deleted"
    \/ stream.state = "errored" \/ stream.closeRequested
    \/ calls["cancel"] \in {"resolved", "rejected"}
    \/ stream.state = "closed" /\ calls["cancel"] = "null"

OverIsOver ==
    /\ Over => NoMore /\ ~HasData /\ (stream.state # "readable" \/ stream.closeRequested)
    /\ stream.closeRequested => ~sink.known /\ ~NotCreated /\ isClosed
    /\ stream.state = "closed" /\ calls["cancel"] = "null" => isClosed
    /\ stream.state = "readable" /\ isClosed => stream.closeRequested

\* A record that is being deleted waits for every answer that will come.
Answered ==
    /\ \A waitsFor \in deleting :
          /\ "start" \in waitsFor
          /\ calls["pull"] # "null" => "pull" \in waitsFor
          /\ Answerable => "cancel" \in waitsFor
    /\ entry = "deleted" =>
          calls["start"] # "pending" /\ calls["pull"] # "pending" /\ ~Answerable

\* The chunks under way are those that have been produced and not yet got, in order.
Got == Len(delivered) + Len(stream.queue)

ChunksUnderWay ==
    /\ \A i \in 1 .. Len(delivered) : delivered[i] = i
    /\ Len(delivered) <= produced
    /\ stream.reads > 0 => stream.queue = << >>
    /\ stream.state = "readable" =>
          /\ \A i \in 1 .. Len(stream.queue) : stream.queue[i][1] = Len(delivered) + i
          /\ Got <= produced
          /\ \A i \in 1 .. Len(toReader) :
                toReader[i].kind = "ENQUEUE" => toReader[i].chunk[1] \in Got + 1 .. produced
          /\ \A n \in Got + 1 .. produced : \E i \in 1 .. Len(toReader) :
                toReader[i].kind = "ENQUEUE" /\ toReader[i].chunk[1] = n
    /\ \A i, j \in 1 .. Len(toReader) :
          i < j /\ toReader[i].kind = "ENQUEUE" /\ toReader[j].kind = "ENQUEUE" =>
             toReader[i].chunk[1] < toReader[j].chunk[1]
    /\ \A i \in 1 .. Len(toReader) :
          toReader[i].kind = "ENQUEUE" => toReader[i].chunk[1] <= produced
    /\ stream.state = "closed" /\ calls["cancel"] = "null" => Len(delivered) = produced

\* The room that the sink believes the reader to have.
Room == IF sink.desiredSize > 0 THEN sink.desiredSize ELSE 0

PullsAskForRoom ==
    /\ \A i \in 1 .. Len(toSink) :
          toSink[i].kind = "PULL" => toSink[i].desiredSize \in 1 .. HighWaterMark
    /\ sink.desiredSize <= HighWaterMark

\* What a pull asks for is counted on top of what was under way when it was posted; when
\* it is answered, all of that has come.
RoomCounted ==
    producer.goesBy = "ready" /\ stream.state = "readable" =>
        /\ Buffered + Room <= 2 * HighWaterMark
        /\ \A i \in 1 .. Len(toSink) :
              toSink[i].kind = "PULL" =>
                  Buffered + Room + toSink[i].desiredSize <= 2 * HighWaterMark
        /\ \A i \in 1 .. Len(toReader) : toReader[i].kind = "PULL_COMPLETE" =>
              \E known \in 0 .. produced :
                 /\ produced - known + Room <= HighWaterMark
                 /\ \A j \in 1 .. Len(toReader) : toReader[j].kind = "ENQUEUE" =>
                       (j < i <=> toReader[j].chunk[1] <= known)
        /\ ~stream.started => produced + Room <= HighWaterMark
        /\ stream.started /\ ~stream.pulling => produced - Got + Room <= HighWaterMark

IInv ==
    /\ TypeInv /\ BeforeCreation
    /\ StartToken /\ PullToken /\ CancelToken
    /\ EndIsLast /\ SinkIsKnown /\ OverIsOver /\ Answered
    /\ ChunksUnderWay /\ PullsAskForRoom /\ RoomCounted

------------------------------------------------------------------------------
(* The total size of a queue.                                               *)

\* A set of naturals has a least element.
LEMMA LeastNatural ==
    ASSUME NEW S \in SUBSET Nat, S # {}
    PROVE  \E m \in S : \A n \in S : m <= n
  <1> DEFINE R == OpToRel(<, Nat)
  <1>1. IsWellFoundedOn(R, Nat)
    BY NatLessThanWellFounded
  <1>2. \A n, m \in Nat : n < m => <<n, m>> \in R
    BY DEF OpToRel
  <1> HIDE DEF R
  <1>3. PICK m \in S : \A n \in S : ~(<<n, m>> \in R)
    BY <1>1, WFMin
  <1>4. ASSUME NEW n \in S PROVE m <= n
    <2>1. n \in Nat /\ m \in Nat
      OBVIOUS
    <2>2. ~(<<n, m>> \in R)
      BY <1>3
    <2>3. ~(n < m)
      BY <1>2, <2>1, <2>2, Zenon
    <2> QED BY <2>1, <2>3
  <1> QED BY <1>4

Queues    == Seq(Nat \X Nat)
UpTo(n)   == {q \in Queues : Len(q) <= n}
Sums(f, n) ==
    /\ f \in [UpTo(n) -> Nat]
    /\ \A q \in UpTo(n) : f[q] = IF q = << >> THEN 0 ELSE Head(q)[2] + f[Tail(q)]

\* A queue that is not empty has a head and a rest that is shorter by one.
LEMMA ShorterQueue ==
    ASSUME NEW q \in Queues, q # << >>
    PROVE  /\ Head(q) \in Nat \X Nat /\ Tail(q) \in Queues
           /\ Len(q) \in Nat /\ Len(Tail(q)) \in Nat /\ Len(q) = Len(Tail(q)) + 1
  BY DEF Queues

\* There is a function that adds up queues of at most n chunks ...
LEMMA SumsExist == \A n \in Nat : \E f : Sums(f, n)
  <1> DEFINE bad == {n \in Nat : ~ \E f : Sums(f, n)}
  <1> SUFFICES ASSUME bad # {} PROVE FALSE
    OBVIOUS
  <1>1. PICK n \in bad : \A m \in bad : n <= m
    <2>1. bad \in SUBSET Nat
      OBVIOUS
    <2> HIDE DEF bad
    <2> QED BY <2>1, LeastNatural
  <1>2. CASE n = 0
    <2>1. UpTo(0) = {<< >>}
      <3>1. << >> \in UpTo(0)
        BY EmptySeq DEF UpTo, Queues
      <3>2. ASSUME NEW q \in UpTo(0) PROVE q = << >>
        <4>1. q \in Queues /\ Len(q) <= 0
          BY DEF UpTo
        <4> QED BY <4>1, EmptySeq DEF Queues
      <3> QED BY <3>1, <3>2
    <2>2. Sums([q \in UpTo(0) |-> 0], 0)
      BY <2>1 DEF Sums
    <2> QED BY <1>1, <1>2, <2>2
  <1>3. CASE n # 0
    <2>1. n - 1 \in Nat /\ n \in Nat
      BY <1>3
    <2>2. PICK g : Sums(g, n - 1)
      BY <1>1, <2>1
    <2> DEFINE f == [q \in UpTo(n) |-> IF q = << >> THEN 0 ELSE Head(q)[2] + g[Tail(q)]]
    <2>3. ASSUME NEW q \in UpTo(n), q # << >>
          PROVE  /\ Head(q)[2] \in Nat /\ Tail(q) \in UpTo(n - 1) /\ Tail(q) \in UpTo(n)
                 /\ g[Tail(q)] \in Nat
      <3>1. q \in Queues /\ Len(q) <= n
        BY DEF UpTo
      <3>2. Tail(q) \in UpTo(n - 1) /\ Tail(q) \in UpTo(n)
        BY <3>1, <2>1, <2>3, ShorterQueue DEF UpTo
      <3> QED BY <2>2, <2>3, <3>1, <3>2, ShorterQueue DEF Sums
    <2>4. f \in [UpTo(n) -> Nat]
      BY <2>3
    <2>5. ASSUME NEW q \in UpTo(n), q # << >> PROVE f[Tail(q)] = g[Tail(q)]
      BY <2>2, <2>3, <2>5 DEF Sums
    <2>6. Sums(f, n)
      BY <2>4, <2>5 DEF Sums
    <2> QED BY <1>1, <2>6
  <1> QED BY <1>2, <1>3

\* ... and two of them agree where both are defined.
LEMMA SumsAgree ==
    ASSUME NEW m \in Nat, NEW n \in Nat, NEW f, NEW g, Sums(f, m), Sums(g, n),
           NEW q \in UpTo(m), q \in UpTo(n)
    PROVE  f[q] = g[q]
  <1> DEFINE bad == {Len(r) : r \in {r \in UpTo(m) : r \in UpTo(n) /\ f[r] # g[r]}}
  <1> SUFFICES ASSUME bad # {} PROVE FALSE
    OBVIOUS
  <1>1. PICK k \in bad : \A l \in bad : k <= l
    <2>1. bad \in SUBSET Nat
      BY DEF UpTo, Queues
    <2> HIDE DEF bad
    <2> QED BY <2>1, LeastNatural
  <1>2. PICK r \in UpTo(m) : r \in UpTo(n) /\ f[r] # g[r] /\ k = Len(r)
    OBVIOUS
  <1>3. r # << >>
    BY <1>2 DEF Sums
  <1>4. r \in Queues
    BY DEF UpTo
  <1>5. Tail(r) \in UpTo(m) /\ Tail(r) \in UpTo(n)
    BY <1>2, <1>3, <1>4, ShorterQueue DEF UpTo
  <1>6. f[Tail(r)] # g[Tail(r)]
    BY <1>2, <1>3 DEF Sums
  <1>7. Len(Tail(r)) \in bad
    BY <1>5, <1>6
  <1>8. k <= Len(Tail(r))
    <2> HIDE DEF bad
    <2> QED BY <1>1, <1>7
  <1> QED BY <1>2, <1>3, <1>4, <1>8, ShorterQueue

\* So the total size is what its definition says.
LEMMA TotalEquation ==
    \A q \in Queues : Total[q] = IF q = << >> THEN 0 ELSE Head(q)[2] + Total[Tail(q)]
  <1> DEFINE Sum(q) == CHOOSE f : Sums(f, Len(q))
             F == [q \in Queues |-> Sum(q)[q]]
  <1>1. ASSUME NEW q \in Queues PROVE Len(q) \in Nat /\ Sums(Sum(q), Len(q)) /\ q \in UpTo(Len(q))
    <2>1. Len(q) \in Nat
      BY DEF Queues
    <2> QED BY <2>1, SumsExist DEF UpTo
  <1> HIDE DEF Sum
  <1>2. ASSUME NEW q \in Queues PROVE F[q] = IF q = << >> THEN 0 ELSE Head(q)[2] + F[Tail(q)]
    <2>1. CASE q = << >>
      BY <1>1, <2>1 DEF Sums
    <2>2. CASE q # << >>
      <3>1. Tail(q) \in Queues /\ Tail(q) \in UpTo(Len(q))
        BY <2>2, ShorterQueue DEF UpTo
      <3>2. Sum(Tail(q))[Tail(q)] = Sum(q)[Tail(q)]
        BY <1>1, <3>1, SumsAgree
      <3> QED BY <1>1, <2>2, <3>1, <3>2 DEF Sums
    <2> QED BY <2>1, <2>2
  <1> DEFINE Equation(f) ==
                 f = [q \in Queues |-> IF q = << >> THEN 0 ELSE Head(q)[2] + f[Tail(q)]]
  <1>3. Equation(F)
    <2>1. F = [q \in Queues |-> F[q]]
      OBVIOUS
    <2> HIDE DEF F
    <2> QED BY <1>2, <2>1
  <1> HIDE DEF F
  <1>4. Total = CHOOSE f : Equation(f)
    BY DEF Total, Queues
  <1>5. Equation(Total)
    <2> HIDE DEF Equation
    <2> QED BY <1>3, <1>4
  <1> QED BY <1>5

\* Every chunk has a size of at least 1.
LEMMA TotalBounds ==
    \A q \in Seq(Nat \X (Nat \ {0})) : Total[q] \in Nat /\ Len(q) <= Total[q]
  <1> DEFINE Sized == Seq(Nat \X (Nat \ {0}))
             Fine(q) == Total[q] \in Nat /\ Len(q) <= Total[q]
             bad == {Len(q) : q \in {q \in Sized : ~Fine(q)}}
  <1> SUFFICES ASSUME bad # {} PROVE FALSE
    OBVIOUS
  <1>1. PICK k \in bad : \A l \in bad : k <= l
    <2>1. bad \in SUBSET Nat
      OBVIOUS
    <2> HIDE DEF bad
    <2> QED BY <2>1, LeastNatural
  <1>2. PICK q \in Sized : ~Fine(q) /\ k = Len(q)
    OBVIOUS
  <1>3. ASSUME NEW r \in Sized PROVE r \in Queues
    BY DEF Queues
  <1>4. q # << >>
    <2>1. CASE q = << >>
      <3>1. Total[q] = 0 /\ Len(q) = 0
        BY <1>3, <2>1, TotalEquation
      <3> QED BY <1>2, <3>1
    <2> QED BY <2>1
  <1>5. /\ Tail(q) \in Sized /\ Head(q)[2] \in Nat \ {0}
        /\ Len(Tail(q)) \in Nat /\ Len(q) = Len(Tail(q)) + 1
    BY <1>4
  <1>6. Fine(Tail(q))
    <2>1. CASE ~Fine(Tail(q))
      <3> HIDE DEF Fine, Sized
      <3>1. Len(Tail(q)) \in bad
        BY <1>5, <2>1
      <3> HIDE DEF bad
      <3> QED BY <1>1, <1>2, <1>5, <3>1
    <2> QED BY <2>1
  <1>7. Total[q] = Head(q)[2] + Total[Tail(q)]
    BY <1>3, <1>4, TotalEquation
  <1> HIDE DEF bad, Sized
  <1>8. Fine(q)
    BY <1>5, <1>6, <1>7
  <1> QED BY <1>2, <1>8

------------------------------------------------------------------------------
(* Ports.                                                                   *)

\* What a message that is posted changes.
IsPosted(port, m, after) ==
    /\ Len(port) \in Nat /\ Len(after) = Len(port) + 1
    /\ \A i \in 1 .. Len(port) : after[i] = port[i]
    /\ \A i \in 1 .. Len(after) : i \in 1 .. Len(port) \/ i = Len(port) + 1
    /\ after[Len(port) + 1] = m
    /\ \A kind : Has(after, kind) <=> Has(port, kind) \/ m.kind = kind
    /\ \A kind : Once(port, kind) /\ (m.kind = kind => ~Has(port, kind)) => Once(after, kind)

\* What is posted comes behind all that is in the port ...
LEMMA Posted ==
    ASSUME NEW S, NEW port \in Seq(S), NEW m \in S
    PROVE  Append(port, m) \in Seq(S) /\ IsPosted(port, m, Append(port, m))
  <1> DEFINE after == Append(port, m)
  <1>1. /\ after \in Seq(S) /\ Len(port) \in Nat /\ Len(after) = Len(port) + 1
        /\ \A i \in 1 .. Len(port) : after[i] = port[i]
        /\ after[Len(port) + 1] = m
    BY AppendProperties, LenProperties
  <1> HIDE DEF after
  <1>2. ASSUME NEW i \in 1 .. Len(after) PROVE i \in 1 .. Len(port) \/ i = Len(port) + 1
    BY <1>1
  <1>3. ASSUME NEW kind PROVE Has(after, kind) <=> Has(port, kind) \/ m.kind = kind
    <2>1. Has(after, kind) => Has(port, kind) \/ m.kind = kind
      BY <1>1, <1>2 DEF Has
    <2>2. Has(port, kind) => Has(after, kind)
      <3> SUFFICES ASSUME NEW i \in 1 .. Len(port), port[i].kind = kind PROVE Has(after, kind)
        BY DEF Has
      <3>1. i \in 1 .. Len(after) /\ after[i].kind = kind
        BY <1>1
      <3> QED BY <3>1 DEF Has
    <2>3. m.kind = kind => Has(after, kind)
      <3>1. Len(port) + 1 \in 1 .. Len(after)
        BY <1>1
      <3> QED BY <1>1, <3>1 DEF Has
    <2> QED BY <2>1, <2>2, <2>3
  <1>4. ASSUME NEW kind, Once(port, kind), m.kind = kind => ~Has(port, kind)
        PROVE  Once(after, kind)
    BY <1>1, <1>2, <1>4 DEF Has, Once
  <1>5. IsPosted(port, m, after)
    BY <1>1, <1>2, <1>3, <1>4 DEF IsPosted
  <1> QED BY <1>1, <1>5 DEF after

\* What taking the first message changes.
IsTaken(port, m, after) ==
    /\ Len(after) \in Nat /\ Len(port) = Len(after) + 1 /\ m = port[1]
    /\ \A i \in 1 .. Len(after) : i + 1 \in 1 .. Len(port) /\ after[i] = port[i + 1]
    /\ \A i \in 1 .. Len(port) : i = 1 \/ (i - 1 \in 1 .. Len(after) /\ after[i - 1] = port[i])
    /\ Has(port, m.kind)
    /\ \A kind : Has(after, kind) => Has(port, kind)
    /\ \A kind : m.kind # kind => (Has(after, kind) <=> Has(port, kind))
    /\ Once(port, m.kind) => ~Has(after, m.kind)
    /\ \A kind : Once(port, kind) => Once(after, kind)

\* ... and the first message is taken, all others move up.
LEMMA Taken ==
    ASSUME NEW S, NEW port \in Seq(S), port # << >>
    PROVE  Tail(port) \in Seq(S) /\ Head(port) \in S /\ IsTaken(port, Head(port), Tail(port))
  <1> DEFINE after == Tail(port)
  <1>1. /\ after \in Seq(S) /\ Len(after) \in Nat /\ Len(port) = Len(after) + 1
        /\ Head(port) \in S /\ Head(port) = port[1]
        /\ \A i \in 1 .. Len(after) : after[i] = port[i + 1]
    BY HeadTailProperties, EmptySeq
  <1> HIDE DEF after
  <1>2. ASSUME NEW i \in 1 .. Len(port) PROVE i = 1 \/ (i - 1 \in 1 .. Len(after) /\ after[i - 1] = port[i])
    BY <1>1
  <1>3. ASSUME NEW i \in 1 .. Len(after) PROVE i + 1 \in 1 .. Len(port) /\ i \in Nat
    BY <1>1
  <1>4. Has(port, Head(port).kind)
    BY <1>1 DEF Has
  <1>5. ASSUME NEW kind, Has(after, kind) PROVE Has(port, kind)
    BY <1>1, <1>3, <1>5 DEF Has
  <1>6. ASSUME NEW kind, Head(port).kind # kind, Has(port, kind) PROVE Has(after, kind)
    BY <1>1, <1>2, <1>6 DEF Has
  <1>7. ASSUME Once(port, Head(port).kind) PROVE ~Has(after, Head(port).kind)
    BY <1>1, <1>3, <1>7 DEF Has, Once
  <1>8. ASSUME NEW kind, Once(port, kind) PROVE Once(after, kind)
    BY <1>1, <1>3, <1>8 DEF Once
  <1>9. IsTaken(port, Head(port), after)
    BY <1>1, <1>2, <1>3, <1>4, <1>5, <1>6, <1>7, <1>8 DEF IsTaken
  <1> QED BY <1>1, <1>9 DEF after

\* Messages are of the kinds of their port.
LEMMA MessageKinds ==
    ASSUME NEW m \in Messages
    PROVE  /\ m.kind \in {"ACTION", "PULL", "CANCEL"} /\ m.target = Writer
           /\ m.kind \in {"ACTION", "PULL"} => m.desiredSize \in Int
  BY DEF Messages

\* The kinds of messages that the reading end can get.
LEMMA ReplyKinds ==
    ASSUME NEW m \in Replies
    PROVE  /\ m.kind \in {"START_COMPLETE", "PULL_COMPLETE", "CANCEL_COMPLETE", "ENQUEUE", "CLOSE", "ERROR"}
           /\ m.kind \in {"START_COMPLETE", "PULL_COMPLETE", "CANCEL_COMPLETE"} =>
                 m.target = Reader /\ m.success \in BOOLEAN
           /\ m.kind = "ENQUEUE" => m.target = Reader /\ m.chunk \in ChunkRecords
           /\ m.kind = "ERROR" => m.target = Reader
           /\ m.kind = "CLOSE" => m.target \in CloseAddresses
  BY DEF Replies, ChunkRecords

------------------------------------------------------------------------------
(* What parts of a step do to the parts of the invariant.                   *)

\* What the typing says of the parts of the state.
LEMMA Types ==
    ASSUME IInv
    PROVE  /\ toSink \in Seq(Messages) /\ toReader \in Seq(Replies)
           /\ Len(toSink) \in Nat /\ Len(toReader) \in Nat
           /\ \A i \in 1 .. Len(toReader) : toReader[i] \in Replies
           /\ \A i \in 1 .. Len(toReader) :
                 toReader[i].kind = "ENQUEUE" => toReader[i].chunk[1] \in Int
           /\ \A i \in 1 .. Len(toSink) : toSink[i] \in Messages
           /\ \A i \in 1 .. Len(toSink) : toSink[i].kind = "PULL" => toSink[i].desiredSize \in Int
           /\ Len(delivered) \in Nat /\ Len(stream.queue) \in Nat /\ produced \in Nat
           /\ sink.desiredSize \in Int /\ HighWaterMark \in Nat /\ Room \in Nat
           /\ stream \in Streams /\ sink \in Sinks /\ producer \in Producers
           /\ calls \in [CallNames -> CallStates]
  <1>1. /\ toSink \in Seq(Messages) /\ toReader \in Seq(Replies)
        /\ stream \in Streams /\ sink \in Sinks /\ producer \in Producers
        /\ delivered \in Seq(1 .. MaxChunks) /\ produced \in 0 .. MaxChunks
        /\ calls \in [CallNames -> CallStates]
    BY DEF IInv, TypeInv
  <1>2. /\ \A i \in 1 .. Len(toReader) : toReader[i] \in Replies
        /\ \A i \in 1 .. Len(toSink) : toSink[i] \in Messages
    BY <1>1, ElementOfSeq
  <1>3. /\ \A i \in 1 .. Len(toReader) :
              toReader[i].kind = "ENQUEUE" => toReader[i].chunk[1] \in Int
        /\ \A i \in 1 .. Len(toSink) : toSink[i].kind = "PULL" => toSink[i].desiredSize \in Int
    BY <1>2, MessageKinds, ReplyKinds DEF ChunkRecords
  <1>4. Len(stream.queue) \in Nat /\ sink.desiredSize \in Int /\ HighWaterMark \in Nat
    BY <1>1, StreamAssumption DEF Streams, Sinks
  <1>5. Room \in Nat
    BY <1>4 DEF Room
  <1> QED BY <1>1, <1>2, <1>3, <1>4, <1>5, LenProperties, StreamAssumption

\* What is counted is a number.
LEMMA Numbers ==
    ASSUME IInv
    PROVE  /\ Len(delivered) \in Nat /\ Len(stream.queue) \in Nat /\ produced \in Nat
           /\ Got \in Nat /\ Buffered \in Int /\ Room \in Nat
           /\ sink.desiredSize \in Int /\ HighWaterMark \in Nat \ {0}
           /\ Len(toReader) \in Nat /\ Len(toSink) \in Nat
  BY Types, StreamAssumption DEF Got, Buffered

\* The messages of some kinds that are in a port stay, in their places or all one place
\* nearer.
Shifted(kinds, port, after, by) ==
    /\ \A i \in 1 .. Len(after) : after[i].kind \in kinds =>
          i + by \in 1 .. Len(port) /\ port[i + by] = after[i]
    /\ \A i \in 1 .. Len(port) : port[i].kind \in kinds =>
          i - by \in 1 .. Len(after) /\ after[i - by] = port[i]

\* A message of another kind may be posted, taken, or neither.
LEMMA ShiftPosted ==
    ASSUME NEW port, NEW after, NEW m, IsPosted(port, m, after), NEW kinds, m.kind \notin kinds
    PROVE  Shifted(kinds, port, after, 0)
  BY DEF IsPosted, Shifted

LEMMA ShiftTaken ==
    ASSUME NEW port, NEW after, NEW m, IsTaken(port, m, after), NEW kinds, m.kind \notin kinds
    PROVE  Shifted(kinds, port, after, 1)
  BY DEF IsTaken, Shifted

LEMMA ShiftNone ==
    ASSUME NEW port, Len(port) \in Nat, NEW kinds
    PROVE  Shifted(kinds, port, port, 0)
  BY DEF Shifted

\* Steps that neither make nor get a chunk.
LEMMA ChunksStay ==
    ASSUME IInv, NEW by \in {0, 1}, Shifted({"ENQUEUE"}, toReader, toReader', by),
           produced' = produced, delivered' = delivered,
           stream'.state = stream.state \/ stream'.state # "readable",
           stream'.reads = stream.reads \/ stream'.reads = 0
              \/ (stream'.queue = << >> /\ stream.queue = << >>),
           stream'.queue = stream.queue \/ (stream'.queue = << >> /\ stream'.state # "readable"),
           stream'.state = "closed" /\ calls'["cancel"] = "null" => Len(delivered) = produced
    PROVE  ChunksUnderWay'
  <1>1. ASSUME NEW i \in 1 .. Len(toReader'), toReader'[i].kind = "ENQUEUE"
        PROVE  /\ i + by \in 1 .. Len(toReader) /\ toReader[i + by] = toReader'[i]
               /\ toReader'[i].chunk[1] \in Int
    BY <1>1, Types DEF Shifted
  <1>2. stream'.state = "readable" => stream.state = "readable"
    OBVIOUS
  <1>3. ASSUME stream'.state = "readable", NEW n \in Got + 1 .. produced
        PROVE  \E i \in 1 .. Len(toReader') : toReader'[i].kind = "ENQUEUE" /\ toReader'[i].chunk[1] = n
    <2>1. PICK i \in 1 .. Len(toReader) : toReader[i].kind = "ENQUEUE" /\ toReader[i].chunk[1] = n
      BY <1>2, <1>3 DEF IInv, ChunksUnderWay
    <2>2. i - by \in 1 .. Len(toReader') /\ toReader'[i - by] = toReader[i]
      BY <2>1 DEF Shifted
    <2> QED BY <2>1, <2>2
  <1>4. ASSUME NEW i \in 1 .. Len(toReader'), NEW j \in 1 .. Len(toReader'), i < j,
               toReader'[i].kind = "ENQUEUE", toReader'[j].kind = "ENQUEUE"
        PROVE  toReader'[i].chunk[1] < toReader'[j].chunk[1]
    <2>1. i + by < j + by /\ i + by \in 1 .. Len(toReader) /\ j + by \in 1 .. Len(toReader)
      BY <1>1, <1>4
    <2>2. toReader[i + by].kind = "ENQUEUE" /\ toReader[j + by].kind = "ENQUEUE"
      BY <1>1, <1>4
    <2>3. toReader[i + by].chunk[1] < toReader[j + by].chunk[1]
      BY <2>1, <2>2 DEF IInv, ChunksUnderWay
    <2> QED BY <1>1, <1>4, <2>3
  <1>5. ASSUME NEW i \in 1 .. Len(toReader'), toReader'[i].kind = "ENQUEUE"
        PROVE  /\ toReader'[i].chunk[1] <= produced
               /\ stream'.state = "readable" => toReader'[i].chunk[1] \in Got + 1 .. produced
    BY <1>1, <1>2, <1>5 DEF IInv, ChunksUnderWay
  <1>6. stream'.state = "readable" => Got' = Got /\ stream'.queue = stream.queue
    BY DEF Got
  <1>7. stream'.reads > 0 => stream'.queue = << >>
    BY DEF IInv, ChunksUnderWay
  <1> QED BY <1>2, <1>3, <1>4, <1>5, <1>6, <1>7 DEF IInv, ChunksUnderWay

\* Steps that leave the sink's idea of the room alone.
LEMMA RoomStays ==
    ASSUME IInv, NEW by \in {0, 1},
           Shifted({"ENQUEUE", "PULL_COMPLETE"}, toReader, toReader', by),
           produced' = produced, delivered' = delivered, producer'.goesBy = producer.goesBy,
           sink'.desiredSize = sink.desiredSize \/ stream'.state # "readable",
           \A i \in 1 .. Len(toSink') : toSink'[i].kind = "PULL" =>
              \E j \in 1 .. Len(toSink) : toSink[j] = toSink'[i],
           \/ stream'.state # "readable"
           \/ /\ stream'.state = stream.state /\ stream'.queue = stream.queue
              /\ stream'.started = stream.started /\ stream'.pulling = stream.pulling
    PROVE  RoomCounted'
  <1> SUFFICES ASSUME producer.goesBy = "ready", stream'.state = "readable" PROVE RoomCounted'
    BY DEF RoomCounted
  <1>1. /\ stream.state = "readable" /\ stream'.queue = stream.queue /\ Room' = Room
        /\ stream'.started = stream.started /\ stream'.pulling = stream.pulling
        /\ Got' = Got /\ Buffered' = Buffered
    BY DEF Room, Got, Buffered
  <1>2. ASSUME NEW i \in 1 .. Len(toReader'), toReader'[i].kind = "PULL_COMPLETE"
        PROVE  \E known \in 0 .. produced :
                  /\ produced - known + Room <= HighWaterMark
                  /\ \A j \in 1 .. Len(toReader') : toReader'[j].kind = "ENQUEUE" =>
                        (j < i <=> toReader'[j].chunk[1] <= known)
    <2>1. i + by \in 1 .. Len(toReader) /\ toReader[i + by].kind = "PULL_COMPLETE"
      BY <1>2 DEF Shifted
    <2>2. PICK known \in 0 .. produced :
                  /\ produced - known + Room <= HighWaterMark
                  /\ \A j \in 1 .. Len(toReader) : toReader[j].kind = "ENQUEUE" =>
                        (j < i + by <=> toReader[j].chunk[1] <= known)
      BY <1>1, <2>1 DEF IInv, RoomCounted
    <2>3. ASSUME NEW j \in 1 .. Len(toReader'), toReader'[j].kind = "ENQUEUE"
          PROVE  j < i <=> toReader'[j].chunk[1] <= known
      <3>1. j + by \in 1 .. Len(toReader) /\ toReader[j + by] = toReader'[j]
        BY <2>3 DEF Shifted
      <3>2. j + by < i + by <=> j < i
        OBVIOUS
      <3> QED BY <2>2, <2>3, <3>1, <3>2
    <2> QED BY <2>2, <2>3
  <1> QED BY <1>1, <1>2 DEF IInv, RoomCounted

\* No data comes behind the end.
LEMMA EndPosted ==
    ASSUME IInv, NEW m \in Replies, IsPosted(toReader, m, toReader'),
           NoMore => NoMore', Final(m) => NoMore', Data(m) => ~NoMore
    PROVE  EndIsLast'
  <1>1. \A i \in 1 .. Len(toReader) : Data(m) => ~Final(toReader[i])
    BY DEF IInv, EndIsLast
  <1>2. \A i \in 1 .. Len(toReader') :
            \/ i \in 1 .. Len(toReader) /\ toReader'[i] = toReader[i]
            \/ i = Len(toReader) + 1 /\ toReader'[i] = m
    BY DEF IsPosted
  <1>3. ASSUME NEW i \in 1 .. Len(toReader'), NEW j \in 1 .. Len(toReader'), i < j, Final(toReader'[i])
        PROVE  ~Data(toReader'[j])
    BY <1>1, <1>2, <1>3, Types DEF IInv, EndIsLast
  <1>4. ASSUME NEW i \in 1 .. Len(toReader'), Final(toReader'[i]) PROVE NoMore'
    BY <1>2, <1>4 DEF IInv, EndIsLast
  <1> QED BY <1>3, <1>4 DEF EndIsLast

\* A message taken leaves the end last; the end itself leaves no data behind.
LEMMA EndTaken ==
    ASSUME IInv, NEW m, IsTaken(toReader, m, toReader'), NoMore => NoMore'
    PROVE  /\ EndIsLast'
           /\ HasData' => HasData
           /\ Final(m) => NoMore' /\ ~HasData'
  <1>1. \A i \in 1 .. Len(toReader') :
           i \in Nat /\ i + 1 \in 1 .. Len(toReader) /\ toReader'[i] = toReader[i + 1]
    BY DEF IsTaken
  <1>2. ASSUME NEW i \in 1 .. Len(toReader'), NEW j \in 1 .. Len(toReader'), i < j, Final(toReader'[i])
        PROVE  ~Data(toReader'[j])
    <2>1. i + 1 < j + 1
      BY <1>2
    <2> QED BY <1>1, <1>2, <2>1 DEF IInv, EndIsLast
  <1>3. ASSUME NEW i \in 1 .. Len(toReader'), Final(toReader'[i]) PROVE NoMore'
    BY <1>1, <1>3 DEF IInv, EndIsLast
  <1>4. HasData' => HasData
    BY <1>1 DEF HasData
  <1>5. ASSUME Final(m) PROVE NoMore' /\ ~HasData'
    <2>1. 1 \in 1 .. Len(toReader) /\ toReader[1] = m
      BY DEF IsTaken
    <2>2. ASSUME NEW i \in 1 .. Len(toReader') PROVE ~Data(toReader'[i])
      <3>1. 1 < i + 1
        OBVIOUS
      <3> QED BY <1>1, <1>5, <2>1, <3>1 DEF IInv, EndIsLast
    <2> QED BY <1>5, <2>1, <2>2 DEF IInv, EndIsLast, HasData
  <1> QED BY <1>2, <1>3, <1>4, <1>5 DEF EndIsLast

------------------------------------------------------------------------------
(* Steps of the sink.                                                       *)

\* What a step of the sink leaves alone.
ReaderStays ==
    /\ entry' = entry /\ isClosed' = isClosed /\ calls' = calls /\ deleting' = deleting
    /\ stream' = stream /\ delivered' = delivered

LEMMA ReaderUnchanged == UNCHANGED readerVars => ReaderStays
  BY DEF readerVars, ReaderStays

\* The arithmetic of a chunk made: one more is buffered, the room shrinks by one at least.
LEMMA OneTaken ==
    ASSUME NEW n \in Int, NEW room \in Int, NEW rest \in Int, NEW asked \in Int, NEW h \in Int,
           rest + 1 <= room, n + room + asked <= h
    PROVE  n + 1 + rest + asked <= h
  OBVIOUS

\* sink.enqueue makes a chunk.
LEMMA EnqueueInv ==
    ASSUME IInv, Enqueue
    PROVE  IInv'
  <1> USE StreamAssumption
  <1>1. PICK size \in Sizes :
           /\ sink' = [sink EXCEPT !.desiredSize = @ - size,
                                   !.ready = IF Fills(size) THEN "pending" ELSE @]
           /\ PostToReader([kind |-> "ENQUEUE", target |-> Reader, chunk |-> <<produced + 1, size>>])
    BY DEF Enqueue
  <1> DEFINE m == [kind |-> "ENQUEUE", target |-> Reader, chunk |-> <<produced + 1, size>>]
  <1>2. /\ producer.running /\ produced < MaxChunks /\ ~sink.isCancelled
        /\ (IF producer.goesBy = "pull" THEN producer.owed > 0 ELSE sink.ready = "resolved")
        /\ produced' = produced + 1
        /\ producer' = [producer EXCEPT !.owed = IF producer.goesBy = "pull" THEN @ - 1 ELSE 0]
        /\ toSink' = toSink /\ ReaderStays
    BY ReaderUnchanged DEF Enqueue
  <1>3. /\ produced + 1 \in 1 .. MaxChunks /\ m \in Replies
        /\ m.kind = "ENQUEUE" /\ m.chunk[1] = produced + 1
    BY <1>2 DEF IInv, TypeInv, Replies
  <1>4. toReader' = Append(toReader, m) /\ toReader \in Seq(Replies)
    BY <1>1 DEF PostToReader, IInv, TypeInv
  <1> HIDE DEF m
  <1>5. toReader' \in Seq(Replies) /\ IsPosted(toReader, m, toReader')
    BY <1>3, <1>4, Posted
  <1>6. sink.known /\ ~NotCreated
    BY <1>2 DEF IInv, SinkIsKnown
  <1>7. /\ sink' \in Sinks /\ producer' \in Producers
        /\ sink'.known = sink.known /\ sink'.isCancelled = sink.isCancelled
        /\ sink'.desiredSize = sink.desiredSize - size /\ size \in Nat \ {0}
        /\ sink'.ready = IF Fills(size) THEN "pending" ELSE sink.ready
        /\ producer'.running = producer.running /\ producer'.starting = producer.starting
        /\ producer'.pulls = producer.pulls /\ producer'.cancels = producer.cancels
        /\ producer'.goesBy = producer.goesBy
    <2>1. size \in Nat \ {0} /\ sink \in Sinks /\ producer \in Producers
      BY DEF IInv, TypeInv
    <2>2. sink' \in Sinks
      <3>1. /\ sink.desiredSize - size \in Int
            /\ (IF Fills(size) THEN "pending" ELSE sink.ready) \in {"pending", "resolved", "rejected"}
        BY <2>1 DEF Sinks
      <3> QED BY <1>1, <2>1, <3>1 DEF Sinks
    <2>3. producer' \in Producers
      BY <1>2, <2>1 DEF Producers
    <2> QED BY <1>1, <1>2, <2>1, <2>2, <2>3 DEF Sinks, Producers
  <1>8. /\ ~NotCreated' /\ (Answerable' <=> Answerable)
        /\ ~NoMore /\ (NoMore' <=> NoMore) /\ ~Over /\ ~Over'
    <2>1. ~NotCreated'
      BY <1>2, <1>6 DEF ReaderStays, NotCreated
    <2>2. Answerable' <=> Answerable
      BY <1>2, <1>3, <1>5, <1>6, <1>7, <2>1 DEF IsPosted, ReaderStays, Answerable
    <2>3. ~NoMore /\ ~NoMore'
      BY <1>2, <1>6, <1>7, <2>1 DEF NoMore
    <2>4. ~Over
      BY <2>3 DEF IInv, OverIsOver
    <2>5. Over' <=> Over
      BY <1>2 DEF ReaderStays, Over
    <2> QED BY <2>1, <2>2, <2>3, <2>4, <2>5
  <1>9. TypeInv'
    BY <1>2, <1>3, <1>5, <1>7 DEF ReaderStays, IInv, TypeInv
  <1>10. BeforeCreation'
    BY <1>2, <1>6, <1>8 DEF ReaderStays, IInv, BeforeCreation, NotCreated
  <1>11. StartToken'
    BY <1>2, <1>3, <1>5, <1>7 DEF IsPosted, ReaderStays, IInv, StartToken
  <1>12. PullToken'
    BY <1>2, <1>3, <1>5, <1>7 DEF IsPosted, ReaderStays, IInv, PullToken
  <1>13. CancelToken'
    BY <1>2, <1>3, <1>5, <1>7 DEF IsPosted, ReaderStays, IInv, CancelToken
  <1>14. EndIsLast'
    <2>1. ~Final(m)
      BY <1>3 DEF Final
    <2> QED BY <1>3, <1>5, <1>8, <2>1, EndPosted
  <1>15. SinkIsKnown'
    <2>1. sink'.known /\ ~sink'.isCancelled => (sink'.ready = "pending" <=> sink'.desiredSize <= 0)
      BY <1>2, <1>6, <1>7, Types DEF IInv, SinkIsKnown, Fills
    <2> QED BY <1>3, <1>5, <1>6, <1>7, <1>8, <2>1 DEF IsPosted, IInv, SinkIsKnown
  <1>16. OverIsOver'
    BY <1>2, <1>6, <1>7, <1>8 DEF ReaderStays, IInv, OverIsOver
  <1>17. Answered'
    BY <1>2, <1>8 DEF ReaderStays, IInv, Answered
  <1>18. produced' = produced + 1
    BY <1>2
  <1>21. ChunksUnderWay'
    <2>1. \A i \in 1 .. Len(toReader') :
             \/ i \in 1 .. Len(toReader) /\ toReader'[i] = toReader[i]
             \/ i = Len(toReader) + 1 /\ toReader'[i] = m
      BY <1>5 DEF IsPosted
    <2>2. Got' = Got /\ stream' = stream /\ delivered' = delivered /\ calls' = calls
      BY <1>2 DEF Got, ReaderStays
    <2>3. ~(stream.state = "closed" /\ calls["cancel"] = "null")
      BY <1>8 DEF Over
    <2>4. ASSUME stream.state = "readable", NEW n \in Got + 1 .. produced'
          PROVE  \E i \in 1 .. Len(toReader') : toReader'[i].kind = "ENQUEUE" /\ toReader'[i].chunk[1] = n
      <3>1. CASE n = produced + 1
        <4>1. Len(toReader) + 1 \in 1 .. Len(toReader') /\ toReader'[Len(toReader) + 1] = m
          BY <1>5 DEF IsPosted
        <4> QED BY <1>3, <3>1, <4>1
      <3>2. CASE n \in Got + 1 .. produced
        <4>1. PICK i \in 1 .. Len(toReader) : toReader[i].kind = "ENQUEUE" /\ toReader[i].chunk[1] = n
          BY <2>4, <3>2 DEF IInv, ChunksUnderWay
        <4>2. i \in 1 .. Len(toReader') /\ toReader'[i] = toReader[i]
          BY <1>5 DEF IsPosted
        <4> QED BY <4>1, <4>2
      <3> QED BY <1>18, <3>1, <3>2, Numbers
    <2>5. ASSUME NEW i \in 1 .. Len(toReader'), toReader'[i].kind = "ENQUEUE"
          PROVE  /\ toReader'[i].chunk[1] <= produced'
                 /\ stream.state = "readable" => toReader'[i].chunk[1] \in Got + 1 .. produced'
      <3>1. CASE toReader'[i] = m
        BY <1>3, <1>18, <3>1, Numbers DEF IInv, ChunksUnderWay
      <3>2. CASE i \in 1 .. Len(toReader) /\ toReader'[i] = toReader[i]
        <4>1. toReader[i].chunk[1] <= produced /\ toReader[i].chunk[1] \in Int
          BY <2>5, <3>2, Types DEF IInv, ChunksUnderWay
        <4>2. stream.state = "readable" => toReader[i].chunk[1] \in Got + 1 .. produced
          BY <2>5, <3>2 DEF IInv, ChunksUnderWay
        <4> QED BY <1>18, <3>2, <4>1, <4>2, Numbers
      <3> QED BY <2>1, <3>1, <3>2
    <2>6. ASSUME NEW i \in 1 .. Len(toReader'), NEW j \in 1 .. Len(toReader'), i < j,
                 toReader'[i].kind = "ENQUEUE", toReader'[j].kind = "ENQUEUE"
          PROVE  toReader'[i].chunk[1] < toReader'[j].chunk[1]
      <3>1. i \in 1 .. Len(toReader) /\ toReader'[i] = toReader[i]
        BY <2>1, <2>6, Numbers
      <3>2. toReader[i].chunk[1] <= produced /\ toReader[i].chunk[1] \in Int
        BY <2>6, <3>1, Types DEF IInv, ChunksUnderWay
      <3>3. CASE j \in 1 .. Len(toReader) /\ toReader'[j] = toReader[j]
        BY <2>6, <3>1, <3>3 DEF IInv, ChunksUnderWay
      <3>4. CASE toReader'[j] = m
        BY <1>3, <3>1, <3>2, <3>4, Numbers
      <3> QED BY <2>1, <3>3, <3>4
    <2>7. /\ Len(delivered) <= produced'
          /\ stream.state = "readable" => Got <= produced'
      BY <1>2, Numbers DEF IInv, ChunksUnderWay
    <2>8. /\ \A i \in 1 .. Len(delivered) : delivered[i] = i
          /\ stream.reads > 0 => stream.queue = << >>
          /\ stream.state = "readable" =>
                \A i \in 1 .. Len(stream.queue) : stream.queue[i][1] = Len(delivered) + i
      BY DEF IInv, ChunksUnderWay
    <2>9. stream.state = "readable" =>
             /\ Got <= produced'
             /\ \A i \in 1 .. Len(toReader') :
                   toReader'[i].kind = "ENQUEUE" => toReader'[i].chunk[1] \in Got + 1 .. produced'
             /\ \A n \in Got + 1 .. produced' : \E i \in 1 .. Len(toReader') :
                   toReader'[i].kind = "ENQUEUE" /\ toReader'[i].chunk[1] = n
      BY <2>4, <2>5, <2>7
    <2>10. \A i, j \in 1 .. Len(toReader') :
              i < j /\ toReader'[i].kind = "ENQUEUE" /\ toReader'[j].kind = "ENQUEUE" =>
                 toReader'[i].chunk[1] < toReader'[j].chunk[1]
      BY <2>6
    <2>11. \A i \in 1 .. Len(toReader') :
              toReader'[i].kind = "ENQUEUE" => toReader'[i].chunk[1] <= produced'
      BY <2>5
    <2> QED BY <2>2, <2>3, <2>7, <2>8, <2>9, <2>10, <2>11 DEF ChunksUnderWay
  <1>19. PullsAskForRoom'
    BY <1>2, <1>7, Types DEF IInv, PullsAskForRoom
  <1>20. RoomCounted'
    <2> SUFFICES ASSUME producer.goesBy = "ready", stream.state = "readable" PROVE RoomCounted'
      BY <1>2, <1>7 DEF RoomCounted, ReaderStays
    <2>1. PICK room \in Nat : room = Room' /\ room + 1 <= Room
      BY <1>2, <1>6, <1>7, Numbers DEF IInv, SinkIsKnown, Room
    <2>2. /\ Got' = Got /\ stream' = stream /\ toSink' = toSink
          /\ Buffered' = Buffered + 1
      BY <1>2, Numbers DEF Got, Buffered, ReaderStays
    <2>3. ASSUME NEW i \in 1 .. Len(toReader'), toReader'[i].kind = "PULL_COMPLETE"
          PROVE  \E known \in 0 .. produced' :
                    /\ produced' - known + Room' <= HighWaterMark
                    /\ \A j \in 1 .. Len(toReader') : toReader'[j].kind = "ENQUEUE" =>
                          (j < i <=> toReader'[j].chunk[1] <= known)
      <3>1. i \in 1 .. Len(toReader) /\ toReader[i].kind = "PULL_COMPLETE"
        BY <1>3, <1>5, <2>3 DEF IsPosted
      <3>2. PICK known \in 0 .. produced :
                    /\ produced - known + Room <= HighWaterMark
                    /\ \A j \in 1 .. Len(toReader) : toReader[j].kind = "ENQUEUE" =>
                          (j < i <=> toReader[j].chunk[1] <= known)
        BY <3>1 DEF IInv, RoomCounted
      <3>3. known \in 0 .. produced + 1 /\ produced + 1 - known + room <= HighWaterMark
        <4>1. /\ produced \in Int /\ known \in Int /\ Room \in Int /\ HighWaterMark \in Int
              /\ room \in Int /\ 0 <= known /\ known <= produced
          BY <2>1, <3>2, Numbers
        <4>2. room + 1 <= Room /\ produced - known + Room <= HighWaterMark
          BY <2>1, <3>2, Zenon
        <4> QED BY <4>1, <4>2, SMT
      <3>4. ASSUME NEW j \in 1 .. Len(toReader'), toReader'[j].kind = "ENQUEUE"
            PROVE  j < i <=> toReader'[j].chunk[1] <= known
        <4>1. CASE j \in 1 .. Len(toReader)
          BY <1>5, <3>2, <3>4, <4>1 DEF IsPosted
        <4>2. CASE j = Len(toReader) + 1
          BY <1>3, <1>5, <3>1, <4>2, Types DEF IsPosted
        <4> QED BY <1>5, <4>1, <4>2 DEF IsPosted
      <3>5. known \in 0 .. produced'
        BY <1>18, <3>3
      <3>6. produced' - known + Room' <= HighWaterMark
        BY <1>18, <2>1, <3>3, Numbers
      <3> QED BY <3>4, <3>5, <3>6, Zenon
    <2>4. ASSUME NEW i \in 1 .. Len(toSink), toSink[i].kind = "PULL"
          PROVE  Buffered' + Room' + toSink[i].desiredSize <= 2 * HighWaterMark
      <3>1. Buffered + Room + toSink[i].desiredSize <= 2 * HighWaterMark
        BY <2>4 DEF IInv, RoomCounted
      <3>2. /\ Buffered \in Int /\ Room \in Int /\ room \in Int /\ toSink[i].desiredSize \in Int
            /\ 2 * HighWaterMark \in Int
        BY <2>1, <2>4, Types, Numbers
      <3>3. Buffered + 1 + room + toSink[i].desiredSize <= 2 * HighWaterMark
        BY <2>1, <3>1, <3>2, OneTaken, Zenon
      <3> QED BY <2>1, <2>2, <3>3, Zenon
    <2>5. Buffered' + Room' <= 2 * HighWaterMark
      <3>1. Buffered + Room <= 2 * HighWaterMark
        BY DEF IInv, RoomCounted
      <3>2. Buffered + 1 + room <= 2 * HighWaterMark
        BY <2>1, <3>1, Numbers
      <3> QED BY <2>1, <2>2, <3>2
    <2>6. ~stream.started => produced' + Room' <= HighWaterMark
      <3>1. ~stream.started => produced + Room <= HighWaterMark
        BY DEF IInv, RoomCounted
      <3> QED BY <1>2, <2>1, <3>1, Numbers
    <2>7. stream.started /\ ~stream.pulling => produced' - Got + Room' <= HighWaterMark
      <3>1. stream.started /\ ~stream.pulling => produced - Got + Room <= HighWaterMark
        BY DEF IInv, RoomCounted
      <3> QED BY <1>2, <2>1, <2>2, <3>1, Numbers
    <2> QED BY <2>2, <2>3, <2>4, <2>5, <2>6, <2>7 DEF RoomCounted
  <1> QED BY <1>9, <1>10, <1>11, <1>12, <1>13, <1>14, <1>15, <1>16, <1>17, <1>19, <1>20, <1>21
          DEF IInv


\* sink.close and sink.error post the last data of the sink.
LEMMA SinkEnds ==
    ASSUME IInv, producer.running, ~sink.isCancelled, ReaderStays,
           NEW m \in Replies, m.kind \in {"CLOSE", "ERROR"}, PostToReader(m),
           sink' \in Sinks, sink'.isCancelled, sink'.known => sink.known,
           m.kind = "CLOSE" => ~sink'.known, sink'.desiredSize = sink.desiredSize,
           producer' = producer, produced' = produced, toSink' = toSink
    PROVE  IInv'
  <1>1. toReader' = Append(toReader, m) /\ toReader \in Seq(Replies)
    BY DEF PostToReader, IInv, TypeInv
  <1>2. toReader' \in Seq(Replies) /\ IsPosted(toReader, m, toReader')
    BY <1>1, Posted
  <1>3. sink.known /\ ~NotCreated
    BY DEF IInv, SinkIsKnown
  <1>4. ~NotCreated'
    BY <1>3 DEF ReaderStays, NotCreated
  <1>5. Answerable' => Answerable
    BY <1>2, <1>3 DEF IsPosted, ReaderStays, Answerable
  <1>6. ~NoMore /\ NoMore'
    BY <1>3 DEF NoMore
  <1>7. ~Over
    BY <1>6 DEF IInv, OverIsOver
  <1>8. Over' <=> Over
    BY DEF ReaderStays, Over
  <1>9. TypeInv'
    BY <1>2 DEF ReaderStays, IInv, TypeInv
  <1>10. BeforeCreation'
    BY <1>3, <1>4 DEF ReaderStays, IInv, BeforeCreation, NotCreated
  <1>11. StartToken'
    BY <1>2 DEF IsPosted, ReaderStays, IInv, StartToken
  <1>12. PullToken'
    BY <1>2 DEF IsPosted, ReaderStays, IInv, PullToken
  <1>13. CancelToken'
    BY <1>2 DEF IsPosted, ReaderStays, IInv, CancelToken
  <1>14. EndIsLast'
    BY <1>2, <1>6, EndPosted DEF Data
  <1>15. SinkIsKnown'
    BY <1>2, <1>3, <1>4 DEF IsPosted, IInv, SinkIsKnown
  <1>16. OverIsOver'
    BY <1>3, <1>4, <1>7, <1>8 DEF ReaderStays, IInv, OverIsOver, Over
  <1>17. Answered'
    BY <1>5 DEF ReaderStays, IInv, Answered
  <1>18. Shifted({"ENQUEUE"}, toReader, toReader', 0) /\ Shifted({"ENQUEUE", "PULL_COMPLETE"}, toReader, toReader', 0)
    BY <1>2, ShiftPosted
  <1>19. ChunksUnderWay'
    <2>1. stream.state = "closed" /\ calls["cancel"] = "null" => Len(delivered) = produced
      BY DEF IInv, ChunksUnderWay
    <2> QED BY <1>18, <2>1, ChunksStay DEF ReaderStays
  <1>20. PullsAskForRoom'
    BY DEF IInv, PullsAskForRoom
  <1>21. RoomCounted'
    BY <1>18, RoomStays DEF ReaderStays
  <1> QED BY <1>9, <1>10, <1>11, <1>12, <1>13, <1>14, <1>15, <1>16, <1>17, <1>19, <1>20, <1>21
          DEF IInv

\* sink.close ...
LEMMA CloseInv ==
    ASSUME IInv, Close
    PROVE  IInv'
  <1> DEFINE m == Message("CLOSE", producer.closeTo)
  <1>1. /\ producer.running /\ ~sink.isCancelled /\ PostToReader(m)
        /\ sink' = [sink EXCEPT !.isCancelled = TRUE, !.known = FALSE]
        /\ producer' = producer /\ produced' = produced /\ toSink' = toSink /\ ReaderStays
    BY ReaderUnchanged DEF Close
  <1>2. sink \in Sinks /\ producer.closeTo \in CloseAddresses
    BY DEF IInv, TypeInv, Producers
  <1>3. m \in Replies /\ m.kind = "CLOSE"
    BY <1>2 DEF Replies, Message
  <1>4. sink' \in Sinks /\ sink'.isCancelled /\ ~sink'.known /\ sink'.desiredSize = sink.desiredSize
    BY <1>1, <1>2 DEF Sinks
  <1> HIDE DEF m
  <1> QED BY <1>1, <1>3, <1>4, SinkEnds

\* ... and sink.error.
LEMMA ErrorInv ==
    ASSUME IInv, Error
    PROVE  IInv'
  <1> DEFINE m == Message("ERROR", Reader)
  <1>1. /\ producer.running /\ ~sink.isCancelled /\ PostToReader(m)
        /\ sink' = [sink EXCEPT !.isCancelled = TRUE]
        /\ producer' = producer /\ produced' = produced /\ toSink' = toSink /\ ReaderStays
    BY ReaderUnchanged DEF Error
  <1>2. sink \in Sinks
    BY DEF IInv, TypeInv
  <1>3. m \in Replies /\ m.kind = "ERROR"
    BY DEF Replies, Message
  <1>4. /\ sink' \in Sinks /\ sink'.isCancelled /\ sink'.known = sink.known
        /\ sink'.desiredSize = sink.desiredSize
    BY <1>1, <1>2 DEF Sinks
  <1> HIDE DEF m
  <1> QED BY <1>1, <1>3, <1>4, SinkEnds

\* The answer to a pull is posted: all that has been produced will have come with it.
LEMMA RoomAnswered ==
    ASSUME IInv, ReaderStays, NEW m, m.kind = "PULL_COMPLETE", IsPosted(toReader, m, toReader'),
           ~Has(toReader, "PULL_COMPLETE"),
           produced' = produced, producer'.goesBy = producer.goesBy,
           sink'.desiredSize = sink.desiredSize,
           \A i \in 1 .. Len(toSink') : toSink'[i].kind = "PULL" =>
              \E j \in 1 .. Len(toSink) : toSink[j] = toSink'[i]
    PROVE  RoomCounted'
  <1> SUFFICES ASSUME producer.goesBy = "ready", stream.state = "readable" PROVE RoomCounted'
    BY DEF RoomCounted, ReaderStays
  <1>1. /\ Got' = Got /\ stream' = stream /\ Buffered' = Buffered /\ Room' = Room
    BY DEF Got, Buffered, Room, ReaderStays
  <1>2. ASSUME NEW i \in 1 .. Len(toReader'), toReader'[i].kind = "PULL_COMPLETE"
        PROVE  \E known \in 0 .. produced :
                  /\ produced - known + Room <= HighWaterMark
                  /\ \A j \in 1 .. Len(toReader') : toReader'[j].kind = "ENQUEUE" =>
                        (j < i <=> toReader'[j].chunk[1] <= known)
    <2>1. i = Len(toReader) + 1
      BY <1>2 DEF IsPosted, Has
    <2>2. produced \in 0 .. produced /\ produced - produced + Room <= HighWaterMark
      BY Numbers DEF IInv, PullsAskForRoom, Room
    <2>3. ASSUME NEW j \in 1 .. Len(toReader'), toReader'[j].kind = "ENQUEUE"
          PROVE  j < i <=> toReader'[j].chunk[1] <= produced
      <3>1. j \in 1 .. Len(toReader) /\ toReader'[j] = toReader[j]
        BY <2>3 DEF IsPosted
      <3>2. toReader[j].chunk[1] <= produced
        BY <2>3, <3>1 DEF IInv, ChunksUnderWay
      <3> QED BY <2>1, <3>1, <3>2, Numbers
    <2> QED BY <2>2, <2>3, Zenon
  <1> QED BY <1>1, <1>2 DEF IInv, RoomCounted

\* A promise of the handler's settles.
LEMMA HandlerSettlesInv ==
    ASSUME IInv, NEW ok \in BOOLEAN, HandlerSettles(ok)
    PROVE  IInv'
  <1>1. PICK kind \in {"START_COMPLETE", "PULL_COMPLETE", "CANCEL_COMPLETE"} :
           /\ PostToReader(Reply(kind, ok))
           /\ LET p == IF ok THEN producer ELSE [producer EXCEPT !.running = FALSE]
              IN  \/ /\ kind = "START_COMPLETE" /\ producer.starting
                     /\ producer' = [p EXCEPT !.starting = FALSE]
                  \/ /\ kind = "PULL_COMPLETE" /\ producer.pulls > 0
                     /\ producer' = [p EXCEPT !.pulls = @ - 1]
                  \/ /\ kind = "CANCEL_COMPLETE" /\ producer.cancels > 0
                     /\ producer' = [p EXCEPT !.cancels = @ - 1]
    BY Zenon DEF HandlerSettles
  <1> DEFINE m == Reply(kind, ok)
  <1>2. m \in Replies /\ m.kind = kind /\ (m.success <=> ok)
    BY DEF Replies, Reply
  <1>3. toSink' = toSink /\ ReaderStays /\ sink' = sink /\ produced' = produced
    BY ReaderUnchanged DEF HandlerSettles
  <1>4. toReader' = Append(toReader, m) /\ toReader \in Seq(Replies)
    BY <1>1 DEF PostToReader, IInv, TypeInv
  <1> HIDE DEF m
  <1>5. toReader' \in Seq(Replies) /\ IsPosted(toReader, m, toReader')
    BY <1>2, <1>4, Posted
  <1>6. /\ producer' \in Producers /\ producer'.goesBy = producer.goesBy
        /\ (producer'.running <=> producer.running /\ ok)
        /\ (producer'.starting <=> producer.starting /\ kind # "START_COMPLETE")
        /\ producer'.pulls = IF kind = "PULL_COMPLETE" THEN producer.pulls - 1 ELSE producer.pulls
        /\ producer'.cancels = IF kind = "CANCEL_COMPLETE" THEN producer.cancels - 1 ELSE producer.cancels
    <2>1. producer \in Producers
      BY DEF IInv, TypeInv
    <2> DEFINE p == IF ok THEN producer ELSE [producer EXCEPT !.running = FALSE]
    <2>2. /\ p \in Producers /\ p.goesBy = producer.goesBy /\ (p.running <=> producer.running /\ ok)
          /\ p.starting = producer.starting /\ p.pulls = producer.pulls /\ p.cancels = producer.cancels
      BY <2>1 DEF Producers
    <2>3. \/ /\ kind = "START_COMPLETE" /\ producer' = [p EXCEPT !.starting = FALSE]
          \/ /\ kind = "PULL_COMPLETE" /\ p.pulls > 0
             /\ producer' = [p EXCEPT !.pulls = p.pulls - 1]
          \/ /\ kind = "CANCEL_COMPLETE" /\ p.cancels > 0
             /\ producer' = [p EXCEPT !.cancels = p.cancels - 1]
      BY <1>1, <2>2
    <2> HIDE DEF p
    <2>4. CASE kind = "START_COMPLETE"
      BY <2>2, <2>3, <2>4 DEF Producers
    <2>5. CASE kind = "PULL_COMPLETE"
      BY <2>2, <2>3, <2>5 DEF Producers
    <2>6. CASE kind = "CANCEL_COMPLETE"
      BY <2>2, <2>3, <2>6 DEF Producers
    <2> QED BY <2>4, <2>5, <2>6
  <1>7. /\ kind = "START_COMPLETE" => producer.starting
        /\ kind = "PULL_COMPLETE" => producer.pulls = 1 /\ producer'.pulls = 0
        /\ kind = "CANCEL_COMPLETE" => producer.cancels = 1 /\ producer'.cancels = 0
    BY <1>1, <1>6 DEF IInv, PullToken, CancelToken
  <1>8. ~NotCreated
    BY <1>7 DEF IInv, BeforeCreation
  <1>9. ~NotCreated'
    BY <1>3, <1>8 DEF ReaderStays, NotCreated
  <1>10. Answerable' => Answerable
    BY <1>2, <1>3, <1>5, <1>6, <1>7, <1>8, <1>9 DEF IsPosted, ReaderStays, Answerable
  <1>11. (NoMore => NoMore') /\ (~ok => NoMore')
    BY <1>3, <1>6, <1>8, <1>9 DEF NoMore
  <1>12. ~Data(m) /\ (Final(m) => NoMore')
    BY <1>2, <1>3, <1>7, <1>11 DEF Data, Final, IInv, CancelToken, NoMore
  <1>13. (Over' <=> Over) /\ (HasData' => HasData)
    BY <1>3, <1>5, <1>12 DEF ReaderStays, Over, HasData, IsPosted
  <1>14. TypeInv'
    BY <1>3, <1>5, <1>6 DEF ReaderStays, IInv, TypeInv
  <1>15. BeforeCreation'
    BY <1>3, <1>8, <1>9 DEF ReaderStays, IInv, BeforeCreation, NotCreated
  <1>16. StartToken'
    BY <1>2, <1>3, <1>5, <1>6, <1>7 DEF IsPosted, ReaderStays, IInv, StartToken
  <1>17. PullToken'
    BY <1>2, <1>3, <1>5, <1>6, <1>7 DEF IsPosted, ReaderStays, IInv, PullToken
  <1>18. CancelToken'
    BY <1>2, <1>3, <1>5, <1>6, <1>7 DEF IsPosted, ReaderStays, IInv, CancelToken
  <1>19. EndIsLast'
    BY <1>2, <1>5, <1>11, <1>12, EndPosted
  <1>20. SinkIsKnown'
    BY <1>2, <1>3, <1>5, <1>6, <1>8, <1>9 DEF IsPosted, IInv, SinkIsKnown
  <1>21. OverIsOver'
    BY <1>3, <1>8, <1>9, <1>11, <1>13 DEF ReaderStays, IInv, OverIsOver
  <1>22. Answered'
    BY <1>3, <1>10 DEF ReaderStays, IInv, Answered
  <1>23. ChunksUnderWay'
    <2>1. Shifted({"ENQUEUE"}, toReader, toReader', 0)
      BY <1>2, <1>5, ShiftPosted
    <2>2. stream.state = "closed" /\ calls["cancel"] = "null" => Len(delivered) = produced
      BY DEF IInv, ChunksUnderWay
    <2> QED BY <1>3, <2>1, <2>2, ChunksStay DEF ReaderStays
  <1>24. PullsAskForRoom'
    BY <1>3 DEF IInv, PullsAskForRoom
  <1>25. RoomCounted'
    <2>1. CASE kind = "PULL_COMPLETE"
      <3>1. ~Has(toReader, "PULL_COMPLETE")
        BY <1>7, <2>1 DEF IInv, PullToken
      <3> QED BY <1>2, <1>3, <1>5, <1>6, <2>1, <3>1, RoomAnswered
    <2>2. CASE kind # "PULL_COMPLETE"
      <3>1. Shifted({"ENQUEUE", "PULL_COMPLETE"}, toReader, toReader', 0)
        BY <1>2, <1>5, <2>2, ShiftPosted
      <3> QED BY <1>3, <1>6, <3>1, RoomStays DEF ReaderStays
    <2> QED BY <2>1, <2>2
  <1> QED BY <1>14, <1>15, <1>16, <1>17, <1>18, <1>19, <1>20, <1>21, <1>22, <1>23, <1>24, <1>25
          DEF IInv

\* A message for the sink is taken.
LEMMA SinkTakes ==
    ASSUME IInv, NEW kind, TakeAtSink(kind)
    PROVE  /\ Head(toSink) \in Messages /\ Head(toSink).kind = kind
           /\ toSink' \in Seq(Messages) /\ IsTaken(toSink, Head(toSink), toSink')
           /\ Head(toSink) = toSink[1] /\ 1 \in 1 .. Len(toSink)
           /\ \A i \in 1 .. Len(toSink') : \E j \in 1 .. Len(toSink) : toSink[j] = toSink'[i]
           /\ entry # "none"
           /\ kind # "ACTION" => ~NotCreated /\ ~Has(toSink', "ACTION")
           /\ kind = "ACTION" => NotCreated /\ ~Has(toSink', "ACTION")
  <1> DEFINE m == Head(toSink)
  <1>1. toSink # << >> /\ m.kind = kind /\ toSink' = Tail(toSink) /\ toSink \in Seq(Messages)
    BY DEF TakeAtSink, IInv, TypeInv
  <1>2. m \in Messages /\ toSink' \in Seq(Messages) /\ IsTaken(toSink, m, toSink')
    BY <1>1, Taken
  <1> HIDE DEF m
  <1>3. m = toSink[1] /\ 1 \in 1 .. Len(toSink)
    BY <1>2 DEF IsTaken
  <1>4. entry # "none"
    BY <1>1 DEF IInv, BeforeCreation
  <1>5. \A i \in 1 .. Len(toSink) : toSink[i].kind = "ACTION" => i = 1
    BY DEF IInv, BeforeCreation
  <1>6. \A i \in 1 .. Len(toSink') : toSink'[i].kind # "ACTION"
    BY <1>2, <1>5 DEF IsTaken
  <1>7. kind # "ACTION" => ~Has(toSink, "ACTION")
    BY <1>1, <1>3, <1>5 DEF Has
  <1>8. kind = "ACTION" => Has(toSink, "ACTION")
    BY <1>1, <1>3 DEF Has
  <1>9. \A i \in 1 .. Len(toSink') : \E j \in 1 .. Len(toSink) : toSink[j] = toSink'[i]
    BY <1>2 DEF IsTaken
  <1> QED BY <1>1, <1>2, <1>3, <1>4, <1>6, <1>7, <1>8, <1>9 DEF m, NotCreated, Has

\* The action starts the handler with a new sink.
LEMMA CreateStreamSinkInv ==
    ASSUME IInv, CreateStreamSink
    PROVE  IInv'
  <1> DEFINE m == Head(toSink)
  <1>1. /\ sink' = [sink EXCEPT !.known = TRUE, !.desiredSize = m.desiredSize, !.ready = "resolved"]
        /\ producer' = [producer EXCEPT !.running = TRUE, !.starting = TRUE]
        /\ toReader' = toReader /\ produced' = produced /\ ReaderStays
    BY ReaderUnchanged DEF CreateStreamSink
  <1>2. /\ m \in Messages /\ m.kind = "ACTION" /\ m = toSink[1] /\ 1 \in 1 .. Len(toSink)
        /\ toSink' \in Seq(Messages) /\ IsTaken(toSink, m, toSink') /\ entry # "none"
        /\ NotCreated /\ ~Has(toSink', "ACTION")
        /\ \A i \in 1 .. Len(toSink') : \E j \in 1 .. Len(toSink) : toSink[j] = toSink'[i]
    BY SinkTakes DEF CreateStreamSink
  <1> HIDE DEF m
  <1>3. m.desiredSize = HighWaterMark /\ HighWaterMark \in Nat \ {0}
    BY <1>2, Numbers DEF IInv, BeforeCreation
  <1>4. /\ toReader = << >> /\ produced = 0 /\ ~sink.isCancelled
        /\ ~producer.running /\ ~producer.starting /\ producer.pulls = 0 /\ producer.cancels = 0
    BY <1>2 DEF IInv, BeforeCreation
  <1>5. /\ sink' \in Sinks /\ sink'.known /\ sink'.isCancelled = sink.isCancelled
        /\ sink'.desiredSize = HighWaterMark /\ sink'.ready = "resolved"
    <2>1. sink \in Sinks
      BY DEF IInv, TypeInv
    <2>2. sink' = [sink EXCEPT !.known = TRUE, !.desiredSize = HighWaterMark, !.ready = "resolved"]
      BY <1>1, <1>3
    <2>3. HighWaterMark \in Int
      BY <1>3
    <2> QED BY <2>1, <2>2, <2>3 DEF Sinks
  <1>6. /\ producer' \in Producers /\ producer'.running /\ producer'.starting
        /\ producer'.pulls = 0 /\ producer'.cancels = 0 /\ producer'.goesBy = producer.goesBy
    <2>1. producer \in Producers
      BY DEF IInv, TypeInv
    <2> QED BY <1>1, <1>4, <2>1 DEF Producers
  <1>7. ~NotCreated' /\ \A kind : ~Has(toReader, kind)
    BY <1>1, <1>2, <1>4, EmptySeq DEF ReaderStays, NotCreated, Has
  <1>8. Answerable' <=> Answerable
    BY <1>1, <1>2, <1>4, <1>5, <1>6, <1>7 DEF IsTaken, ReaderStays, Answerable
  <1>9. ~NoMore /\ ~NoMore'
    BY <1>2, <1>4, <1>5, <1>6 DEF NoMore
  <1>10. ~Over
    BY <1>9 DEF IInv, OverIsOver
  <1>11. Over' <=> Over
    BY <1>1 DEF ReaderStays, Over
  <1>12. TypeInv'
    BY <1>1, <1>2, <1>5, <1>6 DEF ReaderStays, IInv, TypeInv
  <1>13. BeforeCreation'
    BY <1>1, <1>2, <1>7 DEF ReaderStays, IInv, BeforeCreation, Has
  <1>14. StartToken'
    BY <1>1, <1>2, <1>6, <1>7 DEF IsTaken, ReaderStays, IInv, StartToken
  <1>15. PullToken'
    BY <1>1, <1>2, <1>4, <1>6, <1>7 DEF IsTaken, ReaderStays, IInv, PullToken
  <1>16. CancelToken'
    BY <1>1, <1>2, <1>4, <1>5, <1>6, <1>7 DEF IsTaken, ReaderStays, IInv, CancelToken
  <1>17. EndIsLast'
    BY <1>1, <1>4, EmptySeq DEF EndIsLast
  <1>18. SinkIsKnown'
    BY <1>1, <1>3, <1>5, <1>7 DEF SinkIsKnown
  <1>19. OverIsOver'
    BY <1>1, <1>10, <1>11 DEF ReaderStays, IInv, OverIsOver, Over
  <1>20. Answered'
    BY <1>1, <1>8 DEF ReaderStays, IInv, Answered
  <1>21. ChunksUnderWay'
    <2>1. Shifted({"ENQUEUE"}, toReader, toReader', 0)
      BY <1>1, ShiftNone, Numbers
    <2>2. stream.state = "closed" /\ calls["cancel"] = "null" => Len(delivered) = produced
      BY DEF IInv, ChunksUnderWay
    <2> QED BY <1>1, <2>1, <2>2, ChunksStay DEF ReaderStays
  <1>22. PullsAskForRoom'
    BY <1>2, <1>3, <1>5 DEF IInv, PullsAskForRoom
  <1>23. RoomCounted'
    <2> SUFFICES ASSUME stream.state = "readable" PROVE RoomCounted'
      BY <1>1 DEF RoomCounted, ReaderStays
    <2>1. Room' = HighWaterMark
      BY <1>3, <1>5 DEF Room
    <2>2. Got' = 0 /\ Buffered' = 0
      BY <1>1, <1>4, Numbers DEF IInv, ChunksUnderWay, Got, Buffered, ReaderStays
    <2>3. ASSUME NEW i \in 1 .. Len(toSink'), toSink'[i].kind = "PULL"
          PROVE  Buffered' + Room' + toSink'[i].desiredSize <= 2 * HighWaterMark
      <3>1. toSink'[i].desiredSize \in 1 .. HighWaterMark
        BY <1>22, <2>3 DEF PullsAskForRoom
      <3> QED BY <1>3, <2>1, <2>2, <3>1
    <2>4. Buffered' + Room' <= 2 * HighWaterMark /\ produced' + Room' <= HighWaterMark
          /\ produced' - Got' + Room' <= HighWaterMark
      BY <1>1, <1>3, <1>4, <2>1, <2>2
    <2>5. \A i \in 1 .. Len(toReader') : FALSE
      BY <1>1, <1>4, EmptySeq
    <2> QED BY <2>3, <2>4, <2>5 DEF RoomCounted
  <1> QED BY <1>12, <1>13, <1>14, <1>15, <1>16, <1>17, <1>18, <1>19, <1>20, <1>21, <1>22, <1>23
          DEF IInv

\* A PULL that finds no sink is answered at once ...
LEMMA OnPullWithoutSinkInv ==
    ASSUME IInv, OnPull, ~sink.known
    PROVE  IInv'
  <1> DEFINE m == Reply("PULL_COMPLETE", TRUE)
  <1>1. /\ PostToReader(m) /\ sink' = sink /\ producer' = producer /\ produced' = produced
        /\ ReaderStays
    BY ReaderUnchanged DEF OnPull
  <1>2. /\ Head(toSink).kind = "PULL"
        /\ toSink' \in Seq(Messages) /\ IsTaken(toSink, Head(toSink), toSink') /\ entry # "none"
        /\ ~NotCreated /\ ~Has(toSink', "ACTION")
        /\ \A i \in 1 .. Len(toSink') : \E j \in 1 .. Len(toSink) : toSink[j] = toSink'[i]
    BY SinkTakes DEF OnPull
  <1>3. m \in Replies /\ m.kind = "PULL_COMPLETE" /\ m.success
    BY DEF Replies, Reply
  <1>4. toReader' = Append(toReader, m) /\ toReader \in Seq(Replies)
    BY <1>1 DEF PostToReader, IInv, TypeInv
  <1> HIDE DEF m
  <1>5. toReader' \in Seq(Replies) /\ IsPosted(toReader, m, toReader')
    BY <1>3, <1>4, Posted
  <1>6. ~NotCreated'
    BY <1>1, <1>2 DEF ReaderStays, NotCreated
  <1>7. Answerable' <=> Answerable
    BY <1>1, <1>2, <1>3, <1>5, <1>6 DEF IsTaken, IsPosted, ReaderStays, Answerable
  <1>8. NoMore' <=> NoMore
    BY <1>1, <1>2, <1>6 DEF NoMore
  <1>9. ~Data(m) /\ ~Final(m)
    BY <1>3 DEF Data, Final
  <1>10. (Over' <=> Over) /\ (HasData' => HasData)
    BY <1>1, <1>5, <1>9 DEF ReaderStays, Over, HasData, IsPosted
  <1>11. /\ Has(toSink, "PULL") /\ ~Has(toSink', "PULL") /\ ~Has(toReader, "PULL_COMPLETE")
         /\ producer.pulls = 0
    BY <1>2 DEF IsTaken, IInv, PullToken
  <1>12. TypeInv'
    BY <1>1, <1>2, <1>5 DEF ReaderStays, IInv, TypeInv
  <1>13. BeforeCreation'
    BY <1>1, <1>2, <1>6 DEF ReaderStays, IInv, BeforeCreation, Has
  <1>14. StartToken'
    BY <1>1, <1>2, <1>3, <1>5 DEF IsTaken, IsPosted, ReaderStays, IInv, StartToken
  <1>15. PullToken'
    BY <1>1, <1>2, <1>3, <1>5, <1>11 DEF IsTaken, IsPosted, ReaderStays, IInv, PullToken
  <1>16. CancelToken'
    BY <1>1, <1>2, <1>3, <1>5 DEF IsTaken, IsPosted, ReaderStays, IInv, CancelToken
  <1>17. EndIsLast'
    BY <1>3, <1>5, <1>8, <1>9, EndPosted
  <1>18. SinkIsKnown'
    BY <1>1, <1>3, <1>5, <1>6 DEF IsPosted, IInv, SinkIsKnown
  <1>19. OverIsOver'
    BY <1>1, <1>6, <1>8, <1>10 DEF ReaderStays, IInv, OverIsOver
  <1>20. Answered'
    BY <1>1, <1>7 DEF ReaderStays, IInv, Answered
  <1>21. ChunksUnderWay'
    <2>1. Shifted({"ENQUEUE"}, toReader, toReader', 0)
      BY <1>3, <1>5, ShiftPosted
    <2>2. stream.state = "closed" /\ calls["cancel"] = "null" => Len(delivered) = produced
      BY DEF IInv, ChunksUnderWay
    <2> QED BY <1>1, <2>1, <2>2, ChunksStay DEF ReaderStays
  <1>22. PullsAskForRoom'
    BY <1>1, <1>2 DEF IInv, PullsAskForRoom
  <1>23. RoomCounted'
    BY <1>1, <1>2, <1>3, <1>5, <1>11, RoomAnswered
  <1> QED BY <1>12, <1>13, <1>14, <1>15, <1>16, <1>17, <1>18, <1>19, <1>20, <1>21, <1>22, <1>23
          DEF IInv

Told(s, desired, ready) == [s EXCEPT !.desiredSize = desired, !.ready = ready]

\* A pull that comes to the sink gives it the room it asks for.
LEMMA SinkTold ==
    ASSUME NEW s \in Sinks, NEW desired \in Int, NEW ready \in {"pending", "resolved", "rejected"}
    PROVE  LET t == Told(s, desired, ready)
           IN  /\ t \in Sinks /\ t.known = s.known /\ t.isCancelled = s.isCancelled
               /\ t.desiredSize = desired /\ t.ready = ready
  BY DEF Sinks, Told

\* ... and one that does tells it how much room there is.
LEMMA OnPullAtSinkInv ==
    ASSUME IInv, OnPull, sink.known
    PROVE  IInv'
  <1> DEFINE m == Head(toSink)
  <1>1. /\ sink' = [sink EXCEPT !.desiredSize = m.desiredSize,
                                !.ready = IF Wakes(m.desiredSize) THEN "resolved" ELSE @]
        /\ producer' = [producer EXCEPT !.pulls = @ + 1,
                                        !.owed = IF producer.goesBy = "pull" THEN @ + 1 ELSE 0]
        /\ toReader' = toReader /\ produced' = produced /\ ReaderStays
    BY ReaderUnchanged DEF OnPull
  <1>2. /\ m \in Messages /\ m.kind = "PULL" /\ m = toSink[1] /\ 1 \in 1 .. Len(toSink)
        /\ toSink' \in Seq(Messages) /\ IsTaken(toSink, m, toSink') /\ entry # "none"
        /\ ~NotCreated /\ ~Has(toSink', "ACTION")
        /\ \A i \in 1 .. Len(toSink') : \E j \in 1 .. Len(toSink) : toSink[j] = toSink'[i]
    BY SinkTakes DEF OnPull
  <1> HIDE DEF m
  <1>3. PICK desired \in 1 .. HighWaterMark : desired = m.desiredSize
    BY <1>2 DEF IInv, PullsAskForRoom
  <1>4. /\ sink' \in Sinks /\ sink'.known /\ sink'.isCancelled = sink.isCancelled
        /\ sink'.desiredSize = desired
        /\ sink'.ready = IF Wakes(desired) THEN "resolved" ELSE sink.ready
    <2>1. sink \in Sinks
      BY DEF IInv, TypeInv
    <2>2. PICK ready \in {"pending", "resolved", "rejected"} :
             ready = IF Wakes(desired) THEN "resolved" ELSE sink.ready
      BY <2>1 DEF Sinks
    <2>3. sink' = Told(sink, m.desiredSize, IF Wakes(m.desiredSize) THEN "resolved" ELSE sink.ready)
      BY <1>1, Zenon DEF Told
    <2>4. sink' = Told(sink, desired, ready) /\ desired \in Int
      BY <1>3, <2>2, <2>3
    <2> QED BY <2>1, <2>2, <2>4, SinkTold
  <1>5. /\ Has(toSink, "PULL") /\ ~Has(toSink', "PULL") /\ ~Has(toReader, "PULL_COMPLETE")
        /\ producer.pulls = 0
    BY <1>2 DEF IsTaken, IInv, PullToken
  <1>6. /\ producer' \in Producers /\ producer'.running = producer.running
        /\ producer'.starting = producer.starting /\ producer'.pulls = 1
        /\ producer'.cancels = producer.cancels /\ producer'.goesBy = producer.goesBy
    <2>1. producer \in Producers
      BY DEF IInv, TypeInv
    <2>2. producer.pulls + 1 = 1 /\ producer.owed + 1 \in Nat
      BY <1>5, <2>1 DEF Producers
    <2>3. PICK owed \in Nat : owed = IF producer.goesBy = "pull" THEN producer.owed + 1 ELSE 0
      BY <2>2
    <2>4. producer' = [producer EXCEPT !.pulls = 1, !.owed = owed]
      BY <1>1, <2>2, <2>3, Zenon
    <2> QED BY <2>1, <2>4 DEF Producers
  <1>7. ~NotCreated'
    BY <1>1, <1>2 DEF ReaderStays, NotCreated
  <1>8. Answerable' <=> Answerable
    BY <1>1, <1>2, <1>4, <1>6, <1>7 DEF IsTaken, ReaderStays, Answerable
  <1>9. NoMore' <=> NoMore
    BY <1>2, <1>4, <1>6, <1>7 DEF NoMore
  <1>10. (Over' <=> Over) /\ (HasData' <=> HasData)
    BY <1>1 DEF ReaderStays, Over, HasData
  <1>11. stream.pulling /\ stream.started
    BY <1>5 DEF IInv, PullToken
  <1>12. TypeInv'
    BY <1>1, <1>2, <1>4, <1>6 DEF ReaderStays, IInv, TypeInv
  <1>13. BeforeCreation'
    BY <1>1, <1>2, <1>7 DEF ReaderStays, IInv, BeforeCreation, Has
  <1>14. StartToken'
    BY <1>1, <1>2, <1>6 DEF IsTaken, ReaderStays, IInv, StartToken
  <1>15. PullToken'
    BY <1>1, <1>2, <1>5, <1>6 DEF IsTaken, ReaderStays, IInv, PullToken
  <1>16. CancelToken'
    BY <1>1, <1>2, <1>4, <1>6 DEF IsTaken, ReaderStays, IInv, CancelToken
  <1>17. EndIsLast'
    BY <1>1, <1>9 DEF IInv, EndIsLast
  <1>18. SinkIsKnown'
    <2>1. sink'.known /\ ~sink'.isCancelled => (sink'.ready = "pending" <=> sink'.desiredSize <= 0)
      BY <1>3, <1>4, Numbers DEF IInv, SinkIsKnown, Wakes
    <2> QED BY <1>1, <1>4, <1>6, <1>7, <2>1 DEF IInv, SinkIsKnown
  <1>19. OverIsOver'
    BY <1>1, <1>4, <1>7, <1>9, <1>10 DEF ReaderStays, IInv, OverIsOver
  <1>20. Answered'
    BY <1>1, <1>8 DEF ReaderStays, IInv, Answered
  <1>21. ChunksUnderWay'
    <2>1. Shifted({"ENQUEUE"}, toReader, toReader', 0)
      BY <1>1, ShiftNone, Numbers
    <2>2. stream.state = "closed" /\ calls["cancel"] = "null" => Len(delivered) = produced
      BY DEF IInv, ChunksUnderWay
    <2> QED BY <1>1, <2>1, <2>2, ChunksStay DEF ReaderStays
  <1>22. PullsAskForRoom'
    BY <1>2, <1>3, <1>4, Numbers DEF IInv, PullsAskForRoom
  <1>23. RoomCounted'
    <2> SUFFICES ASSUME producer.goesBy = "ready", stream.state = "readable" PROVE RoomCounted'
      BY <1>1, <1>6 DEF RoomCounted, ReaderStays
    <2>1. Room' = desired /\ Buffered' = Buffered
      BY <1>1, <1>3, <1>4, Numbers DEF Room, Buffered, ReaderStays
    <2>2. Buffered + Room + desired <= 2 * HighWaterMark
      BY <1>2, <1>3 DEF IInv, RoomCounted
    <2>3. Buffered' + Room' <= 2 * HighWaterMark
      BY <1>3, <2>1, <2>2, Numbers
    <2>4. \A i \in 1 .. Len(toSink') : toSink'[i].kind # "PULL"
      BY <1>5 DEF Has
    <2>5. \A i \in 1 .. Len(toReader') : toReader'[i].kind # "PULL_COMPLETE"
      BY <1>1, <1>5 DEF Has
    <2> QED BY <1>1, <1>11, <2>3, <2>4, <2>5 DEF RoomCounted, ReaderStays
  <1> QED BY <1>12, <1>13, <1>14, <1>15, <1>16, <1>17, <1>18, <1>19, <1>20, <1>21, <1>22, <1>23
          DEF IInv

\* A CANCEL ends the sink it finds.
LEMMA OnCancelInv ==
    ASSUME IInv, OnCancel
    PROVE  IInv'
  <1> DEFINE m == Head(toSink)
  <1>1. toReader' = toReader /\ produced' = produced /\ ReaderStays
    BY ReaderUnchanged DEF OnCancel
  <1>2. /\ m.kind = "CANCEL"
        /\ toSink' \in Seq(Messages) /\ IsTaken(toSink, m, toSink') /\ entry # "none"
        /\ ~NotCreated /\ ~Has(toSink', "ACTION")
        /\ \A i \in 1 .. Len(toSink') : \E j \in 1 .. Len(toSink) : toSink[j] = toSink'[i]
    BY SinkTakes DEF OnCancel
  <1> HIDE DEF m
  <1>3. /\ Has(toSink, "CANCEL") /\ ~Has(toSink', "CANCEL") /\ ~Has(toReader, "CANCEL_COMPLETE")
        /\ producer.cancels = 0 /\ calls["cancel"] = "pending"
    BY <1>2 DEF IsTaken, IInv, CancelToken
  <1>4. /\ sink' \in Sinks /\ sink'.known = FALSE /\ sink'.desiredSize = sink.desiredSize
        /\ sink'.isCancelled = (sink.isCancelled \/ sink.known)
    <2>1. sink \in Sinks
      BY DEF IInv, TypeInv
    <2>2. (IF sink.ready = "pending" THEN "rejected" ELSE sink.ready) \in {"pending", "resolved", "rejected"}
      BY <2>1 DEF Sinks
    <2>3. CASE sink.known
      <3>1. sink' = [sink EXCEPT !.known = FALSE, !.isCancelled = TRUE,
                                 !.ready = IF @ = "pending" THEN "rejected" ELSE @]
        BY <2>3 DEF OnCancel
      <3> QED BY <2>1, <2>2, <2>3, <3>1 DEF Sinks
    <2>4. CASE ~sink.known
      <3>1. sink' = sink
        BY <2>4 DEF OnCancel
      <3> QED BY <2>1, <2>4, <3>1 DEF Sinks
    <2> QED BY <2>3, <2>4
  <1>5. /\ producer' \in Producers /\ producer'.running = producer.running
        /\ producer'.starting = producer.starting /\ producer'.pulls = producer.pulls
        /\ producer'.cancels = (IF sink.known THEN 1 ELSE 0) /\ producer'.goesBy = producer.goesBy
    <2>1. producer \in Producers
      BY DEF IInv, TypeInv
    <2>2. CASE sink.known
      <3>1. producer' = [producer EXCEPT !.cancels = @ + 1]
        BY <2>2 DEF OnCancel
      <3> QED BY <1>3, <2>1, <2>2, <3>1 DEF Producers
    <2>3. CASE ~sink.known
      <3>1. producer' = producer
        BY <2>3 DEF OnCancel
      <3> QED BY <1>3, <2>1, <2>3, <3>1
    <2> QED BY <2>2, <2>3
  <1>6. ~NotCreated'
    BY <1>1, <1>2 DEF ReaderStays, NotCreated
  <1>7. Answerable' <=> Answerable
    BY <1>1, <1>2, <1>3, <1>5, <1>6 DEF ReaderStays, Answerable
  <1>8. NoMore => NoMore'
    BY <1>2, <1>4, <1>5, <1>6 DEF NoMore
  <1>9. (Over' <=> Over) /\ (HasData' <=> HasData)
    BY <1>1 DEF ReaderStays, Over, HasData
  <1>10. TypeInv'
    BY <1>1, <1>2, <1>4, <1>5 DEF ReaderStays, IInv, TypeInv
  <1>11. BeforeCreation'
    BY <1>1, <1>2, <1>6 DEF ReaderStays, IInv, BeforeCreation, Has
  <1>12. StartToken'
    BY <1>1, <1>2, <1>5 DEF IsTaken, ReaderStays, IInv, StartToken
  <1>13. PullToken'
    BY <1>1, <1>2, <1>5 DEF IsTaken, ReaderStays, IInv, PullToken
  <1>14. CancelToken'
    BY <1>1, <1>2, <1>3, <1>4, <1>5 DEF IsTaken, ReaderStays, IInv, CancelToken, Once, Has
  <1>15. EndIsLast'
    BY <1>1, <1>8 DEF IInv, EndIsLast
  <1>16. SinkIsKnown'
    BY <1>1, <1>4, <1>5, <1>6 DEF IInv, SinkIsKnown
  <1>17. OverIsOver'
    BY <1>1, <1>4, <1>6, <1>8, <1>9 DEF ReaderStays, IInv, OverIsOver
  <1>18. Answered'
    BY <1>1, <1>7 DEF ReaderStays, IInv, Answered
  <1>19. Shifted({"ENQUEUE"}, toReader, toReader', 0) /\ Shifted({"ENQUEUE", "PULL_COMPLETE"}, toReader, toReader', 0)
    BY <1>1, ShiftNone, Numbers
  <1>20. ChunksUnderWay'
    <2>1. stream.state = "closed" /\ calls["cancel"] = "null" => Len(delivered) = produced
      BY DEF IInv, ChunksUnderWay
    <2> QED BY <1>1, <1>19, <2>1, ChunksStay DEF ReaderStays
  <1>21. PullsAskForRoom'
    BY <1>2, <1>4 DEF IInv, PullsAskForRoom
  <1>22. RoomCounted'
    BY <1>1, <1>2, <1>4, <1>5, <1>19, RoomStays DEF ReaderStays
  <1> QED BY <1>10, <1>11, <1>12, <1>13, <1>14, <1>15, <1>16, <1>17, <1>18, <1>20, <1>21, <1>22
          DEF IInv

------------------------------------------------------------------------------
(* Steps of the reader.                                                     *)

\* What a step of the reader leaves alone.
SinkStays == sink' = sink /\ producer' = producer /\ produced' = produced

LEMMA SinkUnchanged == UNCHANGED sinkVars => SinkStays
  BY DEF sinkVars, SinkStays

\* A stream whose queue is q asks for at least one chunk, and for what fits beside q.
Asks(m, q) ==
    /\ m \in Messages /\ m.kind = "PULL"
    /\ m.desiredSize \in 1 .. HighWaterMark /\ m.desiredSize <= HighWaterMark - Len(q)

\* What StreamBecomes(s, c) comes to.
Pulls(s, c) ==
    /\ s.state = "readable" /\ ~s.closeRequested /\ s.started /\ ~s.pulling
    /\ stream'.pulling /\ calls'["pull"] = "pending"
    /\ \E m : Asks(m, s.queue) /\ IsPosted(toSink, m, toSink')

Waits(s, c) == stream'.pulling = s.pulling /\ calls'["pull"] = c["pull"] /\ toSink' = toSink

\* What StreamBecomes does, whether it calls pull or not.
LEMMA BecomesEffect ==
    ASSUME IInv, NEW s \in Streams, NEW c \in [CallNames -> CallStates], StreamBecomes(s, c),
           s.reads > 0 => s.queue = << >>
    PROVE  /\ stream' \in Streams /\ calls' \in [CallNames -> CallStates]
           /\ toSink' \in Seq(Messages)
           /\ stream'.state = s.state /\ stream'.queue = s.queue /\ stream'.reads = s.reads
           /\ stream'.closeRequested = s.closeRequested /\ stream'.started = s.started
           /\ calls'["start"] = c["start"] /\ calls'["cancel"] = c["cancel"]
           /\ Pulls(s, c) \/ Waits(s, c)
  <1> USE StreamAssumption
  <1>1. /\ s.queue \in Seq(ChunkRecords) /\ s.reads \in 0 .. MaxReads
        /\ s.pulling \in BOOLEAN /\ s.pullAgain \in BOOLEAN
    BY DEF Streams
  <1>2. s.queue \in Seq(Nat \X (Nat \ {0})) /\ Len(s.queue) \in Nat
    <2>1. 1 .. MaxChunks \subseteq Nat
      OBVIOUS
    <2>2. ChunkRecords \subseteq Nat \X (Nat \ {0})
      BY <2>1, Zenon DEF ChunkRecords
    <2> QED BY <1>1, <2>2, SeqMonotonic, LenProperties
  <1>3. Total[s.queue] \in Nat /\ Len(s.queue) <= Total[s.queue]
    BY <1>2, TotalBounds
  <1>4. DesiredSize(s) \in Int /\ DesiredSize(s) <= HighWaterMark - Len(s.queue)
    BY <1>2, <1>3 DEF DesiredSize
  <1>5. s.reads > 0 => DesiredSize(s) = HighWaterMark
    <2>1. << >> \in Queues /\ Total[<< >>] = 0
      BY EmptySeq, TotalEquation DEF Queues
    <2> QED BY <2>1 DEF DesiredSize
  <1>6. stream' \in Streams
    BY DEF StreamBecomes, PullChecked, Streams
  <1>7. /\ stream'.state = s.state /\ stream'.queue = s.queue /\ stream'.reads = s.reads
        /\ stream'.closeRequested = s.closeRequested /\ stream'.started = s.started
        /\ stream'.pulling = IF CallsPull(s) THEN TRUE ELSE s.pulling
    BY DEF StreamBecomes, PullChecked, Streams
  <1>8. CASE CallsPull(s)
    <2> DEFINE m == [kind |-> "PULL", target |-> Writer, desiredSize |-> DesiredSize(s)]
    <2>1. calls' = [c EXCEPT !.pull = "pending"] /\ toSink' = Append(toSink, m)
      BY <1>8 DEF StreamBecomes
    <2>2. /\ calls' \in [CallNames -> CallStates] /\ calls'["pull"] = "pending"
          /\ calls'["start"] = c["start"] /\ calls'["cancel"] = c["cancel"]
      BY <2>1 DEF CallNames, CallStates
    <2>3. /\ s.state = "readable" /\ ~s.closeRequested /\ s.started /\ ~s.pulling
          /\ s.reads > 0 \/ DesiredSize(s) > 0
      BY <1>8 DEF CallsPull, ShouldCallPull
    <2>4. DesiredSize(s) >= 1 /\ DesiredSize(s) <= HighWaterMark
      BY <1>1, <1>2, <1>4, <1>5, <2>3
    <2>5. m \in Messages /\ m.kind = "PULL" /\ m.desiredSize = DesiredSize(s)
      BY <1>4 DEF Messages
    <2> HIDE DEF m
    <2>6. Asks(m, s.queue)
      BY <1>4, <2>4, <2>5 DEF Asks
    <2>7. toSink' \in Seq(Messages) /\ IsPosted(toSink, m, toSink')
      BY <2>1, <2>5, Posted DEF IInv, TypeInv
    <2>8. Pulls(s, c)
      BY <1>7, <1>8, <2>2, <2>3, <2>6, <2>7 DEF Pulls
    <2> QED BY <1>6, <1>7, <2>2, <2>7, <2>8
  <1>9. CASE ~CallsPull(s)
    <2>1. calls' = c /\ toSink' = toSink
      BY <1>9 DEF StreamBecomes
    <2>2. Waits(s, c)
      BY <1>7, <1>9, <2>1 DEF Waits
    <2> QED BY <1>6, <1>7, <2>1, <2>2 DEF IInv, TypeInv
  <1> QED BY <1>8, <1>9

\* A reply is taken.
LEMMA ReaderTakes ==
    ASSUME IInv, toReader # << >>, toReader' = Tail(toReader)
    PROVE  /\ Head(toReader) \in Replies
           /\ toReader' \in Seq(Replies) /\ IsTaken(toReader, Head(toReader), toReader')
           /\ Head(toReader) = toReader[1] /\ 1 \in 1 .. Len(toReader)
           /\ Head(toReader).kind # "ENQUEUE" => Shifted({"ENQUEUE"}, toReader, toReader', 1)
           /\ Head(toReader).kind \notin {"ENQUEUE", "PULL_COMPLETE"} =>
                 Shifted({"ENQUEUE", "PULL_COMPLETE"}, toReader, toReader', 1)
           /\ entry # "none" /\ ~NotCreated
  <1> DEFINE m == Head(toReader)
  <1>1. toReader \in Seq(Replies)
    BY DEF IInv, TypeInv
  <1>2. m \in Replies /\ toReader' \in Seq(Replies) /\ IsTaken(toReader, m, toReader')
    BY <1>1, Taken
  <1>3. entry # "none" /\ ~NotCreated
    BY DEF IInv, BeforeCreation, NotCreated
  <1> HIDE DEF m
  <1>4. m = toReader[1] /\ 1 \in 1 .. Len(toReader)
    BY <1>2 DEF IsTaken
  <1>5. m.kind # "ENQUEUE" => Shifted({"ENQUEUE"}, toReader, toReader', 1)
    BY <1>2, ShiftTaken
  <1>6. m.kind \notin {"ENQUEUE", "PULL_COMPLETE"} =>
           Shifted({"ENQUEUE", "PULL_COMPLETE"}, toReader, toReader', 1)
    BY <1>2, ShiftTaken
  <1> QED BY <1>2, <1>3, <1>4, <1>5, <1>6 DEF m

\* A pull is posted only while the end is not known of.
LEMMA PullsMeansOpen ==
    ASSUME IInv, stream.state = "readable", ~stream.closeRequested
    PROVE  ~Over /\ deleting = {} /\ entry # "deleted" /\ calls["cancel"] = "null" /\ ~isClosed
  <1>1. ~Over
    BY DEF IInv, OverIsOver
  <1>2. deleting = {} /\ entry # "deleted"
    BY <1>1 DEF Over
  <1>3. calls["cancel"] = "null" /\ ~isClosed
    BY DEF IInv, CancelToken, OverIsOver
  <1> QED BY <1>1, <1>2, <1>3

\* The arithmetic of a chunk got or read: less is buffered, the room stays.
LEMMA LessBuffered ==
    ASSUME NEW n \in Int, NEW less \in Int, NEW room \in Int, NEW asked \in Int, NEW h \in Int,
           less <= n, n + room + asked <= h
    PROVE  less + room + asked <= h
  OBVIOUS

\* How the reader's room follows.
LEMMA RoomFollows ==
    ASSUME IInv, SinkStays, NEW by \in {0, 1},
           \A i \in 1 .. Len(toReader') : i + by \in 1 .. Len(toReader) /\ toReader'[i] = toReader[i + by],
           stream'.state = "readable" => stream.state = "readable",
           Len(delivered') \in Nat, Len(delivered) <= Len(delivered'),
           producer.goesBy = "ready" /\ stream'.state = "readable" =>
              /\ \A i \in 1 .. Len(toSink') : toSink'[i].kind = "PULL" =>
                    \/ \E j \in 1 .. Len(toSink) : toSink[j] = toSink'[i]
                    \/ Buffered' + Room + toSink'[i].desiredSize <= 2 * HighWaterMark
              /\ ~stream'.started => produced + Room <= HighWaterMark
              /\ stream'.started /\ ~stream'.pulling => produced - Got' + Room <= HighWaterMark
    PROVE  RoomCounted'
  <1> SUFFICES ASSUME producer.goesBy = "ready", stream'.state = "readable" PROVE RoomCounted'
    BY DEF RoomCounted, SinkStays
  <1>1. produced' = produced /\ Room' = Room /\ stream.state = "readable"
    BY DEF Room, SinkStays
  <1>2. Buffered' <= Buffered /\ Buffered' \in Int
    BY <1>1, Numbers DEF Buffered
  <1>3. ASSUME NEW i \in 1 .. Len(toReader'), toReader'[i].kind = "PULL_COMPLETE"
        PROVE  \E known \in 0 .. produced :
                  /\ produced - known + Room <= HighWaterMark
                  /\ \A j \in 1 .. Len(toReader') : toReader'[j].kind = "ENQUEUE" =>
                        (j < i <=> toReader'[j].chunk[1] <= known)
    <2>1. i + by \in 1 .. Len(toReader) /\ toReader[i + by].kind = "PULL_COMPLETE"
      BY <1>3
    <2>2. PICK known \in 0 .. produced :
                  /\ produced - known + Room <= HighWaterMark
                  /\ \A j \in 1 .. Len(toReader) : toReader[j].kind = "ENQUEUE" =>
                        (j < i + by <=> toReader[j].chunk[1] <= known)
      BY <1>1, <2>1 DEF IInv, RoomCounted
    <2>3. ASSUME NEW j \in 1 .. Len(toReader'), toReader'[j].kind = "ENQUEUE"
          PROVE  j < i <=> toReader'[j].chunk[1] <= known
      <3>1. j + by \in 1 .. Len(toReader) /\ toReader[j + by] = toReader'[j]
        OBVIOUS
      <3>2. j + by < i + by <=> j < i
        OBVIOUS
      <3> QED BY <2>2, <2>3, <3>1, <3>2
    <2> QED BY <2>2, <2>3
  <1>4. ASSUME NEW i \in 1 .. Len(toSink'), toSink'[i].kind = "PULL"
        PROVE  Buffered' + Room + toSink'[i].desiredSize <= 2 * HighWaterMark
    <2>1. CASE \E j \in 1 .. Len(toSink) : toSink[j] = toSink'[i]
      <3>1. PICK j \in 1 .. Len(toSink) : toSink[j] = toSink'[i]
        BY <2>1
      <3>2. Buffered + Room + toSink[j].desiredSize <= 2 * HighWaterMark /\ toSink[j].kind = "PULL"
        BY <1>1, <1>4, <3>1 DEF IInv, RoomCounted
      <3>3. /\ Buffered \in Int /\ Room \in Int /\ toSink[j].desiredSize \in Int
            /\ 2 * HighWaterMark \in Int
        BY <3>2, Types, Numbers
      <3>4. Buffered' + Room + toSink[j].desiredSize <= 2 * HighWaterMark
        BY <1>2, <3>2, <3>3, LessBuffered, Zenon
      <3> QED BY <3>1, <3>4
    <2> QED BY <1>4, <2>1
  <1>5. Buffered' + Room <= 2 * HighWaterMark
    <2>1. Buffered + Room <= 2 * HighWaterMark
      BY <1>1 DEF IInv, RoomCounted
    <2> QED BY <1>2, <2>1, Numbers
  <1> QED BY <1>1, <1>3, <1>4, <1>5 DEF RoomCounted, SinkStays

\* Of what comes, the chunk after the last one got comes first.
LEMMA FirstChunk ==
    ASSUME IInv, stream.state = "readable", 1 \in 1 .. Len(toReader), toReader[1].kind = "ENQUEUE"
    PROVE  /\ toReader[1].chunk[1] = Got + 1 /\ Got + 1 <= produced
           /\ \A i \in 1 .. Len(toReader) :
                 i # 1 /\ toReader[i].kind = "ENQUEUE" => toReader[i].chunk[1] > Got + 1
  <1>1. toReader[1].chunk[1] \in Got + 1 .. produced
    BY DEF IInv, ChunksUnderWay
  <1>2. \A i \in 1 .. Len(toReader) :
           i # 1 /\ toReader[i].kind = "ENQUEUE" => toReader[i].chunk[1] > toReader[1].chunk[1]
    <2> SUFFICES ASSUME NEW i \in 1 .. Len(toReader), i # 1, toReader[i].kind = "ENQUEUE"
                 PROVE  toReader[1].chunk[1] < toReader[i].chunk[1]
      BY <1>1, Types, Numbers
    <2>1. 1 < i
      OBVIOUS
    <2> QED BY <2>1 DEF IInv, ChunksUnderWay
  <1>3. Got + 1 \in Got + 1 .. produced
    BY <1>1, Numbers
  <1>4. PICK i \in 1 .. Len(toReader) : toReader[i].kind = "ENQUEUE" /\ toReader[i].chunk[1] = Got + 1
    BY <1>3 DEF IInv, ChunksUnderWay
  <1>5. i = 1
    BY <1>1, <1>2, <1>4, Numbers
  <1> QED BY <1>1, <1>2, <1>4, <1>5, Numbers

\* Once nothing more comes, all is got.
LEMMA AllGot ==
    ASSUME IInv, stream.state = "readable",
           \A i \in 1 .. Len(toReader) : toReader[i].kind # "ENQUEUE"
    PROVE  Got = produced
  <1>1. Got <= produced
    BY DEF IInv, ChunksUnderWay
  <1>2. ~(Got + 1 \in Got + 1 .. produced)
    BY DEF IInv, ChunksUnderWay
  <1> QED BY <1>1, <1>2, Numbers

\* After the end of the stream.
LEMMA ChunksAfterEnd ==
    ASSUME IInv, NEW m, IsTaken(toReader, m, toReader'), produced' = produced,
           delivered' = delivered, stream' = stream, calls' = calls, stream.state # "readable"
    PROVE  ChunksUnderWay'
  <1>1. ASSUME NEW i \in 1 .. Len(toReader')
        PROVE  i + 1 \in 1 .. Len(toReader) /\ toReader'[i] = toReader[i + 1] /\ i \in Int
    BY DEF IsTaken
  <1>2. ASSUME NEW i \in 1 .. Len(toReader'), NEW j \in 1 .. Len(toReader'), i < j,
               toReader'[i].kind = "ENQUEUE", toReader'[j].kind = "ENQUEUE"
        PROVE  toReader'[i].chunk[1] < toReader'[j].chunk[1]
    <2>1. i + 1 < j + 1
      BY <1>2
    <2> QED BY <1>1, <1>2, <2>1 DEF IInv, ChunksUnderWay
  <1>3. ASSUME NEW i \in 1 .. Len(toReader'), toReader'[i].kind = "ENQUEUE"
        PROVE  toReader'[i].chunk[1] <= produced
    BY <1>1, <1>3 DEF IInv, ChunksUnderWay
  <1> QED BY <1>2, <1>3 DEF IInv, ChunksUnderWay

\* The common part of the steps that may call pull: stream and calls become s and c.
LEMMA BecomesInv ==
    ASSUME IInv, SinkStays, entry' = entry, entry # "none", isClosed' = isClosed,
           deleting' = deleting, delivered' \in Seq(1 .. MaxChunks),
           NEW s \in Streams, NEW c \in [CallNames -> CallStates], StreamBecomes(s, c),
           s.reads > 0 => s.queue = << >>,
           s.state = stream.state, s.closeRequested = stream.closeRequested,
           c["cancel"] = calls["cancel"], c["start"] # "null",
           c["start"] = "pending" => calls["start"] = "pending",
           toReader' \in Seq(Replies),
           toReader' = toReader \/ \E m : IsTaken(toReader, m, toReader'),
           s.pulling <=> c["pull"] = "pending", s.pulling => s.started,
           Has(toSink, "PULL") \/ producer.pulls = 1 \/ Has(toReader', "PULL_COMPLETE")
              <=> c["pull"] = "pending",
           c["pull"] = "null" <=> calls["pull"] = "null",
           c["pull"] = "pending" => calls["pull"] = "pending"
    PROVE  /\ TypeInv' /\ BeforeCreation' /\ PullToken' /\ CancelToken' /\ EndIsLast'
           /\ SinkIsKnown' /\ OverIsOver' /\ Answered' /\ PullsAskForRoom'
           /\ (NotCreated' <=> NotCreated) /\ (Has(toSink', "ACTION") <=> Has(toSink, "ACTION"))
           /\ Pulls(s, c) \/ Waits(s, c)
           /\ \A i \in 1 .. Len(toSink') : toSink'[i].kind = "PULL" =>
                 \/ \E j \in 1 .. Len(toSink) : toSink[j] = toSink'[i]
                 \/ Pulls(s, c) /\ toSink'[i].desiredSize \in Int
                    /\ toSink'[i].desiredSize <= HighWaterMark - Len(s.queue)
  <1>1. /\ stream' \in Streams /\ calls' \in [CallNames -> CallStates]
        /\ toSink' \in Seq(Messages)
        /\ stream'.state = s.state /\ stream'.queue = s.queue /\ stream'.reads = s.reads
        /\ stream'.closeRequested = s.closeRequested /\ stream'.started = s.started
        /\ calls'["start"] = c["start"] /\ calls'["cancel"] = c["cancel"]
        /\ Pulls(s, c) \/ Waits(s, c)
    BY BecomesEffect
  <1>2. \/ toSink' = toSink
        \/ Pulls(s, c) /\ \E m : Asks(m, s.queue) /\ IsPosted(toSink, m, toSink')
    BY <1>1 DEF Pulls, Waits
  <1>3. \A kind : kind # "PULL" =>
           /\ Has(toSink', kind) <=> Has(toSink, kind)
           /\ Once(toSink, kind) => Once(toSink', kind)
    BY <1>2 DEF Asks, IsPosted
  <1>4. \A i \in 1 .. Len(toSink') :
           \/ i \in 1 .. Len(toSink) /\ toSink'[i] = toSink[i]
           \/ Pulls(s, c) /\ Asks(toSink'[i], s.queue)
    BY <1>2 DEF IsPosted
  <1>5. \A kind :
           /\ Has(toReader', kind) => Has(toReader, kind)
           /\ Once(toReader, kind) => Once(toReader', kind)
    BY DEF IsTaken
  <1>6. NotCreated' <=> NotCreated
    BY <1>3 DEF NotCreated
  <1>7. NoMore' <=> NoMore
    BY <1>6 DEF NoMore, SinkStays
  <1>8. Over' <=> Over
    BY <1>1 DEF Over
  <1>9. HasData' => HasData
    <2>1. CASE toReader' = toReader
      BY <2>1 DEF HasData
    <2>2. CASE \E m : IsTaken(toReader, m, toReader')
      BY <2>2 DEF HasData, IsTaken
    <2> QED BY <2>1, <2>2
  <1>10. Answerable' => Answerable
    BY <1>3, <1>5, <1>6 DEF Answerable, SinkStays
  <1>11. Pulls(s, c) => deleting = {} /\ entry # "deleted" /\ calls["cancel"] = "null" /\ ~isClosed
    BY PullsMeansOpen DEF Pulls
  <1>12. TypeInv'
    BY <1>1 DEF IInv, TypeInv, SinkStays
  <1>13. BeforeCreation'
    <2>1. NotCreated => toReader = << >>
      BY DEF IInv, BeforeCreation
    <2>2. toReader = << >> => toReader' = << >>
      <3>1. ASSUME toReader = << >>, NEW m, IsTaken(toReader, m, toReader') PROVE FALSE
        BY <3>1, EmptySeq DEF IsTaken
      <3> QED BY <3>1
    <2>3. \A i \in 1 .. Len(toSink') :
             toSink'[i].kind = "ACTION" => i = 1 /\ toSink'[i].desiredSize = HighWaterMark
      BY <1>4 DEF IInv, BeforeCreation, Asks
    <2> QED BY <1>6, <2>1, <2>2, <2>3 DEF IInv, BeforeCreation, SinkStays
  <1>14. PullToken'
    <2>1. CASE Pulls(s, c)
      <3>1. c["pull"] # "pending" /\ s.started /\ stream'.pulling /\ calls'["pull"] = "pending"
        BY <2>1 DEF Pulls
      <3>2. ~Has(toSink, "PULL") /\ producer.pulls # 1 /\ ~Has(toReader', "PULL_COMPLETE")
        BY <3>1
      <3>3. Has(toSink', "PULL") /\ (Once(toSink, "PULL") => Once(toSink', "PULL"))
        BY <2>1, <3>2 DEF Pulls, Asks, IsPosted
      <3> QED BY <1>1, <1>5, <3>1, <3>2, <3>3 DEF IInv, PullToken, SinkStays
    <2>2. CASE Waits(s, c)
      BY <1>1, <1>5, <2>2 DEF IInv, PullToken, SinkStays, Waits
    <2> QED BY <1>1, <2>1, <2>2
  <1>15. CancelToken'
    BY <1>1, <1>3, <1>5 DEF IInv, CancelToken, SinkStays
  <1>16. EndIsLast'
    <2>1. CASE toReader' = toReader
      BY <1>7, <2>1 DEF IInv, EndIsLast
    <2>2. CASE \E m : IsTaken(toReader, m, toReader')
      BY <1>7, <2>2, EndTaken
    <2> QED BY <2>1, <2>2
  <1>17. SinkIsKnown'
    BY <1>5, <1>6 DEF IInv, SinkIsKnown, SinkStays
  <1>18. OverIsOver'
    BY <1>1, <1>6, <1>7, <1>8, <1>9 DEF IInv, OverIsOver, SinkStays
  <1>19. Answered'
    <2>1. CASE Pulls(s, c)
      BY <1>11, <2>1 DEF Answered
    <2>2. CASE Waits(s, c)
      BY <1>1, <1>10, <2>2 DEF IInv, Answered, Waits
    <2> QED BY <1>1, <2>1, <2>2
  <1>20. PullsAskForRoom'
    BY <1>4 DEF IInv, PullsAskForRoom, SinkStays, Asks
  <1>21. ASSUME NEW i \in 1 .. Len(toSink'), toSink'[i].kind = "PULL"
         PROVE  \/ \E j \in 1 .. Len(toSink) : toSink[j] = toSink'[i]
                \/ Pulls(s, c) /\ toSink'[i].desiredSize \in Int
                   /\ toSink'[i].desiredSize <= HighWaterMark - Len(s.queue)
    BY <1>4 DEF Asks
  <1> QED BY <1>1, <1>3, <1>6, <1>12, <1>13, <1>14, <1>15, <1>16, <1>17, <1>18, <1>19, <1>20, <1>21

\* The arithmetic of a pull: what is not got yet and the room it finds.
LEMMA RoomSum ==
    ASSUME NEW made \in Int, NEW read \in Int, NEW queued \in Int, NEW room \in Int,
           NEW asked \in Int, NEW h \in Int,
           made - (read + queued) + room <= h, asked <= h - queued
    PROVE  made - read + room + asked <= 2 * h
  OBVIOUS

\* ... and how the room follows: before the pull there was room for what s does not have.
LEMMA BecomesRoom ==
    ASSUME IInv, SinkStays, NEW by \in {0, 1},
           \A i \in 1 .. Len(toReader') : i + by \in 1 .. Len(toReader) /\ toReader'[i] = toReader[i + by],
           Len(delivered') \in Nat, Len(delivered) <= Len(delivered'),
           NEW s \in Streams, NEW c \in [CallNames -> CallStates], StreamBecomes(s, c),
           s.reads > 0 => s.queue = << >>, s.state = stream.state,
           \A i \in 1 .. Len(toSink') : toSink'[i].kind = "PULL" =>
                 \/ \E j \in 1 .. Len(toSink) : toSink[j] = toSink'[i]
                 \/ Pulls(s, c) /\ toSink'[i].desiredSize \in Int
                    /\ toSink'[i].desiredSize <= HighWaterMark - Len(s.queue),
           producer.goesBy = "ready" /\ s.state = "readable" =>
              /\ ~s.started => produced + Room <= HighWaterMark
              /\ s.started /\ ~s.pulling =>
                    produced - (Len(delivered') + Len(s.queue)) + Room <= HighWaterMark
    PROVE  RoomCounted'
  <1>1. /\ stream'.state = s.state /\ stream'.queue = s.queue /\ stream'.started = s.started
        /\ Pulls(s, c) \/ Waits(s, c)
    BY BecomesEffect
  <1>2. Len(s.queue) \in Nat
    BY LenProperties DEF Streams
  <1>3. Got' = Len(delivered') + Len(s.queue) /\ Buffered' = produced - Len(delivered')
    BY <1>1 DEF Got, Buffered, SinkStays
  <1>4. ASSUME producer.goesBy = "ready", s.state = "readable",
               NEW i \in 1 .. Len(toSink'), Pulls(s, c), toSink'[i].desiredSize \in Int,
               toSink'[i].desiredSize <= HighWaterMark - Len(s.queue)
        PROVE  Buffered' + Room + toSink'[i].desiredSize <= 2 * HighWaterMark
    <2>1. produced - (Len(delivered') + Len(s.queue)) + Room <= HighWaterMark
      BY <1>4 DEF Pulls
    <2>2. /\ produced \in Int /\ Len(delivered') \in Int /\ Len(s.queue) \in Int /\ Room \in Int
          /\ HighWaterMark \in Int
      BY <1>2, Numbers
    <2>3. produced - Len(delivered') + Room + toSink'[i].desiredSize <= 2 * HighWaterMark
      BY <1>4, <2>1, <2>2, RoomSum, Zenon
    <2> QED BY <1>3, <2>3
  <1>5. producer.goesBy = "ready" /\ stream'.state = "readable" =>
              /\ \A i \in 1 .. Len(toSink') : toSink'[i].kind = "PULL" =>
                    \/ \E j \in 1 .. Len(toSink) : toSink[j] = toSink'[i]
                    \/ Buffered' + Room + toSink'[i].desiredSize <= 2 * HighWaterMark
              /\ ~stream'.started => produced + Room <= HighWaterMark
              /\ stream'.started /\ ~stream'.pulling => produced - Got' + Room <= HighWaterMark
    <2> SUFFICES ASSUME producer.goesBy = "ready", s.state = "readable"
                 PROVE  /\ \A i \in 1 .. Len(toSink') : toSink'[i].kind = "PULL" =>
                              \/ \E j \in 1 .. Len(toSink) : toSink[j] = toSink'[i]
                              \/ Buffered' + Room + toSink'[i].desiredSize <= 2 * HighWaterMark
                        /\ ~stream'.started => produced + Room <= HighWaterMark
                        /\ stream'.started /\ ~stream'.pulling =>
                              produced - Got' + Room <= HighWaterMark
      BY <1>1
    <2>1. \A i \in 1 .. Len(toSink') : toSink'[i].kind = "PULL" =>
             \/ \E j \in 1 .. Len(toSink) : toSink[j] = toSink'[i]
             \/ Buffered' + Room + toSink'[i].desiredSize <= 2 * HighWaterMark
      BY <1>4
    <2>2. ~stream'.started => produced + Room <= HighWaterMark
      BY <1>1
    <2>3. stream'.started /\ ~stream'.pulling => s.started /\ ~s.pulling
      BY <1>1 DEF Pulls, Waits
    <2> QED BY <1>3, <2>1, <2>2, <2>3
  <1> QED BY <1>1, <1>5, RoomFollows

\* The start call is answered well: pulling may begin.
LEMMA OnStartCompleteInv ==
    ASSUME IInv, OnStartComplete, Head(toReader).success
    PROVE  IInv'
  <1> DEFINE m == Head(toReader)
             s == [stream EXCEPT !.started = TRUE]
             c == [calls EXCEPT !.start = "resolved"]
  <1>1. /\ m.kind = "START_COMPLETE" /\ toReader # << >> /\ toReader' = Tail(toReader)
        /\ StreamBecomes(s, c)
        /\ entry' = entry /\ isClosed' = isClosed /\ deleting' = deleting
        /\ delivered' = delivered /\ SinkStays
    BY SinkUnchanged DEF OnStartComplete, TakeAtReader, Outcome
  <1>2. /\ m \in Replies /\ toReader' \in Seq(Replies) /\ IsTaken(toReader, m, toReader')
        /\ Shifted({"ENQUEUE"}, toReader, toReader', 1)
        /\ entry # "none" /\ ~NotCreated
    BY <1>1, ReaderTakes
  <1> HIDE DEF m
  <1>3. stream \in Streams /\ calls \in [CallNames -> CallStates] /\ delivered \in Seq(1 .. MaxChunks)
    BY DEF IInv, TypeInv
  <1>4. /\ s \in Streams /\ s.state = stream.state /\ s.queue = stream.queue
        /\ s.reads = stream.reads /\ s.closeRequested = stream.closeRequested
        /\ s.pulling = stream.pulling /\ s.started
    BY <1>3 DEF Streams
  <1>5. /\ c \in [CallNames -> CallStates] /\ c["start"] = "resolved"
        /\ c["pull"] = calls["pull"] /\ c["cancel"] = calls["cancel"]
    BY <1>3 DEF CallNames, CallStates
  <1> HIDE DEF s, c
  <1>6. /\ Has(toReader, "START_COMPLETE") /\ ~Has(toReader', "START_COMPLETE")
        /\ ~producer.starting /\ ~Has(toSink, "ACTION") /\ ~stream.started
    BY <1>1, <1>2 DEF IsTaken, IInv, StartToken
  <1>7. s.reads > 0 => s.queue = << >>
    BY <1>4 DEF IInv, ChunksUnderWay
  <1>8. /\ s.pulling <=> c["pull"] = "pending"
        /\ s.pulling => s.started
        /\ Has(toSink, "PULL") \/ producer.pulls = 1 \/ Has(toReader', "PULL_COMPLETE")
              <=> c["pull"] = "pending"
    BY <1>1, <1>2, <1>4, <1>5 DEF IsTaken, IInv, PullToken
  <1>9. /\ TypeInv' /\ BeforeCreation' /\ PullToken' /\ CancelToken' /\ EndIsLast'
        /\ SinkIsKnown' /\ OverIsOver' /\ Answered' /\ PullsAskForRoom'
        /\ (Has(toSink', "ACTION") <=> Has(toSink, "ACTION"))
        /\ \A i \in 1 .. Len(toSink') : toSink'[i].kind = "PULL" =>
                 \/ \E j \in 1 .. Len(toSink) : toSink[j] = toSink'[i]
                 \/ Pulls(s, c) /\ toSink'[i].desiredSize \in Int
                    /\ toSink'[i].desiredSize <= HighWaterMark - Len(s.queue)
    BY <1>1, <1>2, <1>3, <1>4, <1>5, <1>7, <1>8, BecomesInv
  <1>10. /\ stream'.state = s.state /\ stream'.queue = s.queue /\ stream'.reads = s.reads
         /\ stream'.started = s.started
         /\ calls'["start"] = c["start"] /\ calls'["cancel"] = c["cancel"]
    BY <1>1, <1>4, <1>5, <1>7, BecomesEffect
  <1>11. StartToken'
    BY <1>1, <1>2, <1>5, <1>6, <1>9, <1>10 DEF IsTaken, IInv, StartToken, SinkStays
  <1>12. ChunksUnderWay'
    <2>1. stream'.state = "closed" /\ calls'["cancel"] = "null" => Len(delivered) = produced
      BY <1>4, <1>5, <1>10 DEF IInv, ChunksUnderWay
    <2> QED BY <1>1, <1>2, <1>4, <1>10, <2>1, ChunksStay DEF SinkStays
  <1>13. RoomCounted'
    <2>1. \A i \in 1 .. Len(toReader') : i + 1 \in 1 .. Len(toReader) /\ toReader'[i] = toReader[i + 1]
      BY <1>2 DEF IsTaken
    <2>2. producer.goesBy = "ready" /\ s.state = "readable" =>
             produced - (Len(delivered) + Len(s.queue)) + Room <= HighWaterMark
      <3> SUFFICES ASSUME producer.goesBy = "ready", s.state = "readable"
                   PROVE  produced - (Len(delivered) + Len(s.queue)) + Room <= HighWaterMark
        OBVIOUS
      <3>1. produced + Room <= HighWaterMark
        BY <1>4, <1>6 DEF IInv, RoomCounted
      <3>2. Len(s.queue) \in Nat
        BY <1>4, Numbers
      <3> QED BY <3>1, <3>2, Numbers
    <2>3. Len(delivered') \in Nat /\ Len(delivered) <= Len(delivered')
      BY <1>1, Numbers
    <2> QED BY <1>1, <1>4, <1>5, <1>7, <1>9, <2>1, <2>2, <2>3, BecomesRoom
  <1> QED BY <1>9, <1>11, <1>12, <1>13 DEF IInv

\* When a pull is answered, all that was under way when it was posted has come.
LEMMA RoomWhenAnswered ==
    ASSUME IInv, toReader # << >>, Head(toReader).kind = "PULL_COMPLETE",
           producer.goesBy = "ready", stream.state = "readable"
    PROVE  produced - Got + Room <= HighWaterMark
  <1>1. 1 \in 1 .. Len(toReader) /\ toReader[1].kind = "PULL_COMPLETE"
    <2>1. toReader \in Seq(Replies)
      BY Types
    <2>2. IsTaken(toReader, Head(toReader), Tail(toReader))
      BY <2>1, Taken
    <2> QED BY <2>2 DEF IsTaken
  <1>2. PICK known \in 0 .. produced :
           /\ produced - known + Room <= HighWaterMark
           /\ \A j \in 1 .. Len(toReader) : toReader[j].kind = "ENQUEUE" =>
                 (j < 1 <=> toReader[j].chunk[1] <= known)
    BY <1>1 DEF IInv, RoomCounted
  <1>3. known <= Got
    <2> SUFFICES ASSUME Got + 1 <= known PROVE FALSE
      BY <1>2, Numbers
    <2>1. Got + 1 \in Got + 1 .. produced
      BY <1>2, Numbers
    <2>2. PICK i \in 1 .. Len(toReader) : toReader[i].kind = "ENQUEUE" /\ toReader[i].chunk[1] = Got + 1
      BY <2>1 DEF IInv, ChunksUnderWay
    <2>3. ~(i < 1)
      OBVIOUS
    <2> QED BY <1>2, <2>2, <2>3
  <1> QED BY <1>2, <1>3, Numbers

\* A pull is answered while another is asked for.
LEMMA OnPullCompleteInv ==
    ASSUME IInv, OnPullComplete, Head(toReader).success
    PROVE  IInv'
  <1> DEFINE m == Head(toReader)
             s == [stream EXCEPT !.pulling = FALSE, !.pullAgain = FALSE]
             c == [calls EXCEPT !.pull = "resolved"]
  <1>1. /\ m.kind = "PULL_COMPLETE" /\ toReader # << >> /\ toReader' = Tail(toReader)
        /\ StreamBecomes(s, c) \/ (stream' = s /\ calls' = c /\ toSink' = toSink)
        /\ entry' = entry /\ isClosed' = isClosed /\ deleting' = deleting
        /\ delivered' = delivered /\ SinkStays
    BY SinkUnchanged DEF OnPullComplete, TakeAtReader, Outcome
  <1>2. /\ m \in Replies /\ toReader' \in Seq(Replies) /\ IsTaken(toReader, m, toReader')
        /\ Shifted({"ENQUEUE"}, toReader, toReader', 1)
        /\ entry # "none" /\ ~NotCreated
    BY <1>1, ReaderTakes
  <1>3. producer.goesBy = "ready" /\ stream.state = "readable" =>
           produced - Got + Room <= HighWaterMark
    BY <1>1, RoomWhenAnswered
  <1> HIDE DEF m
  <1>4. stream \in Streams /\ calls \in [CallNames -> CallStates] /\ delivered \in Seq(1 .. MaxChunks)
    BY DEF IInv, TypeInv
  <1>5. /\ s \in Streams /\ s.state = stream.state /\ s.queue = stream.queue
        /\ s.reads = stream.reads /\ s.closeRequested = stream.closeRequested
        /\ ~s.pulling /\ s.started = stream.started
    BY <1>4 DEF Streams
  <1>6. /\ c \in [CallNames -> CallStates] /\ c["start"] = calls["start"]
        /\ c["pull"] = "resolved" /\ c["cancel"] = calls["cancel"]
    BY <1>4 DEF CallNames, CallStates
  <1> HIDE DEF s, c
  <1>7. /\ Has(toReader, "PULL_COMPLETE") /\ ~Has(toReader', "PULL_COMPLETE")
        /\ producer.pulls # 1 /\ ~Has(toSink, "PULL") /\ stream.pulling /\ stream.started
        /\ calls["pull"] = "pending" /\ c["start"] # "null"
    BY <1>1, <1>2, <1>6 DEF IsTaken, IInv, PullToken, StartToken
  <1>8. s.reads > 0 => s.queue = << >>
    BY <1>5 DEF IInv, ChunksUnderWay
  <1>9. \A i \in 1 .. Len(toReader') : i + 1 \in 1 .. Len(toReader) /\ toReader'[i] = toReader[i + 1]
    BY <1>2 DEF IsTaken
  <1>10. Len(delivered') \in Nat /\ Len(delivered) <= Len(delivered')
    BY <1>1, Numbers
  <1>11. /\ stream'.state = s.state /\ stream'.queue = s.queue /\ stream'.reads = s.reads
         /\ stream'.started = s.started
         /\ calls'["start"] = c["start"] /\ calls'["cancel"] = c["cancel"]
    BY <1>1, <1>5, <1>6, <1>8, BecomesEffect
  <1>12. ChunksUnderWay'
    <2>1. stream'.state = "closed" /\ calls'["cancel"] = "null" => Len(delivered) = produced
      BY <1>5, <1>6, <1>11 DEF IInv, ChunksUnderWay
    <2> QED BY <1>1, <1>2, <1>5, <1>11, <2>1, ChunksStay DEF SinkStays
  <1>13. CASE StreamBecomes(s, c)
    <2>1. /\ TypeInv' /\ BeforeCreation' /\ PullToken' /\ CancelToken' /\ EndIsLast'
          /\ SinkIsKnown' /\ OverIsOver' /\ Answered' /\ PullsAskForRoom'
          /\ (Has(toSink', "ACTION") <=> Has(toSink, "ACTION"))
          /\ \A i \in 1 .. Len(toSink') : toSink'[i].kind = "PULL" =>
                   \/ \E j \in 1 .. Len(toSink) : toSink[j] = toSink'[i]
                   \/ Pulls(s, c) /\ toSink'[i].desiredSize \in Int
                      /\ toSink'[i].desiredSize <= HighWaterMark - Len(s.queue)
      BY <1>1, <1>2, <1>4, <1>5, <1>6, <1>7, <1>8, <1>13, BecomesInv
    <2>2. StartToken'
      BY <1>1, <1>2, <1>5, <1>6, <1>11, <2>1 DEF IsTaken, IInv, StartToken, SinkStays
    <2>3. RoomCounted'
      <3>1. producer.goesBy = "ready" /\ s.state = "readable" =>
              produced - (Len(delivered') + Len(s.queue)) + Room <= HighWaterMark
        BY <1>1, <1>3, <1>5 DEF Got
      <3> QED BY <1>1, <1>5, <1>6, <1>7, <1>8, <1>9, <1>10, <1>13, <2>1, <3>1, BecomesRoom
    <2> QED BY <1>12, <2>1, <2>2, <2>3 DEF IInv
  <1>14. CASE stream' = s /\ calls' = c /\ toSink' = toSink
    <2>1. (NotCreated' <=> NotCreated) /\ (Answerable' <=> Answerable) /\ (NoMore' <=> NoMore)
          /\ (Over' <=> Over)
      BY <1>1, <1>2, <1>5, <1>6, <1>14
         DEF NotCreated, Answerable, NoMore, Over, SinkStays, IsTaken
    <2>2. EndIsLast' /\ (HasData' => HasData)
      BY <1>2, <2>1, EndTaken
    <2>3. TypeInv'
      BY <1>1, <1>2, <1>5, <1>6, <1>14 DEF IInv, TypeInv, SinkStays
    <2>4. BeforeCreation'
      BY <1>1, <1>2, <1>14, <2>1 DEF IInv, BeforeCreation
    <2>5. StartToken'
      BY <1>1, <1>2, <1>5, <1>6, <1>14 DEF IsTaken, IInv, StartToken, SinkStays
    <2>6. PullToken'
      BY <1>1, <1>2, <1>5, <1>6, <1>7, <1>14 DEF IsTaken, IInv, PullToken, SinkStays
    <2>7. CancelToken'
      BY <1>1, <1>2, <1>5, <1>6, <1>14 DEF IsTaken, IInv, CancelToken, SinkStays
    <2>8. SinkIsKnown'
      BY <1>1, <1>2, <2>1 DEF IsTaken, IInv, SinkIsKnown, SinkStays
    <2>9. OverIsOver'
      BY <1>1, <1>5, <1>6, <1>14, <2>1, <2>2 DEF IInv, OverIsOver, SinkStays
    <2>10. Answered'
      BY <1>1, <1>6, <1>7, <1>14, <2>1 DEF IInv, Answered
    <2>11. PullsAskForRoom'
      BY <1>1, <1>14 DEF IInv, PullsAskForRoom, SinkStays
    <2>12. RoomCounted'
      <3>1. Got' = Got
        BY <1>1, <1>11, <1>5 DEF Got
      <3> QED BY <1>1, <1>3, <1>5, <1>7, <1>9, <1>10, <1>14, <3>1, RoomFollows
    <2> QED BY <1>12, <2>2, <2>3, <2>4, <2>5, <2>6, <2>7, <2>8, <2>9, <2>10, <2>11, <2>12 DEF IInv
  <1> QED BY <1>1, <1>13, <1>14

\* A chunk that comes is got: it is read at once, or joins the queue.
LEMMA ChunkGot ==
    ASSUME IInv, stream.state = "readable", NEW m, m.kind = "ENQUEUE", IsTaken(toReader, m, toReader'),
           produced' = produced, Got' = Got + 1, stream'.state = "readable",
           Len(delivered') \in Nat, Len(delivered') <= Got',
           stream'.reads > 0 => stream'.queue = << >>,
           \A i \in 1 .. Len(delivered') : delivered'[i] = i,
           \A i \in 1 .. Len(stream'.queue) : stream'.queue[i][1] = Len(delivered') + i
    PROVE  ChunksUnderWay'
  <1>1. 1 \in 1 .. Len(toReader) /\ toReader[1].kind = "ENQUEUE"
    BY DEF IsTaken
  <1>2. /\ Got + 1 <= produced
        /\ \A i \in 1 .. Len(toReader) :
              i # 1 /\ toReader[i].kind = "ENQUEUE" => toReader[i].chunk[1] > Got + 1
    BY <1>1, FirstChunk
  <1>3. toReader[1].chunk[1] = Got + 1
    BY <1>1, FirstChunk
  <1>4. ASSUME NEW i \in 1 .. Len(toReader')
        PROVE  i + 1 \in 1 .. Len(toReader) /\ i + 1 # 1 /\ toReader'[i] = toReader[i + 1] /\ i \in Int
    BY DEF IsTaken
  <1>5. ASSUME NEW i \in 1 .. Len(toReader'), toReader'[i].kind = "ENQUEUE"
        PROVE  toReader'[i].chunk[1] <= produced /\ toReader'[i].chunk[1] \in Got' + 1 .. produced
    <2>1. toReader[i + 1].chunk[1] \in Got + 1 .. produced
      BY <1>4, <1>5 DEF IInv, ChunksUnderWay
    <2>2. toReader[i + 1].chunk[1] > Got + 1
      BY <1>2, <1>4, <1>5
    <2>3. toReader[i + 1].chunk[1] \in (Got + 1) + 1 .. produced
      BY <2>1, <2>2, Numbers
    <2> QED BY <1>4, <2>3
  <1>6. ASSUME NEW i \in 1 .. Len(toReader'), NEW j \in 1 .. Len(toReader'), i < j,
               toReader'[i].kind = "ENQUEUE", toReader'[j].kind = "ENQUEUE"
        PROVE  toReader'[i].chunk[1] < toReader'[j].chunk[1]
    <2>1. i + 1 < j + 1 /\ i + 1 \in 1 .. Len(toReader) /\ j + 1 \in 1 .. Len(toReader)
      BY <1>4, <1>6
    <2>2. toReader[i + 1].kind = "ENQUEUE" /\ toReader[j + 1].kind = "ENQUEUE"
      BY <1>4, <1>6
    <2>3. toReader[i + 1].chunk[1] < toReader[j + 1].chunk[1]
      BY <2>1, <2>2 DEF IInv, ChunksUnderWay
    <2> QED BY <1>4, <2>3
  <1>7. ASSUME NEW n \in Got' + 1 .. produced
        PROVE  \E i \in 1 .. Len(toReader') : toReader'[i].kind = "ENQUEUE" /\ toReader'[i].chunk[1] = n
    <2>1. n \in Got + 1 .. produced /\ n # Got + 1
      BY Numbers
    <2>2. PICK i \in 1 .. Len(toReader) : toReader[i].kind = "ENQUEUE" /\ toReader[i].chunk[1] = n
      BY <2>1 DEF IInv, ChunksUnderWay
    <2>3. i # 1
      BY <1>3, <2>1, <2>2
    <2>4. i - 1 \in 1 .. Len(toReader') /\ toReader'[i - 1] = toReader[i]
      BY <2>3 DEF IsTaken
    <2> QED BY <2>2, <2>4
  <1>8. Got' <= produced /\ Len(delivered') <= produced
    BY <1>2, Numbers
  <1> QED BY <1>5, <1>6, <1>7, <1>8 DEF ChunksUnderWay

\* The head of the queue is read.
LEMMA ChunkRead ==
    ASSUME IInv, stream.state = "readable", stream.queue # << >>, toReader' = toReader,
           produced' = produced, delivered' = Append(delivered, Head(stream.queue)[1]),
           stream'.queue = Tail(stream.queue), stream'.reads = stream.reads \/ stream'.reads = 0,
           stream'.state = "closed" /\ calls'["cancel"] = "null" => Got = produced /\ stream'.queue = << >>
    PROVE  /\ ChunksUnderWay' /\ Got' = Got
           /\ delivered' \in Seq(1 .. MaxChunks) /\ Len(delivered') = Len(delivered) + 1
  <1>1. stream.queue \in Seq(ChunkRecords) /\ delivered \in Seq(1 .. MaxChunks)
    BY DEF IInv, TypeInv, Streams
  <1>2. /\ Tail(stream.queue) \in Seq(ChunkRecords) /\ Head(stream.queue) \in ChunkRecords
        /\ IsTaken(stream.queue, Head(stream.queue), Tail(stream.queue))
    BY <1>1, Taken
  <1>3. /\ Len(Tail(stream.queue)) \in Nat /\ Len(stream.queue) = Len(Tail(stream.queue)) + 1
        /\ Head(stream.queue) = stream.queue[1] /\ 1 \in 1 .. Len(stream.queue)
        /\ \A i \in 1 .. Len(Tail(stream.queue)) :
              i + 1 \in 1 .. Len(stream.queue) /\ Tail(stream.queue)[i] = stream.queue[i + 1] /\ i \in Int
    BY <1>2 DEF IsTaken
  <1>4. Head(stream.queue)[1] = Len(delivered) + 1
    BY <1>3 DEF IInv, ChunksUnderWay
  <1>5. Head(stream.queue)[1] \in 1 .. MaxChunks
    BY <1>2 DEF ChunkRecords
  <1>6. /\ delivered' \in Seq(1 .. MaxChunks) /\ Len(delivered') = Len(delivered) + 1
        /\ \A i \in 1 .. Len(delivered) : delivered'[i] = delivered[i]
        /\ delivered'[Len(delivered) + 1] = Len(delivered) + 1
    BY <1>1, <1>4, <1>5, AppendProperties
  <1>7. Got' = Got
    <2>1. Got' = (Len(delivered) + 1) + Len(Tail(stream.queue))
      BY <1>6 DEF Got
    <2>2. Got = Len(delivered) + (Len(Tail(stream.queue)) + 1)
      BY <1>3 DEF Got
    <2>3. \A n, l \in Nat : (n + 1) + l = n + (l + 1)
      OBVIOUS
    <2>4. Len(delivered) \in Nat /\ Len(Tail(stream.queue)) \in Nat
      BY <1>3, Numbers
    <2>5. (Len(delivered) + 1) + Len(Tail(stream.queue)) = Len(delivered) + (Len(Tail(stream.queue)) + 1)
      BY <2>3, <2>4, Zenon
    <2> QED BY <2>1, <2>2, <2>5, Zenon
  <1>8. \A i \in 1 .. Len(delivered') : delivered'[i] = i
    <2> SUFFICES ASSUME NEW i \in 1 .. Len(delivered') PROVE delivered'[i] = i
      OBVIOUS
    <2>1. i \in 1 .. Len(delivered) \/ i = Len(delivered) + 1
      BY <1>6, Numbers
    <2> QED BY <1>6, <2>1 DEF IInv, ChunksUnderWay
  <1>9. \A i \in 1 .. Len(stream'.queue) : stream'.queue[i][1] = Len(delivered') + i
    <2> SUFFICES ASSUME NEW i \in 1 .. Len(Tail(stream.queue))
                 PROVE  Tail(stream.queue)[i][1] = Len(delivered') + i
      OBVIOUS
    <2>1. Tail(stream.queue)[i][1] = Len(delivered) + (i + 1)
      BY <1>3 DEF IInv, ChunksUnderWay
    <2> QED BY <1>3, <1>6, <2>1, Numbers
  <1>10. Got <= produced /\ Len(delivered') <= produced
    <2>1. Got <= produced
      BY DEF IInv, ChunksUnderWay
    <2> QED BY <1>3, <1>6, <2>1, Numbers DEF Got
  <1>11. stream'.reads > 0 => stream'.queue = << >>
    BY DEF IInv, ChunksUnderWay
  <1>12. stream'.state = "closed" /\ calls'["cancel"] = "null" => Len(delivered') = produced
    <2> SUFFICES ASSUME Got = produced, Tail(stream.queue) = << >> PROVE Len(delivered') = produced
      OBVIOUS
    <2>1. Len(Tail(stream.queue)) = 0
      BY EmptySeq
    <2> QED BY <1>3, <1>6, <2>1, Numbers DEF Got
  <1>13. /\ \A i \in 1 .. Len(toReader) :
               toReader[i].kind = "ENQUEUE" => toReader[i].chunk[1] \in Got + 1 .. produced
         /\ \A n \in Got + 1 .. produced : \E i \in 1 .. Len(toReader) :
                toReader[i].kind = "ENQUEUE" /\ toReader[i].chunk[1] = n
         /\ \A i, j \in 1 .. Len(toReader) :
               i < j /\ toReader[i].kind = "ENQUEUE" /\ toReader[j].kind = "ENQUEUE" =>
                  toReader[i].chunk[1] < toReader[j].chunk[1]
         /\ \A i \in 1 .. Len(toReader) :
               toReader[i].kind = "ENQUEUE" => toReader[i].chunk[1] <= produced
    BY DEF IInv, ChunksUnderWay
  <1> QED BY <1>6, <1>7, <1>8, <1>9, <1>10, <1>11, <1>12, <1>13 DEF ChunksUnderWay

\* What the conditions of BecomesInv come to when the calls stay as they are.
LEMMA CallsStay ==
    ASSUME IInv, entry # "none"
    PROVE  /\ calls["start"] # "null"
           /\ stream.pulling <=> calls["pull"] = "pending"
           /\ stream.pulling => stream.started
           /\ Has(toSink, "PULL") \/ producer.pulls = 1 \/ Has(toReader, "PULL_COMPLETE")
              <=> calls["pull"] = "pending"
           /\ ~Has(toSink, "ACTION") => ~NotCreated
  BY DEF IInv, StartToken, PullToken, NotCreated

\* A chunk comes to an open stream.
LEMMA OnEnqueueInv ==
    ASSUME IInv, OnEnqueue, ~isClosed
    PROVE  IInv'
  <1> DEFINE m == Head(toReader)
  <1>1. /\ m.kind = "ENQUEUE" /\ toReader # << >> /\ toReader' = Tail(toReader)
        /\ entry' = entry /\ isClosed' = isClosed /\ deleting' = deleting /\ SinkStays
        /\ IF stream.reads > 0
           THEN /\ delivered' = Append(delivered, m.chunk[1])
                /\ StreamBecomes([stream EXCEPT !.reads = @ - 1], calls)
           ELSE /\ StreamBecomes([stream EXCEPT !.queue = Append(@, m.chunk)], calls)
                /\ delivered' = delivered
    BY SinkUnchanged DEF OnEnqueue, TakeAtReader
  <1>2. /\ m \in Replies /\ toReader' \in Seq(Replies) /\ IsTaken(toReader, m, toReader')
        /\ m = toReader[1] /\ 1 \in 1 .. Len(toReader) /\ entry # "none" /\ ~NotCreated
    BY <1>1, ReaderTakes
  <1>3. m.chunk \in ChunkRecords
    BY <1>1, <1>2, ReplyKinds
  <1> HIDE DEF m
  <1>4. ~Over
    <2>1. HasData
      BY <1>1, <1>2 DEF HasData, Data
    <2> QED BY <2>1 DEF IInv, OverIsOver
  <1>5. stream \in Streams /\ calls \in [CallNames -> CallStates] /\ delivered \in Seq(1 .. MaxChunks)
    BY DEF IInv, TypeInv
  <1>6. stream.state = "readable" /\ ~stream.closeRequested /\ calls["cancel"] = "null"
    <2>1. calls["cancel"] = "null"
      BY DEF IInv, CancelToken
    <2> QED BY <1>4, <1>5, <2>1 DEF Over, Streams
  <1>7. m.chunk[1] = Got + 1 /\ m.chunk[1] \in 1 .. MaxChunks
    BY <1>1, <1>2, <1>3, <1>6, FirstChunk DEF ChunkRecords
  <1>8. PICK s : /\ s \in Streams /\ StreamBecomes(s, calls)
                 /\ s.state = stream.state /\ s.closeRequested = stream.closeRequested
                 /\ s.pulling = stream.pulling /\ s.started = stream.started
                 /\ s.reads > 0 => s.queue = << >>
                 /\ delivered' \in Seq(1 .. MaxChunks) /\ Len(delivered) <= Len(delivered')
                 /\ Len(delivered') + Len(s.queue) = Got + 1 /\ Len(s.queue) \in Nat
                 /\ \A i \in 1 .. Len(delivered') : delivered'[i] = i
                 /\ \A i \in 1 .. Len(s.queue) : s.queue[i][1] = Len(delivered') + i
    <2>1. CASE stream.reads > 0
      <3> DEFINE s == [stream EXCEPT !.reads = @ - 1]
      <3>1. /\ s \in Streams /\ s.state = stream.state /\ s.closeRequested = stream.closeRequested
            /\ s.pulling = stream.pulling /\ s.started = stream.started /\ s.queue = stream.queue
        <4>1. stream.reads - 1 \in 0 .. MaxReads
          BY <1>5, <2>1, StreamAssumption DEF Streams
        <4> QED BY <1>5, <4>1 DEF Streams
      <3>2. stream.queue = << >> /\ Len(stream.queue) = 0 /\ Got = Len(delivered)
        BY <2>1, EmptySeq, Numbers DEF IInv, ChunksUnderWay, Got
      <3>3. StreamBecomes(s, calls) /\ delivered' = Append(delivered, Len(delivered) + 1)
        BY <1>1, <1>7, <2>1, <3>2
      <3>4. /\ delivered' \in Seq(1 .. MaxChunks) /\ Len(delivered') = Len(delivered) + 1
            /\ \A i \in 1 .. Len(delivered) : delivered'[i] = delivered[i]
            /\ delivered'[Len(delivered) + 1] = Len(delivered) + 1
        BY <1>5, <1>7, <3>2, <3>3, AppendProperties
      <3>5. ASSUME NEW i \in 1 .. Len(delivered') PROVE delivered'[i] = i
        <4>1. i \in 1 .. Len(delivered) \/ i = Len(delivered) + 1
          BY <3>4, Numbers
        <4> QED BY <3>4, <4>1 DEF IInv, ChunksUnderWay
      <3> HIDE DEF s
      <3>6. /\ s.reads > 0 => s.queue = << >>
            /\ Len(delivered) <= Len(delivered') /\ Len(delivered') + Len(s.queue) = Got + 1
            /\ Len(s.queue) \in Nat
            /\ \A i \in 1 .. Len(s.queue) : s.queue[i][1] = Len(delivered') + i
        BY <3>1, <3>2, <3>4, Numbers
      <3> QED BY <3>1, <3>3, <3>4, <3>5, <3>6
    <2>2. CASE ~(stream.reads > 0)
      <3> DEFINE s == [stream EXCEPT !.queue = Append(@, m.chunk)]
      <3>1. StreamBecomes(s, calls) /\ delivered' = delivered
        BY <1>1, <2>2
      <3>2. /\ stream.queue \in Seq(ChunkRecords) /\ Append(stream.queue, m.chunk) \in Seq(ChunkRecords)
            /\ IsPosted(stream.queue, m.chunk, Append(stream.queue, m.chunk))
        <4>1. stream.queue \in Seq(ChunkRecords)
          BY <1>5 DEF Streams
        <4> QED BY <1>3, <4>1, Posted
      <3>3. /\ s \in Streams /\ s.state = stream.state /\ s.closeRequested = stream.closeRequested
            /\ s.pulling = stream.pulling /\ s.started = stream.started /\ s.reads = stream.reads
            /\ s.queue = Append(stream.queue, m.chunk)
        BY <1>5, <3>2 DEF Streams
      <3> HIDE DEF s
      <3>4. IsPosted(stream.queue, m.chunk, s.queue)
        BY <3>2, <3>3
      <3>5. ASSUME NEW i \in 1 .. Len(s.queue) PROVE s.queue[i][1] = Len(delivered) + i
        <4>1. CASE i \in 1 .. Len(stream.queue)
          BY <1>6, <3>4, <4>1 DEF IsPosted, IInv, ChunksUnderWay
        <4>2. CASE i = Len(stream.queue) + 1
          BY <1>7, <3>4, <4>2, Numbers DEF IsPosted, Got
        <4> QED BY <3>4, <4>1, <4>2 DEF IsPosted
      <3>6. Len(delivered) + Len(s.queue) = Got + 1 /\ Len(s.queue) \in Nat
        BY <3>4, Numbers DEF IsPosted, Got
      <3>7. \A i \in 1 .. Len(delivered) : delivered[i] = i
        BY DEF IInv, ChunksUnderWay
      <3>8. s.reads > 0 => s.queue = << >>
        BY <2>2, <3>3
      <3>9. Len(delivered) <= Len(delivered)
        BY Numbers
      <3> QED BY <1>5, <3>1, <3>3, <3>5, <3>6, <3>7, <3>8, <3>9
    <2> QED BY <2>1, <2>2
  <1>9. \A i \in 1 .. Len(toReader') : i + 1 \in 1 .. Len(toReader) /\ toReader'[i] = toReader[i + 1]
    BY <1>2 DEF IsTaken
  <1>10. Has(toReader', "PULL_COMPLETE") <=> Has(toReader, "PULL_COMPLETE")
    BY <1>1, <1>2 DEF IsTaken
  <1>11. /\ calls["start"] # "null" /\ (s.pulling <=> calls["pull"] = "pending")
         /\ (s.pulling => s.started)
         /\ Has(toSink, "PULL") \/ producer.pulls = 1 \/ Has(toReader', "PULL_COMPLETE")
               <=> calls["pull"] = "pending"
    BY <1>2, <1>8, <1>10, CallsStay
  <1>12. /\ TypeInv' /\ BeforeCreation' /\ PullToken' /\ CancelToken' /\ EndIsLast'
         /\ SinkIsKnown' /\ OverIsOver' /\ Answered' /\ PullsAskForRoom'
         /\ (Has(toSink', "ACTION") <=> Has(toSink, "ACTION"))
         /\ \A i \in 1 .. Len(toSink') : toSink'[i].kind = "PULL" =>
                   \/ \E j \in 1 .. Len(toSink) : toSink[j] = toSink'[i]
                   \/ Pulls(s, calls) /\ toSink'[i].desiredSize \in Int
                      /\ toSink'[i].desiredSize <= HighWaterMark - Len(s.queue)
    BY <1>1, <1>2, <1>5, <1>8, <1>11, BecomesInv
  <1>13. /\ stream'.state = s.state /\ stream'.queue = s.queue /\ stream'.reads = s.reads
         /\ stream'.started = s.started
         /\ calls'["start"] = calls["start"] /\ calls'["cancel"] = calls["cancel"]
    BY <1>5, <1>8, BecomesEffect
  <1>14. StartToken'
    BY <1>1, <1>2, <1>8, <1>12, <1>13 DEF IsTaken, IInv, StartToken, SinkStays
  <1>15. Got' = Got + 1 /\ Len(delivered') \in Nat /\ Len(delivered') <= Got + 1
    BY <1>8, <1>13, Numbers DEF Got
  <1>16. ChunksUnderWay'
    BY <1>1, <1>2, <1>6, <1>8, <1>13, <1>15, ChunkGot DEF SinkStays
  <1>17. RoomCounted'
    <2>1. producer.goesBy = "ready" /\ s.state = "readable" =>
             /\ ~s.started => produced + Room <= HighWaterMark
             /\ s.started /\ ~s.pulling =>
                   produced - (Len(delivered') + Len(s.queue)) + Room <= HighWaterMark
      <3> SUFFICES ASSUME producer.goesBy = "ready", s.state = "readable"
                   PROVE  /\ ~s.started => produced + Room <= HighWaterMark
                          /\ s.started /\ ~s.pulling => produced - (Got + 1) + Room <= HighWaterMark
        BY <1>8
      <3>1. /\ ~s.started => produced + Room <= HighWaterMark
            /\ s.started /\ ~s.pulling => produced - Got + Room <= HighWaterMark
        BY <1>8 DEF IInv, RoomCounted
      <3> QED BY <3>1, Numbers
    <2> QED BY <1>1, <1>5, <1>8, <1>9, <1>12, <1>15, <2>1, BecomesRoom
  <1> QED BY <1>12, <1>14, <1>16, <1>17 DEF IInv

\* The common part of the steps that take a reply and post nothing.
LEMMA HeardInv ==
    ASSUME IInv, SinkStays, entry' = entry, toSink' = toSink, delivered' = delivered,
           toReader # << >>, toReader' = Tail(toReader),
           stream' \in Streams, calls' \in [CallNames -> CallStates], isClosed' \in BOOLEAN,
           deleting' \subseteq SUBSET CallNames
    PROVE  /\ TypeInv' /\ BeforeCreation' /\ SinkIsKnown' /\ EndIsLast' /\ PullsAskForRoom'
           /\ ~NotCreated /\ ~NotCreated' /\ (NoMore' <=> NoMore) /\ (Answerable' => Answerable)
           /\ (HasData' => HasData) /\ (Final(Head(toReader)) => NoMore' /\ ~HasData')
           /\ entry # "none"
  <1> DEFINE m == Head(toReader)
  <1>1. /\ toReader' \in Seq(Replies) /\ IsTaken(toReader, m, toReader')
        /\ entry # "none" /\ ~NotCreated
    BY ReaderTakes
  <1> HIDE DEF m
  <1>2. ~NotCreated'
    BY <1>1 DEF NotCreated
  <1>3. NoMore' <=> NoMore
    BY <1>1, <1>2 DEF NoMore, SinkStays
  <1>4. Answerable' => Answerable
    BY <1>1, <1>2 DEF Answerable, SinkStays, IsTaken
  <1>5. EndIsLast' /\ (HasData' => HasData) /\ (Final(m) => NoMore' /\ ~HasData')
    BY <1>1, <1>3, EndTaken
  <1>6. TypeInv'
    BY <1>1 DEF IInv, TypeInv, SinkStays
  <1>7. BeforeCreation'
    BY <1>1, <1>2 DEF IInv, BeforeCreation
  <1>8. SinkIsKnown'
    BY <1>1, <1>2 DEF IInv, SinkIsKnown, SinkStays, IsTaken
  <1>9. PullsAskForRoom'
    BY DEF IInv, PullsAskForRoom, SinkStays
  <1> QED BY <1>1, <1>2, <1>3, <1>4, <1>5, <1>6, <1>7, <1>8, <1>9 DEF m

\* An error ends a stream that is open.
LEMMA ErroredEffect ==
    ASSUME NEW s \in Streams
    PROVE  /\ Errored(s) \in Streams /\ Errored(s).state # "readable"
           /\ Errored(s).state = s.state \/ Errored(s).state = "errored"
           /\ Errored(s).closeRequested = s.closeRequested /\ Errored(s).started = s.started
           /\ Errored(s).pulling = s.pulling
           /\ \/ Errored(s).queue = s.queue /\ Errored(s).reads = s.reads
              \/ Errored(s).queue = << >> /\ Errored(s).reads = 0
  <1>1. << >> \in Seq(ChunkRecords) /\ 0 \in 0 .. MaxReads
    BY EmptySeq, StreamAssumption
  <1> QED BY <1>1 DEF Errored, Streams

\* A start or pull call is answered badly.
LEMMA FailedInv ==
    ASSUME IInv, SinkStays, entry' = entry, toSink' = toSink, delivered' = delivered,
           isClosed' = isClosed, deleting' = deleting,
           toReader # << >>, toReader' = Tail(toReader),
           NEW name \in {"start", "pull"},
           Head(toReader).kind = IF name = "start" THEN "START_COMPLETE" ELSE "PULL_COMPLETE",
           ~Head(toReader).success,
           calls' = [calls EXCEPT ![name] = "rejected"],
           NEW s \in Streams, stream' = Errored(s),
           s.state = stream.state, s.queue = stream.queue, s.reads = stream.reads,
           s.closeRequested = stream.closeRequested, s.started = stream.started,
           s.pulling <=> stream.pulling /\ name # "pull"
    PROVE  IInv'
  <1> DEFINE m == Head(toReader)
  <1>1. /\ IsTaken(toReader, m, toReader') /\ Shifted({"ENQUEUE"}, toReader, toReader', 1)
    <2>1. m.kind # "ENQUEUE"
      OBVIOUS
    <2> QED BY <2>1, ReaderTakes
  <1>2. stream \in Streams /\ calls \in [CallNames -> CallStates] /\ isClosed \in BOOLEAN
        /\ deleting \subseteq SUBSET CallNames
    BY DEF IInv, TypeInv
  <1>3. /\ stream' \in Streams /\ stream'.state # "readable"
        /\ stream'.state = stream.state \/ stream'.state = "errored"
        /\ stream'.closeRequested = stream.closeRequested /\ stream'.started = stream.started
        /\ stream'.pulling = s.pulling
        /\ \/ stream'.queue = stream.queue /\ stream'.reads = stream.reads
           \/ stream'.queue = << >> /\ stream'.reads = 0
    BY ErroredEffect
  <1>4. /\ calls' \in [CallNames -> CallStates] /\ calls'["cancel"] = calls["cancel"]
        /\ calls'["start"] = IF name = "start" THEN "rejected" ELSE calls["start"]
        /\ calls'["pull"] = IF name = "pull" THEN "rejected" ELSE calls["pull"]
    BY <1>2 DEF CallNames, CallStates
  <1>5. /\ TypeInv' /\ BeforeCreation' /\ SinkIsKnown' /\ EndIsLast' /\ PullsAskForRoom'
        /\ ~NotCreated /\ ~NotCreated' /\ (NoMore' <=> NoMore) /\ (Answerable' => Answerable)
        /\ (HasData' => HasData) /\ (Final(m) => NoMore' /\ ~HasData')
    BY <1>2, <1>3, <1>4, HeardInv
  <1>6. Final(m)
    BY DEF Final
  <1> HIDE DEF m
  <1>7. m.kind = IF name = "start" THEN "START_COMPLETE" ELSE "PULL_COMPLETE"
    BY DEF m
  <1>8. StartToken'
    BY <1>1, <1>3, <1>4, <1>7 DEF IsTaken, IInv, StartToken, SinkStays
  <1>9. PullToken'
    BY <1>1, <1>3, <1>4, <1>7 DEF IsTaken, IInv, PullToken, SinkStays
  <1>10. CancelToken'
    BY <1>1, <1>3, <1>4, <1>7 DEF IsTaken, IInv, CancelToken, SinkStays
  <1>11. OverIsOver'
    BY <1>3, <1>4, <1>5, <1>6 DEF IInv, OverIsOver, SinkStays
  <1>12. Answered'
    BY <1>1, <1>4, <1>5, <1>7 DEF IInv, Answered, IsTaken, StartToken, PullToken
  <1>13. ChunksUnderWay'
    <2>1. stream'.state = "closed" /\ calls'["cancel"] = "null" => Len(delivered) = produced
      BY <1>3, <1>4 DEF IInv, ChunksUnderWay
    <2> QED BY <1>1, <1>3, <2>1, ChunksStay DEF SinkStays
  <1>14. RoomCounted'
    BY <1>3 DEF RoomCounted
  <1> QED BY <1>5, <1>8, <1>9, <1>10, <1>11, <1>12, <1>13, <1>14 DEF IInv

\* A start that failed ...
LEMMA OnStartFailedInv ==
    ASSUME IInv, OnStartComplete, ~Head(toReader).success
    PROVE  IInv'
  <1>1. /\ Head(toReader).kind = "START_COMPLETE" /\ toReader # << >> /\ toReader' = Tail(toReader)
        /\ stream' = Errored(stream) /\ calls' = [calls EXCEPT !["start"] = "rejected"]
        /\ toSink' = toSink
        /\ entry' = entry /\ isClosed' = isClosed /\ deleting' = deleting
        /\ delivered' = delivered /\ SinkStays
    BY SinkUnchanged DEF OnStartComplete, TakeAtReader, Outcome
  <1>2. stream \in Streams /\ stream.pulling \in BOOLEAN
    BY DEF IInv, TypeInv, Streams
  <1>3. "start" \in {"start", "pull"} /\ (stream.pulling <=> stream.pulling /\ "start" # "pull")
        /\ Head(toReader).kind = IF "start" = "start" THEN "START_COMPLETE" ELSE "PULL_COMPLETE"
    BY <1>1
  <1> QED BY <1>1, <1>2, <1>3, FailedInv

\* ... and a pull that failed put an error into the stream.
LEMMA OnPullFailedInv ==
    ASSUME IInv, OnPullComplete, ~Head(toReader).success
    PROVE  IInv'
  <1> DEFINE s == [stream EXCEPT !.pulling = FALSE, !.pullAgain = FALSE]
  <1>1. /\ Head(toReader).kind = "PULL_COMPLETE" /\ toReader # << >> /\ toReader' = Tail(toReader)
        /\ stream' = Errored(s) /\ calls' = [calls EXCEPT !["pull"] = "rejected"]
        /\ toSink' = toSink
        /\ entry' = entry /\ isClosed' = isClosed /\ deleting' = deleting
        /\ delivered' = delivered /\ SinkStays
    BY SinkUnchanged DEF OnPullComplete, TakeAtReader, Outcome
  <1>2. stream \in Streams
    BY DEF IInv, TypeInv
  <1>3. /\ s \in Streams /\ s.state = stream.state /\ s.queue = stream.queue
        /\ s.reads = stream.reads /\ s.closeRequested = stream.closeRequested
        /\ s.started = stream.started /\ ~s.pulling
    BY <1>2 DEF Streams
  <1> HIDE DEF s
  <1>4. "pull" \in {"start", "pull"} /\ (s.pulling <=> stream.pulling /\ "pull" # "pull")
        /\ Head(toReader).kind = IF "pull" = "start" THEN "START_COMPLETE" ELSE "PULL_COMPLETE"
    BY <1>1, <1>3
  <1> QED BY <1>1, <1>3, <1>4, FailedInv

\* The rest of deleteStreamController is put off.
LEMMA DeletingEffect ==
    ASSUME NEW c \in [CallNames -> CallStates], DeleteStreamController(c),
           deleting \subseteq SUBSET CallNames, c["start"] # "null"
    PROVE  /\ deleting' \subseteq SUBSET CallNames /\ deleting' # {}
           /\ \A waitsFor \in deleting' : waitsFor \in deleting \/
                 (\A name \in CallNames : name \in waitsFor <=> c[name] # "null")
  BY DEF DeleteStreamController

LEMMA DeletingIsTyped ==
    ASSUME IInv, NEW c, DeleteStreamController(c)
    PROVE  deleting' \subseteq SUBSET CallNames
  BY DEF IInv, TypeInv, DeleteStreamController

\* The common part of the steps that end the stream at the reader.
LEMMA EndedInv ==
    ASSUME IInv, SinkStays, entry' = entry, toSink' = toSink, delivered' = delivered,
           toReader # << >>, toReader' = Tail(toReader), Final(Head(toReader)),
           Head(toReader).kind \in {"CLOSE", "ERROR", "CANCEL_COMPLETE"},
           stream' \in Streams, stream'.started = stream.started, stream'.pulling = stream.pulling,
           calls' \in [CallNames -> CallStates], isClosed' \in BOOLEAN,
           calls'["start"] = calls["start"], calls'["pull"] = calls["pull"],
           DeleteStreamController(calls'),
           Answerable' => calls'["cancel"] # "null"
    PROVE  /\ TypeInv' /\ BeforeCreation' /\ SinkIsKnown' /\ EndIsLast' /\ PullsAskForRoom'
           /\ StartToken' /\ PullToken' /\ Answered'
           /\ ~NotCreated' /\ NoMore' /\ ~HasData'
           /\ \A i \in 1 .. Len(toReader) : toReader[i].kind # "ENQUEUE"
           /\ IsTaken(toReader, Head(toReader), toReader')
           /\ Shifted({"ENQUEUE"}, toReader, toReader', 1)
           /\ Shifted({"ENQUEUE", "PULL_COMPLETE"}, toReader, toReader', 1)
  <1> DEFINE m == Head(toReader)
  <1>1. /\ IsTaken(toReader, m, toReader') /\ m = toReader[1]
        /\ Shifted({"ENQUEUE"}, toReader, toReader', 1)
        /\ Shifted({"ENQUEUE", "PULL_COMPLETE"}, toReader, toReader', 1)
        /\ entry # "none"
    BY ReaderTakes
  <1>2. calls["start"] # "null" /\ deleting \subseteq SUBSET CallNames
    BY <1>1 DEF IInv, StartToken, TypeInv
  <1>3. /\ deleting' \subseteq SUBSET CallNames /\ deleting' # {}
        /\ \A waitsFor \in deleting' : waitsFor \in deleting \/
              (\A name \in CallNames : name \in waitsFor <=> calls'[name] # "null")
    BY <1>2, DeletingEffect
  <1>4. /\ TypeInv' /\ BeforeCreation' /\ SinkIsKnown' /\ EndIsLast' /\ PullsAskForRoom'
        /\ ~NotCreated' /\ (Answerable' => Answerable) /\ NoMore' /\ ~HasData'
    BY <1>3, HeardInv
  <1> HIDE DEF m
  <1>5. m.kind \in {"CLOSE", "ERROR", "CANCEL_COMPLETE"}
    BY DEF m
  <1>6. StartToken'
    BY <1>1, <1>5 DEF IsTaken, IInv, StartToken, SinkStays
  <1>7. PullToken'
    BY <1>1, <1>5 DEF IsTaken, IInv, PullToken, SinkStays
  <1>8. Answered'
    <2>1. ASSUME NEW waitsFor \in deleting'
          PROVE  /\ "start" \in waitsFor
                 /\ calls'["pull"] # "null" => "pull" \in waitsFor
                 /\ Answerable' => "cancel" \in waitsFor
      <3>1. CASE waitsFor \in deleting
        BY <1>4, <3>1 DEF IInv, Answered
      <3>2. CASE \A name \in CallNames : name \in waitsFor <=> calls'[name] # "null"
        BY <1>2, <3>2 DEF CallNames
      <3> QED BY <1>3, <3>1, <3>2
    <2>2. entry = "deleted" =>
             calls["start"] # "pending" /\ calls["pull"] # "pending" /\ ~Answerable
      BY DEF IInv, Answered
    <2> QED BY <1>4, <2>1, <2>2 DEF Answered
  <1>9. ASSUME NEW i \in 1 .. Len(toReader) PROVE toReader[i].kind # "ENQUEUE"
    <2>1. CASE i = 1
      BY <1>1, <1>5, <2>1
    <2>2. CASE i # 1
      BY <1>1, <1>4, <2>2 DEF IsTaken, HasData, Data
    <2> QED BY <2>1, <2>2
  <1> QED BY <1>1, <1>4, <1>6, <1>7, <1>8, <1>9 DEF m

\* CLOSE reaches the reading end.
LEMMA OnCloseInv ==
    ASSUME IInv, OnClose, ~isClosed
    PROVE  IInv'
  <1>1. /\ Head(toReader).kind = "CLOSE" /\ toReader # << >> /\ toReader' = Tail(toReader)
        /\ isClosed' = TRUE
        /\ stream' = IF stream.queue = << >> THEN Closed(stream)
                     ELSE [stream EXCEPT !.closeRequested = TRUE]
        /\ DeleteStreamController(calls)
        /\ toSink' = toSink /\ entry' = entry /\ calls' = calls /\ delivered' = delivered
        /\ SinkStays
    BY SinkUnchanged DEF OnClose, TakeAtReader
  <1>2. stream \in Streams /\ calls \in [CallNames -> CallStates]
    BY DEF IInv, TypeInv
  <1>3. calls["cancel"] = "null" /\ ~Answerable
    BY DEF IInv, CancelToken, Answerable
  <1>4. ~Over
    <2>1. HasData
      BY <1>1, ReaderTakes DEF HasData, Data
    <2> QED BY <2>1 DEF IInv, OverIsOver
  <1>5. stream.state = "readable" /\ ~stream.closeRequested
    BY <1>2, <1>3, <1>4 DEF Over, Streams
  <1>6. /\ stream' \in Streams /\ stream'.started = stream.started /\ stream'.pulling = stream.pulling
        /\ \/ /\ stream.queue = << >> /\ stream'.state = "closed" /\ stream'.queue = << >>
              /\ stream'.reads = 0 /\ stream'.closeRequested = stream.closeRequested
           \/ /\ stream.queue # << >> /\ stream'.state = "readable" /\ stream'.queue = stream.queue
              /\ stream'.reads = stream.reads /\ stream'.closeRequested
    <2>1. << >> \in Seq(ChunkRecords) /\ 0 \in 0 .. MaxReads
      BY EmptySeq, StreamAssumption
    <2>2. CASE stream.queue = << >>
      BY <1>1, <1>2, <2>1, <2>2 DEF Closed, Streams
    <2>3. CASE stream.queue # << >>
      BY <1>1, <1>2, <1>5, <2>3 DEF Streams
    <2> QED BY <2>2, <2>3
  <1>7. Final(Head(toReader)) /\ (Answerable' => calls'["cancel"] # "null")
    <2>1. Answerable' => Answerable
      BY <1>1, <1>2, <1>6, DeletingIsTyped, HeardInv
    <2> QED BY <1>1, <1>3, <2>1 DEF Final
  <1>8. /\ TypeInv' /\ BeforeCreation' /\ SinkIsKnown' /\ EndIsLast' /\ PullsAskForRoom'
        /\ StartToken' /\ PullToken' /\ Answered'
        /\ ~NotCreated' /\ NoMore' /\ ~HasData'
        /\ \A i \in 1 .. Len(toReader) : toReader[i].kind # "ENQUEUE"
        /\ IsTaken(toReader, Head(toReader), toReader')
        /\ Shifted({"ENQUEUE"}, toReader, toReader', 1)
        /\ Shifted({"ENQUEUE", "PULL_COMPLETE"}, toReader, toReader', 1)
    BY <1>1, <1>2, <1>6, <1>7, EndedInv
  <1>9. CancelToken'
    BY <1>1, <1>3, <1>8 DEF IInv, CancelToken, SinkStays, IsTaken
  <1>10. OverIsOver'
    <2>1. ~sink.known
      BY <1>1, <1>8 DEF IInv, SinkIsKnown, IsTaken
    <2> QED BY <1>1, <1>5, <1>6, <1>8, <2>1 DEF OverIsOver, SinkStays
  <1>11. ChunksUnderWay'
    <2>1. stream.queue = << >> => Len(delivered) = produced
      <3>1. Got = produced
        BY <1>5, <1>8, AllGot
      <3> QED BY <3>1, EmptySeq, Numbers DEF Got
    <2> QED BY <1>1, <1>5, <1>6, <1>8, <2>1, ChunksStay DEF SinkStays
  <1>12. RoomCounted'
    BY <1>1, <1>5, <1>6, <1>8, RoomStays DEF SinkStays
  <1> QED BY <1>8, <1>9, <1>10, <1>11, <1>12 DEF IInv

\* ERROR reaches the reading end.
LEMMA OnErrorInv ==
    ASSUME IInv, OnError
    PROVE  IInv'
  <1>1. /\ Head(toReader).kind = "ERROR" /\ toReader # << >> /\ toReader' = Tail(toReader)
        /\ stream' = Errored(stream)
        /\ DeleteStreamController(calls)
        /\ toSink' = toSink /\ entry' = entry /\ calls' = calls /\ delivered' = delivered
        /\ isClosed' = isClosed /\ SinkStays
    BY SinkUnchanged DEF OnError, TakeAtReader
  <1>2. stream \in Streams /\ calls \in [CallNames -> CallStates] /\ isClosed \in BOOLEAN
    BY DEF IInv, TypeInv
  <1>3. /\ stream' \in Streams /\ stream'.state # "readable"
        /\ stream'.state = stream.state \/ stream'.state = "errored"
        /\ stream'.closeRequested = stream.closeRequested /\ stream'.started = stream.started
        /\ stream'.pulling = stream.pulling
        /\ \/ stream'.queue = stream.queue /\ stream'.reads = stream.reads
           \/ stream'.queue = << >> /\ stream'.reads = 0
    BY <1>1, <1>2, ErroredEffect
  <1>4. Final(Head(toReader)) /\ (Answerable' => calls'["cancel"] # "null")
    <2>1. Answerable' => Answerable
      BY <1>1, <1>2, <1>3, DeletingIsTyped, HeardInv
    <2>2. Answerable => calls["cancel"] # "null"
      BY DEF IInv, CancelToken, Answerable
    <2> QED BY <1>1, <2>1, <2>2 DEF Final
  <1>5. /\ TypeInv' /\ BeforeCreation' /\ SinkIsKnown' /\ EndIsLast' /\ PullsAskForRoom'
        /\ StartToken' /\ PullToken' /\ Answered'
        /\ ~NotCreated' /\ NoMore' /\ ~HasData'
        /\ IsTaken(toReader, Head(toReader), toReader')
        /\ Shifted({"ENQUEUE"}, toReader, toReader', 1)
    BY <1>1, <1>2, <1>3, <1>4, EndedInv
  <1>6. CancelToken'
    BY <1>1, <1>3, <1>5 DEF IInv, CancelToken, SinkStays, IsTaken
  <1>7. OverIsOver'
    BY <1>1, <1>3, <1>5 DEF IInv, OverIsOver, SinkStays
  <1>8. ChunksUnderWay'
    <2>1. stream'.state = "closed" /\ calls'["cancel"] = "null" => Len(delivered) = produced
      BY <1>1, <1>3 DEF IInv, ChunksUnderWay
    <2> QED BY <1>1, <1>3, <1>5, <2>1, ChunksStay DEF SinkStays
  <1>9. RoomCounted'
    BY <1>3 DEF RoomCounted
  <1> QED BY <1>5, <1>6, <1>7, <1>8, <1>9 DEF IInv

\* CANCEL_COMPLETE reaches the reading end.
LEMMA OnCancelCompleteInv ==
    ASSUME IInv, OnCancelComplete
    PROVE  IInv'
  <1> DEFINE outcome == Outcome(Head(toReader).success)
  <1>1. /\ Head(toReader).kind = "CANCEL_COMPLETE" /\ toReader # << >> /\ toReader' = Tail(toReader)
        /\ calls' = [calls EXCEPT !.cancel = outcome]
        /\ DeleteStreamController(calls')
        /\ stream' = stream /\ toSink' = toSink /\ entry' = entry /\ delivered' = delivered
        /\ isClosed' = isClosed /\ SinkStays
    BY SinkUnchanged DEF OnCancelComplete, TakeAtReader
  <1>2. /\ stream \in Streams /\ calls \in [CallNames -> CallStates] /\ isClosed \in BOOLEAN
        /\ outcome \in {"resolved", "rejected"}
    BY DEF IInv, TypeInv, Outcome
  <1> HIDE DEF outcome
  <1>3. /\ calls' \in [CallNames -> CallStates] /\ calls'["cancel"] = outcome
        /\ calls'["start"] = calls["start"] /\ calls'["pull"] = calls["pull"]
    BY <1>1, <1>2 DEF CallNames, CallStates
  <1>4. Final(Head(toReader)) /\ (Answerable' => calls'["cancel"] # "null")
    BY <1>1, <1>2, <1>3 DEF Final
  <1>5. /\ TypeInv' /\ BeforeCreation' /\ SinkIsKnown' /\ EndIsLast' /\ PullsAskForRoom'
        /\ StartToken' /\ PullToken' /\ Answered'
        /\ ~NotCreated' /\ NoMore' /\ ~HasData'
        /\ IsTaken(toReader, Head(toReader), toReader')
        /\ Shifted({"ENQUEUE"}, toReader, toReader', 1)
    BY <1>1, <1>2, <1>3, <1>4, EndedInv
  <1>6. /\ Has(toReader, "CANCEL_COMPLETE") /\ ~Has(toReader', "CANCEL_COMPLETE")
        /\ ~Has(toSink, "CANCEL") /\ producer.cancels = 0 /\ sink.isCancelled
        /\ isClosed /\ stream.state # "readable"
    BY <1>1, <1>5 DEF IInv, CancelToken, IsTaken
  <1>7. CancelToken'
    BY <1>1, <1>5, <1>6 DEF IInv, CancelToken, SinkStays, IsTaken
  <1>8. OverIsOver'
    BY <1>1, <1>2, <1>3, <1>5, <1>6 DEF IInv, OverIsOver, SinkStays
  <1>9. ChunksUnderWay'
    <2>1. calls'["cancel"] # "null"
      BY <1>2, <1>3
    <2> QED BY <1>1, <1>5, <2>1, ChunksStay DEF SinkStays
  <1>10. RoomCounted'
    BY <1>1, <1>6 DEF RoomCounted
  <1> QED BY <1>5, <1>7, <1>8, <1>9, <1>10 DEF IInv

\* A message that changes nothing but the port: one that is addressed to another
\* name, or one that comes after the reader has closed the stream.
LEMMA DroppedInv ==
    ASSUME IInv, SinkStays, entry' = entry, toSink' = toSink, delivered' = delivered,
           isClosed' = isClosed, deleting' = deleting, stream' = stream, calls' = calls,
           toReader # << >>, toReader' = Tail(toReader),
           \/ Head(toReader).kind = "CLOSE"
           \/ Head(toReader).kind = "ENQUEUE" /\ isClosed
    PROVE  IInv'
  <1> DEFINE m == Head(toReader)
  <1>1. /\ IsTaken(toReader, m, toReader') /\ m = toReader[1] /\ 1 \in 1 .. Len(toReader)
        /\ m.kind # "ENQUEUE" => Shifted({"ENQUEUE"}, toReader, toReader', 1)
        /\ m.kind \notin {"ENQUEUE", "PULL_COMPLETE"} =>
              Shifted({"ENQUEUE", "PULL_COMPLETE"}, toReader, toReader', 1)
    BY ReaderTakes
  <1>2. stream \in Streams /\ calls \in [CallNames -> CallStates] /\ isClosed \in BOOLEAN
        /\ deleting \subseteq SUBSET CallNames
    BY DEF IInv, TypeInv
  <1>3. /\ TypeInv' /\ BeforeCreation' /\ SinkIsKnown' /\ EndIsLast' /\ PullsAskForRoom'
        /\ ~NotCreated /\ ~NotCreated' /\ (NoMore' <=> NoMore) /\ (Answerable' => Answerable)
        /\ (HasData' => HasData)
    BY <1>2, HeardInv
  <1>4. Over' <=> Over
    BY DEF Over
  <1> HIDE DEF m
  <1>5. m.kind = "CLOSE" \/ (m.kind = "ENQUEUE" /\ isClosed)
    BY DEF m
  <1>6. StartToken'
    BY <1>1, <1>5 DEF IsTaken, IInv, StartToken, SinkStays
  <1>7. PullToken'
    BY <1>1, <1>5 DEF IsTaken, IInv, PullToken, SinkStays
  <1>8. CancelToken'
    BY <1>1, <1>5 DEF IsTaken, IInv, CancelToken, SinkStays
  <1>9. OverIsOver'
    BY <1>3, <1>4 DEF IInv, OverIsOver, SinkStays
  <1>10. Answered'
    BY <1>3 DEF IInv, Answered
  <1>11. m.kind = "ENQUEUE" => stream.state # "readable"
    <2> SUFFICES ASSUME m.kind = "ENQUEUE", stream.state = "readable" PROVE FALSE
      OBVIOUS
    <2>1. HasData
      BY <1>1 DEF HasData, Data
    <2>2. ~Over
      BY <2>1 DEF IInv, OverIsOver
    <2>3. stream.closeRequested
      BY <1>5 DEF IInv, OverIsOver
    <2> QED BY <2>2, <2>3 DEF Over
  <1>12. ChunksUnderWay'
    <2>1. stream.state = "closed" /\ calls["cancel"] = "null" => Len(delivered) = produced
      BY DEF IInv, ChunksUnderWay
    <2>2. CASE m.kind = "ENQUEUE"
      BY <1>1, <1>11, <2>2, ChunksAfterEnd DEF SinkStays
    <2>3. CASE m.kind # "ENQUEUE"
      BY <1>1, <2>1, <2>3, ChunksStay DEF SinkStays
    <2> QED BY <2>2, <2>3
  <1>13. RoomCounted'
    <2>1. CASE m.kind = "ENQUEUE"
      BY <1>11, <2>1 DEF RoomCounted
    <2>2. CASE m.kind = "CLOSE"
      BY <1>1, <2>2, RoomStays DEF SinkStays
    <2> QED BY <1>5, <2>1, <2>2
  <1> QED BY <1>3, <1>6, <1>7, <1>8, <1>9, <1>10, <1>12, <1>13 DEF IInv

\* A message that is dropped, or ignored because the stream is closed.
LEMMA IgnoredInv ==
    ASSUME IInv, \/ IgnoredAtReader
                 \/ OnClose /\ isClosed
                 \/ OnEnqueue /\ isClosed
    PROVE  IInv'
  <1>1. /\ toReader # << >> /\ toReader' = Tail(toReader)
        /\ toSink' = toSink /\ entry' = entry /\ isClosed' = isClosed /\ deleting' = deleting
        /\ stream' = stream /\ calls' = calls /\ delivered' = delivered /\ SinkStays
    BY SinkUnchanged DEF IgnoredAtReader, OnClose, OnEnqueue, TakeAtReader, readerVars
  <1>2. Head(toReader) \in Replies
    BY <1>1, ReaderTakes
  <1>3. \/ Head(toReader).kind = "CLOSE"
        \/ Head(toReader).kind = "ENQUEUE" /\ isClosed
    BY <1>2, ReplyKinds DEF IgnoredAtReader, OnClose, OnEnqueue, TakeAtReader
  <1> QED BY <1>1, <1>3, DroppedInv

\* The record of the stream is released.
LEMMA DeletedInv ==
    ASSUME IInv, NEW waitsFor \in deleting, Deleted(waitsFor)
    PROVE  IInv'
  <1>1. /\ \A c \in waitsFor : Settled(c)
        /\ entry' = "deleted" /\ deleting' = deleting \ {waitsFor}
        /\ toSink' = toSink /\ toReader' = toReader /\ isClosed' = isClosed /\ calls' = calls
        /\ stream' = stream /\ delivered' = delivered /\ SinkStays
    BY SinkUnchanged DEF Deleted
  <1>2. Over /\ entry # "none"
    BY DEF Over, IInv, BeforeCreation
  <1>3. (NotCreated' <=> NotCreated) /\ (Answerable' <=> Answerable) /\ (NoMore' <=> NoMore)
        /\ (HasData' <=> HasData)
    BY <1>1, <1>2 DEF NotCreated, Answerable, NoMore, HasData, SinkStays
  <1>4. /\ "start" \in waitsFor
        /\ calls["pull"] # "null" => "pull" \in waitsFor
        /\ Answerable => "cancel" \in waitsFor
    BY DEF IInv, Answered
  <1>5. Answerable => calls["cancel"] = "pending"
    BY DEF IInv, CancelToken, Answerable
  <1>6. calls["start"] # "pending" /\ calls["pull"] # "pending" /\ ~Answerable
    BY <1>1, <1>4, <1>5 DEF Settled
  <1>7. TypeInv'
    BY <1>1 DEF IInv, TypeInv, SinkStays
  <1>8. BeforeCreation' /\ StartToken' /\ PullToken' /\ CancelToken'
    BY <1>1, <1>2, <1>3 DEF IInv, BeforeCreation, StartToken, PullToken, CancelToken, SinkStays
  <1>9. EndIsLast' /\ SinkIsKnown'
    BY <1>1, <1>3 DEF IInv, EndIsLast, SinkIsKnown, SinkStays
  <1>10. OverIsOver'
    BY <1>1, <1>2, <1>3 DEF IInv, OverIsOver, SinkStays
  <1>11. Answered'
    BY <1>1, <1>3, <1>6 DEF IInv, Answered
  <1>12. ChunksUnderWay' /\ PullsAskForRoom' /\ RoomCounted'
    BY <1>1 DEF IInv, ChunksUnderWay, Got, PullsAskForRoom, RoomCounted, Buffered, Room, SinkStays
  <1> QED BY <1>7, <1>8, <1>9, <1>10, <1>11, <1>12 DEF IInv

\* read() asks for a chunk, or takes one from the queue, and may then call pull.
LEMMA ReadBecomes ==
    ASSUME IInv, Read, NEW s \in Streams, StreamBecomes(s, calls),
           s.state = stream.state, s.closeRequested = stream.closeRequested,
           s.pulling = stream.pulling, s.started = stream.started,
           s.reads > 0 => s.queue = << >>,
           delivered' \in Seq(1 .. MaxChunks), Len(delivered) <= Len(delivered'),
           Len(delivered') + Len(s.queue) = Got, ChunksUnderWay'
    PROVE  IInv'
  <1>1. /\ entry # "none" /\ stream.state = "readable"
        /\ entry' = entry /\ isClosed' = isClosed /\ deleting' = deleting /\ SinkStays
        /\ toReader' = toReader
    BY SinkUnchanged DEF Read
  <1>2. /\ toReader' \in Seq(Replies) /\ calls \in [CallNames -> CallStates]
        /\ Len(delivered') \in Nat /\ Len(toReader) \in Nat
    BY <1>1, LenProperties DEF IInv, TypeInv
  <1>3. /\ calls["start"] # "null" /\ (s.pulling <=> calls["pull"] = "pending")
        /\ (s.pulling => s.started)
        /\ Has(toSink, "PULL") \/ producer.pulls = 1 \/ Has(toReader', "PULL_COMPLETE")
              <=> calls["pull"] = "pending"
    BY <1>1, CallsStay
  <1>4. /\ TypeInv' /\ BeforeCreation' /\ PullToken' /\ CancelToken' /\ EndIsLast'
        /\ SinkIsKnown' /\ OverIsOver' /\ Answered' /\ PullsAskForRoom'
        /\ (Has(toSink', "ACTION") <=> Has(toSink, "ACTION"))
        /\ \A i \in 1 .. Len(toSink') : toSink'[i].kind = "PULL" =>
                  \/ \E j \in 1 .. Len(toSink) : toSink[j] = toSink'[i]
                  \/ Pulls(s, calls) /\ toSink'[i].desiredSize \in Int
                     /\ toSink'[i].desiredSize <= HighWaterMark - Len(s.queue)
    BY <1>1, <1>2, <1>3, BecomesInv
  <1>5. stream'.started = s.started /\ calls'["start"] = calls["start"]
    BY <1>2, BecomesEffect
  <1>6. StartToken'
    BY <1>1, <1>4, <1>5 DEF IInv, StartToken, SinkStays
  <1>7. RoomCounted'
    <2>1. \A i \in 1 .. Len(toReader') : i + 0 \in 1 .. Len(toReader) /\ toReader'[i] = toReader[i + 0]
      BY <1>1, <1>2
    <2>2. producer.goesBy = "ready" /\ s.state = "readable" =>
             /\ ~s.started => produced + Room <= HighWaterMark
             /\ s.started /\ ~s.pulling =>
                   produced - (Len(delivered') + Len(s.queue)) + Room <= HighWaterMark
      BY DEF IInv, RoomCounted
    <2> QED BY <1>1, <1>2, <1>4, <2>1, <2>2, BecomesRoom
  <1> QED BY <1>4, <1>6, <1>7 DEF IInv

\* Either read, from an empty queue or from one with chunks, keeps the invariant.
LEMMA ReadInv ==
    ASSUME IInv, Read
    PROVE  IInv'
  <1>1. /\ entry # "none" /\ stream.state = "readable" /\ stream.reads < MaxReads
        /\ IF stream.queue = << >>
           THEN /\ StreamBecomes([stream EXCEPT !.reads = @ + 1], calls)
                /\ delivered' = delivered
           ELSE LET rest == [stream EXCEPT !.queue = Tail(@)]
                IN  /\ delivered' = Append(delivered, Head(stream.queue)[1])
                    /\ IF stream.closeRequested /\ rest.queue = << >>
                       THEN stream' = Closed(rest) /\ calls' = calls /\ toSink' = toSink
                       ELSE StreamBecomes(rest, calls)
        /\ toReader' = toReader /\ entry' = entry /\ isClosed' = isClosed /\ deleting' = deleting
        /\ SinkStays
    BY SinkUnchanged DEF Read
  <1>2. /\ stream \in Streams /\ calls \in [CallNames -> CallStates]
        /\ delivered \in Seq(1 .. MaxChunks) /\ isClosed \in BOOLEAN
        /\ deleting \subseteq SUBSET CallNames
    BY DEF IInv, TypeInv
  <1>3. Shifted({"ENQUEUE"}, toReader, toReader', 0)
    BY <1>1, ShiftNone, Numbers
  <1>4. CASE stream.queue = << >>
    <2> DEFINE s == [stream EXCEPT !.reads = @ + 1]
    <2>1. StreamBecomes(s, calls) /\ delivered' = delivered
      BY <1>1, <1>4
    <2>2. /\ s \in Streams /\ s.state = stream.state /\ s.closeRequested = stream.closeRequested
          /\ s.pulling = stream.pulling /\ s.started = stream.started /\ s.queue = stream.queue
      <3>1. stream.reads + 1 \in 0 .. MaxReads
        BY <1>1, <1>2, StreamAssumption DEF Streams
      <3> QED BY <1>2, <3>1 DEF Streams
    <2> HIDE DEF s
    <2>3. /\ stream'.state = s.state /\ stream'.queue = s.queue
          /\ calls'["cancel"] = calls["cancel"]
      BY <1>2, <1>4, <2>1, <2>2, BecomesEffect
    <2>4. ChunksUnderWay'
      BY <1>1, <1>3, <1>4, <2>1, <2>2, <2>3, ChunksStay DEF SinkStays
    <2>5. Len(delivered') + Len(s.queue) = Got
      BY <2>1, <2>2, Zenon DEF Got
    <2>6. delivered' \in Seq(1 .. MaxChunks) /\ Len(delivered) <= Len(delivered')
      BY <1>2, <2>1, Numbers
    <2> QED BY <1>4, <2>1, <2>2, <2>4, <2>5, <2>6, ReadBecomes
  <1>5. CASE stream.queue # << >>
    <2> DEFINE s == [stream EXCEPT !.queue = Tail(@)]
    <2>1. /\ delivered' = Append(delivered, Head(stream.queue)[1])
          /\ \/ stream.closeRequested /\ s.queue = << >>
                /\ stream' = Closed(s) /\ calls' = calls /\ toSink' = toSink
             \/ StreamBecomes(s, calls)
      BY <1>1, <1>5
    <2>2. /\ s \in Streams /\ s.state = stream.state /\ s.closeRequested = stream.closeRequested
          /\ s.pulling = stream.pulling /\ s.started = stream.started
          /\ s.queue = Tail(stream.queue) /\ s.reads = stream.reads
      <3>1. stream.queue \in Seq(ChunkRecords)
        BY <1>2 DEF Streams
      <3>2. Tail(stream.queue) \in Seq(ChunkRecords)
        BY <1>5, <3>1, HeadTailProperties
      <3> QED BY <1>2, <3>2 DEF Streams
    <2>3. stream.reads = 0
      BY <1>2, <1>5 DEF IInv, ChunksUnderWay, Streams
    <2> HIDE DEF s
    <2>4. CASE StreamBecomes(s, calls)
      <3>1. s.reads > 0 => s.queue = << >>
        BY <2>2, <2>3
      <3>2. /\ stream'.state = s.state /\ stream'.queue = s.queue /\ stream'.reads = s.reads
            /\ calls'["cancel"] = calls["cancel"]
        BY <1>2, <2>2, <2>4, <3>1, BecomesEffect
      <3>3. /\ ChunksUnderWay' /\ Got' = Got
            /\ delivered' \in Seq(1 .. MaxChunks) /\ Len(delivered') = Len(delivered) + 1
        BY <1>1, <1>5, <2>1, <2>2, <3>2, ChunkRead DEF SinkStays
      <3>4. Len(delivered') + Len(s.queue) = Got
        <4>1. Got' = Len(delivered') + Len(s.queue)
          BY <3>2, Zenon DEF Got
        <4> QED BY <3>3, <4>1, Zenon
      <3>5. Len(delivered) <= Len(delivered')
        BY <3>3, Numbers
      <3> QED BY <2>2, <2>4, <3>1, <3>3, <3>4, <3>5, ReadBecomes
    <2>5. CASE /\ stream.closeRequested /\ s.queue = << >>
               /\ stream' = Closed(s) /\ calls' = calls /\ toSink' = toSink
      <3>1. Over /\ ~HasData /\ NoMore /\ isClosed
        BY <2>5 DEF Over, IInv, OverIsOver
      <3>2. /\ stream' \in Streams /\ stream'.state = "closed" /\ stream'.queue = << >>
            /\ stream'.reads = 0 /\ stream'.closeRequested /\ stream'.started = stream.started
            /\ stream'.pulling = stream.pulling
        <4>1. << >> \in Seq(ChunkRecords) /\ 0 \in 0 .. MaxReads
          BY EmptySeq, StreamAssumption
        <4> QED BY <2>2, <2>5, <4>1 DEF Closed, Streams
      <3>3. Got = produced
        BY <1>1, <3>1, AllGot DEF HasData, Data
      <3>4. /\ ChunksUnderWay' /\ Got' = Got
            /\ delivered' \in Seq(1 .. MaxChunks) /\ Len(delivered') = Len(delivered) + 1
        BY <1>1, <1>5, <2>1, <2>2, <2>5, <3>2, <3>3, ChunkRead DEF SinkStays
      <3>5. /\ (NotCreated' <=> NotCreated) /\ (Answerable' <=> Answerable) /\ (NoMore' <=> NoMore)
            /\ (HasData' <=> HasData)
        BY <1>1, <2>5 DEF NotCreated, Answerable, NoMore, HasData, SinkStays
      <3>6. TypeInv'
        BY <1>1, <1>2, <2>5, <3>2, <3>4 DEF IInv, TypeInv, SinkStays
      <3>7. BeforeCreation' /\ StartToken' /\ PullToken' /\ CancelToken'
        BY <1>1, <2>5, <3>2, <3>5
           DEF IInv, BeforeCreation, StartToken, PullToken, CancelToken, SinkStays
      <3>8. EndIsLast' /\ SinkIsKnown' /\ PullsAskForRoom'
        BY <1>1, <2>5, <3>5 DEF IInv, EndIsLast, SinkIsKnown, PullsAskForRoom, SinkStays
      <3>9. OverIsOver'
        BY <1>1, <2>5, <3>1, <3>2, <3>5 DEF IInv, OverIsOver, SinkStays
      <3>10. Answered'
        BY <1>1, <2>5, <3>5 DEF IInv, Answered
      <3>11. RoomCounted'
        BY <3>2 DEF RoomCounted
      <3> QED BY <3>4, <3>6, <3>7, <3>8, <3>9, <3>10, <3>11 DEF IInv
    <2> QED BY <2>1, <2>4, <2>5
  <1> QED BY <1>4, <1>5

\* reader.cancel ends the stream and posts a CANCEL.
LEMMA CancelInv ==
    ASSUME IInv, Cancel
    PROVE  IInv'
  <1> DEFINE m == Message("CANCEL", Writer)
  <1>1. /\ entry # "none" /\ stream.state = "readable" /\ stream' = Closed(stream)
        /\ calls' = [calls EXCEPT !.cancel = "pending"] /\ isClosed' = TRUE
        /\ toSink' = Append(toSink, m)
        /\ toReader' = toReader /\ entry' = entry /\ deleting' = deleting
        /\ delivered' = delivered /\ SinkStays
    BY SinkUnchanged DEF Cancel
  <1>2. stream \in Streams /\ calls \in [CallNames -> CallStates] /\ toSink \in Seq(Messages)
    BY DEF IInv, TypeInv
  <1>3. m \in Messages /\ m.kind = "CANCEL"
    BY DEF Messages, Message
  <1> HIDE DEF m
  <1>4. toSink' \in Seq(Messages) /\ IsPosted(toSink, m, toSink')
    BY <1>1, <1>2, <1>3, Posted
  <1>5. /\ stream' \in Streams /\ stream'.state = "closed" /\ stream'.queue = << >>
        /\ stream'.reads = 0 /\ stream'.closeRequested = stream.closeRequested
        /\ stream'.started = stream.started /\ stream'.pulling = stream.pulling
    <2>1. << >> \in Seq(ChunkRecords) /\ 0 \in 0 .. MaxReads
      BY EmptySeq, StreamAssumption
    <2> QED BY <1>1, <1>2, <2>1 DEF Closed, Streams
  <1>6. /\ calls' \in [CallNames -> CallStates] /\ calls'["cancel"] = "pending"
        /\ calls'["start"] = calls["start"] /\ calls'["pull"] = calls["pull"]
    BY <1>1, <1>2 DEF CallNames, CallStates
  <1>7. /\ calls["cancel"] = "null" /\ ~Has(toSink, "CANCEL") /\ producer.cancels = 0
        /\ ~Has(toReader, "CANCEL_COMPLETE")
    BY <1>1 DEF IInv, CancelToken
  <1>8. (NotCreated' <=> NotCreated) /\ (NoMore' <=> NoMore) /\ (HasData' <=> HasData)
    BY <1>1, <1>3, <1>4 DEF IsPosted, NotCreated, NoMore, HasData, SinkStays
  <1>9. Over' => Over
    BY <1>1, <1>5, <1>6 DEF Over
  <1>10. Over => stream.closeRequested /\ ~sink.known /\ ~NotCreated
    BY <1>1 DEF IInv, OverIsOver
  <1>11. Over => ~Answerable'
    BY <1>1, <1>7, <1>8, <1>10 DEF Answerable, SinkStays
  <1>12. TypeInv'
    BY <1>1, <1>4, <1>5, <1>6 DEF IInv, TypeInv, SinkStays
  <1>13. BeforeCreation'
    BY <1>1, <1>3, <1>4, <1>8 DEF IsPosted, IInv, BeforeCreation, SinkStays
  <1>14. StartToken'
    BY <1>1, <1>3, <1>4, <1>5, <1>6 DEF IsPosted, IInv, StartToken, SinkStays
  <1>15. PullToken'
    BY <1>1, <1>3, <1>4, <1>5, <1>6 DEF IsPosted, IInv, PullToken, SinkStays
  <1>16. CancelToken'
    BY <1>1, <1>3, <1>4, <1>5, <1>6, <1>7 DEF IsPosted, IInv, CancelToken, SinkStays
  <1>17. EndIsLast' /\ SinkIsKnown'
    BY <1>1, <1>8 DEF IInv, EndIsLast, SinkIsKnown, SinkStays
  <1>18. OverIsOver'
    BY <1>1, <1>5, <1>6, <1>8, <1>9 DEF IInv, OverIsOver, SinkStays
  <1>19. Answered'
    <2>1. CASE Over
      BY <1>1, <1>6, <1>11, <2>1 DEF IInv, Answered
    <2>2. CASE ~Over
      BY <1>1, <2>2 DEF Over, Answered
    <2> QED BY <2>1, <2>2
  <1>20. ChunksUnderWay'
    <2>1. Shifted({"ENQUEUE"}, toReader, toReader', 0)
      BY <1>1, ShiftNone, Numbers
    <2> QED BY <1>1, <1>5, <1>6, <2>1, ChunksStay DEF SinkStays
  <1>21. PullsAskForRoom'
    BY <1>1, <1>3, <1>4 DEF IsPosted, IInv, PullsAskForRoom, SinkStays
  <1>22. RoomCounted'
    BY <1>5 DEF RoomCounted
  <1> QED BY <1>12, <1>13, <1>14, <1>15, <1>16, <1>17, <1>18, <1>19, <1>20, <1>21, <1>22 DEF IInv

\* sendWithStream posts the action.
LEMMA StartInv ==
    ASSUME IInv, Start
    PROVE  IInv'
  <1> DEFINE m == [kind |-> "ACTION", target |-> Writer, desiredSize |-> DesiredSize(stream)]
  <1>1. /\ entry = "none" /\ entry' = "present" /\ calls' = [calls EXCEPT !.start = "pending"]
        /\ toSink' = Append(toSink, m)
        /\ toReader' = toReader /\ isClosed' = isClosed /\ deleting' = deleting
        /\ stream' = stream /\ delivered' = delivered /\ SinkStays
    BY SinkUnchanged DEF Start
  <1>2. /\ stream \in Streams /\ calls \in [CallNames -> CallStates] /\ toSink \in Seq(Messages)
        /\ HighWaterMark \in Nat \ {0}
    BY StreamAssumption DEF IInv, TypeInv
  <1>3. /\ toSink = << >> /\ calls = [c \in CallNames |-> "null"] /\ deleting = {}
        /\ ~stream.pulling /\ ~stream.closeRequested /\ ~stream.started
        /\ stream.state = "readable" /\ stream.queue = << >> /\ delivered = << >>
        /\ stream.reads = 0 /\ ~isClosed
        /\ toReader = << >> /\ produced = 0
        /\ ~producer.running /\ ~producer.starting /\ producer.pulls = 0 /\ producer.cancels = 0
        /\ ~sink.known /\ ~sink.isCancelled /\ sink.desiredSize = 0
    BY <1>1 DEF IInv, BeforeCreation, NotCreated
  <1>4. DesiredSize(stream) = HighWaterMark
    <2>1. << >> \in Queues /\ Total[<< >>] = 0
      BY EmptySeq, TotalEquation DEF Queues
    <2> QED BY <1>2, <1>3, <2>1 DEF DesiredSize
  <1>5. m \in Messages /\ m.kind = "ACTION" /\ m.desiredSize = HighWaterMark
    BY <1>2, <1>4 DEF Messages
  <1> HIDE DEF m
  <1>6. toSink' \in Seq(Messages) /\ IsPosted(toSink, m, toSink')
    BY <1>1, <1>2, <1>5, Posted
  <1>7. /\ calls' \in [CallNames -> CallStates] /\ calls'["start"] = "pending"
        /\ calls'["pull"] = "null" /\ calls'["cancel"] = "null"
    BY <1>1, <1>2, <1>3 DEF CallNames, CallStates
  <1>8. Len(toSink) = 0 /\ Len(toReader) = 0 /\ Len(delivered) = 0 /\ Len(stream.queue) = 0
    BY <1>3, EmptySeq
  <1>9. \A kind : (Has(toSink', kind) <=> kind = "ACTION") /\ ~Has(toReader', kind)
                  /\ Once(toSink', kind) /\ Once(toReader', kind)
    BY <1>1, <1>5, <1>6, <1>8 DEF IsPosted, Has, Once
  <1>10. NotCreated' /\ NotCreated /\ ~Answerable' /\ ~HasData' /\ ~NoMore'
    BY <1>1, <1>3, <1>8, <1>9 DEF NotCreated, Answerable, HasData, NoMore, SinkStays
  <1>11. ~Over'
    BY <1>1, <1>3, <1>7 DEF Over
  <1>12. Len(toSink') = 1 /\ toSink'[1] = m
    BY <1>6, <1>8 DEF IsPosted
  <1>13. TypeInv'
    BY <1>1, <1>6, <1>7 DEF IInv, TypeInv, SinkStays
  <1>14. BeforeCreation'
    BY <1>1, <1>3, <1>5, <1>12 DEF BeforeCreation, SinkStays
  <1>15. StartToken' /\ PullToken' /\ CancelToken'
    BY <1>1, <1>3, <1>7, <1>9, <1>10 DEF StartToken, PullToken, CancelToken, SinkStays
  <1>16. EndIsLast' /\ SinkIsKnown'
    BY <1>1, <1>3, <1>8, <1>9 DEF EndIsLast, SinkIsKnown, SinkStays
  <1>17. OverIsOver' /\ Answered'
    BY <1>1, <1>3, <1>10, <1>11 DEF OverIsOver, Answered, SinkStays
  <1>18. ChunksUnderWay'
    <2>1. Shifted({"ENQUEUE"}, toReader, toReader', 0)
      BY <1>1, ShiftNone, Numbers
    <2> QED BY <1>1, <1>3, <2>1, ChunksStay DEF SinkStays
  <1>19. PullsAskForRoom'
    BY <1>1, <1>2, <1>3, <1>5, <1>12 DEF PullsAskForRoom, SinkStays
  <1>20. RoomCounted'
    <2>1. sink'.desiredSize = 0 /\ produced' = 0 /\ Len(delivered') = 0 /\ Len(stream'.queue) = 0
      BY <1>1, <1>3, <1>8 DEF SinkStays
    <2>2. Room' = 0 /\ Got' = 0 /\ Buffered' = 0
      BY <2>1 DEF Room, Got, Buffered
    <2> QED BY <1>1, <1>2, <1>3, <1>5, <1>8, <1>12, <2>1, <2>2 DEF RoomCounted, SinkStays
  <1> QED BY <1>13, <1>14, <1>15, <1>16, <1>17, <1>18, <1>19, <1>20 DEF IInv

------------------------------------------------------------------------------
(* The theorems.                                                            *)

\* The invariant holds at first,
LEMMA InitInv == Init => IInv
  <1> SUFFICES ASSUME Init PROVE IInv
    OBVIOUS
  <1> USE StreamAssumption
  <1>1. Len(toSink) = 0 /\ Len(toReader) = 0 /\ Len(delivered) = 0 /\ Len(stream.queue) = 0
    BY EmptySeq DEF Init
  <1>2. \A kind : ~Has(toSink, kind) /\ ~Has(toReader, kind)
                  /\ Once(toSink, kind) /\ Once(toReader, kind)
    BY <1>1 DEF Has, Once
  <1>3. /\ calls \in [CallNames -> CallStates]
        /\ calls["start"] = "null" /\ calls["pull"] = "null" /\ calls["cancel"] = "null"
    BY DEF Init, CallNames, CallStates
  <1>4. stream \in Streams
    BY EmptySeq DEF Init, Streams
  <1>5. sink \in Sinks /\ producer \in Producers
    <2>1. sink \in Sinks
      BY DEF Init, Sinks
    <2>2. PICK by \in Handlers, closeTo \in CloseAddresses :
             producer = [running |-> FALSE, starting |-> FALSE, pulls |-> 0, cancels |-> 0,
                         owed |-> 0, goesBy |-> by, closeTo |-> closeTo]
      BY DEF Init
    <2> QED BY <2>1, <2>2 DEF Producers
  <1>6. /\ ~producer.running /\ ~producer.starting /\ producer.pulls = 0 /\ producer.cancels = 0
    BY DEF Init
  <1>7. NotCreated /\ ~Answerable /\ ~NoMore /\ ~Over /\ ~HasData
    BY <1>1, <1>2, <1>3, <1>6 DEF Init, NotCreated, Answerable, NoMore, Over, HasData
  <1>8. TypeInv
    <2>1. toSink \in Seq(Messages) /\ toReader \in Seq(Replies) /\ delivered \in Seq(1 .. MaxChunks)
      BY EmptySeq DEF Init
    <2>2. produced \in 0 .. MaxChunks
      <3>1. produced = 0
        BY DEF Init
      <3> QED BY <3>1
    <2>3. entry \in {"none", "present", "deleted"} /\ isClosed \in BOOLEAN
      BY DEF Init
    <2>4. deleting \subseteq SUBSET CallNames
      BY Zenon DEF Init
    <2> QED BY <1>3, <1>4, <1>5, <2>1, <2>2, <2>3, <2>4 DEF TypeInv
  <1>9. BeforeCreation
    BY <1>1, <1>6 DEF Init, BeforeCreation
  <1>10. StartToken /\ PullToken /\ CancelToken
    BY <1>2, <1>3, <1>6, <1>7 DEF Init, StartToken, PullToken, CancelToken
  <1>11. EndIsLast /\ SinkIsKnown
    BY <1>1, <1>2, <1>6 DEF Init, EndIsLast, SinkIsKnown
  <1>12. OverIsOver /\ Answered
    BY <1>7 DEF Init, OverIsOver, Answered
  <1>13. Got = 0 /\ Buffered = 0 /\ Room = 0
    <2>1. sink.desiredSize = 0 /\ produced = 0
      BY DEF Init
    <2> QED BY <1>1, <2>1 DEF Got, Buffered, Room
  <1>14. ChunksUnderWay
    BY <1>1, <1>13 DEF Init, ChunksUnderWay
  <1>15. PullsAskForRoom /\ RoomCounted
    BY <1>1, <1>13 DEF Init, PullsAskForRoom, RoomCounted
  <1> QED BY <1>8, <1>9, <1>10, <1>11, <1>12, <1>14, <1>15 DEF IInv

\* when nothing happens,
LEMMA StutterInv ==
    ASSUME IInv, UNCHANGED vars
    PROVE  IInv'
  <1>1. /\ toSink' = toSink /\ toReader' = toReader /\ entry' = entry /\ isClosed' = isClosed
        /\ calls' = calls /\ deleting' = deleting /\ stream' = stream /\ delivered' = delivered
        /\ sink' = sink /\ producer' = producer /\ produced' = produced
    BY DEF vars, readerVars, sinkVars
  <1>2. /\ NotCreated' = NotCreated /\ Answerable' = Answerable /\ NoMore' = NoMore
        /\ HasData' = HasData /\ Over' = Over
    BY <1>1 DEF NotCreated, Answerable, NoMore, HasData, Over
  <1>3. Got' = Got /\ Buffered' = Buffered /\ Room' = Room
    BY <1>1 DEF Got, Buffered, Room
  <1>4. TypeInv'
    BY <1>1 DEF IInv, TypeInv
  <1>5. BeforeCreation'
    BY <1>1, <1>2 DEF IInv, BeforeCreation
  <1>6. StartToken' /\ PullToken' /\ CancelToken'
    BY <1>1, <1>2 DEF IInv, StartToken, PullToken, CancelToken
  <1>7. EndIsLast' /\ SinkIsKnown' /\ OverIsOver'
    BY <1>1, <1>2 DEF IInv, EndIsLast, SinkIsKnown, OverIsOver
  <1>8. Answered' /\ PullsAskForRoom'
    BY <1>1, <1>2 DEF IInv, Answered, PullsAskForRoom
  <1>9. ChunksUnderWay'
    BY <1>1, <1>3 DEF IInv, ChunksUnderWay
  <1>10. RoomCounted'
    BY <1>1, <1>3 DEF IInv, RoomCounted
  <1> QED BY <1>4, <1>5, <1>6, <1>7, <1>8, <1>9, <1>10 DEF IInv

\* and after each action.
LEMMA NextInv ==
    ASSUME IInv, Next
    PROVE  IInv'
  <1>1. CASE ReaderCalls
    BY <1>1, StartInv, ReadInv, CancelInv DEF ReaderCalls
  <1>2. CASE ReaderHandlers
    <2>1. CASE OnStartComplete
      BY <2>1, OnStartCompleteInv, OnStartFailedInv
    <2>2. CASE OnPullComplete
      BY <2>2, OnPullCompleteInv, OnPullFailedInv
    <2>3. CASE OnEnqueue
      BY <2>3, OnEnqueueInv, IgnoredInv
    <2>4. CASE OnClose
      BY <2>4, OnCloseInv, IgnoredInv
    <2>5. CASE IgnoredAtReader
      BY <2>5, IgnoredInv
    <2> QED BY <1>2, <2>1, <2>2, <2>3, <2>4, <2>5, OnErrorInv, OnCancelCompleteInv DEF ReaderHandlers
  <1>3. CASE \E waitsFor \in deleting : Deleted(waitsFor)
    BY <1>3, DeletedInv
  <1>4. CASE SinkHandlers
    BY <1>4, CreateStreamSinkInv, OnPullWithoutSinkInv, OnPullAtSinkInv, OnCancelInv DEF SinkHandlers
  <1>5. CASE \E ok \in BOOLEAN : HandlerSettles(ok)
    BY <1>5, HandlerSettlesInv
  <1>6. CASE SinkCalls
    BY <1>6, EnqueueInv, CloseInv, ErrorInv DEF SinkCalls
  <1> QED BY <1>1, <1>2, <1>3, <1>4, <1>5, <1>6 DEF Next

\* The inductive invariant.
THEOREM StreamInvariant == Spec => []IInv
  <1>1. IInv /\ [Next]_vars => IInv'
    BY NextInv, StutterInv
  <1> QED BY InitInv, <1>1, PTL DEF Spec

\* Whatever chunks, reads, failures, closes and cancellations there are, no message finds
\* the reading end in a state that its handler cannot cope with.
THEOREM NoHandlerEverThrows == Spec => []NoHandlerThrows
  <1>1. IInv => NoHandlerThrows
    <2> SUFFICES ASSUME IInv PROVE NoHandlerThrows
      OBVIOUS
    <2>1. TypeOK
      <3>1. /\ \A i \in DOMAIN toSink : toSink[i] \in Messages
            /\ \A i \in DOMAIN toReader : toReader[i] \in Replies
        BY ElementOfSeq, LenProperties DEF IInv, TypeInv
      <3>2. \A i \in DOMAIN stream.queue : stream.queue[i] \in (1 .. MaxChunks) \X Sizes
        BY ElementOfSeq, LenProperties DEF IInv, TypeInv, Streams, ChunkRecords
      <3> QED BY <3>1, <3>2 DEF IInv, TypeInv, Streams, Sinks, Producers, TypeOK
    <2>2. ASSUME toReader # << >>
          PROVE  /\ Head(toReader) = toReader[1] /\ 1 \in 1 .. Len(toReader)
                 /\ Head(toReader) \in Replies
                 /\ Has(toReader, Head(toReader).kind)
      BY <2>2, Taken DEF IInv, TypeInv, IsTaken
    <2>3. ASSUME toReader # << >> PROVE entry = "present"
      <3>1. entry # "none"
        BY <2>3 DEF IInv, BeforeCreation, NotCreated
      <3>2. ASSUME entry = "deleted" PROVE FALSE
        <4>1. ~HasData /\ calls["start"] # "pending" /\ calls["pull"] # "pending" /\ ~Answerable
          BY <3>2 DEF IInv, OverIsOver, Over, Answered
        <4>2. /\ ~Has(toReader, "START_COMPLETE") /\ ~Has(toReader, "PULL_COMPLETE")
              /\ ~Has(toReader, "CANCEL_COMPLETE")
          BY <4>1 DEF IInv, StartToken, PullToken, Answerable
        <4>3. ~Data(Head(toReader))
          BY <2>2, <2>3, <4>1 DEF HasData
        <4> QED BY <2>2, <2>3, <4>2, <4>3, ReplyKinds DEF Data
      <3> QED BY <3>1, <3>2 DEF IInv, TypeInv
    <2>4. /\ NextForReader("START_COMPLETE")  => calls["start"] = "pending"
          /\ NextForReader("PULL_COMPLETE")   => calls["pull"] = "pending"
          /\ NextForReader("CANCEL_COMPLETE") => calls["cancel"] = "pending"
      BY <2>2 DEF NextForReader, IInv, StartToken, PullToken, CancelToken
    <2>5. ASSUME NextForReader("ENQUEUE") \/ NextForReader("CLOSE"), ~isClosed
          PROVE  stream.state = "readable" /\ ~stream.closeRequested
      <3>1. HasData
        BY <2>2, <2>5 DEF NextForReader, HasData, Data
      <3>2. ~Over
        BY <3>1 DEF IInv, OverIsOver
      <3>3. calls["cancel"] = "null"
        BY <2>5 DEF IInv, CancelToken
      <3> QED BY <3>2, <3>3 DEF Over, IInv, TypeInv, Streams
    <2>6. stream.pulling /\ entry = "deleted" => Settled("pull")
      BY DEF IInv, PullToken, Answered
    <2> QED BY <2>1, <2>3, <2>4, <2>5, <2>6 DEF NoHandlerThrows
  <1> QED BY StreamInvariant, <1>1, PTL

\* Every chunk is delivered once and in order, and all of them before "done".
THEOREM ChunksAreDelivered == Spec => []Delivery
  <1>1. IInv => Delivery
    <2> SUFFICES ASSUME IInv PROVE Delivery
      OBVIOUS
    <2>1. delivered = [i \in 1 .. Len(delivered) |-> delivered[i]]
      BY LenProperties DEF IInv, TypeInv
    <2>2. \A i \in 1 .. Len(delivered) : delivered[i] = i
      BY DEF IInv, ChunksUnderWay
    <2>3. delivered = [i \in 1 .. Len(delivered) |-> i]
      BY <2>1, <2>2
    <2> QED BY <2>3 DEF IInv, ChunksUnderWay, Delivery
  <1> QED BY StreamInvariant, <1>1, PTL

\* The sink makes its handler wait exactly when it should, and a handler that waits
\* never makes the reader hold more than twice its high-water mark.
THEOREM BackpressureHolds == Spec => []Backpressure
  <1>1. IInv => Backpressure
    <2> SUFFICES ASSUME IInv PROVE Backpressure
      OBVIOUS
    <2>1. sink.known /\ ~sink.isCancelled => (sink.ready = "pending" <=> sink.desiredSize <= 0)
      BY DEF IInv, SinkIsKnown
    <2>2. ASSUME stream.state = "readable", producer.goesBy = "ready"
          PROVE  Buffered <= 2 * HighWaterMark
      <3>1. Buffered + Room <= 2 * HighWaterMark
        BY <2>2 DEF IInv, RoomCounted
      <3> QED BY <3>1, Numbers
    <2> QED BY <2>1, <2>2 DEF Backpressure
  <1> QED BY StreamInvariant, <1>1, PTL
=============================================================================
