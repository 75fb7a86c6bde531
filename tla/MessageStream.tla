----------------------------- MODULE MessageStream -----------------------------
(***************************************************************************)
(* One stream of AbstractMessageHandler (seren-common/src/worker/          *)
(* message_handler_base.ts) between the thread that reads it, which called *)
(* sendWithStream, and the thread that fills it through a GeneralStreamSink*)
(* (types/stream_types.ts). The two talk over a pair of message ports: each*)
(* direction keeps its order, and nothing else is known of the delay.      *)
(*                                                                         *)
(* The ReadableStream at the reading end is the platform's; it is modelled *)
(* by the rules of the Streams standard the handler relies on: when it     *)
(* calls pull, what close, error and cancel do to its queue and to reads.  *)
(* A message handler runs to completion, together with the promise         *)
(* reactions of the platform that follow it in the same turn.              *)
(***************************************************************************)
EXTENDS Integers, Sequences, FiniteSets

CONSTANTS
    HighWaterMark,  \* of the queueing strategy
    Sizes,          \* the sizes a chunk may have
    MaxChunks,      \* bound: chunks one sink enqueues
    MaxReads,       \* bound: read requests outstanding at a time
    CloseAddresses, \* the targetNames that close() may put on its message
    Handlers,       \* what the handlers go by: "pull", one chunk for each pull, or
                    \* "ready", a chunk whenever sink.ready is fulfilled
    Failing         \* TRUE: the handler's promises may be rejected

ASSUME StreamAssumption ==
    /\ HighWaterMark \in Nat \ {0}
    /\ Sizes \subseteq Nat \ {0}
    /\ MaxChunks \in Nat /\ MaxReads \in Nat
    /\ Handlers \subseteq {"pull", "ready"} /\ Failing \in BOOLEAN

Reader == "reader"      \* sourceName of the reading thread's handler
Writer == "writer"      \* sourceName of the filling thread's handler

VARIABLES
    toSink,     \* messages on their way to the filling thread
    toReader,   \* messages on their way to the reading thread
    entry,      \* the reader's record in streamControllers: "none", "present", "deleted"
    isClosed,   \* StreamController.isClosed
    calls,      \* startCall, pullCall, cancelCall: "null", "pending", "resolved", "rejected"
    deleting,   \* the running deleteStreamController calls: the calls each waits for
    stream,     \* the platform's ReadableStream and its controller
    sink,       \* the sink and its place in streamSinks
    producer,   \* the action handler that fills the sink
    produced,   \* number of chunks the sink has posted
    delivered   \* the chunks read() has returned, in order

readerVars == <<entry, isClosed, calls, deleting, stream, delivered>>
sinkVars   == <<sink, producer, produced>>
vars       == <<toSink, toReader, readerVars, sinkVars>>

CallNames  == {"start", "pull", "cancel"}
CallStates == {"null", "pending", "resolved", "rejected"}

Total[q \in Seq(Nat \X Nat)] == IF q = << >> THEN 0 ELSE Head(q)[2] + Total[Tail(q)]

Init ==
    /\ toSink = << >> /\ toReader = << >>
    /\ entry = "none"
    /\ isClosed = FALSE
    /\ calls = [c \in CallNames |-> "null"]
    /\ deleting = {}
    /\ stream = [state |-> "readable", queue |-> << >>, closeRequested |-> FALSE,
                 started |-> FALSE, pulling |-> FALSE, pullAgain |-> FALSE, reads |-> 0]
    /\ sink = [known |-> FALSE, isCancelled |-> FALSE, desiredSize |-> 0,
               ready |-> "pending"]
    /\ producer \in [running : {FALSE}, starting : {FALSE}, pulls : {0}, cancels : {0},
                     owed : {0}, goesBy : Handlers, closeTo : CloseAddresses]
    /\ produced = 0
    /\ delivered = << >>

------------------------------------------------------------------------------
(* The platform's ReadableStream.                                           *)

DesiredSize(s) == HighWaterMark - Total[s.queue]

ShouldCallPull(s) ==
    /\ s.state = "readable" /\ ~s.closeRequested /\ s.started
    /\ s.reads > 0 \/ DesiredSize(s) > 0

CallsPull(s) == ShouldCallPull(s) /\ ~s.pulling

PullChecked(s) ==
    IF CallsPull(s) THEN [s EXCEPT !.pulling = TRUE]
    ELSE IF ShouldCallPull(s) THEN [s EXCEPT !.pullAgain = TRUE]
    ELSE s

\* The end of the stream: the waiting reads are answered with done.
Closed(s)  == [s EXCEPT !.state = "closed", !.queue = << >>, !.reads = 0]
Errored(s) == IF s.state = "readable"
              THEN [s EXCEPT !.state = "errored", !.queue = << >>, !.reads = 0] ELSE s

------------------------------------------------------------------------------
(* Messages.                                                                *)

Message(kind, target) == [kind |-> kind, target |-> target]
Reply(kind, success)  == [kind |-> kind, target |-> Reader, success |-> success]

PostToReader(m) == toReader' = Append(toReader, m)

\* The reading thread takes the first message; a handler ignores a message that
\* is addressed to another name.
TakeAtReader(kind) ==
    /\ toReader # << >>
    /\ Head(toReader).target = Reader /\ Head(toReader).kind = kind
    /\ toReader' = Tail(toReader)

TakeAtSink(kind) ==
    /\ toSink # << >>
    /\ Head(toSink).target = Writer /\ Head(toSink).kind = kind
    /\ toSink' = Tail(toSink)

IgnoredAtReader ==
    /\ toReader # << >> /\ Head(toReader).target # Reader
    /\ toReader' = Tail(toReader)
    /\ UNCHANGED <<toSink, readerVars, sinkVars>>

------------------------------------------------------------------------------
(* The reading end: sendWithStream.                                         *)

\* The stream becomes s, with the calls c, and then calls pull if there is need:
\* the pull function stores a new capability and posts a PULL.
StreamBecomes(s, c) ==
    /\ stream' = PullChecked(s)
    /\ IF CallsPull(s)
       THEN /\ calls' = [c EXCEPT !.pull = "pending"]
            /\ toSink' = Append(toSink, [kind |-> "PULL", target |-> Writer,
                                         desiredSize |-> DesiredSize(s)])
       ELSE calls' = c /\ UNCHANGED toSink

\* sendWithStream: the start function of the new stream.
Start ==
    /\ entry = "none"
    /\ entry' = "present"
    /\ calls' = [calls EXCEPT !.start = "pending"]
    /\ toSink' = Append(toSink, [kind |-> "ACTION", target |-> Writer,
                                 desiredSize |-> DesiredSize(stream)])
    /\ UNCHANGED <<toReader, isClosed, deleting, stream, delivered, sinkVars>>

\* reader.read()
Read ==
    /\ entry # "none" /\ stream.state = "readable" /\ stream.reads < MaxReads
    /\ IF stream.queue = << >>
       THEN /\ StreamBecomes([stream EXCEPT !.reads = @ + 1], calls)
            /\ UNCHANGED delivered
       ELSE LET rest == [stream EXCEPT !.queue = Tail(@)]
            IN  /\ delivered' = Append(delivered, Head(stream.queue)[1])
                /\ IF stream.closeRequested /\ rest.queue = << >>
                   THEN stream' = Closed(rest) /\ UNCHANGED <<calls, toSink>>
                   ELSE StreamBecomes(rest, calls)
    /\ UNCHANGED <<toReader, entry, isClosed, deleting, sinkVars>>

\* reader.cancel(reason): the cancel function of the stream.
Cancel ==
    /\ entry # "none" /\ stream.state = "readable"
    /\ stream' = Closed(stream)
    /\ calls' = [calls EXCEPT !.cancel = "pending"]
    /\ isClosed' = TRUE
    /\ toSink' = Append(toSink, Message("CANCEL", Writer))
    /\ UNCHANGED <<toReader, entry, deleting, delivered, sinkVars>>

Outcome(success) == IF success THEN "resolved" ELSE "rejected"

OnStartComplete ==
    /\ TakeAtReader("START_COMPLETE")
    /\ LET ok == Head(toReader).success
           c  == [calls EXCEPT !.start = Outcome(ok)]
       IN  IF ok
           THEN StreamBecomes([stream EXCEPT !.started = TRUE], c)
           ELSE stream' = Errored(stream) /\ calls' = c /\ UNCHANGED toSink
    /\ UNCHANGED <<entry, isClosed, deleting, delivered, sinkVars>>

OnPullComplete ==
    /\ TakeAtReader("PULL_COMPLETE")
    /\ LET ok == Head(toReader).success
           c  == [calls EXCEPT !.pull = Outcome(ok)]
           s  == [stream EXCEPT !.pulling = FALSE, !.pullAgain = FALSE]
       IN  IF ok /\ stream.pullAgain
           THEN StreamBecomes(s, c)
           ELSE /\ stream' = IF ok THEN s ELSE Errored(s)
                /\ calls' = c /\ UNCHANGED toSink
    /\ UNCHANGED <<entry, isClosed, deleting, delivered, sinkVars>>

OnEnqueue ==
    /\ TakeAtReader("ENQUEUE")
    /\ IF isClosed
       THEN UNCHANGED <<stream, calls, toSink, delivered>>
       ELSE LET chunk == Head(toReader).chunk
            IN  IF stream.reads > 0
                THEN /\ delivered' = Append(delivered, chunk[1])
                     /\ StreamBecomes([stream EXCEPT !.reads = @ - 1], calls)
                ELSE /\ StreamBecomes([stream EXCEPT !.queue = Append(@, chunk)], calls)
                     /\ UNCHANGED delivered
    /\ UNCHANGED <<entry, isClosed, deleting, sinkVars>>

\* Mutants of DeleteStreamController: it waits for nothing; it waits for calls
\* that were never made.
DeleteAtOnce(c) == deleting' = deleting \cup {{}}
DeleteNever(c)  == deleting' = deleting \cup {CallNames}

\* deleteStreamController waits for the calls that exist when it is called.
DeleteStreamController(c) == deleting' = deleting \cup {{n \in CallNames : c[n] # "null"}}

\* Mutant of OnClose: what is still queued is lost.
OnCloseDropsQueue ==
    /\ TakeAtReader("CLOSE")
    /\ isClosed' = TRUE
    /\ stream' = IF isClosed THEN stream ELSE Closed(stream)
    /\ DeleteStreamController(calls)
    /\ UNCHANGED <<toSink, entry, calls, delivered, sinkVars>>

OnClose ==
    /\ TakeAtReader("CLOSE")
    /\ IF isClosed
       THEN UNCHANGED <<isClosed, stream, deleting>>
       ELSE /\ isClosed' = TRUE
            /\ stream' = IF stream.queue = << >> THEN Closed(stream)
                         ELSE [stream EXCEPT !.closeRequested = TRUE]
            /\ DeleteStreamController(calls)
    /\ UNCHANGED <<toSink, entry, calls, delivered, sinkVars>>

OnError ==
    /\ TakeAtReader("ERROR")
    /\ stream' = Errored(stream)
    /\ DeleteStreamController(calls)
    /\ UNCHANGED <<toSink, entry, isClosed, calls, delivered, sinkVars>>

OnCancelComplete ==
    /\ TakeAtReader("CANCEL_COMPLETE")
    /\ calls' = [calls EXCEPT !.cancel = Outcome(Head(toReader).success)]
    /\ DeleteStreamController(calls')
    /\ UNCHANGED <<toSink, entry, isClosed, stream, delivered, sinkVars>>

\* The rest of deleteStreamController, once all it waits for has settled.
Settled(c) == calls[c] \in {"resolved", "rejected"}

Deleted(waitsFor) ==
    /\ waitsFor \in deleting /\ \A c \in waitsFor : Settled(c)
    /\ entry' = "deleted"
    /\ deleting' = deleting \ {waitsFor}
    /\ UNCHANGED <<toSink, toReader, isClosed, calls, stream, delivered, sinkVars>>

------------------------------------------------------------------------------
(* The filling end: _createStreamSink and GeneralStreamSink. What the action *)
(* handler does with its sink is up to it (producer); it is assumed to stop  *)
(* once a promise of its own has been rejected.                              *)

\* _createStreamSink, which starts the action handler with the new sink.
CreateStreamSink ==
    /\ TakeAtSink("ACTION")
    /\ sink' = [sink EXCEPT !.known = TRUE, !.desiredSize = Head(toSink).desiredSize,
                            !.ready = "resolved"]
    /\ producer' = [producer EXCEPT !.running = TRUE, !.starting = TRUE]
    /\ UNCHANGED <<toReader, readerVars, produced>>

\* Mutant of Wakes: a sink that is exactly full is not woken.
WakesBelowZero(desired) ==
    sink.desiredSize < 0 /\ desired > 0 /\ sink.ready = "pending"

\* A PULL that makes room fulfils the ready promise.
Wakes(desired) == sink.desiredSize <= 0 /\ desired > 0 /\ sink.ready = "pending"

OnPull ==
    /\ TakeAtSink("PULL")
    /\ IF ~sink.known
       THEN /\ PostToReader(Reply("PULL_COMPLETE", TRUE))
            /\ UNCHANGED <<sink, producer>>
       ELSE /\ LET desired == Head(toSink).desiredSize
               IN  sink' = [sink EXCEPT !.desiredSize = desired,
                                        !.ready = IF Wakes(desired) THEN "resolved" ELSE @]
            /\ producer' = [producer EXCEPT
                               !.pulls = @ + 1,
                               !.owed = IF producer.goesBy = "pull" THEN @ + 1 ELSE 0]
            /\ UNCHANGED toReader
    /\ UNCHANGED <<readerVars, produced>>

OnCancel ==
    /\ TakeAtSink("CANCEL")
    /\ IF ~sink.known
       THEN UNCHANGED <<sink, producer>>
       ELSE /\ sink' = [sink EXCEPT !.known = FALSE, !.isCancelled = TRUE,
                            !.ready = IF @ = "pending" THEN "rejected" ELSE @]
            /\ producer' = [producer EXCEPT !.cancels = @ + 1]
    /\ UNCHANGED <<toReader, readerVars, produced>>

\* A promise of the action handler (start), of onPull or of onCancel settles,
\* and its outcome is posted.
HandlerSettles(ok) ==
    /\ ok \/ Failing
    /\ LET p == IF ok THEN producer ELSE [producer EXCEPT !.running = FALSE]
       IN  \/ /\ producer.starting
              /\ producer' = [p EXCEPT !.starting = FALSE]
              /\ PostToReader(Reply("START_COMPLETE", ok))
           \/ /\ producer.pulls > 0
              /\ producer' = [p EXCEPT !.pulls = @ - 1]
              /\ PostToReader(Reply("PULL_COMPLETE", ok))
           \/ /\ producer.cancels > 0
              /\ producer' = [p EXCEPT !.cancels = @ - 1]
              /\ PostToReader(Reply("CANCEL_COMPLETE", ok))
    /\ UNCHANGED <<toSink, readerVars, sink, produced>>

\* Mutant of Fills: the ready promise is replaced only below zero.
FillsBelowZero(size) == sink.desiredSize > 0 /\ sink.desiredSize - size < 0

\* A chunk that takes the last room makes the ready promise a pending one.
Fills(size) == sink.desiredSize > 0 /\ sink.desiredSize - size <= 0

\* sink.enqueue(chunk, size): by a handler that waits for sink.ready, or by one
\* that enqueues one chunk for every pull.
Enqueue ==
    /\ producer.running /\ produced < MaxChunks
    /\ ~sink.isCancelled
    /\ IF producer.goesBy = "pull" THEN producer.owed > 0 ELSE sink.ready = "resolved"
    /\ \E size \in Sizes :
          /\ sink' = [sink EXCEPT
                !.desiredSize = @ - size,
                !.ready = IF Fills(size) THEN "pending" ELSE @]
          /\ PostToReader([kind |-> "ENQUEUE", target |-> Reader,
                           chunk |-> <<produced + 1, size>>])
    /\ produced' = produced + 1
    /\ producer' = [producer EXCEPT !.owed = IF producer.goesBy = "pull" THEN @ - 1 ELSE 0]
    /\ UNCHANGED <<toSink, readerVars>>

\* sink.close()
Close ==
    /\ producer.running /\ ~sink.isCancelled
    /\ sink' = [sink EXCEPT !.isCancelled = TRUE, !.known = FALSE]
    /\ PostToReader(Message("CLOSE", producer.closeTo))
    /\ UNCHANGED <<toSink, readerVars, produced, producer>>

\* sink.error(reason): the sink stays in streamSinks.
Error ==
    /\ producer.running /\ ~sink.isCancelled
    /\ sink' = [sink EXCEPT !.isCancelled = TRUE]
    /\ PostToReader(Message("ERROR", Reader))
    /\ UNCHANGED <<toSink, readerVars, produced, producer>>

------------------------------------------------------------------------------

ReaderCalls == Start \/ Read \/ Cancel

ReaderHandlers ==
    \/ IgnoredAtReader
    \/ OnStartComplete \/ OnPullComplete \/ OnCancelComplete
    \/ OnEnqueue \/ OnClose \/ OnError

SinkHandlers == CreateStreamSink \/ OnPull \/ OnCancel

SinkCalls == Enqueue \/ Close \/ Error

Next ==
    \/ ReaderCalls
    \/ ReaderHandlers
    \/ \E waitsFor \in deleting : Deleted(waitsFor)
    \/ SinkHandlers
    \/ \E ok \in BOOLEAN : HandlerSettles(ok)
    \/ SinkCalls

Spec == Init /\ [][Next]_vars

\* Both event loops run, so every message is taken; the handler's promises
\* settle; nobody is obliged to read, to cancel, to enqueue, to close or to fail.
Fairness ==
    /\ WF_vars(ReaderHandlers)
    /\ WF_vars(\E waitsFor \in deleting : Deleted(waitsFor))
    /\ WF_vars(SinkHandlers)
    /\ WF_vars(producer.starting /\ HandlerSettles(TRUE))
    /\ WF_vars(producer.pulls > 0 /\ HandlerSettles(TRUE))
    /\ WF_vars(producer.cancels > 0 /\ HandlerSettles(TRUE))

FairSpec == Spec /\ Fairness

\* A reader that keeps reading and a handler that produces all its chunks and
\* then closes.
BusySpec == FairSpec /\ WF_vars(Start) /\ WF_vars(Read) /\ WF_vars(Enqueue)
                     /\ WF_vars(produced = MaxChunks /\ Close)

------------------------------------------------------------------------------
(* What the protocol promises.                                              *)

Messages == [kind : {"ACTION", "PULL"}, target : {Writer}, desiredSize : Int]
            \cup [kind : {"CANCEL"}, target : {Writer}]
Replies  == [kind : {"START_COMPLETE", "PULL_COMPLETE", "CANCEL_COMPLETE"},
             target : {Reader}, success : BOOLEAN]
            \cup [kind : {"ENQUEUE"}, target : {Reader}, chunk : (1 .. MaxChunks) \X Sizes]
            \cup [kind : {"CLOSE"}, target : CloseAddresses]
            \cup [kind : {"ERROR"}, target : {Reader}]

TypeOK ==
    /\ \A i \in DOMAIN toSink : toSink[i] \in Messages
    /\ \A i \in DOMAIN toReader : toReader[i] \in Replies
    /\ entry \in {"none", "present", "deleted"}
    /\ isClosed \in BOOLEAN
    /\ calls \in [CallNames -> CallStates]
    /\ deleting \subseteq SUBSET CallNames
    /\ stream.state \in {"readable", "closed", "errored"}
    /\ \A i \in DOMAIN stream.queue : stream.queue[i] \in (1 .. MaxChunks) \X Sizes
    /\ stream.reads \in 0 .. MaxReads
    /\ sink.desiredSize \in Int /\ sink.ready \in {"pending", "resolved", "rejected"}
    /\ producer \in [running : BOOLEAN, starting : BOOLEAN, pulls : Nat, cancels : Nat,
                     owed : Nat, goesBy : Handlers, closeTo : CloseAddresses]
    /\ produced \in 0 .. MaxChunks
    /\ delivered \in Seq(1 .. MaxChunks)

NextForReader(kind) ==
    toReader # << >> /\ Head(toReader).target = Reader /\ Head(toReader).kind = kind

\* No message finds the reading end in a state its handler cannot cope with: the
\* record of the stream is still there, the call it settles is waiting, and the
\* platform accepts the chunk or the close. An exception here would be thrown
\* into the event loop and the message lost. And both ends are well typed.
NoHandlerThrows ==
    /\ TypeOK
    /\ toReader # << >> /\ Head(toReader).target = Reader => entry = "present"
    /\ NextForReader("START_COMPLETE")  => calls["start"] = "pending"
    /\ NextForReader("PULL_COMPLETE")   => calls["pull"] = "pending"
    /\ NextForReader("CANCEL_COMPLETE") => calls["cancel"] = "pending"
    /\ (NextForReader("ENQUEUE") \/ NextForReader("CLOSE")) /\ ~isClosed =>
          stream.state = "readable" /\ ~stream.closeRequested
    /\ stream.pulling /\ entry = "deleted" => Settled("pull")

\* Chunks arrive in the order they were enqueued, none twice, none skipped; and a
\* reader that is told "done", and has not cancelled, has got every chunk.
Delivery ==
    /\ delivered = [i \in 1 .. Len(delivered) |-> i]
    /\ stream.state = "closed" /\ calls["cancel"] = "null" => Len(delivered) = produced

\* The chunks in the reader's queue and on their way to it.
Buffered == produced - Len(delivered)

\* Backpressure: the sink's ready promise is pending exactly while it has no room,
\* so that a handler that waits for it is neither stopped with room to spare nor
\* let through without (a cancelled sink lets nobody wait). Although the
\* desiredSize of a PULL does not know of the chunks that are under way when it is
\* posted, the reader of such a handler never has to hold more than twice what it
\* asked for. (Nothing bounds what comes from a handler that answers a pull before it
\* has the chunk: both the read and the chunk that ends it may call pull.)
Backpressure ==
    /\ sink.known /\ ~sink.isCancelled => (sink.ready = "pending" <=> sink.desiredSize <= 0)
    /\ stream.state = "readable" /\ producer.goesBy = "ready" => Buffered <= 2 * HighWaterMark

\* deleteStreamController ends, so the record of an ended stream is released: the
\* start and pull calls it waits for are answered even if the sink is gone.
RecordReleased == (deleting # {}) ~> (deleting = {})

\* The reader is told in the end that there is no more.
ReaderTold == <>(stream.state # "readable")

\* ... and it is, if CLOSE bears the name of the reading thread.
ReaderToldIfAddressed == producer.closeTo = Reader => ReaderTold

==============================================================================
