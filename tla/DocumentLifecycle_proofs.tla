----------------------- MODULE DocumentLifecycle_proofs -----------------------
(***************************************************************************)
(* What holds of a document from getDocument() to destroy(), for any       *)
(* number of tasks, prompts and waits, whatever fails and whenever the     *)
(* application destroys it: it has one outcome, and it goes quiet.         *)
(*                                                                         *)
(* The invariant has four parts.  Until the worker is up there is nothing  *)
(* but its greeting; the opening of the document is one message, or one    *)
(* piece of work, at a time, and while there is any the promise is         *)
(* pending; so is the prompt for a password; and Terminate waits for all   *)
(* the tasks there are, so that the last message is its answer.            *)
(***************************************************************************)
EXTENDS DocumentReading_proofs

ToMain ==
    [type : {"ready", "test", "DocId", "DocIdFailed", "GetDoc", "DocException", "PasswordRequest",
             "DataLoaded", "End", "Terminated"}, task : Nat]
ToWorker ==
    [type : {"GetDocRequest", "Ready", "Password", "PasswordRejected", "Start", "Terminate"},
     task : Nat]

\* A port has messages of some types, or at most one.
Has(port, types)  == \E i \in 1 .. Len(port) : port[i].type \in types
Once(port, types) ==
    \A i, j \in 1 .. Len(port) : port[i].type \in types /\ port[j].type \in types => i = j
IsLast(port, type) == \A i \in 1 .. Len(port) : port[i].type = type => i = Len(port)

PortTypes == mainPort \in Seq(ToMain) /\ workerPort \in Seq(ToWorker)

LifeTypes ==
    /\ DocTypeOK /\ ~nullUsed /\ DOMAIN task = Tasks
    /\ ~alive => mainPort = << >>

\* Until the worker is up there is nothing but its greeting.
Beginning ==
    /\ boot \in {"starting", "greeted", "up"}
    /\ boot # "up" => /\ workerPort = << >> /\ handler = "none" /\ transport = "none"
                      /\ promise = "pending" /\ \A i \in Tasks : task[i] = "none"
    /\ boot = "starting" => mainPort = << >>
    /\ boot = "greeted" => mainPort \in {<<Msg("ready"), Msg("test")>>, <<Msg("test")>>}
    /\ boot = "up" => ~Has(mainPort, {"ready", "test"})

\* What the promise waits for: the request, DocId, Ready, the loading and its outcome.  There
\* is one of them at a time.
Outcome == {"GetDoc", "DocException"}
Loads   == setup \notin {"idle", "done", "failed", "dropped"}

Opening ==
    /\ Once(workerPort, {"GetDocRequest"}) /\ Once(mainPort, {"DocId"})
    /\ Once(workerPort, {"Ready"}) /\ Once(mainPort, Outcome)
    /\ \/ Has(workerPort, {"GetDocRequest"}) \/ Has(mainPort, {"DocId"}) \/ Has(workerPort, {"Ready"})
       \/ Loads \/ Has(mainPort, Outcome)
       => promise = "pending"
    /\ Has(workerPort, {"GetDocRequest"}) => handler = "none"
    /\ Has(mainPort, {"DocId"}) => handler # "none" /\ transport = "none"
    /\ handler = "none" => transport = "none"
    /\ transport = "none" => /\ setup = "idle" /\ ~Has(workerPort, {"Ready"})
                             /\ ~Has(workerPort, {"Terminate"}) /\ ~docTerminated
    /\ Has(workerPort, {"Ready"}) => setup = "idle"
    /\ Has(mainPort, Outcome) => setup \in {"done", "failed"}

\* The prompt: a request, a question, an answer.  Task 0 waits for it.
Answer == {"Password", "PasswordRejected"}

Prompting ==
    /\ Once(mainPort, {"PasswordRequest"}) /\ Once(workerPort, Answer)
    /\ Has(mainPort, {"PasswordRequest"}) => prompt # "asked" /\ ~Has(workerPort, Answer)
    /\ prompt = "asked" => ~Has(workerPort, Answer)
    /\ Has(mainPort, {"PasswordRequest"}) \/ prompt = "asked" \/ Has(workerPort, Answer)
          => setup = "password" /\ 0 \in WorkerTasks

\* Terminate waits for every task; then nothing is left that would post.
Ending ==
    /\ docTerminated => waitOn = WorkerTasks
    /\ \A i \in Tasks : task[i] \in {"running", "data", "sink"} => i \in WorkerTasks
    /\ handler = "null" => docTerminated /\ WorkerTasks = {}
    /\ loadedStream # "none" => setup # "idle"
    /\ Has(mainPort, {"Terminated"}) => handler = "null"
    /\ IsLast(mainPort, "Terminated")
    /\ transport = "closed" => handler = "null" /\ mainPort = << >>

LifeInv ==
    /\ PortTypes /\ LifeTypes
    /\ alive => Beginning /\ Opening /\ Prompting /\ Ending

LEMMA MessageIsPosted ==
    ASSUME NEW port, NEW m, NEW after, IsPosted(port, m, after), NEW types
    PROVE  /\ Has(after, types) <=> Has(port, types) \/ m.type \in types
           /\ Once(port, types) /\ ~(Has(port, types) /\ m.type \in types) => Once(after, types)
  <1>1. Has(after, types) => Has(port, types) \/ m.type \in types
    BY DEF IsPosted, Has
  <1>2. Has(port, types) \/ m.type \in types => Has(after, types)
    BY DEF IsPosted, Has
  <1>3. ASSUME Once(port, types), ~(Has(port, types) /\ m.type \in types)
        PROVE  Once(after, types)
    BY <1>3 DEF IsPosted, Once, Has
  <1> QED BY <1>1, <1>2, <1>3

LEMMA MessageIsTaken ==
    ASSUME NEW port, NEW m, NEW after, IsTaken(port, m, after), NEW types
    PROVE  /\ Has(port, types) <=> Has(after, types) \/ m.type \in types
           /\ Once(port, types) => Once(after, types) /\ ~(Has(after, types) /\ m.type \in types)
  <1>1. Has(port, types) => Has(after, types) \/ m.type \in types
    BY DEF IsTaken, Has
  <1>2. Has(after, types) \/ m.type \in types => Has(port, types)
    BY DEF IsTaken, Has
  <1>3. ASSUME Once(port, types)
        PROVE  Once(after, types) /\ ~(Has(after, types) /\ m.type \in types)
    <2>1. \A i, j \in 1 .. Len(after) : after[i].type \in types /\ after[j].type \in types
                                           => i + 1 = j + 1
      BY <1>3 DEF IsTaken, Once
    <2>2. Once(after, types)
      BY <2>1 DEF Once, IsTaken
    <2>3. ASSUME NEW i \in 1 .. Len(after), after[i].type \in types, m.type \in types PROVE FALSE
      <3>1. i + 1 = 1
        BY <1>3, <2>3 DEF IsTaken, Once
      <3> QED BY <3>1
    <2> QED BY <2>2, <2>3 DEF Has
  <1> QED BY <1>1, <1>2, <1>3

LEMMA NothingIsThere ==
    \A types : /\ ~Has(<< >>, types) /\ Once(<< >>, types)
               /\ \A type : IsLast(<< >>, type)
  <1>1. Len(<< >>) = 0 /\ 1 .. 0 = {}
    BY EmptySeq
  <1> QED BY <1>1 DEF Has, Once, IsLast

\* What an action posts at a port, and what it takes, in terms of what is there.
Posts(port, type, after) ==
    /\ \A types : /\ Has(after, types) <=> Has(port, types) \/ type \in types
                  /\ Once(port, types) /\ ~(Has(port, types) /\ type \in types) => Once(after, types)
    /\ IsLast(port, "Terminated") /\ ~Has(port, {"Terminated"}) => IsLast(after, "Terminated")

Takes(port, type, after) ==
    /\ \A types : /\ Has(port, types) <=> Has(after, types) \/ type \in types
                  /\ Once(port, types) => Once(after, types) /\ ~(Has(after, types) /\ type \in types)
    /\ IsLast(port, "Terminated") => IsLast(after, "Terminated")
    /\ port # << >> /\ Has(port, {type})
    /\ IsLast(port, "Terminated") /\ type = "Terminated" => after = << >>

LEMMA PostsOne ==
    ASSUME NEW S, NEW port \in Seq(S), NEW m \in S, NEW after, after = Append(port, m),
           NEW type, m.type = type
    PROVE  after \in Seq(S) /\ Posts(port, type, after) /\ after # << >>
  <1>1. after \in Seq(S) /\ IsPosted(port, m, after)
    BY Posted
  <1>2. \A types : /\ Has(after, types) <=> Has(port, types) \/ m.type \in types
                   /\ Once(port, types) /\ ~(Has(port, types) /\ m.type \in types)
                        => Once(after, types)
    BY <1>1, MessageIsPosted
  <1>3. ASSUME ~Has(port, {"Terminated"}) PROVE IsLast(after, "Terminated")
    <2>1. \A i \in 1 .. Len(port) : port[i].type # "Terminated"
      BY <1>3 DEF Has
    <2> QED BY <1>1, <2>1 DEF IsPosted, IsLast
  <1>4. after # << >>
    BY <1>1, EmptySeq DEF IsPosted
  <1> QED BY <1>1, <1>2, <1>3, <1>4 DEF Posts

LEMMA TakesOne ==
    ASSUME NEW S, NEW port \in Seq(S), port # << >>, NEW after, after = Tail(port),
           NEW type, Head(port).type = type
    PROVE  after \in Seq(S) /\ Head(port) \in S /\ Takes(port, type, after)
  <1> DEFINE m == Head(port)
  <1>1. after \in Seq(S) /\ m \in S /\ IsTaken(port, m, after)
    BY Taken
  <1> HIDE DEF m
  <1>2. \A types : /\ Has(port, types) <=> Has(after, types) \/ m.type \in types
                   /\ Once(port, types)
                        => Once(after, types) /\ ~(Has(after, types) /\ m.type \in types)
    BY <1>1, MessageIsTaken
  <1>3. m.type = type
    BY DEF m
  <1>4. Has(port, {type})
    BY <1>2, <1>3
  <1>5. ASSUME IsLast(port, "Terminated") PROVE IsLast(after, "Terminated")
    <2>1. ASSUME NEW i \in 1 .. Len(after), after[i].type = "Terminated" PROVE i = Len(after)
      <3>1. i + 1 = Len(port)
        BY <1>1, <1>5, <2>1 DEF IsTaken, IsLast
      <3>2. Len(port) = Len(after) + 1 /\ Len(after) \in Nat
        BY <1>1 DEF IsTaken
      <3> QED BY <3>1, <3>2
    <2> QED BY <2>1 DEF IsLast
  <1>6. ASSUME IsLast(port, "Terminated"), type = "Terminated" PROVE after = << >>
    <2>1. Len(port) = 1
      BY <1>1, <1>3, <1>6 DEF IsTaken, IsLast
    <2>2. Len(after) = 0
      BY <1>1, <2>1 DEF IsTaken
    <2> QED BY <1>1, <2>2, EmptySeq
  <1> QED BY <1>1, <1>2, <1>3, <1>4, <1>5, <1>6 DEF Takes, m

\* A message that is appended by \o, at the main thread's port.
LEMMA MainPosts ==
    ASSUME NEW port \in Seq(ToMain), NEW m \in ToMain
    PROVE  /\ Append(port, m) \in Seq(ToMain) /\ Posts(port, m.type, Append(port, m))
           /\ port \o <<m>> = Append(port, m)
  <1>1. Append(port, m) \in Seq(ToMain) /\ Posts(port, m.type, Append(port, m))
    BY PostsOne
  <1>2. port \o <<m>> = Append(port, m)
    OBVIOUS
  <1> QED BY <1>1, <1>2

LEMMA WorkerPosts ==
    ASSUME NEW port \in Seq(ToWorker), NEW m \in ToWorker
    PROVE  /\ Append(port, m) \in Seq(ToWorker) /\ Posts(port, m.type, Append(port, m))
           /\ port \o <<m>> = Append(port, m)
  <1>1. Append(port, m) \in Seq(ToWorker) /\ Posts(port, m.type, Append(port, m))
    BY PostsOne
  <1>2. port \o <<m>> = Append(port, m)
    OBVIOUS
  <1> QED BY <1>1, <1>2

LEMMA MessagesAre ==
    /\ \A type \in {"ready", "test", "DocId", "DocIdFailed", "GetDoc", "DocException",
                    "PasswordRequest", "DataLoaded", "Terminated"} :
          Msg(type) \in ToMain /\ Msg(type).type = type
    /\ \A type \in {"GetDocRequest", "Ready", "Password", "PasswordRejected", "Terminate"} :
          Msg(type) \in ToWorker /\ Msg(type).type = type
    /\ \A i \in Tasks : /\ TaskMsg("Start", i) \in ToWorker /\ TaskMsg("Start", i).type = "Start"
                        /\ TaskMsg("End", i) \in ToMain /\ TaskMsg("End", i).type = "End"
  BY TasksAssumption DEF Msg, TaskMsg, ToMain, ToWorker

LEMMA TakenAtMain ==
    ASSUME LifeInv, NEW type, TakeAtMain(type)
    PROVE  /\ alive /\ mainPort' \in Seq(ToMain) /\ Takes(mainPort, type, mainPort')
           /\ type \notin {"ready", "test"} => boot = "up"
           /\ type \in {"ready", "test"} => boot = "greeted"
  <1>1. alive /\ mainPort # << >> /\ Head(mainPort).type = type /\ mainPort' = Tail(mainPort)
    BY DEF TakeAtMain
  <1>2. mainPort \in Seq(ToMain) /\ Beginning
    BY <1>1 DEF LifeInv, PortTypes
  <1>3. mainPort' \in Seq(ToMain) /\ Takes(mainPort, type, mainPort')
    BY <1>1, <1>2, TakesOne
  <1>4. ASSUME boot = "greeted" PROVE type \in {"ready", "test"}
    <2>1. mainPort = <<Msg("ready"), Msg("test")>> \/ mainPort = <<Msg("test")>>
      BY <1>2, <1>4 DEF Beginning
    <2>2. Head(mainPort) = Msg("ready") \/ Head(mainPort) = Msg("test")
      BY <2>1
    <2> QED BY <1>1, <2>2 DEF Msg
  <1>5. boot # "starting"
    BY <1>1, <1>2 DEF Beginning
  <1>6. ASSUME boot = "up" PROVE type \notin {"ready", "test"}
    <2>1. ~Has(mainPort, {"ready", "test"})
      BY <1>2, <1>6 DEF Beginning
    <2>2. Has(mainPort, {"ready", "test"}) <=> Has(mainPort', {"ready", "test"}) \/ type \in {"ready", "test"}
      BY <1>3 DEF Takes
    <2> QED BY <2>1, <2>2
  <1>7. boot \in {"starting", "greeted", "up"}
    BY <1>2 DEF Beginning
  <1> QED BY <1>1, <1>3, <1>4, <1>5, <1>6, <1>7

LEMMA TakenAtWorker ==
    ASSUME LifeInv, NEW type, TakeAtWorker(type)
    PROVE  /\ alive /\ boot = "up" /\ workerPort' \in Seq(ToWorker)
           /\ Takes(workerPort, type, workerPort') /\ Head(workerPort) \in ToWorker
  <1>1. alive /\ workerPort # << >> /\ Head(workerPort).type = type /\ workerPort' = Tail(workerPort)
    BY DEF TakeAtWorker
  <1>2. workerPort \in Seq(ToWorker) /\ Beginning
    BY <1>1 DEF LifeInv, PortTypes
  <1>3. /\ workerPort' \in Seq(ToWorker) /\ Takes(workerPort, type, workerPort')
        /\ Head(workerPort) \in ToWorker
    BY <1>1, <1>2, TakesOne
  <1> QED BY <1>1, <1>2, <1>3 DEF Beginning

\* The worker is gone: nothing is left to be said of it.
LEMMA LifeEnds ==
    ASSUME LifeInv, DocTypeOK', UNCHANGED docWorker, KillWorker PROVE LifeInv'
  <1>1. alive' = FALSE /\ workerPort' = << >> /\ mainPort' = << >>
        /\ nullUsed' = nullUsed /\ task' = task
    BY DEF KillWorker, docWorker
  <1>2. PortTypes'
    BY <1>1, EmptySeq DEF PortTypes
  <1>3. LifeTypes'
    BY <1>1 DEF LifeInv, LifeTypes
  <1> QED BY <1>1, <1>2, <1>3 DEF LifeInv

LEMMA LifeStays ==
    ASSUME LifeInv, UNCHANGED docVars PROVE LifeInv'
  <1>1. /\ UNCHANGED docMain /\ UNCHANGED docWorker /\ UNCHANGED <<alive, workerPort, mainPort>>
    BY DEF docVars
  <1>2. PortTypes' <=> PortTypes
    BY <1>1 DEF PortTypes
  <1>3. LifeTypes' <=> LifeTypes
    BY <1>1 DEF LifeTypes, DocTypeOK, docMain, docWorker
  <1>4. Beginning' <=> Beginning
    BY <1>1 DEF Beginning, docMain, docWorker
  <1>5. Opening' <=> Opening
    BY <1>1 DEF Opening, Loads, docMain, docWorker
  <1>6. Prompting' <=> Prompting
    BY <1>1 DEF Prompting, docMain, docWorker
  <1>7. Ending' <=> Ending
    BY <1>1 DEF Ending, docMain, docWorker
  <1> QED BY <1>1, <1>2, <1>3, <1>4, <1>5, <1>6, <1>7 DEF LifeInv

LEMMA LifeStarts ==
    ASSUME DocInit PROVE LifeInv
  <1>1. PortTypes
    BY EmptySeq DEF DocInit, PortTypes
  <1>2. LifeTypes
    <2>1. prompts \in 0 .. MaxPrompts /\ 0 \in 0 .. MaxWaits
      BY TasksAssumption DEF DocInit
    <2>2. waits \in [Tasks -> 0 .. MaxWaits] /\ DOMAIN task = Tasks
      BY <2>1 DEF DocInit
    <2>3. \A i \in Tasks : task[i] = "none"
      BY DEF DocInit
    <2> QED BY <2>1, <2>2, <2>3 DEF DocInit, LifeTypes, DocTypeOK
  <1>3. Beginning
    BY DEF DocInit, Beginning
  <1>4. /\ \A types : ~Has(mainPort, types) /\ ~Has(workerPort, types)
                      /\ Once(mainPort, types) /\ Once(workerPort, types)
        /\ IsLast(mainPort, "Terminated")
    BY NothingIsThere DEF DocInit
  <1>5. Opening
    BY <1>4 DEF DocInit, Opening, Loads
  <1>6. Prompting
    BY <1>4 DEF DocInit, Prompting
  <1>7. Ending
    BY <1>4 DEF DocInit, Ending
  <1> QED BY <1>1, <1>2, <1>3, <1>5, <1>6, <1>7 DEF LifeInv

LEMMA WorkerHasStarted ==
    ASSUME LifeInv, WorkerStarts PROVE LifeInv'
  <1>1. /\ boot = "starting" /\ alive /\ boot' = "greeted"
        /\ mainPort' = mainPort \o <<Msg("ready"), Msg("test")>>
        /\ UNCHANGED <<ownWorker, alive, destroyed, destroyDone, promise, transport, prompt>>
        /\ UNCHANGED docWorker /\ UNCHANGED workerPort
    BY DEF WorkerStarts
  <1>2. PortTypes /\ LifeTypes /\ Beginning /\ Opening /\ Prompting /\ Ending
    BY <1>1 DEF LifeInv
  <1>3. mainPort' = <<Msg("ready"), Msg("test")>>
    <2>1. mainPort = << >>
      BY <1>1, <1>2 DEF Beginning
    <2> QED BY <1>1, <2>1
  <1>4. \A types : /\ {"ready", "test"} \cap types = {} => ~Has(mainPort', types)
                   /\ ~Has(mainPort, types)
                   /\ {"ready", "test"} \cap types = {} => Once(mainPort', types)
    <2>1. mainPort = << >>
      BY <1>1, <1>2 DEF Beginning
    <2>2. \A i \in 1 .. Len(mainPort') : mainPort'[i].type \in {"ready", "test"}
      <3>1. Len(mainPort') = 2 /\ mainPort'[1].type = "ready" /\ mainPort'[2].type = "test"
        BY <1>3 DEF Msg
      <3>2. \A i \in 1 .. 2 : i = 1 \/ i = 2
        OBVIOUS
      <3> QED BY <3>1, <3>2
    <2> QED BY <2>1, <2>2, NothingIsThere DEF Has, Once
  <1>5. PortTypes'
    <2>1. Msg("ready") \in ToMain /\ Msg("test") \in ToMain
      BY MessagesAre
    <2>2. mainPort' \in Seq(ToMain)
      BY <1>3, <2>1
    <2> QED BY <1>1, <1>2, <2>2 DEF PortTypes
  <1>6. LifeTypes'
    BY <1>1, <1>2 DEF LifeTypes, DocTypeOK, docWorker
  <1>7. Beginning'
    BY <1>1, <1>2, <1>3 DEF Beginning, docWorker
  <1>8. Opening'
    BY <1>1, <1>2, <1>4 DEF Opening, Outcome, Loads, docWorker
  <1>9. Prompting'
    BY <1>1, <1>2, <1>4 DEF Prompting, docWorker
  <1>10. Ending'
    <2>1. ~Has(mainPort', {"Terminated"})
      BY <1>4
    <2>2. IsLast(mainPort', "Terminated")
      BY <2>1 DEF Has, IsLast
    <2> QED BY <1>1, <1>2, <2>1, <2>2 DEF Ending, Beginning, docWorker
  <1> QED BY <1>1, <1>5, <1>6, <1>7, <1>8, <1>9, <1>10 DEF LifeInv

LEMMA WorkerHasFailed ==
    ASSUME LifeInv, WorkerFails PROVE LifeInv'
  <1>1. /\ KillWorker /\ UNCHANGED docWorker
        /\ boot' \in {"rejected", "stuck"} /\ promise' \in {promise, "rejected"}
        /\ UNCHANGED <<ownWorker, destroyed, destroyDone, transport, prompt>>
    BY DEF WorkerFails, Settle
  <1>2. DocTypeOK
    BY DEF LifeInv, LifeTypes
  <1>3. DocTypeOK'
    <2>1. boot' \in {"starting", "greeted", "up", "rejected", "stuck"}
      BY <1>1
    <2>2. promise' \in {"pending", "resolved", "rejected"}
      BY <1>1, <1>2 DEF DocTypeOK
    <2>3. alive' \in BOOLEAN
      BY <1>1 DEF KillWorker
    <2> QED BY <1>1, <1>2, <2>1, <2>2, <2>3 DEF DocTypeOK, docWorker
  <1> QED BY <1>1, <1>3, LifeEnds

LEMMA WorkerIsRejected ==
    ASSUME LifeInv, TerminateEarly PROVE LifeInv'
  <1>1. /\ KillWorker /\ UNCHANGED docWorker
        /\ boot' = "rejected" /\ promise' \in {promise, "rejected"}
        /\ UNCHANGED <<ownWorker, destroyed, destroyDone, transport, prompt>>
    BY DEF TerminateEarly, Settle
  <1>2. DocTypeOK
    BY DEF LifeInv, LifeTypes
  <1>3. DocTypeOK'
    <2>1. boot' \in {"starting", "greeted", "up", "rejected", "stuck"}
      BY <1>1
    <2>2. promise' \in {"pending", "resolved", "rejected"}
      BY <1>1, <1>2 DEF DocTypeOK
    <2>3. alive' \in BOOLEAN
      BY <1>1 DEF KillWorker
    <2> QED BY <1>1, <1>2, <2>1, <2>2, <2>3 DEF DocTypeOK, docWorker
  <1> QED BY <1>1, <1>3, LifeEnds

\* The main thread reads a message that changes nothing else.
LEMMA MessageIsOver ==
    ASSUME LifeInv, NEW type, TakeAtMain(type), type \notin {"ready", "test"},
           UNCHANGED <<docMain, docWorker, alive, workerPort>>
    PROVE  LifeInv'
  <1>1. /\ alive /\ mainPort' \in Seq(ToMain) /\ Takes(mainPort, type, mainPort') /\ boot = "up"
    BY TakenAtMain
  <1>2. PortTypes /\ LifeTypes /\ Beginning /\ Opening /\ Prompting /\ Ending
    BY <1>1 DEF LifeInv
  <1>3. /\ \A types : (Has(mainPort', types) => Has(mainPort, types))
                      /\ (Once(mainPort, types) => Once(mainPort', types))
        /\ IsLast(mainPort, "Terminated") => IsLast(mainPort', "Terminated")
        /\ mainPort # << >>
    BY <1>1 DEF Takes
  <1>4. PortTypes'
    BY <1>1, <1>2 DEF PortTypes
  <1>5. LifeTypes'
    BY <1>1, <1>2 DEF LifeTypes, DocTypeOK, docMain, docWorker
  <1>6. Beginning'
    BY <1>1, <1>2, <1>3 DEF Beginning, docMain, docWorker
  <1>7. Opening'
    BY <1>1, <1>2, <1>3 DEF Opening, Loads, docMain, docWorker
  <1>8. Prompting'
    BY <1>1, <1>2, <1>3 DEF Prompting, docMain, docWorker
  <1>9. Ending'
    BY <1>1, <1>2, <1>3 DEF Ending, docMain, docWorker
  <1> QED BY <1>1, <1>4, <1>5, <1>6, <1>7, <1>8, <1>9 DEF LifeInv

LEMMA WorkerIsReady ==
    ASSUME LifeInv, OnWorkerReady PROVE LifeInv'
  <1>1. CASE TerminateEarly
    BY <1>1, WorkerIsRejected
  <1>2. CASE TakeAtMain("ready") /\ UNCHANGED <<docMain, docWorker, alive, workerPort>>
    <2>1. /\ alive /\ mainPort' \in Seq(ToMain) /\ boot = "greeted" /\ mainPort # << >>
          /\ mainPort' = Tail(mainPort) /\ Head(mainPort).type = "ready"
          /\ Takes(mainPort, "ready", mainPort')
      BY <1>2, TakenAtMain DEF TakeAtMain
    <2>2. PortTypes /\ LifeTypes /\ Beginning /\ Opening /\ Prompting /\ Ending
      BY <2>1 DEF LifeInv
    <2>3. mainPort' = <<Msg("test")>>
      <3>1. CASE mainPort = <<Msg("ready"), Msg("test")>>
        BY <2>1, <3>1
      <3>2. CASE mainPort = <<Msg("test")>>
        <4>1. Head(mainPort).type = "test"
          BY <3>2 DEF Msg
        <4> QED BY <2>1, <4>1
      <3> QED BY <2>1, <2>2, <3>1, <3>2 DEF Beginning
    <2>4. /\ \A types : (Has(mainPort', types) => Has(mainPort, types))
                        /\ (Once(mainPort, types) => Once(mainPort', types))
          /\ IsLast(mainPort, "Terminated") => IsLast(mainPort', "Terminated")
      BY <2>1 DEF Takes
    <2>5. PortTypes'
      BY <1>2, <2>1, <2>2 DEF PortTypes
    <2>6. LifeTypes'
      BY <1>2, <2>1, <2>2 DEF LifeTypes, DocTypeOK, docMain, docWorker
    <2>7. Beginning'
      BY <1>2, <2>1, <2>2, <2>3 DEF Beginning, docMain, docWorker
    <2>8. Opening'
      BY <1>2, <2>2, <2>4 DEF Opening, Loads, docMain, docWorker
    <2>9. Prompting'
      BY <1>2, <2>2, <2>4 DEF Prompting, docMain, docWorker
    <2>10. Ending'
      <3>1. transport = "none"
        BY <2>1, <2>2 DEF Beginning
      <3> QED BY <1>2, <2>2, <2>4, <3>1 DEF Ending, docMain, docWorker
    <2> QED BY <1>2, <2>1, <2>5, <2>6, <2>7, <2>8, <2>9, <2>10 DEF LifeInv
  <1> QED BY <1>1, <1>2 DEF OnWorkerReady

\* The worker is up: the request for the document goes out.
LEMMA WorkerIsUp ==
    ASSUME LifeInv, OnTest PROVE LifeInv'
  <1>1. CASE TerminateEarly
    BY <1>1, WorkerIsRejected
  <1>2. CASE /\ TakeAtMain("test") /\ boot' = "up"
             /\ \/ promise' \in {promise, "rejected"} /\ workerPort' = workerPort
                \/ workerPort' = Append(workerPort, Msg("GetDocRequest")) /\ promise' = promise
             /\ UNCHANGED <<ownWorker, alive, destroyed, destroyDone, transport, prompt, docWorker>>
    <2>1. /\ alive /\ mainPort' \in Seq(ToMain) /\ boot = "greeted" /\ mainPort # << >>
          /\ mainPort' = Tail(mainPort) /\ Head(mainPort).type = "test"
      BY <1>2, TakenAtMain DEF TakeAtMain
    <2>2. PortTypes /\ LifeTypes /\ Beginning /\ Opening /\ Prompting /\ Ending
      BY <2>1 DEF LifeInv
    <2>3. mainPort' = << >>
      <3>1. CASE mainPort = <<Msg("ready"), Msg("test")>>
        <4>1. Head(mainPort).type = "ready"
          BY <3>1 DEF Msg
        <4> QED BY <2>1, <4>1
      <3>2. CASE mainPort = <<Msg("test")>>
        BY <2>1, <3>2
      <3> QED BY <2>1, <2>2, <3>1, <3>2 DEF Beginning
    <2>4. /\ \A types : ~Has(mainPort', types) /\ Once(mainPort', types)
          /\ IsLast(mainPort', "Terminated")
      BY <2>3, NothingIsThere
    <2>5. /\ workerPort = << >> /\ handler = "none" /\ transport = "none" /\ promise = "pending"
          /\ workerPort \in Seq(ToWorker)
      BY <2>1, <2>2 DEF Beginning, PortTypes
    <2>6. /\ workerPort' \in Seq(ToWorker)
          /\ \A types : ("GetDocRequest" \notin types => ~Has(workerPort', types))
                        /\ Once(workerPort', types)
          /\ Has(workerPort', {"GetDocRequest"}) => promise' = "pending"
      <3>1. Msg("GetDocRequest") \in ToWorker /\ Msg("GetDocRequest").type = "GetDocRequest"
        BY MessagesAre
      <3>2. \A types : ~Has(workerPort, types) /\ Once(workerPort, types)
        BY <2>5, NothingIsThere
      <3>3. CASE workerPort' = workerPort
        BY <2>5, <3>2, <3>3
      <3>4. CASE workerPort' = Append(workerPort, Msg("GetDocRequest")) /\ promise' = promise
        <4>1. workerPort' \in Seq(ToWorker) /\ Posts(workerPort, "GetDocRequest", workerPort')
          BY <2>5, <3>1, <3>4, PostsOne
        <4> QED BY <2>5, <3>2, <3>4, <4>1 DEF Posts
      <3> QED BY <1>2, <3>3, <3>4
    <2>7. PortTypes'
      BY <2>1, <2>6 DEF PortTypes
    <2>8. LifeTypes'
      <3>1. promise' \in {"pending", "resolved", "rejected"}
        BY <1>2, <2>5
      <3> QED BY <1>2, <2>1, <2>2, <3>1 DEF LifeTypes, DocTypeOK, docWorker
    <2>9. Beginning'
      BY <1>2, <2>4 DEF Beginning
    <2>10. setup = "idle" /\ ~docTerminated /\ ~Loads
      BY <2>2, <2>5 DEF Opening, Loads
    <2>11. Opening'
      BY <1>2, <2>4, <2>5, <2>6, <2>10 DEF Opening, Outcome, Loads, docWorker
    <2>12. Prompting'
      BY <1>2, <2>2, <2>4, <2>6 DEF Prompting, Answer, docWorker
    <2>13. Ending'
      BY <1>2, <2>2, <2>4, <2>5 DEF Ending, docWorker
    <2> QED BY <1>2, <2>1, <2>7, <2>8, <2>9, <2>11, <2>12, <2>13 DEF LifeInv
  <1>3. TerminateEarly \/ (/\ TakeAtMain("test") /\ boot' = "up"
             /\ \/ promise' \in {promise, "rejected"} /\ workerPort' = workerPort
                \/ workerPort' = Append(workerPort, Msg("GetDocRequest")) /\ promise' = promise
             /\ UNCHANGED <<ownWorker, alive, destroyed, destroyDone, transport, prompt, docWorker>>)
    BY DEF OnTest, Settle
  <1> QED BY <1>1, <1>2, <1>3

\* The identifier comes: a transport is made, unless the task has been destroyed.
LEMMA DocumentIsNamed ==
    ASSUME LifeInv, OnDocId PROVE LifeInv'
  <1>1. /\ TakeAtMain("DocId")
        /\ \/ promise' \in {promise, "rejected"} /\ UNCHANGED <<transport, workerPort>>
           \/ transport' = "open" /\ workerPort' = Append(workerPort, Msg("Ready")) /\ promise' = promise
        /\ UNCHANGED <<alive, ownWorker, boot, destroyed, destroyDone, prompt, docWorker>>
    BY DEF OnDocId, Settle
  <1>2. alive /\ mainPort' \in Seq(ToMain) /\ Takes(mainPort, "DocId", mainPort') /\ boot = "up"
    BY <1>1, TakenAtMain
  <1>3. PortTypes /\ LifeTypes /\ Beginning /\ Opening /\ Prompting /\ Ending
    BY <1>2 DEF LifeInv
  <1>4. /\ Has(mainPort, {"DocId"})
        /\ \A types : (Has(mainPort', types) => Has(mainPort, types))
                      /\ (Once(mainPort, types) => Once(mainPort', types))
        /\ IsLast(mainPort', "Terminated")
        /\ ~Has(mainPort', {"DocId"})
    BY <1>2, <1>3 DEF Takes, Opening, Ending
  <1>5. /\ handler # "none" /\ transport = "none" /\ promise = "pending" /\ setup = "idle"
        /\ ~Has(workerPort, {"Ready"}) /\ ~Has(workerPort, {"GetDocRequest"})
        /\ ~Has(workerPort, {"Terminate"}) /\ ~docTerminated /\ ~Has(mainPort, Outcome)
        /\ workerPort \in Seq(ToWorker)
    BY <1>3, <1>4 DEF Opening, PortTypes
  <1>6. /\ workerPort' \in Seq(ToWorker)
        /\ \A types : /\ Once(workerPort, types) /\ ~(Has(workerPort, types) /\ "Ready" \in types)
                            => Once(workerPort', types)
                      /\ Has(workerPort', types) => Has(workerPort, types) \/ "Ready" \in types
        /\ \/ ~Has(workerPort', {"Ready"})
           \/ transport' = "open" /\ promise' = "pending"
    <2>1. CASE workerPort' = workerPort
      BY <1>5, <2>1
    <2>2. CASE transport' = "open" /\ workerPort' = Append(workerPort, Msg("Ready")) /\ promise' = promise
      <3>1. Msg("Ready") \in ToWorker /\ Msg("Ready").type = "Ready"
        BY MessagesAre
      <3>2. workerPort' \in Seq(ToWorker) /\ Posts(workerPort, "Ready", workerPort')
        BY <1>5, <2>2, <3>1, PostsOne
      <3> QED BY <1>5, <2>2, <3>2 DEF Posts
    <2> QED BY <1>1, <2>1, <2>2
  <1>7. /\ promise' \in {"pending", "rejected"} /\ transport' \in {"none", "open"}
    BY <1>1, <1>5
  <1>8. PortTypes'
    BY <1>2, <1>6 DEF PortTypes
  <1>9. LifeTypes'
    <2>1. promise' \in {"pending", "resolved", "rejected"}
          /\ transport' \in {"none", "open", "closing", "closed"}
      BY <1>7
    <2> QED BY <1>1, <1>2, <1>3, <2>1 DEF LifeTypes, DocTypeOK, docWorker
  <1>10. Beginning'
    BY <1>1, <1>2, <1>3, <1>4 DEF Beginning
  <1>11. Opening'
    BY <1>1, <1>3, <1>4, <1>5, <1>6, <1>7 DEF Opening, Loads, docWorker
  <1>12. Prompting'
    BY <1>1, <1>3, <1>4, <1>6 DEF Prompting, Answer, docWorker
  <1>13. Ending'
    BY <1>1, <1>3, <1>4, <1>7 DEF Ending, docWorker
  <1> QED BY <1>1, <1>2, <1>8, <1>9, <1>10, <1>11, <1>12, <1>13 DEF LifeInv

\* The outcome comes.
LEMMA OutcomeIsHeard ==
    ASSUME LifeInv, OnGetDoc \/ OnDocException PROVE LifeInv'
  <1>1. /\ TakeAtMain("GetDoc") \/ TakeAtMain("DocException")
        /\ promise' \in {promise, "resolved", "rejected"}
        /\ UNCHANGED <<alive, ownWorker, boot, destroyed, destroyDone, transport, prompt,
                       docWorker, workerPort>>
    BY DEF OnGetDoc, OnDocException, Settle
  <1>2. /\ alive /\ mainPort' \in Seq(ToMain) /\ boot = "up"
        /\ Takes(mainPort, "GetDoc", mainPort') \/ Takes(mainPort, "DocException", mainPort')
    BY <1>1, TakenAtMain
  <1>3. PortTypes /\ LifeTypes /\ Beginning /\ Opening /\ Prompting /\ Ending
    BY <1>2 DEF LifeInv
  <1>4. /\ Has(mainPort, Outcome)
        /\ \A types : (Has(mainPort', types) => Has(mainPort, types))
                      /\ (Once(mainPort, types) => Once(mainPort', types))
        /\ IsLast(mainPort', "Terminated")
        /\ ~Has(mainPort', Outcome) /\ mainPort # << >>
    <2>1. "GetDoc" \in Outcome /\ "DocException" \in Outcome
      BY DEF Outcome
    <2> QED BY <1>2, <1>3, <2>1 DEF Takes, Opening, Ending
  <1>5. promise = "pending" /\ setup \in {"done", "failed"}
    BY <1>3, <1>4 DEF Opening
  <1>6. /\ ~Has(workerPort, {"GetDocRequest"}) /\ ~Has(mainPort, {"DocId"})
        /\ ~Has(workerPort, {"Ready"}) /\ ~Loads
    BY <1>3, <1>5 DEF Opening, Loads
  <1>7. PortTypes'
    BY <1>1, <1>2, <1>3 DEF PortTypes
  <1>8. LifeTypes'
    <2>1. promise' \in {"pending", "resolved", "rejected"}
      BY <1>1, <1>5
    <2> QED BY <1>1, <1>2, <1>3, <2>1 DEF LifeTypes, DocTypeOK, docWorker
  <1>9. Beginning'
    BY <1>1, <1>2, <1>3, <1>4 DEF Beginning
  <1>10. Opening'
    BY <1>1, <1>3, <1>4, <1>5, <1>6 DEF Opening, Loads, docWorker
  <1>11. Prompting'
    BY <1>1, <1>3, <1>4 DEF Prompting, docWorker
  <1>12. Ending'
    BY <1>1, <1>3, <1>4 DEF Ending, docWorker
  <1> QED BY <1>1, <1>2, <1>7, <1>8, <1>9, <1>10, <1>11, <1>12 DEF LifeInv

\* What posting at the worker's port leaves as it is.
LEMMA AnswerIsPosted ==
    ASSUME NEW port \in Seq(ToWorker), NEW type \in Answer, NEW after, after = Append(port, Msg(type)),
           ~Has(port, Answer)
    PROVE  /\ after \in Seq(ToWorker) /\ Once(after, Answer) /\ Has(after, Answer)
           /\ \A types : types \cap Answer = {} => /\ Has(after, types) <=> Has(port, types)
                                                   /\ Once(port, types) => Once(after, types)
  <1>1. Msg(type) \in ToWorker /\ Msg(type).type = type
    BY MessagesAre DEF Answer
  <1>2. after \in Seq(ToWorker) /\ Posts(port, type, after)
    BY <1>1, PostsOne
  <1>3. Once(port, Answer)
    BY DEF Has, Once
  <1>4. \A types : types \cap Answer = {} => type \notin types
    OBVIOUS
  <1> QED BY <1>2, <1>3, <1>4 DEF Posts

\* The prompt becomes a question or an answer.
LEMMA PasswordIsAsked ==
    ASSUME LifeInv, OnPasswordRequest PROVE LifeInv'
  <1>1. /\ TakeAtMain("PasswordRequest")
        /\ \/ prompt' = "asked" /\ UNCHANGED workerPort
           \/ prompt' = "settled" /\ workerPort' = Append(workerPort, Msg("PasswordRejected"))
        /\ UNCHANGED <<alive, ownWorker, boot, destroyed, destroyDone, promise, transport, docWorker>>
    BY DEF OnPasswordRequest
  <1>2. /\ alive /\ mainPort' \in Seq(ToMain) /\ boot = "up"
        /\ Takes(mainPort, "PasswordRequest", mainPort')
    BY <1>1, TakenAtMain
  <1>3. PortTypes /\ LifeTypes /\ Beginning /\ Opening /\ Prompting /\ Ending
    BY <1>2 DEF LifeInv
  <1>4. /\ Has(mainPort, {"PasswordRequest"})
        /\ \A types : (Has(mainPort', types) => Has(mainPort, types))
                      /\ (Once(mainPort, types) => Once(mainPort', types))
        /\ IsLast(mainPort', "Terminated")
        /\ ~Has(mainPort', {"PasswordRequest"}) /\ mainPort # << >>
    BY <1>2, <1>3 DEF Takes, Prompting, Ending
  <1>5. /\ prompt # "asked" /\ ~Has(workerPort, Answer) /\ setup = "password" /\ 0 \in WorkerTasks
        /\ workerPort \in Seq(ToWorker)
    BY <1>3, <1>4 DEF Prompting, PortTypes
  <1>6. /\ workerPort' \in Seq(ToWorker) /\ Once(workerPort', Answer)
        /\ prompt' \in {"asked", "settled"} /\ (prompt' = "asked" => ~Has(workerPort', Answer))
        /\ \A types : types \cap Answer = {} => /\ Has(workerPort', types) <=> Has(workerPort, types)
                                                /\ Once(workerPort, types) => Once(workerPort', types)
    <2>1. CASE prompt' = "asked" /\ UNCHANGED workerPort
      BY <1>3, <1>5, <2>1 DEF Prompting
    <2>2. CASE prompt' = "settled" /\ workerPort' = Append(workerPort, Msg("PasswordRejected"))
      <3>1. "PasswordRejected" \in Answer
        BY DEF Answer
      <3> QED BY <1>5, <2>2, <3>1, AnswerIsPosted
    <2> QED BY <1>1, <2>1, <2>2
  <1>7. PortTypes'
    BY <1>2, <1>6 DEF PortTypes
  <1>8. LifeTypes'
    <2>1. prompt' \in {"none", "asked", "settled"}
      BY <1>6
    <2> QED BY <1>1, <1>2, <1>3, <2>1 DEF LifeTypes, DocTypeOK, docWorker
  <1>9. Beginning'
    BY <1>1, <1>2, <1>3, <1>4 DEF Beginning
  <1>10. Opening'
    <2>1. /\ Has(workerPort', {"GetDocRequest"}) <=> Has(workerPort, {"GetDocRequest"})
          /\ Has(workerPort', {"Ready"}) <=> Has(workerPort, {"Ready"})
          /\ Has(workerPort', {"Terminate"}) <=> Has(workerPort, {"Terminate"})
          /\ Once(workerPort', {"GetDocRequest"}) /\ Once(workerPort', {"Ready"})
      BY <1>3, <1>6 DEF Answer, Opening
    <2> QED BY <1>1, <1>3, <1>4, <2>1 DEF Opening, Loads, docWorker
  <1>11. Prompting'
    BY <1>1, <1>3, <1>4, <1>5, <1>6 DEF Prompting, docWorker
  <1>12. Ending'
    BY <1>1, <1>3, <1>4 DEF Ending, docWorker
  <1> QED BY <1>1, <1>2, <1>7, <1>8, <1>9, <1>10, <1>11, <1>12 DEF LifeInv

LEMMA PromptIsAnswered ==
    ASSUME LifeInv, NEW type \in Answer, AnswerPrompt(type) PROVE LifeInv'
  <1>1. /\ alive /\ prompt = "asked" /\ prompt' = "settled"
        /\ workerPort' = Append(workerPort, Msg(type))
        /\ UNCHANGED <<alive, ownWorker, boot, destroyed, destroyDone, promise, transport, docWorker,
                       mainPort>>
    BY DEF AnswerPrompt
  <1>2. PortTypes /\ LifeTypes /\ Beginning /\ Opening /\ Prompting /\ Ending
    BY <1>1 DEF LifeInv
  <1>3. /\ ~Has(workerPort, Answer) /\ setup = "password" /\ 0 \in WorkerTasks
        /\ ~Has(mainPort, {"PasswordRequest"}) /\ workerPort \in Seq(ToWorker)
    BY <1>1, <1>2 DEF Prompting, PortTypes
  <1>4. /\ workerPort' \in Seq(ToWorker) /\ Once(workerPort', Answer)
        /\ \A types : types \cap Answer = {} => /\ Has(workerPort', types) <=> Has(workerPort, types)
                                                /\ Once(workerPort, types) => Once(workerPort', types)
    BY <1>1, <1>3, AnswerIsPosted
  <1>5. boot = "up"
    BY <1>2, <1>3 DEF Beginning, Opening
  <1>6. PortTypes'
    BY <1>1, <1>2, <1>4 DEF PortTypes
  <1>7. LifeTypes'
    BY <1>1, <1>2 DEF LifeTypes, DocTypeOK, docWorker
  <1>8. Beginning'
    BY <1>1, <1>2, <1>5 DEF Beginning
  <1>9. Opening'
    <2>1. /\ Has(workerPort', {"GetDocRequest"}) <=> Has(workerPort, {"GetDocRequest"})
          /\ Has(workerPort', {"Ready"}) <=> Has(workerPort, {"Ready"})
          /\ Has(workerPort', {"Terminate"}) <=> Has(workerPort, {"Terminate"})
          /\ Once(workerPort', {"GetDocRequest"}) /\ Once(workerPort', {"Ready"})
      BY <1>2, <1>4 DEF Answer, Opening
    <2> QED BY <1>1, <1>2, <2>1 DEF Opening, Loads, docWorker
  <1>10. Prompting'
    BY <1>1, <1>2, <1>3, <1>4 DEF Prompting, docWorker
  <1>11. Ending'
    BY <1>1, <1>2 DEF Ending, docWorker
  <1> QED BY <1>1, <1>6, <1>7, <1>8, <1>9, <1>10, <1>11 DEF LifeInv

\* A page asks for its operators or its text.
LEMMA TaskIsSent ==
    ASSUME LifeInv, NEW i \in Tasks, StartTask(i) PROVE LifeInv'
  <1>1. /\ alive /\ transport \in {"open", "closing"} /\ promise = "resolved" /\ task[i] = "none"
        /\ task' = [task EXCEPT ![i] = "sent"]
        /\ workerPort' = Append(workerPort, TaskMsg("Start", i))
        /\ UNCHANGED <<docMain, alive, handler, setup, hasManager, loadedStream, prompts,
                       docTerminated, WorkerTasks, waitOn, waits, nullUsed, mainPort>>
    BY DEF StartTask
  <1>2. PortTypes /\ LifeTypes /\ Beginning /\ Opening /\ Prompting /\ Ending
    BY <1>1 DEF LifeInv
  <1>3. workerPort' \in Seq(ToWorker) /\ Posts(workerPort, "Start", workerPort')
    <2>1. TaskMsg("Start", i) \in ToWorker /\ TaskMsg("Start", i).type = "Start"
      BY MessagesAre
    <2> QED BY <1>1, <1>2, <2>1, PostsOne DEF PortTypes
  <1>4. \A types : "Start" \notin types => /\ Has(workerPort', types) <=> Has(workerPort, types)
                                           /\ Once(workerPort, types) => Once(workerPort', types)
    BY <1>3 DEF Posts
  <1>5. DOMAIN task' = Tasks /\ \A j \in Tasks : task'[j] = IF j = i THEN "sent" ELSE task[j]
    BY <1>1, <1>2 DEF LifeTypes
  <1>6. boot = "up"
    BY <1>1, <1>2 DEF Beginning
  <1>7. PortTypes'
    BY <1>1, <1>2, <1>3 DEF PortTypes
  <1>8. LifeTypes'
    BY <1>1, <1>2, <1>5 DEF LifeTypes, DocTypeOK, docMain
  <1>9. Beginning'
    BY <1>1, <1>2, <1>6 DEF Beginning, docMain
  <1>10. Opening'
    BY <1>1, <1>2, <1>4 DEF Opening, Loads, docMain
  <1>11. Prompting'
    BY <1>1, <1>2, <1>4 DEF Prompting, Answer, docMain
  <1>12. Ending'
    BY <1>1, <1>2, <1>5 DEF Ending, docMain
  <1> QED BY <1>1, <1>7, <1>8, <1>9, <1>10, <1>11, <1>12 DEF LifeInv

\* destroy() tells the worker, before it answers a prompt.
LEMMA DestroyTells ==
    ASSUME LifeInv, Destroy, transport = "open" PROVE LifeInv'
  <1> DEFINE between == Append(workerPort, Msg("Terminate"))
  <1>1. /\ destroyed' = TRUE /\ transport' = "closing"
        /\ prompt' = IF prompt = "asked" THEN "settled" ELSE prompt
        /\ workerPort' = between
              \o (IF prompt = "asked" THEN <<Msg("PasswordRejected")>> ELSE << >>)
        /\ UNCHANGED <<alive, mainPort, destroyDone>>
        /\ UNCHANGED <<ownWorker, boot, promise, docWorker>>
    BY DEF Destroy
  <1>2. PortTypes /\ LifeTypes
    BY DEF LifeInv
  <1>3. Msg("Terminate") \in ToWorker /\ Msg("Terminate").type = "Terminate"
        /\ Msg("PasswordRejected") \in ToWorker /\ Msg("PasswordRejected").type = "PasswordRejected"
    BY MessagesAre
  <1>4. between \in Seq(ToWorker) /\ Posts(workerPort, "Terminate", between)
    BY <1>2, <1>3, PostsOne DEF PortTypes
  <1> HIDE DEF between
  <1>5. workerPort' = IF prompt = "asked" THEN Append(between, Msg("PasswordRejected")) ELSE between
    <2>1. CASE prompt = "asked"
      <3>1. workerPort' = between \o <<Msg("PasswordRejected")>>
        BY <1>1, <2>1
      <3> QED BY <1>3, <1>4, <2>1, <3>1, WorkerPosts
    <2>2. CASE prompt # "asked"
      <3>1. between \o << >> = between
        BY <1>4, ConcatEmptySeq
      <3> QED BY <1>1, <2>2, <3>1
    <2> QED BY <2>1, <2>2
  <1>6. workerPort' \in Seq(ToWorker)
    BY <1>3, <1>4, <1>5, PostsOne
  <1>7. PortTypes'
    BY <1>1, <1>2, <1>6 DEF PortTypes
  <1>8. LifeTypes'
    <2>1. prompt' \in {"none", "asked", "settled"}
      BY <1>1, <1>2 DEF LifeTypes, DocTypeOK
    <2> QED BY <1>1, <1>2, <2>1 DEF LifeTypes, DocTypeOK, docWorker
  <1>9. ASSUME alive PROVE Beginning' /\ Opening' /\ Prompting' /\ Ending'
    <2>1. Beginning /\ Opening /\ Prompting /\ Ending
      BY <1>9 DEF LifeInv
    <2>2. boot = "up"
      BY <2>1 DEF Beginning
    <2>3. "Terminate" \notin Answer /\ "PasswordRejected" \in Answer
      BY DEF Answer
    <2>4. \A types : "Terminate" \notin types => /\ Has(between, types) <=> Has(workerPort, types)
                                                 /\ Once(workerPort, types) => Once(between, types)
      BY <1>4 DEF Posts
    <2>5. Once(between, Answer) /\ (prompt = "asked" => ~Has(between, Answer))
      BY <2>1, <2>3, <2>4 DEF Prompting
    <2>6. /\ Once(workerPort', Answer)
          /\ Has(workerPort', Answer) => Has(between, Answer) \/ prompt = "asked"
          /\ \A types : types \cap Answer = {} => /\ Has(workerPort', types) <=> Has(between, types)
                                                  /\ Once(between, types) => Once(workerPort', types)
      <3>1. CASE prompt = "asked"
        <4>1. workerPort' = Append(between, Msg("PasswordRejected"))
          BY <1>5, <3>1
        <4> QED BY <1>4, <2>3, <2>5, <3>1, <4>1, AnswerIsPosted
      <3>2. CASE prompt # "asked"
        BY <1>5, <2>5, <3>2
      <3> QED BY <3>1, <3>2
    <2>7. /\ Has(workerPort', {"GetDocRequest"}) <=> Has(workerPort, {"GetDocRequest"})
          /\ Has(workerPort', {"Ready"}) <=> Has(workerPort, {"Ready"})
          /\ Once(workerPort', {"GetDocRequest"}) /\ Once(workerPort', {"Ready"})
          /\ Has(workerPort', Answer) => Has(workerPort, Answer) \/ prompt = "asked"
      <3>1. {"GetDocRequest"} \cap Answer = {} /\ {"Ready"} \cap Answer = {}
        BY DEF Answer
      <3> QED BY <2>1, <2>3, <2>4, <2>6, <3>1 DEF Opening
    <2>8. prompt' # "asked" /\ ~Has(mainPort, {"DocId"})
      BY <1>1, <2>1 DEF Opening
    <2>9. Beginning'
      BY <1>1, <2>1, <2>2 DEF Beginning
    <2>10. Opening'
      BY <1>1, <2>1, <2>7, <2>8 DEF Opening, Loads, docWorker
    <2>11. Prompting'
      BY <1>1, <2>1, <2>6, <2>7, <2>8 DEF Prompting, docWorker
    <2>12. Ending'
      BY <1>1, <2>1 DEF Ending, docWorker
    <2> QED BY <2>9, <2>10, <2>11, <2>12
  <1> QED BY <1>1, <1>7, <1>8, <1>9 DEF LifeInv

LEMMA TaskIsDestroyed ==
    ASSUME LifeInv, Destroy PROVE LifeInv'
  <1>1. CASE transport = "open"
    BY <1>1, DestroyTells
  <1>2. CASE transport = "none"
    <2>1. /\ destroyed' = TRUE /\ destroyDone' = TRUE
          /\ UNCHANGED <<transport, prompt, ownWorker, boot, promise>> /\ UNCHANGED docWorker
          /\ KillWorker \/ UNCHANGED <<alive, workerPort, mainPort>>
      BY <1>2 DEF Destroy
    <2>2. DocTypeOK /\ LifeTypes
      BY DEF LifeInv, LifeTypes
    <2>3. CASE KillWorker
      <3>1. DocTypeOK'
        <4>1. alive' \in BOOLEAN /\ destroyed' \in BOOLEAN /\ destroyDone' \in BOOLEAN
          BY <2>1, <2>3 DEF KillWorker
        <4> QED BY <2>1, <2>2, <4>1 DEF DocTypeOK, docWorker
      <3> QED BY <2>1, <2>3, <3>1, LifeEnds
    <2>4. CASE UNCHANGED <<alive, workerPort, mainPort>>
      <3>1. PortTypes'
        BY <2>4 DEF LifeInv, PortTypes
      <3>2. LifeTypes'
        BY <2>1, <2>2, <2>4 DEF LifeTypes, DocTypeOK, docWorker
      <3>3. Beginning => Beginning'
        BY <2>1, <2>4 DEF Beginning, docWorker
      <3>4. Opening => Opening'
        BY <2>1, <2>4 DEF Opening, Loads, docWorker
      <3>5. Prompting => Prompting'
        BY <2>1, <2>4 DEF Prompting, docWorker
      <3>6. Ending => Ending'
        BY <2>1, <2>4 DEF Ending, docWorker
      <3> QED BY <2>4, <3>1, <3>2, <3>3, <3>4, <3>5, <3>6 DEF LifeInv
    <2> QED BY <2>1, <2>3, <2>4
  <1> QED BY <1>1, <1>2 DEF Destroy

\* The answer to Terminate is the last message.
LEMMA TerminatedIsHeard ==
    ASSUME LifeInv, OnTerminated PROVE LifeInv'
  <1>1. /\ alive /\ mainPort # << >> /\ Head(mainPort).type = "Terminated"
        /\ transport' = "closed" /\ destroyDone' = TRUE
        /\ KillWorker \/ (mainPort' = Tail(mainPort) /\ UNCHANGED <<alive, workerPort>>)
        /\ UNCHANGED <<ownWorker, boot, destroyed, promise, prompt>> /\ UNCHANGED docWorker
    BY DEF OnTerminated
  <1>2. PortTypes /\ LifeTypes /\ Beginning /\ Opening /\ Prompting /\ Ending /\ DocTypeOK
    BY <1>1 DEF LifeInv, LifeTypes
  <1>3. CASE KillWorker
    <2>1. DocTypeOK'
      <3>1. alive' \in BOOLEAN /\ transport' \in {"none", "open", "closing", "closed"}
            /\ destroyDone' \in BOOLEAN
        BY <1>1, <1>3 DEF KillWorker
      <3> QED BY <1>1, <1>2, <3>1 DEF DocTypeOK, docWorker
    <2> QED BY <1>1, <1>3, <2>1, LifeEnds
  <1>4. CASE mainPort' = Tail(mainPort) /\ UNCHANGED <<alive, workerPort>>
    <2>1. /\ mainPort' \in Seq(ToMain) /\ Takes(mainPort, "Terminated", mainPort') /\ boot = "up"
      BY <1>1, <1>4, TakenAtMain DEF TakeAtMain
    <2>2. mainPort' = << >> /\ Has(mainPort, {"Terminated"})
      BY <1>2, <2>1 DEF Takes, Ending
    <2>3. handler = "null"
      BY <1>2, <2>2 DEF Ending
    <2>4. /\ \A types : ~Has(mainPort', types) /\ Once(mainPort', types)
          /\ IsLast(mainPort', "Terminated")
      BY <2>2, NothingIsThere
    <2>5. PortTypes'
      BY <1>2, <1>4, <2>1 DEF PortTypes
    <2>6. LifeTypes'
      BY <1>1, <1>2, <1>4, <2>2 DEF LifeTypes, DocTypeOK, docWorker
    <2>7. Beginning'
      BY <1>1, <1>2, <2>1, <2>4 DEF Beginning
    <2>8. Opening'
      BY <1>1, <1>2, <1>4, <2>3, <2>4 DEF Opening, Loads, docWorker
    <2>9. Prompting'
      BY <1>1, <1>2, <1>4, <2>4 DEF Prompting, docWorker
    <2>10. Ending'
      BY <1>1, <1>2, <2>2, <2>3, <2>4 DEF Ending, docWorker
    <2> QED BY <1>1, <1>4, <2>5, <2>6, <2>7, <2>8, <2>9, <2>10 DEF LifeInv
  <1> QED BY <1>1, <1>3, <1>4

\* A message to the main thread that the invariant does not count, or has not got yet.
LEMMA MainIsTold ==
    ASSUME PortTypes, NEW m \in ToMain, NEW type, m.type = type, mainPort' = Append(mainPort, m)
    PROVE  /\ mainPort' \in Seq(ToMain) /\ Posts(mainPort, type, mainPort')
           /\ \A types : type \notin types => /\ Has(mainPort', types) <=> Has(mainPort, types)
                                              /\ Once(mainPort, types) => Once(mainPort', types)
  <1>1. mainPort' \in Seq(ToMain) /\ Posts(mainPort, type, mainPort')
    BY PostsOne DEF PortTypes
  <1> QED BY <1>1 DEF Posts

\* The request is heard.
LEMMA DocumentIsAsked ==
    ASSUME LifeInv, OnGetDocRequest PROVE LifeInv'
  <1>1. /\ TakeAtWorker("GetDocRequest")
        /\ \/ handler' = "set" /\ mainPort' = Append(mainPort, Msg("DocId"))
           \/ mainPort' = Append(mainPort, Msg("DocIdFailed")) /\ UNCHANGED handler
        /\ UNCHANGED <<docMain, alive, setup, hasManager, loadedStream, prompts, docTerminated,
                       WorkerTasks, task, waits, waitOn, nullUsed>>
    BY DEF OnGetDocRequest
  <1>2. /\ alive /\ boot = "up" /\ workerPort' \in Seq(ToWorker)
        /\ Takes(workerPort, "GetDocRequest", workerPort')
    BY <1>1, TakenAtWorker
  <1>3. PortTypes /\ LifeTypes /\ Beginning /\ Opening /\ Prompting /\ Ending
    BY <1>2 DEF LifeInv
  <1>4. /\ Has(workerPort, {"GetDocRequest"}) /\ ~Has(workerPort', {"GetDocRequest"})
        /\ \A types : (Has(workerPort', types) => Has(workerPort, types))
                      /\ (Once(workerPort, types) => Once(workerPort', types))
    BY <1>2, <1>3 DEF Takes, Opening
  <1>5. /\ handler = "none" /\ promise = "pending" /\ transport = "none" /\ setup = "idle"
        /\ ~Has(mainPort, {"DocId"}) /\ ~Has(mainPort, {"Terminated"})
        /\ ~Has(mainPort, Outcome) /\ ~Loads /\ ~docTerminated
    BY <1>3, <1>4 DEF Opening, Ending, Loads
  <1>6. /\ mainPort' \in Seq(ToMain) /\ Once(mainPort', {"DocId"}) /\ IsLast(mainPort', "Terminated")
        /\ Has(mainPort', {"DocId"}) => handler' = "set"
        /\ \A types : types \cap {"DocId", "DocIdFailed"} = {}
                        => /\ Has(mainPort', types) <=> Has(mainPort, types)
                           /\ Once(mainPort, types) => Once(mainPort', types)
    <2>1. /\ Msg("DocId") \in ToMain /\ Msg("DocId").type = "DocId"
          /\ Msg("DocIdFailed") \in ToMain /\ Msg("DocIdFailed").type = "DocIdFailed"
      BY MessagesAre
    <2>2. IsLast(mainPort, "Terminated") /\ Once(mainPort, {"DocId"})
      BY <1>3 DEF Ending, Opening
    <2>3. CASE handler' = "set" /\ mainPort' = Append(mainPort, Msg("DocId"))
      <3>1. mainPort' \in Seq(ToMain) /\ Posts(mainPort, "DocId", mainPort')
        BY <1>3, <2>1, <2>3, MainIsTold
      <3> QED BY <1>5, <2>2, <2>3, <3>1 DEF Posts
    <2>4. CASE mainPort' = Append(mainPort, Msg("DocIdFailed")) /\ UNCHANGED handler
      <3>1. mainPort' \in Seq(ToMain) /\ Posts(mainPort, "DocIdFailed", mainPort')
        BY <1>3, <2>1, <2>4, MainIsTold
      <3> QED BY <1>5, <2>2, <2>4, <3>1 DEF Posts
    <2> QED BY <1>1, <2>3, <2>4
  <1>7. /\ handler' \in {"none", "set"} /\ Once(mainPort', Outcome) /\ ~Has(mainPort', Outcome)
        /\ ~Has(mainPort', {"Terminated"}) /\ ~Has(mainPort', {"ready", "test"})
        /\ (Has(mainPort', {"PasswordRequest"}) <=> Has(mainPort, {"PasswordRequest"}))
        /\ Once(mainPort', {"PasswordRequest"})
    <2>1. handler' \in {"none", "set"}
      BY <1>1, <1>5
    <2> QED BY <1>2, <1>3, <1>5, <1>6, <2>1 DEF Outcome, Beginning, Opening, Prompting
  <1>8. PortTypes'
    BY <1>2, <1>6 DEF PortTypes
  <1>9. LifeTypes'
    <2>1. handler' \in {"none", "set", "null"}
      BY <1>7
    <2> QED BY <1>1, <1>2, <1>3, <2>1 DEF LifeTypes, DocTypeOK, docMain
  <1>10. Beginning'
    BY <1>1, <1>2, <1>3, <1>7 DEF Beginning, docMain
  <1>11. Opening'
    BY <1>1, <1>3, <1>4, <1>5, <1>6, <1>7 DEF Opening, Loads, docMain
  <1>12. Prompting'
    BY <1>1, <1>3, <1>4, <1>7 DEF Prompting, docMain
  <1>13. Ending'
    BY <1>1, <1>3, <1>5, <1>6, <1>7 DEF Ending, docMain
  <1> QED BY <1>1, <1>2, <1>8, <1>9, <1>10, <1>11, <1>12, <1>13 DEF LifeInv

LEMMA SetupStarts ==
    ASSUME LifeInv, OnReady PROVE LifeInv'
  <1>1. /\ TakeAtWorker("Ready") /\ setup' = "manager"
        /\ UNCHANGED <<docMain, alive, handler, hasManager, loadedStream, prompts,
                       docTerminated, WorkerTasks, task, waits, waitOn, nullUsed, mainPort>>
    BY DEF OnReady
  <1>2. /\ alive /\ boot = "up" /\ workerPort' \in Seq(ToWorker)
        /\ Takes(workerPort, "Ready", workerPort')
    BY <1>1, TakenAtWorker
  <1>3. PortTypes /\ LifeTypes /\ Beginning /\ Opening /\ Prompting /\ Ending
    BY <1>2 DEF LifeInv
  <1>4. /\ Has(workerPort, {"Ready"}) /\ ~Has(workerPort', {"Ready"})
        /\ \A types : (Has(workerPort', types) => Has(workerPort, types))
                      /\ (Once(workerPort, types) => Once(workerPort', types))
    BY <1>2, <1>3 DEF Takes, Opening
  <1>5. /\ promise = "pending" /\ setup = "idle" /\ transport # "none" /\ ~Has(mainPort, Outcome)
    BY <1>3, <1>4 DEF Opening
  <1>6. PortTypes'
    BY <1>1, <1>2, <1>3 DEF PortTypes
  <1>7. LifeTypes'
    BY <1>1, <1>2, <1>3 DEF LifeTypes, DocTypeOK, docMain
  <1>8. Beginning'
    BY <1>1, <1>2, <1>3 DEF Beginning, docMain
  <1>9. Opening'
    BY <1>1, <1>3, <1>4, <1>5 DEF Opening, Loads, docMain
  <1>10. Prompting'
    BY <1>1, <1>3, <1>4, <1>5 DEF Prompting, docMain
  <1>11. Ending'
    BY <1>1, <1>3 DEF Ending, docMain
  <1> QED BY <1>1, <1>2, <1>6, <1>7, <1>8, <1>9, <1>10, <1>11 DEF LifeInv

\* Loading goes on, or is dropped; nobody is told.
LEMMA SetupGoesOn ==
    ASSUME LifeInv, alive, setup \in {"manager", "loading", "stream", "recovering"},
           setup' \in {"loading", "stream", "recovering", "dropped"},
           hasManager' \in BOOLEAN, loadedStream' \in {"none", "loading", "loaded", "stopped"},
           UNCHANGED <<docMain, alive, handler, prompts, docTerminated, WorkerTasks, task,
                       waits, waitOn, nullUsed, workerPort, mainPort>>
    PROVE  LifeInv'
  <1>1. PortTypes /\ LifeTypes /\ Beginning /\ Opening /\ Prompting /\ Ending
    BY DEF LifeInv
  <1>2. /\ promise = "pending" /\ transport # "none" /\ ~Has(mainPort, Outcome)
        /\ ~Has(workerPort, {"Ready"}) /\ setup # "idle"
    BY <1>1 DEF Opening, Loads
  <1>3. ~Has(mainPort, {"PasswordRequest"}) /\ prompt # "asked" /\ ~Has(workerPort, Answer)
    BY <1>1 DEF Prompting
  <1>4. PortTypes'
    BY <1>1 DEF PortTypes
  <1>5. LifeTypes'
    <2>1. setup' \in {"idle", "manager", "loading", "stream", "recovering", "password", "done",
                      "failed", "dropped"}
      OBVIOUS
    <2> QED BY <1>1, <2>1 DEF LifeTypes, DocTypeOK, docMain
  <1>6. Beginning'
    BY <1>1 DEF Beginning, docMain
  <1>7. Opening'
    BY <1>1, <1>2 DEF Opening, Loads, docMain
  <1>8. Prompting'
    BY <1>1, <1>3 DEF Prompting, docMain
  <1>9. Ending'
    BY <1>1 DEF Ending, docMain
  <1> QED BY <1>4, <1>5, <1>6, <1>7, <1>8, <1>9 DEF LifeInv

LEMMA SetupSteps ==
    ASSUME LifeInv,
           ManagerReady \/ Recover \/ ((ManagerFails \/ Loaded) /\ (Drop \/ NeedRecovery))
    PROVE  LifeInv'
  <1>1. hasManager \in BOOLEAN /\ loadedStream \in {"none", "loading", "loaded", "stopped"}
    BY DEF LifeInv, LifeTypes, DocTypeOK
  <1>2. CASE ManagerReady
    BY <1>1, <1>2, SetupGoesOn DEF ManagerReady
  <1>3. CASE Recover
    BY <1>1, <1>3, SetupGoesOn DEF Recover
  <1>4. CASE (ManagerFails \/ Loaded) /\ (Drop \/ NeedRecovery)
    <2>1. /\ alive /\ setup \in {"manager", "loading", "stream", "recovering"}
          /\ UNCHANGED <<docMain, alive, handler, hasManager, loadedStream, docTerminated, task,
                         waits, waitOn, workerPort>>
      BY <1>4 DEF ManagerFails, Loaded
    <2>2. /\ setup' \in {"loading", "stream", "recovering", "dropped"}
          /\ UNCHANGED <<WorkerTasks, prompts, mainPort, nullUsed>>
      BY <1>4 DEF Drop, NeedRecovery
    <2> QED BY <1>1, <2>1, <2>2, SetupGoesOn
  <1> QED BY <1>2, <1>3, <1>4

\* The whole file has come.
LEMMA StreamHasLoaded ==
    ASSUME LifeInv, StreamLoaded PROVE LifeInv'
  <1>1. /\ alive /\ loadedStream = "loading" /\ ~docTerminated /\ loadedStream' = "loaded"
        /\ mainPort' = mainPort \o <<Msg("DataLoaded")>> /\ nullUsed' = (nullUsed \/ handler # "set")
        /\ UNCHANGED <<docMain, alive, handler, setup, hasManager, prompts, docTerminated,
                       WorkerTasks, task, waits, waitOn, workerPort>>
    BY DEF StreamLoaded, PostToMain
  <1>2. PortTypes /\ LifeTypes /\ Beginning /\ Opening /\ Prompting /\ Ending
    BY <1>1 DEF LifeInv
  <1>3. setup # "idle" /\ handler = "set" /\ boot = "up"
    <2>1. setup # "idle" /\ handler # "null"
      BY <1>1, <1>2 DEF Ending
    <2>2. transport # "none" /\ handler # "none"
      BY <1>2, <2>1 DEF Opening
    <2> QED BY <1>2, <2>1, <2>2 DEF Beginning, LifeTypes, DocTypeOK
  <1>4. /\ mainPort' \in Seq(ToMain) /\ Posts(mainPort, "DataLoaded", mainPort')
        /\ \A types : "DataLoaded" \notin types => /\ Has(mainPort', types) <=> Has(mainPort, types)
                                                   /\ Once(mainPort, types) => Once(mainPort', types)
    <2>1. Msg("DataLoaded") \in ToMain /\ Msg("DataLoaded").type = "DataLoaded"
      BY MessagesAre
    <2>2. mainPort' = Append(mainPort, Msg("DataLoaded"))
      BY <1>1, <1>2, <2>1, MainPosts DEF PortTypes
    <2> QED BY <1>2, <2>1, <2>2, MainIsTold
  <1>5. /\ IsLast(mainPort', "Terminated") /\ ~Has(mainPort', {"Terminated"})
    BY <1>2, <1>3, <1>4 DEF Posts, Ending
  <1>6. PortTypes'
    BY <1>1, <1>2, <1>4 DEF PortTypes
  <1>7. LifeTypes'
    BY <1>1, <1>2, <1>3 DEF LifeTypes, DocTypeOK, docMain
  <1>8. Beginning'
    BY <1>1, <1>2, <1>3, <1>4 DEF Beginning, docMain
  <1>9. Opening'
    BY <1>1, <1>2, <1>4 DEF Opening, Outcome, Loads, docMain
  <1>10. Prompting'
    BY <1>1, <1>2, <1>4 DEF Prompting, docMain
  <1>11. Ending'
    BY <1>1, <1>2, <1>3, <1>5 DEF Ending, docMain
  <1> QED BY <1>1, <1>6, <1>7, <1>8, <1>9, <1>10, <1>11 DEF LifeInv

\* The data stops; nobody is told.
LEMMA DataHasStopped ==
    ASSUME LifeInv, DataStops PROVE LifeInv'
  <1>1. /\ alive /\ loadedStream' = "stopped"
        /\ loadedStream = "loading" \/ setup = "manager"
        /\ UNCHANGED <<docMain, alive, handler, setup, hasManager, prompts, docTerminated,
                       WorkerTasks, task, waits, waitOn, nullUsed, workerPort, mainPort>>
    BY DEF DataStops
  <1>2. PortTypes /\ LifeTypes /\ Beginning /\ Opening /\ Prompting /\ Ending
    BY <1>1 DEF LifeInv
  <1>3. setup # "idle"
    BY <1>1, <1>2 DEF Ending
  <1>4. PortTypes'
    BY <1>1, <1>2 DEF PortTypes
  <1>5. LifeTypes'
    BY <1>1, <1>2 DEF LifeTypes, DocTypeOK, docMain
  <1>6. Beginning'
    BY <1>1, <1>2 DEF Beginning, docMain
  <1>7. Opening'
    BY <1>1, <1>2 DEF Opening, Loads, docMain
  <1>8. Prompting'
    BY <1>1, <1>2 DEF Prompting, docMain
  <1>9. Ending'
    BY <1>1, <1>2, <1>3 DEF Ending, docMain
  <1> QED BY <1>4, <1>5, <1>6, <1>7, <1>8, <1>9 DEF LifeInv

\* While a document loads, its promise is pending and no outcome has been posted; so the
\* outcome can be.
LEMMA WhileLoading ==
    ASSUME LifeInv, alive, Loads
    PROVE  /\ PortTypes /\ LifeTypes /\ Beginning /\ Opening /\ Prompting /\ Ending
           /\ boot = "up" /\ handler # "none" /\ transport # "none" /\ promise = "pending"
           /\ setup # "idle" /\ ~Has(workerPort, {"GetDocRequest"}) /\ ~Has(mainPort, {"DocId"})
           /\ ~Has(workerPort, {"Ready"}) /\ ~Has(mainPort, Outcome)
  <1>1. PortTypes /\ LifeTypes /\ Beginning /\ Opening /\ Prompting /\ Ending
    BY DEF LifeInv
  <1>2. setup # "idle" /\ transport # "none"
    BY <1>1 DEF Opening, Loads
  <1> QED BY <1>1, <1>2 DEF Opening, Beginning, Loads

LEMMA OutcomeIsPosted ==
    ASSUME LifeInv, alive, Loads, handler = "set", NEW type \in Outcome,
           mainPort' = mainPort \o <<Msg(type)>>
    PROVE  /\ mainPort' \in Seq(ToMain) /\ Once(mainPort', Outcome)
           /\ IsLast(mainPort', "Terminated") /\ ~Has(mainPort', {"Terminated"})
           /\ ~Has(mainPort', {"ready", "test"}) /\ ~Has(mainPort', {"DocId"})
           /\ Once(mainPort', {"DocId"}) /\ Once(mainPort', {"PasswordRequest"})
           /\ Has(mainPort', {"PasswordRequest"}) <=> Has(mainPort, {"PasswordRequest"})
  <1>1. /\ PortTypes /\ Beginning /\ Opening /\ Prompting /\ Ending
        /\ boot = "up" /\ ~Has(mainPort, {"DocId"}) /\ ~Has(mainPort, Outcome)
    BY WhileLoading
  <1>2. Msg(type) \in ToMain /\ Msg(type).type = type
    BY MessagesAre DEF Outcome
  <1>3. mainPort' = Append(mainPort, Msg(type))
    BY <1>1, <1>2, MainPosts DEF PortTypes
  <1>4. /\ mainPort' \in Seq(ToMain) /\ Posts(mainPort, type, mainPort')
        /\ \A types : type \notin types => /\ Has(mainPort', types) <=> Has(mainPort, types)
                                           /\ Once(mainPort, types) => Once(mainPort', types)
    BY <1>1, <1>2, <1>3, MainIsTold
  <1>5. Once(mainPort', Outcome)
    BY <1>1, <1>4 DEF Posts, Opening
  <1>6. ~Has(mainPort, {"Terminated"}) /\ IsLast(mainPort, "Terminated")
    BY <1>1 DEF Ending
  <1>7. /\ ~Has(mainPort, {"ready", "test"}) /\ Once(mainPort, {"DocId"})
        /\ Once(mainPort, {"PasswordRequest"})
    BY <1>1 DEF Beginning, Opening, Prompting
  <1>8. type \notin {"Terminated"} /\ type \notin {"ready", "test"} /\ type \notin {"DocId"}
        /\ type \notin {"PasswordRequest"}
    BY DEF Outcome
  <1>9. IsLast(mainPort', "Terminated")
    BY <1>4, <1>6 DEF Posts
  <1> QED BY <1>1, <1>4, <1>5, <1>6, <1>7, <1>8, <1>9

\* Loading succeeds, or fails.
LEMMA LoadingEnds ==
    ASSUME LifeInv, alive, setup \in {"manager", "loading", "recovering"}, ~docTerminated,
           NEW type \in Outcome, mainPort' = mainPort \o <<Msg(type)>>,
           setup' \in {"done", "failed"}, nullUsed' = (nullUsed \/ handler # "set"),
           UNCHANGED <<docMain, alive, handler, hasManager, loadedStream, prompts, docTerminated,
                       WorkerTasks, task, waits, waitOn, workerPort>>
    PROVE  LifeInv'
  <1>1. Loads
    BY DEF Loads
  <1>2. /\ PortTypes /\ LifeTypes /\ Beginning /\ Opening /\ Prompting /\ Ending
        /\ boot = "up" /\ handler # "none" /\ transport # "none" /\ promise = "pending"
        /\ ~Has(workerPort, {"GetDocRequest"}) /\ ~Has(workerPort, {"Ready"})
    BY <1>1, WhileLoading
  <1>3. handler = "set"
    BY <1>2 DEF LifeTypes, DocTypeOK, Ending
  <1>4. /\ mainPort' \in Seq(ToMain) /\ Once(mainPort', Outcome)
        /\ IsLast(mainPort', "Terminated") /\ ~Has(mainPort', {"Terminated"})
        /\ ~Has(mainPort', {"ready", "test"}) /\ ~Has(mainPort', {"DocId"})
        /\ Once(mainPort', {"DocId"}) /\ Once(mainPort', {"PasswordRequest"})
        /\ Has(mainPort', {"PasswordRequest"}) <=> Has(mainPort, {"PasswordRequest"})
    BY <1>1, <1>3, OutcomeIsPosted
  <1>5. ~Has(mainPort, {"PasswordRequest"}) /\ prompt # "asked" /\ ~Has(workerPort, Answer)
    BY <1>2 DEF Prompting
  <1>6. PortTypes'
    BY <1>2, <1>4 DEF PortTypes
  <1>7. LifeTypes'
    <2>1. setup' \in {"idle", "manager", "loading", "stream", "recovering", "password", "done",
                      "failed", "dropped"}
      OBVIOUS
    <2> QED BY <1>2, <1>3, <2>1 DEF LifeTypes, DocTypeOK, docMain
  <1>8. Beginning'
    BY <1>2, <1>4 DEF Beginning, docMain
  <1>9. Opening'
    BY <1>2, <1>4 DEF Opening, Loads, docMain
  <1>10. Prompting'
    BY <1>2, <1>4, <1>5 DEF Prompting, docMain
  <1>11. Ending'
    BY <1>2, <1>3, <1>4 DEF Ending, docMain
  <1> QED BY <1>6, <1>7, <1>8, <1>9, <1>10, <1>11 DEF LifeInv

LEMMA PasswordIsNeeded ==
    ASSUME LifeInv, alive, setup \in {"loading", "recovering"}, AskPassword,
           UNCHANGED <<docMain, alive, handler, hasManager, loadedStream, docTerminated, task,
                       waits, waitOn, workerPort>>
    PROVE  LifeInv'
  <1>1. /\ ~docTerminated /\ prompts < MaxPrompts /\ setup' = "password" /\ prompts' = prompts + 1
        /\ WorkerTasks' = WorkerTasks \cup {0}
        /\ mainPort' = mainPort \o <<Msg("PasswordRequest")>>
        /\ nullUsed' = (nullUsed \/ handler # "set")
    BY DEF AskPassword, PostToMain
  <1>2. Loads
    BY DEF Loads
  <1>3. /\ PortTypes /\ LifeTypes /\ Beginning /\ Opening /\ Prompting /\ Ending
        /\ boot = "up" /\ handler # "none" /\ transport # "none" /\ promise = "pending"
        /\ ~Has(mainPort, Outcome)
    BY <1>2, WhileLoading
  <1>4. handler = "set"
    BY <1>1, <1>3 DEF LifeTypes, DocTypeOK, Ending
  <1>5. ~Has(mainPort, {"PasswordRequest"}) /\ prompt # "asked" /\ ~Has(workerPort, Answer)
    BY <1>3 DEF Prompting
  <1>6. /\ mainPort' \in Seq(ToMain) /\ Posts(mainPort, "PasswordRequest", mainPort')
        /\ \A types : "PasswordRequest" \notin types
                        => /\ Has(mainPort', types) <=> Has(mainPort, types)
                           /\ Once(mainPort, types) => Once(mainPort', types)
    <2>1. Msg("PasswordRequest") \in ToMain /\ Msg("PasswordRequest").type = "PasswordRequest"
      BY MessagesAre
    <2>2. mainPort' = Append(mainPort, Msg("PasswordRequest"))
      BY <1>1, <1>3, <2>1, MainPosts DEF PortTypes
    <2> QED BY <1>3, <2>1, <2>2, MainIsTold
  <1>7. /\ IsLast(mainPort', "Terminated") /\ ~Has(mainPort', {"Terminated"})
        /\ Once(mainPort', {"PasswordRequest"})
    BY <1>3, <1>4, <1>5, <1>6 DEF Posts, Ending, Prompting
  <1>8. PortTypes'
    BY <1>3, <1>6 DEF PortTypes
  <1>9. LifeTypes'
    <2>1. prompts' \in 0 .. MaxPrompts
      <3>1. prompts \in 0 .. MaxPrompts
        BY <1>3 DEF LifeTypes, DocTypeOK
      <3> QED BY <1>1, <3>1, TasksAssumption
    <2>2. WorkerTasks' \subseteq Tasks \cup {0} /\ waitOn' \subseteq WorkerTasks'
      BY <1>1, <1>3 DEF LifeTypes, DocTypeOK
    <2> QED BY <1>1, <1>3, <1>4, <2>1, <2>2 DEF LifeTypes, DocTypeOK, docMain
  <1>10. Beginning'
    BY <1>3, <1>6 DEF Beginning, docMain
  <1>11. Opening'
    BY <1>1, <1>3, <1>6 DEF Opening, Outcome, Loads, docMain
  <1>12. Prompting'
    BY <1>1, <1>3, <1>5, <1>7 DEF Prompting, docMain
  <1>13. Ending'
    <2>1. \A i \in Tasks : task[i] \in {"running", "data", "sink"} => i \in WorkerTasks'
      BY <1>1, <1>3 DEF Ending
    <2> QED BY <1>1, <1>3, <1>4, <1>7, <2>1 DEF Ending, docMain
  <1> QED BY <1>8, <1>9, <1>10, <1>11, <1>12, <1>13 DEF LifeInv

LEMMA LoadingSteps ==
    ASSUME LifeInv, Loading PROVE LifeInv'
  <1>1. CASE ManagerReady \/ Recover
    BY <1>1, SetupSteps
  <1>2. CASE StreamLoaded
    BY <1>2, StreamHasLoaded
  <1>3. CASE ManagerFails \/ Loaded
    <2>1. /\ alive /\ setup \in {"manager", "loading", "recovering"}
          /\ UNCHANGED <<docMain, alive, handler, hasManager, loadedStream, docTerminated, task,
                         waits, waitOn, workerPort>>
      BY <1>3 DEF ManagerFails, Loaded
    <2>2. CASE Drop \/ NeedRecovery
      BY <1>3, <2>2, SetupSteps
    <2>3. CASE Succeed
      <3>1. "GetDoc" \in Outcome
        BY DEF Outcome
      <3>2. /\ ~docTerminated /\ setup' = "done" /\ mainPort' = mainPort \o <<Msg("GetDoc")>>
            /\ nullUsed' = (nullUsed \/ handler # "set") /\ UNCHANGED <<WorkerTasks, prompts>>
        BY <2>3 DEF Succeed, PostToMain
      <3> QED BY <2>1, <3>1, <3>2, LoadingEnds
    <2>4. CASE Fail
      <3>1. "DocException" \in Outcome
        BY DEF Outcome
      <3>2. /\ ~docTerminated /\ setup' = "failed" /\ mainPort' = mainPort \o <<Msg("DocException")>>
            /\ nullUsed' = (nullUsed \/ handler # "set") /\ UNCHANGED <<WorkerTasks, prompts>>
        BY <2>4 DEF Fail, PostToMain
      <3> QED BY <2>1, <3>1, <3>2, LoadingEnds
    <2>5. CASE Loaded /\ AskPassword
      <3>1. setup \in {"loading", "recovering"}
        BY <2>5 DEF Loaded
      <3> QED BY <2>1, <2>5, <3>1, PasswordIsNeeded
    <2> QED BY <1>3, <2>2, <2>3, <2>4, <2>5 DEF ManagerFails, Loaded
  <1> QED BY <1>1, <1>2, <1>3 DEF Loading

\* The answer to a prompt: loading goes on, or fails.
LEMMA AnswerIsHeard ==
    ASSUME LifeInv, OnPassword \/ OnPasswordRejected PROVE LifeInv'
  <1>1. /\ TakeAtWorker("Password") \/ TakeAtWorker("PasswordRejected")
        /\ WorkerTasks' = WorkerTasks \ {0} /\ waitOn' = waitOn \ {0}
        /\ \/ setup' = "loading" /\ UNCHANGED <<mainPort, nullUsed>>
           \/ /\ setup' = "failed" /\ mainPort' = mainPort \o <<Msg("DocException")>>
              /\ nullUsed' = (nullUsed \/ handler # "set")
        /\ UNCHANGED <<docMain, alive, handler, hasManager, loadedStream, prompts,
                       docTerminated, task, waits>>
    BY DEF OnPassword, OnPasswordRejected, FinishTasks, PostToMain
  <1>2. /\ alive /\ workerPort' \in Seq(ToWorker)
        /\ Takes(workerPort, "Password", workerPort') \/ Takes(workerPort, "PasswordRejected", workerPort')
    BY <1>1, TakenAtWorker
  <1>3. PortTypes /\ LifeTypes /\ Prompting /\ Opening /\ Ending
    BY <1>2 DEF LifeInv
  <1>4. /\ Has(workerPort, Answer) /\ ~Has(workerPort', Answer)
        /\ \A types : (Has(workerPort', types) => Has(workerPort, types))
                      /\ (Once(workerPort, types) => Once(workerPort', types))
    <2>1. "Password" \in Answer /\ "PasswordRejected" \in Answer
      BY DEF Answer
    <2> QED BY <1>2, <1>3, <2>1 DEF Takes, Prompting
  <1>5. /\ setup = "password" /\ 0 \in WorkerTasks /\ prompt # "asked"
        /\ ~Has(mainPort, {"PasswordRequest"}) /\ Loads
    BY <1>3, <1>4 DEF Prompting, Loads
  <1>6. /\ Beginning /\ boot = "up" /\ handler # "none" /\ transport # "none"
        /\ promise = "pending" /\ ~Has(workerPort, {"GetDocRequest"}) /\ ~Has(mainPort, {"DocId"})
        /\ ~Has(workerPort, {"Ready"}) /\ ~Has(mainPort, Outcome)
    BY <1>2, <1>5, WhileLoading
  <1>7. handler = "set"
    BY <1>3, <1>5, <1>6 DEF LifeTypes, DocTypeOK, Ending
  <1>8. /\ mainPort' \in Seq(ToMain) /\ Once(mainPort', Outcome)
        /\ IsLast(mainPort', "Terminated") /\ ~Has(mainPort', {"Terminated"})
        /\ ~Has(mainPort', {"ready", "test"}) /\ ~Has(mainPort', {"DocId"})
        /\ Once(mainPort', {"DocId"}) /\ Once(mainPort', {"PasswordRequest"})
        /\ ~Has(mainPort', {"PasswordRequest"})
        /\ Has(mainPort', Outcome) => setup' = "failed"
        /\ setup' \in {"loading", "failed"} /\ ~nullUsed'
    <2>1. CASE setup' = "loading" /\ UNCHANGED <<mainPort, nullUsed>>
      <3>1. /\ mainPort \in Seq(ToMain) /\ Once(mainPort, Outcome) /\ ~Has(mainPort, {"ready", "test"})
            /\ IsLast(mainPort, "Terminated") /\ ~Has(mainPort, {"Terminated"})
            /\ Once(mainPort, {"DocId"}) /\ Once(mainPort, {"PasswordRequest"}) /\ ~nullUsed
        BY <1>3, <1>6, <1>7 DEF PortTypes, LifeTypes, Beginning, Opening, Prompting, Ending
      <3> QED BY <1>5, <1>6, <2>1, <3>1
    <2>2. CASE /\ setup' = "failed" /\ mainPort' = mainPort \o <<Msg("DocException")>>
               /\ nullUsed' = (nullUsed \/ handler # "set")
      <3>1. "DocException" \in Outcome
        BY DEF Outcome
      <3>2. /\ mainPort' \in Seq(ToMain) /\ Once(mainPort', Outcome)
            /\ IsLast(mainPort', "Terminated") /\ ~Has(mainPort', {"Terminated"})
            /\ ~Has(mainPort', {"ready", "test"}) /\ ~Has(mainPort', {"DocId"})
            /\ Once(mainPort', {"DocId"}) /\ Once(mainPort', {"PasswordRequest"})
            /\ Has(mainPort', {"PasswordRequest"}) <=> Has(mainPort, {"PasswordRequest"})
        BY <1>2, <1>5, <1>7, <2>2, <3>1, OutcomeIsPosted
      <3> QED BY <1>3, <1>5, <1>7, <2>2, <3>2 DEF LifeTypes
    <2> QED BY <1>1, <2>1, <2>2
  <1>9. PortTypes'
    BY <1>2, <1>8 DEF PortTypes
  <1>10. LifeTypes'
    <2>1. setup' \in {"idle", "manager", "loading", "stream", "recovering", "password", "done",
                      "failed", "dropped"}
      BY <1>8
    <2>2. WorkerTasks' \subseteq Tasks \cup {0} /\ waitOn' \subseteq WorkerTasks'
      BY <1>1, <1>3 DEF LifeTypes, DocTypeOK
    <2>3. nullUsed' \in BOOLEAN
      BY <1>1, <1>3, <1>7 DEF LifeTypes, DocTypeOK
    <2>4. DocTypeOK
      BY <1>3 DEF LifeTypes
    <2>5. DocTypeOK'
      BY <1>1, <2>1, <2>2, <2>3, <2>4 DEF DocTypeOK, docMain
    <2> QED BY <1>1, <1>2, <1>3, <1>8, <2>5 DEF LifeTypes
  <1>11. Beginning'
    BY <1>1, <1>6, <1>8 DEF Beginning, docMain
  <1>12. Opening'
    BY <1>1, <1>3, <1>4, <1>6, <1>8 DEF Opening, Loads, docMain
  <1>13. Prompting'
    <2>1. Once(workerPort', Answer)
      BY <1>3, <1>4 DEF Prompting
    <2> QED BY <1>1, <1>4, <1>5, <1>8, <2>1 DEF Prompting, docMain
  <1>14. Ending'
    <2>1. \A i \in Tasks : task[i] \in {"running", "data", "sink"} => i \in WorkerTasks'
      BY <1>1, <1>3, TasksAssumption DEF Ending
    <2>2. docTerminated => waitOn' = WorkerTasks'
      BY <1>1, <1>3 DEF Ending
    <2>3. transport # "closed"
      BY <1>3, <1>7 DEF Ending
    <2> QED BY <1>1, <1>3, <1>7, <1>8, <2>1, <2>2, <2>3 DEF Ending, docMain
  <1> QED BY <1>1, <1>2, <1>9, <1>10, <1>11, <1>12, <1>13, <1>14 DEF LifeInv

\* A task takes a step; at the main thread's port it posts nothing but the end of its stream.
LEMMA TasksGoOn ==
    ASSUME LifeInv, alive, boot = "up",
           UNCHANGED <<docMain, alive, handler, setup, hasManager, loadedStream, prompts,
                       docTerminated, nullUsed>>,
           DOMAIN task' = Tasks, waits' \in [Tasks -> 0 .. MaxWaits],
           \A i \in Tasks : task'[i] \in {"none", "sent", "page", "running", "data", "sink",
                                          "finished", "ignored"},
           \A i \in Tasks : task'[i] \in {"running", "data", "sink"} => i \in WorkerTasks',
           WorkerTasks' \subseteq Tasks \cup {0}, waitOn' \subseteq WorkerTasks',
           0 \in WorkerTasks => 0 \in WorkerTasks', docTerminated => waitOn' = WorkerTasks',
           handler = "null" => WorkerTasks' = {},
           workerPort' \in Seq(ToWorker), mainPort' \in Seq(ToMain),
           \A types : /\ Has(workerPort', types) => Has(workerPort, types)
                      /\ Once(workerPort, types) => Once(workerPort', types)
                      /\ "End" \notin types =>
                            /\ Has(mainPort', types) <=> Has(mainPort, types)
                            /\ Once(mainPort, types) => Once(mainPort', types),
           IsLast(mainPort', "Terminated"), transport = "closed" => mainPort' = mainPort
    PROVE  LifeInv'
  <1>1. PortTypes /\ LifeTypes /\ Beginning /\ Opening /\ Prompting /\ Ending
    BY DEF LifeInv
  <1>2. PortTypes'
    BY DEF PortTypes
  <1>3. LifeTypes'
    BY <1>1 DEF LifeTypes, DocTypeOK, docMain
  <1>4. Beginning'
    BY <1>1 DEF Beginning, docMain
  <1>5. Opening'
    BY <1>1 DEF Opening, Outcome, Loads, docMain
  <1>6. Prompting'
    BY <1>1 DEF Prompting, docMain
  <1>7. Ending'
    BY <1>1 DEF Ending, docMain
  <1> QED BY <1>2, <1>3, <1>4, <1>5, <1>6, <1>7 DEF LifeInv

\* A page is asked for.
LEMMA TaskIsStarted ==
    ASSUME LifeInv, OnStart PROVE LifeInv'
  <1> DEFINE i == Head(workerPort).task
  <1>1. /\ TakeAtWorker("Start")
        /\ task' = [task EXCEPT ![i] = IF hasManager THEN "page" ELSE "ignored"]
        /\ UNCHANGED <<docMain, alive, handler, setup, hasManager, loadedStream, prompts,
                       docTerminated, WorkerTasks, waitOn, waits, nullUsed, mainPort>>
    BY DEF OnStart
  <1>2. /\ alive /\ boot = "up" /\ workerPort' \in Seq(ToWorker)
        /\ Takes(workerPort, "Start", workerPort')
    BY <1>1, TakenAtWorker
  <1>3. PortTypes /\ LifeTypes /\ DocTypeOK /\ Ending
    BY <1>2 DEF LifeInv, LifeTypes
  <1> HIDE DEF i
  <1>4. /\ DOMAIN task' = Tasks
        /\ \A j \in Tasks : task'[j] \in {task[j], "page", "ignored"}
    BY <1>1, <1>3 DEF LifeTypes
  <1>5. \A j \in Tasks : task'[j] \in {"none", "sent", "page", "running", "data", "sink",
                                       "finished", "ignored"}
    BY <1>3, <1>4 DEF DocTypeOK
  <1>6. \A j \in Tasks : task'[j] \in {"running", "data", "sink"} => j \in WorkerTasks'
    BY <1>1, <1>3, <1>4 DEF Ending
  <1>7. \A types : /\ Has(workerPort', types) => Has(workerPort, types)
                   /\ Once(workerPort, types) => Once(workerPort', types)
    BY <1>2 DEF Takes
  <1> QED BY <1>1, <1>2, <1>3, <1>4, <1>5, <1>6, <1>7, TasksGoOn
             DEF PortTypes, DocTypeOK, Ending

\* A page is found, or not; a task waits, or goes on.
TaskMoves(i, state) ==
    /\ task' = [task EXCEPT ![i] = state]
    /\ UNCHANGED <<docMain, alive, handler, setup, hasManager, loadedStream, prompts,
                   docTerminated, waitOn, nullUsed, workerPort, mainPort>>

LEMMA TaskHasMoved ==
    ASSUME LifeInv, alive, NEW i \in Tasks, task[i] # "none",
           NEW state \in {"running", "data", "sink", "ignored"}, TaskMoves(i, state),
           WorkerTasks' \in {WorkerTasks, WorkerTasks \cup {i}}, docTerminated => UNCHANGED WorkerTasks,
           state # "ignored" => i \in WorkerTasks', waits' \in [Tasks -> 0 .. MaxWaits]
    PROVE  LifeInv'
  <1>1. PortTypes /\ LifeTypes /\ DocTypeOK /\ Beginning /\ Ending
    BY DEF LifeInv, LifeTypes
  <1>2. boot = "up"
    BY <1>1 DEF Beginning
  <1>3. /\ DOMAIN task' = Tasks
        /\ \A j \in Tasks : task'[j] = IF j = i THEN state ELSE task[j]
    BY <1>1 DEF TaskMoves, LifeTypes
  <1>4. \A j \in Tasks : task'[j] \in {"none", "sent", "page", "running", "data", "sink",
                                       "finished", "ignored"}
    BY <1>1, <1>3 DEF DocTypeOK
  <1>5. WorkerTasks \subseteq WorkerTasks' /\ WorkerTasks' \subseteq Tasks \cup {0}
    BY <1>1 DEF DocTypeOK
  <1>6. \A j \in Tasks : task'[j] \in {"running", "data", "sink"} => j \in WorkerTasks'
    BY <1>1, <1>3, <1>5 DEF Ending
  <1>7. /\ waitOn' \subseteq WorkerTasks' /\ (docTerminated => waitOn' = WorkerTasks')
        /\ handler = "null" => WorkerTasks' = {}
    BY <1>1, <1>5 DEF Ending, DocTypeOK, TaskMoves
  <1>8. /\ workerPort' = workerPort /\ mainPort' = mainPort
        /\ UNCHANGED <<docMain, alive, handler, setup, hasManager, loadedStream, prompts,
                       docTerminated, nullUsed>>
    BY DEF TaskMoves
  <1> QED BY <1>1, <1>2, <1>3, <1>4, <1>5, <1>6, <1>7, <1>8, TasksGoOn DEF PortTypes, Ending

\* The end of a stream is posted while the handler is there.
LEMMA TaskHasEnded ==
    ASSUME LifeInv, NEW i \in Tasks, TaskEnds(i) PROVE LifeInv'
  <1>1. /\ alive /\ task[i] = "running" /\ task' = [task EXCEPT ![i] = "finished"]
        /\ WorkerTasks' = WorkerTasks \ {i} /\ waitOn' = waitOn \ {i}
        /\ mainPort' = Append(mainPort, TaskMsg("End", i)) \/ UNCHANGED mainPort
        /\ UNCHANGED <<docMain, alive, handler, setup, hasManager, loadedStream, prompts,
                       docTerminated, waits, nullUsed, workerPort>>
    BY DEF TaskEnds, FinishTasks
  <1>2. PortTypes /\ LifeTypes /\ DocTypeOK /\ Beginning /\ Ending
    BY <1>1 DEF LifeInv, LifeTypes
  <1>3. boot = "up"
    BY <1>1, <1>2 DEF Beginning
  <1>4. handler # "null" /\ transport # "closed" /\ ~Has(mainPort, {"Terminated"})
    BY <1>1, <1>2 DEF Ending
  <1>5. /\ DOMAIN task' = Tasks
        /\ \A j \in Tasks : task'[j] = IF j = i THEN "finished" ELSE task[j]
    BY <1>1, <1>2 DEF LifeTypes
  <1>6. \A j \in Tasks : task'[j] \in {"none", "sent", "page", "running", "data", "sink",
                                       "finished", "ignored"}
    BY <1>2, <1>5 DEF DocTypeOK
  <1>7. \A j \in Tasks : task'[j] \in {"running", "data", "sink"} => j \in WorkerTasks'
    BY <1>1, <1>2, <1>5 DEF Ending
  <1>8. /\ WorkerTasks' \subseteq Tasks \cup {0} /\ waitOn' \subseteq WorkerTasks'
        /\ docTerminated => waitOn' = WorkerTasks'
    BY <1>1, <1>2 DEF Ending, DocTypeOK
  <1>9. 0 \in WorkerTasks => 0 \in WorkerTasks'
    BY <1>1, TasksAssumption
  <1>10. /\ mainPort' \in Seq(ToMain) /\ IsLast(mainPort', "Terminated")
         /\ \A types : "End" \notin types => /\ Has(mainPort', types) <=> Has(mainPort, types)
                                             /\ Once(mainPort, types) => Once(mainPort', types)
    <2>1. CASE UNCHANGED mainPort
      BY <1>2, <2>1 DEF PortTypes, Ending
    <2>2. CASE mainPort' = Append(mainPort, TaskMsg("End", i))
      <3>1. TaskMsg("End", i) \in ToMain /\ TaskMsg("End", i).type = "End"
        BY MessagesAre
      <3>2. /\ mainPort' \in Seq(ToMain) /\ Posts(mainPort, "End", mainPort')
            /\ \A types : "End" \notin types => /\ Has(mainPort', types) <=> Has(mainPort, types)
                                                /\ Once(mainPort, types) => Once(mainPort', types)
        BY <1>2, <2>2, <3>1, MainIsTold
      <3>3. IsLast(mainPort', "Terminated")
        BY <1>2, <1>4, <3>2 DEF Posts, Ending
      <3> QED BY <3>2, <3>3
    <2> QED BY <1>1, <2>1, <2>2
  <1>11. workerPort' = workerPort /\ workerPort \in Seq(ToWorker) /\ waits' \in [Tasks -> 0 .. MaxWaits]
    BY <1>1, <1>2 DEF PortTypes, DocTypeOK
  <1>12. UNCHANGED <<docMain, alive, handler, setup, hasManager, loadedStream, prompts,
                     docTerminated, nullUsed>>
    BY <1>1
  <1> QED BY <1>1, <1>3, <1>4, <1>5, <1>6, <1>7, <1>8, <1>9, <1>10, <1>11, <1>12, TasksGoOn

LEMMA WaitsAre ==
    ASSUME NEW i \in Tasks, NEW state, waits \in [Tasks -> 0 .. MaxWaits],
           state # "running" => waits[i] < MaxWaits, TaskBecomes(i, state)
    PROVE  waits' \in [Tasks -> 0 .. MaxWaits]
  <1>1. waits[i] \in 0 .. MaxWaits
    OBVIOUS
  <1>2. CASE state = "running"
    <2>1. waits' = [waits EXCEPT ![i] = waits[i]]
      BY <1>2 DEF TaskBecomes
    <2> QED BY <2>1
  <1>3. CASE state # "running"
    <2>1. waits' = [waits EXCEPT ![i] = waits[i] + 1]
      BY <1>3 DEF TaskBecomes
    <2>2. waits[i] + 1 \in 0 .. MaxWaits
      BY <1>1, <1>3, TasksAssumption
    <2> QED BY <2>1, <2>2
  <1> QED BY <1>2, <1>3

LEMMA TaskSteps ==
    ASSUME LifeInv, NEW i \in Tasks, TaskRuns(i) PROVE LifeInv'
  <1>1. DocTypeOK /\ LifeTypes
    BY DEF LifeInv, LifeTypes
  <1>2. waits \in [Tasks -> 0 .. MaxWaits]
    BY <1>1 DEF DocTypeOK
  <1>3. CASE PageFound(i)
    <2>1. /\ alive /\ task[i] # "none" /\ TaskMoves(i, "running") /\ ~docTerminated
          /\ WorkerTasks' = WorkerTasks \cup {i} /\ waits' = waits
      BY <1>3 DEF PageFound, TaskMoves
    <2> QED BY <1>2, <2>1, TaskHasMoved
  <1>4. CASE PageNotFound(i)
    <2>1. /\ alive /\ task[i] # "none" /\ TaskMoves(i, "ignored") /\ ~docTerminated
          /\ WorkerTasks' = WorkerTasks /\ waits' = waits
      BY <1>4 DEF PageNotFound, TaskMoves
    <2> QED BY <1>2, <2>1, TaskHasMoved
  <1>5. ASSUME NEW state \in {"running", "data", "sink"}, TaskBecomes(i, state), alive,
               task[i] \in {"running", "data", "sink"}, state # "running" => waits[i] < MaxWaits
        PROVE  LifeInv'
    <2>1. i \in WorkerTasks
      BY <1>5 DEF LifeInv, Ending
    <2>2. TaskMoves(i, state) /\ WorkerTasks' = WorkerTasks
      BY <1>5 DEF TaskBecomes, TaskMoves
    <2>3. waits' \in [Tasks -> 0 .. MaxWaits]
      BY <1>2, <1>5, WaitsAre
    <2> QED BY <1>5, <2>1, <2>2, <2>3, TaskHasMoved
  <1>6. CASE TaskWaits(i)
    BY <1>5, <1>6 DEF TaskWaits
  <1>7. CASE DataArrives(i)
    BY <1>5, <1>7 DEF DataArrives
  <1>8. CASE SinkReady(i)
    BY <1>5, <1>8 DEF SinkReady
  <1>9. CASE TaskEnds(i)
    BY <1>9, TaskHasEnded
  <1> QED BY <1>3, <1>4, <1>6, <1>7, <1>8, <1>9 DEF TaskRuns

\* Terminate: no task starts any more.
LEMMA TerminateIsHeard ==
    ASSUME LifeInv, OnTerminate PROVE LifeInv'
  <1>1. /\ TakeAtWorker("Terminate")
        /\ docTerminated' = TRUE /\ hasManager' = FALSE /\ waitOn' = WorkerTasks
        /\ UNCHANGED <<docMain, alive, handler, setup, loadedStream, prompts, WorkerTasks, task,
                       waits, nullUsed, mainPort>>
    BY DEF OnTerminate
  <1>2. /\ alive /\ boot = "up" /\ workerPort' \in Seq(ToWorker)
        /\ Takes(workerPort, "Terminate", workerPort')
    BY <1>1, TakenAtWorker
  <1>3. PortTypes /\ LifeTypes /\ Beginning /\ Opening /\ Prompting /\ Ending
    BY <1>2 DEF LifeInv
  <1>4. /\ Has(workerPort, {"Terminate"})
        /\ \A types : (Has(workerPort', types) => Has(workerPort, types))
                      /\ (Once(workerPort, types) => Once(workerPort', types))
    BY <1>2 DEF Takes
  <1>5. transport # "none"
    BY <1>3, <1>4 DEF Opening
  <1>6. PortTypes'
    BY <1>1, <1>2, <1>3 DEF PortTypes
  <1>7. LifeTypes'
    <2>1. docTerminated' \in BOOLEAN /\ hasManager' \in BOOLEAN /\ waitOn' \subseteq WorkerTasks'
      BY <1>1
    <2> QED BY <1>1, <1>2, <1>3, <2>1 DEF LifeTypes, DocTypeOK, docMain
  <1>8. Beginning'
    BY <1>1, <1>2, <1>3 DEF Beginning, docMain
  <1>9. Opening'
    BY <1>1, <1>3, <1>4, <1>5 DEF Opening, Loads, docMain
  <1>10. Prompting'
    BY <1>1, <1>3, <1>4 DEF Prompting, docMain
  <1>11. Ending'
    BY <1>1, <1>3 DEF Ending, docMain
  <1> QED BY <1>1, <1>2, <1>6, <1>7, <1>8, <1>9, <1>10, <1>11 DEF LifeInv

\* Every task has ended, and the main thread hears of it.
LEMMA TerminateIsAnswered ==
    ASSUME LifeInv, TerminateEnds PROVE LifeInv'
  <1>1. /\ alive /\ docTerminated /\ handler = "set" /\ waitOn = {}
        /\ handler' = "null" /\ mainPort' = Append(mainPort, Msg("Terminated"))
        /\ UNCHANGED <<docMain, alive, setup, hasManager, loadedStream, prompts, docTerminated,
                       WorkerTasks, task, waits, waitOn, nullUsed, workerPort>>
    BY DEF TerminateEnds
  <1>2. PortTypes /\ LifeTypes /\ Beginning /\ Opening /\ Prompting /\ Ending
    BY <1>1 DEF LifeInv
  <1>3. /\ boot = "up" /\ WorkerTasks = {} /\ transport # "closed" /\ transport # "none"
        /\ ~Has(mainPort, {"Terminated"}) /\ ~Has(workerPort, {"GetDocRequest"})
    BY <1>1, <1>2 DEF Beginning, Opening, Ending
  <1>4. /\ mainPort' \in Seq(ToMain) /\ Posts(mainPort, "Terminated", mainPort')
        /\ \A types : "Terminated" \notin types => /\ Has(mainPort', types) <=> Has(mainPort, types)
                                                   /\ Once(mainPort, types) => Once(mainPort', types)
    <2>1. Msg("Terminated") \in ToMain /\ Msg("Terminated").type = "Terminated"
      BY MessagesAre
    <2> QED BY <1>1, <1>2, <2>1, MainIsTold
  <1>5. IsLast(mainPort', "Terminated")
    BY <1>2, <1>3, <1>4 DEF Posts, Ending
  <1>6. PortTypes'
    BY <1>1, <1>2, <1>4 DEF PortTypes
  <1>7. LifeTypes'
    <2>1. handler' \in {"none", "set", "null"}
      BY <1>1
    <2> QED BY <1>1, <1>2, <2>1 DEF LifeTypes, DocTypeOK, docMain
  <1>8. Beginning'
    BY <1>1, <1>2, <1>3, <1>4 DEF Beginning, docMain
  <1>9. Opening'
    BY <1>1, <1>2, <1>3, <1>4 DEF Opening, Outcome, Loads, docMain
  <1>10. Prompting'
    BY <1>1, <1>2, <1>4 DEF Prompting, docMain
  <1>11. Ending'
    BY <1>1, <1>2, <1>3, <1>5 DEF Ending, docMain
  <1> QED BY <1>1, <1>6, <1>7, <1>8, <1>9, <1>10, <1>11 DEF LifeInv

LEMMA MainGoesOn ==
    ASSUME LifeInv, MainHandles PROVE LifeInv'
  <1>1. CASE OnWorkerReady
    BY <1>1, WorkerIsReady
  <1>2. CASE OnTest
    BY <1>2, WorkerIsUp
  <1>3. CASE OnDocId
    BY <1>3, DocumentIsNamed
  <1>4. CASE OnDocIdFailed
    BY <1>4, MessageIsOver DEF OnDocIdFailed
  <1>5. CASE OnGetDoc \/ OnDocException
    BY <1>5, OutcomeIsHeard
  <1>6. CASE OnPasswordRequest
    BY <1>6, PasswordIsAsked
  <1>7. CASE OnOther
    <2>1. UNCHANGED <<docMain, docWorker, alive, workerPort>>
      BY <1>7 DEF OnOther
    <2>2. CASE TakeAtMain("DataLoaded")
      BY <2>1, <2>2, MessageIsOver
    <2>3. CASE TakeAtMain("End")
      BY <2>1, <2>3, MessageIsOver
    <2> QED BY <1>7, <2>2, <2>3 DEF OnOther
  <1>8. CASE OnTerminated
    BY <1>8, TerminatedIsHeard
  <1> QED BY <1>1, <1>2, <1>3, <1>4, <1>5, <1>6, <1>7, <1>8 DEF MainHandles

LEMMA WorkerGoesOn ==
    ASSUME LifeInv, WorkerHandles PROVE LifeInv'
  <1>1. CASE OnGetDocRequest
    BY <1>1, DocumentIsAsked
  <1>2. CASE OnReady
    BY <1>2, SetupStarts
  <1>3. CASE OnPassword \/ OnPasswordRejected
    BY <1>3, AnswerIsHeard
  <1>4. CASE OnStart
    BY <1>4, TaskIsStarted
  <1>5. CASE OnTerminate
    BY <1>5, TerminateIsHeard
  <1> QED BY <1>1, <1>2, <1>3, <1>4, <1>5 DEF WorkerHandles

LEMMA LifeSteps ==
    ASSUME LifeInv, DocNext PROVE LifeInv'
  <1>1. CASE WorkerStarts
    BY <1>1, WorkerHasStarted
  <1>2. CASE WorkerFails
    BY <1>2, WorkerHasFailed
  <1>3. CASE MainHandles
    BY <1>3, MainGoesOn
  <1>4. ASSUME NEW type \in {"Password", "PasswordRejected"}, AnswerPrompt(type) PROVE LifeInv'
    <2>1. type \in Answer
      BY DEF Answer
    <2> QED BY <1>4, <2>1, PromptIsAnswered
  <1>5. CASE Destroy
    BY <1>5, TaskIsDestroyed
  <1>6. ASSUME NEW i \in Tasks, StartTask(i) \/ TaskRuns(i) PROVE LifeInv'
    BY <1>6, TaskIsSent, TaskSteps
  <1>7. CASE WorkerHandles
    BY <1>7, WorkerGoesOn
  <1>8. CASE Loading
    BY <1>8, LoadingSteps
  <1>9. CASE TerminateEnds
    BY <1>9, TerminateIsAnswered
  <1>10. CASE DataStops
    BY <1>10, DataHasStopped
  <1> QED BY <1>1, <1>2, <1>3, <1>4, <1>5, <1>6, <1>7, <1>8, <1>9, <1>10 DEF DocNext

\* What the invariant means.
LEMMA LifeMeans ==
    ASSUME LifeInv PROVE OneOutcome /\ HandlerNotUsedWhenNull
  <1>1. PortTypes /\ LifeTypes /\ mainPort \in Seq(ToMain)
    BY DEF LifeInv, PortTypes
  <1>2. DOMAIN mainPort = 1 .. Len(mainPort)
    BY <1>1, LenProperties
  <1>3. Outcomes = {i \in 1 .. Len(mainPort) : mainPort[i].type \in Outcome}
    BY <1>2 DEF Outcomes, Outcome
  <1>4. CASE alive
    <2>1. /\ Once(mainPort, Outcome) /\ (Has(mainPort, Outcome) => promise = "pending")
          /\ Has(mainPort, Outcome) => setup \in {"done", "failed"}
      BY <1>4 DEF LifeInv, Opening
    <2>2. \A i, j \in Outcomes : i = j
      BY <1>3, <2>1 DEF Once
    <2>3. Outcomes # {} => Has(mainPort, Outcome)
      BY <1>3 DEF Has
    <2>4. OneOutcome
      BY <2>1, <2>2, <2>3 DEF OneOutcome
    <2> QED BY <1>1, <2>4 DEF LifeTypes, HandlerNotUsedWhenNull
  <1>5. CASE ~alive
    <2>1. Len(mainPort) = 0 /\ 1 .. 0 = {}
      BY <1>1, <1>5, EmptySeq DEF LifeTypes
    <2>2. Outcomes = {}
      BY <1>3, <2>1
    <2> QED BY <1>1, <2>2 DEF OneOutcome, LifeTypes, HandlerNotUsedWhenNull
  <1> QED BY <1>4, <1>5

\* Once Terminate has looked at the set of tasks, it does not grow.
LEMMA NoTaskIsAdded ==
    ASSUME DocNext, docTerminated PROVE WorkerTasks' \subseteq WorkerTasks
  <1>1. CASE WorkerStarts \/ WorkerFails
    BY <1>1 DEF WorkerStarts, WorkerFails, docWorker
  <1>2. CASE MainHandles
    BY <1>2 DEF MainHandles, OnWorkerReady, OnTest, OnDocId, OnDocIdFailed, OnGetDoc, OnDocException,
                OnPasswordRequest, OnOther, OnTerminated, TerminateEarly, docWorker
  <1>3. ASSUME NEW type, AnswerPrompt(type) PROVE WorkerTasks' = WorkerTasks
    BY <1>3 DEF AnswerPrompt, docWorker
  <1>4. CASE Destroy
    BY <1>4 DEF Destroy, docWorker
  <1>5. ASSUME NEW i \in Tasks, StartTask(i) \/ TaskRuns(i) PROVE WorkerTasks' \subseteq WorkerTasks
    BY <1>5 DEF StartTask, TaskRuns, PageFound, PageNotFound, TaskWaits, DataArrives, SinkReady,
                TaskEnds, TaskBecomes, FinishTasks
  <1>6. CASE WorkerHandles
    BY <1>6 DEF WorkerHandles, OnGetDocRequest, OnReady, OnPassword, OnPasswordRejected, OnStart,
                OnTerminate, FinishTasks
  <1>7. CASE Loading
    BY <1>7 DEF Loading, ManagerReady, ManagerFails, StreamLoaded, Recover, Loaded, Succeed,
                AskPassword, Fail, Drop, NeedRecovery
  <1>8. CASE TerminateEnds \/ DataStops
    BY <1>8 DEF TerminateEnds, DataStops
  <1> QED BY <1>1, <1>2, <1>3, <1>4, <1>5, <1>6, <1>7, <1>8 DEF DocNext

DocumentInv == subject = "document" => LifeInv

LEMMA DocumentInvHolds ==
    ASSUME DocumentInv, [ReadingNext]_readingVars
    PROVE  DocumentInv' /\ (subject = "document" => QuietStep)
  <1>1. CASE DocumentStep
    <2>1. subject = "document" /\ subject' = subject /\ DocNext /\ LifeInv
      BY <1>1 DEF DocumentStep, OfDocument, DocumentInv
    <2>2. LifeInv'
      BY <2>1, LifeSteps
    <2>3. (transport = "closed" /\ alive)' =>
             (handler = "null" /\ WorkerTasks = {} /\ mainPort = << >>)'
      BY <2>2 DEF LifeInv, Ending
    <2>4. docTerminated => WorkerTasks' \subseteq WorkerTasks
      BY <2>1, NoTaskIsAdded
    <2> QED BY <2>1, <2>2, <2>3, <2>4 DEF DocumentInv, QuietStep
  <1>2. CASE UNCHANGED readingVars
    <2>1. subject' = subject /\ UNCHANGED docVars
      BY <1>2 DEF readingVars
    <2>2. ASSUME subject = "document" PROVE LifeInv' /\ QuietStep
      <3>1. LifeInv'
        BY <2>1, <2>2, LifeStays DEF DocumentInv
      <3>2. (transport = "closed" /\ alive)' =>
               (handler = "null" /\ WorkerTasks = {} /\ mainPort = << >>)'
        BY <3>1 DEF LifeInv, Ending
      <3>3. WorkerTasks' = WorkerTasks
        BY <2>1 DEF docVars, docWorker
      <3> QED BY <3>1, <3>2, <3>3 DEF QuietStep
    <2> QED BY <2>1, <2>2 DEF DocumentInv
  <1>3. ASSUME subject # "document", subject' = subject
        PROVE  DocumentInv' /\ (subject = "document" => QuietStep)
    BY <1>3 DEF DocumentInv
  <1> QED BY <1>1, <1>2, <1>3 DEF ReadingNext, HostStep, ServerStep, XRefStep, LoaderStep, PagesStep,
                                  OfHost, OfServer, OfXRef, OfLoader, OfPages

\* Along whatever chain of prompts, recovery and errors, the worker reports one outcome, while
\* the promise is pending, and does not use its handler after Terminate has set it to null
\* (setupDoc, createDocumentHandler).
THEOREM OneOutcomeIsReported == ReadingSpec => []DocumentHasOneOutcome
  <1>1. ReadingInit => DocumentInv
    BY LifeStarts DEF ReadingInit, DocumentInv
  <1>2. DocumentInv /\ [ReadingNext]_readingVars => DocumentInv'
    BY DocumentInvHolds
  <1>3. DocumentInv => DocumentHasOneOutcome
    BY LifeMeans DEF DocumentInv, DocumentHasOneOutcome
  <1> QED BY <1>1, <1>2, <1>3, PTL DEF ReadingSpec

\* When destroy() is done no task that was registered runs in a worker that lives on, and
\* none starts once Terminate has looked at the set of tasks (createDocumentHandler).
THEOREM TheEndIsQuiet == ReadingSpec => DocumentGoesQuiet
  <1>1. ReadingInit => DocumentInv
    BY LifeStarts DEF ReadingInit, DocumentInv
  <1>2. DocumentInv /\ [ReadingNext]_readingVars => DocumentInv'
    BY DocumentInvHolds
  <1>3. DocumentInv /\ [ReadingNext]_readingVars => [subject = "document" => QuietStep]_readingVars
    BY DocumentInvHolds
  <1> QED BY <1>1, <1>2, <1>3, PTL DEF ReadingSpec, DocumentGoesQuiet

==============================================================================
