----------------------------- MODULE ObjectLoader -----------------------------
(***************************************************************************)
(* ObjectLoader (seren-core/src/common/object_loader.ts): loads everything *)
(* that can be reached from some keys of a dictionary, in a file that is   *)
(* still arriving.  An object is known by its reference; parsing it may    *)
(* find several pieces of it missing, one at a time.  A stream has data    *)
(* besides, which is looked at and requested without an exception.  The    *)
(* walk is synchronous: data arrives only while it waits.                  *)
(***************************************************************************)
EXTENDS Integers, Sequences, FiniteSets, SequencesExt

CONSTANTS
    Refs,           \* references: positive numbers
    Graphs,         \* for each reference the sequence of those its object holds
    Keys,           \* the raw values of the keys: references
    Pieces,         \* number of pieces of a non-stream object
    StreamSets,     \* the sets of references that are streams
    BadSets         \* the sets of references whose objects cannot be parsed

ASSUME LoaderAssumption ==
    /\ Refs \subseteq Nat \ {0} /\ Graphs \subseteq [Refs -> Seq(Refs)]
    /\ Keys \in Seq(Refs) /\ Pieces \in Nat
    /\ StreamSets \subseteq SUBSET Refs /\ BadSets \subseteq SUBSET Refs

VARIABLES
    graph, streams, bad,    \* the file
    data,       \* the pieces that are there: <<ref, n>>; n = 0 is the data of a stream
    toVisit,    \* nodesToVisit: references, and streams that are visited again
    toRevisit,  \* nodesToRevisit
    refSet,     \* refSet
    requests,   \* pendingRequests
    phase       \* "walk", "wait", "waitAll", "loaded", "all"

loaderFile == <<graph, streams, bad>>
loaderVars == <<loaderFile, data, toVisit, toRevisit, refSet, requests, phase>>

PiecesOf(ref) == {<<ref, n>> : n \in 1 .. Pieces} \cup (IF ref \in streams THEN {<<ref, 0>>} ELSE {})
AllPieces     == UNION {PiecesOf(ref) : ref \in Refs}

RefNode(ref)    == [ref |-> ref, object |-> FALSE]
StreamNode(ref) == [ref |-> ref, object |-> TRUE]

\* load(), unless the whole file is there already.
LoaderInit ==
    /\ graph \in Graphs /\ streams \in StreamSets /\ bad \in BadSets
    /\ data \in SUBSET AllPieces
    /\ toVisit = [i \in DOMAIN Keys |-> RefNode(Keys[i])]
    /\ toRevisit = << >> /\ refSet = {} /\ requests = {}
    /\ phase = IF data = AllPieces THEN "loaded" ELSE "walk"

------------------------------------------------------------------------------

\* What xref.fetch does: the parser reads on to the first piece that is missing.
MissingPieces(ref) == {n \in 1 .. Pieces : <<ref, n>> \notin data}
Fetches(ref) == MissingPieces(ref) = {}
FirstMissing(ref) ==
    <<ref, CHOOSE n \in MissingPieces(ref) : \A m \in MissingPieces(ref) : n <= m>>

Children(ref) == [i \in DOMAIN graph[ref] |-> RefNode(graph[ref][i])]

Node == Last(toVisit)

Skip ==
    /\ ~Node.object /\ Node.ref \in refSet
    /\ toVisit' = Front(toVisit)
    /\ UNCHANGED <<refSet, toRevisit, requests, phase>>

\* A MissingDataException: the node is still the reference, which has no children.
Missing ==
    /\ ~Node.object /\ Node.ref \notin refSet /\ ~Fetches(Node.ref)
    /\ refSet' = refSet \cup {Node.ref}
    /\ toRevisit' = Append(toRevisit, Node)
    /\ requests' = requests \cup {FirstMissing(Node.ref)}
    /\ toVisit' = Front(toVisit)
    /\ UNCHANGED phase

\* Any other exception: everything is requested.
Broken ==
    /\ ~Node.object /\ Node.ref \notin refSet /\ Fetches(Node.ref) /\ Node.ref \in bad
    /\ phase' = "waitAll"
    /\ refSet' = {}
    /\ requests' = AllPieces
    /\ UNCHANGED <<toVisit, toRevisit>>

Revisited(ref, streamMissing) ==
    IF streamMissing THEN Append(toRevisit, StreamNode(ref)) ELSE toRevisit

\* The object is there, or it was: a stream is asked for its data, and all children
\* are to be visited.
VisitObject ==
    /\ Node.object \/ (Node.ref \notin refSet /\ Fetches(Node.ref) /\ Node.ref \notin bad)
    /\ LET streamMissing == Node.ref \in streams /\ <<Node.ref, 0>> \notin data
       IN  /\ requests' = requests \cup (IF streamMissing THEN {<<Node.ref, 0>>} ELSE {})
           /\ toRevisit' = Revisited(Node.ref, streamMissing)
    /\ refSet' = IF Node.object THEN refSet ELSE refSet \cup {Node.ref}
    /\ toVisit' = Front(toVisit) \o Children(Node.ref)
    /\ UNCHANGED phase

Visit ==
    /\ phase = "walk" /\ toVisit # << >>
    /\ Skip \/ Missing \/ Broken \/ VisitObject
    /\ UNCHANGED <<loaderFile, data>>

\* The walk has come to its end: it waits for what is missing, or is done.
WalkEnds ==
    /\ phase = "walk" /\ toVisit = << >>
    /\ phase' = IF requests = {} THEN "loaded" ELSE "wait"
    /\ UNCHANGED <<loaderFile, data, toVisit, toRevisit, refSet, requests>>

\* Data arrives, for this loader or for someone else.
DataComes(piece) ==
    /\ phase \in {"wait", "waitAll"} /\ piece \in AllPieces \ data
    /\ data' = data \cup {piece}
    /\ UNCHANGED <<loaderFile, toVisit, toRevisit, refSet, requests, phase>>

\* Mutant of Forgotten: the references that are visited again stay in refSet.
ForgottenNone(nodes) == {}

\* The references that are to be visited again.
Forgotten(nodes) == {nodes[i].ref : i \in {j \in DOMAIN nodes : ~nodes[j].object}}

\* requestRanges has answered: the nodes that were not ready are visited again.
WalkAgain ==
    /\ phase = "wait" /\ requests \subseteq data
    /\ refSet' = refSet \ Forgotten(toRevisit)
    /\ toVisit' = toRevisit
    /\ toRevisit' = << >> /\ requests' = {}
    /\ phase' = "walk"
    /\ UNCHANGED <<loaderFile, data>>

AllComes ==
    /\ phase = "waitAll" /\ requests \subseteq data
    /\ phase' = "all"
    /\ UNCHANGED <<loaderFile, data, toVisit, toRevisit, refSet, requests>>

Walks == Visit \/ WalkEnds \/ WalkAgain \/ AllComes

LoaderNext ==
    \/ Walks
    \/ \E piece \in AllPieces : DataComes(piece)

\* The walk runs, and what is requested arrives.
LoaderSpec ==
    /\ LoaderInit /\ [][LoaderNext]_loaderVars
    /\ WF_loaderVars(Walks)
    /\ WF_loaderVars(\E piece \in requests : DataComes(piece))

------------------------------------------------------------------------------

\* The references that every set has in it which has the keys and what its members hold.
Closed(refs) ==
    /\ \A i \in DOMAIN Keys : Keys[i] \in refs
    /\ \A r \in refs : \A i \in DOMAIN graph[r] : graph[r][i] \in refs

Reachable == {r \in Refs : \A refs \in SUBSET Refs : Closed(refs) => r \in refs}

\* When load() is answered, every object that can be reached, and the data of every
\* stream among them, is there, in whichever order the pieces came: cycles, objects
\* that were missing twice and streams that were found late leave no gap.
LoadedMeansReachable ==
    phase \in {"loaded", "all"} => UNION {PiecesOf(ref) : ref \in Reachable} \subseteq data

\* load() is answered.
LoadingDone == phase \in {"loaded", "all"}
==============================================================================
