--------------------------- MODULE NetworkPDFManager ---------------------------
(***************************************************************************)
(* NetworkPDFManager.ensure of seren-core/src/worker/pdf_manager.ts over   *)
(* the ChunkedStreamManager: a function that parses some part of the file  *)
(* is run from its beginning until none of its reads throws a              *)
(* MissingDataException; after each exception the missing range is         *)
(* requested and the function waits for it.                                *)
(*                                                                         *)
(* A job is such a function, seen as the reads it makes: a sequence of     *)
(* ensureByte(pos) and ensureRange(begin, end) checks, each followed by    *)
(* the read it protects. Every job reads through a view of its own (see    *)
(* ChunkedStream), made when the job's substream was made.                 *)
(***************************************************************************)
EXTENDS ChunkedStreamManager, Sequences

CONSTANTS
    Job,        \* the ensure calls
    Program,    \* job -> its reads, records [begin, end, byte]
    MaxCalls    \* bound: requestAllChunks is called only among the first requests

Reads == [begin : Nat, end : Nat, byte : BOOLEAN]

ASSUME ProgramAssumption ==
    \A job \in Job :
        /\ Program[job] \in Seq(Reads)
        /\ \A i \in DOMAIN Program[job] :
              LET read == Program[job][i]
              IN  read.begin < read.end /\ (read.byte => read.end = read.begin + 1)

ASSUME CallAssumption == MaxCalls \in 0 .. MaxRequests

VARIABLE task   \* job -> [state, view, at, id, read]: where its ensure call is
                \* (at: the read that threw, id: the request it awaits, read: the
                \* positions its last run has read)

ensureVars == <<vars, task>>

States == {"none", "ready", "waiting", "done", "failed"}

Throws(view, read) ==
    IF read.byte THEN EnsureByteThrows(view, read.begin)
                 ELSE EnsureRangeThrows(view, read.begin, read.end)

ReadBytes(read) == (read.begin .. read.end - 1) \cap Positions

EnsureInit ==
    /\ Init
    /\ task = [job \in Job |-> [state |-> "none", view |-> CurrentView(-1),
                                at |-> 0, id |-> 0, read |-> {}]]

\* makeSubStream: the view is copied from the parent stream, whose own cache
\* names a loaded chunk or nothing.
MakeSubStream(job) ==
    /\ task[job].state = "none"
    /\ \E last \in {-1} \cup loadedChunks :
          task' = [task EXCEPT ![job].state = "ready", ![job].view = CurrentView(last)]
    /\ UNCHANGED vars

\* The reads before number i that have set the cache of the view.
Caching(job, i) ==
    {k \in 1 .. i - 1 :
        Program[job][k].byte /\ ~ReturnsEarly(task[job].view, Program[job][k].begin)}

\* The view of the job before its read number i, when all earlier ones pass: the last
\* that sets the cache decides.
ViewBefore(job, i) ==
    LET caching == Caching(job, i)
        last    == CHOOSE k \in caching : \A j \in caching : j <= k
    IN  IF caching = {} THEN task[job].view
        ELSE [task[job].view EXCEPT
                 !.last = LastAfterEnsureByte(task[job].view, Program[job][last].begin)]

ThrowsAt(job, i) == Throws(ViewBefore(job, i), Program[job][i])

\* Read number i of the job is the first that throws; one past the end: none does.
FirstThrow(job, i) ==
    /\ \A k \in 1 .. i - 1 : ~ThrowsAt(job, k)
    /\ i \in DOMAIN Program[job] => ThrowsAt(job, i)

\* Where the job is after a run that read number i has ended.
RunEnds(job, i, state) ==
    task' = [task EXCEPT ![job] =
        [state |-> state, view |-> ViewBefore(job, i), at |-> i, id |-> currRequestId,
         read |-> UNION {ReadBytes(Program[job][k]) : k \in 1 .. i - 1}]]

\* One run of the function, and the call of requestRange that a
\* MissingDataException leads to.
Run(job) ==
    /\ \/ task[job].state = "ready"
       \/ task[job].state = "waiting" /\ promise[task[job].id] \in {"resolved", "ignored"}
    /\ \E i \in 1 .. Len(Program[job]) + 1 :
          /\ FirstThrow(job, i)
          /\ \/ /\ i > Len(Program[job])
                /\ RunEnds(job, i, "done")
                /\ UNCHANGED vars
             \/ /\ i <= Len(Program[job]) /\ currRequestId < MaxRequests
                /\ RunEnds(job, i, "waiting")
                /\ LET r == Program[job][i]
                   IN  RequestRange(r.begin, IF r.byte THEN r.begin + 1 ELSE r.end)

\* The request failed: the exception leaves ensure.
Rejected(job) ==
    /\ task[job].state = "waiting"
    /\ promise[task[job].id] = "rejected"
    /\ task' = [task EXCEPT ![job].state = "failed"]
    /\ UNCHANGED vars

Environment ==
    /\ \/ FetchEnds
       \/ \E end \in 1 .. Length : Arrive(end) \/ ProgressiveData(end)
       \/ Abort
       \/ currRequestId < MaxCalls /\ RequestAllChunks
    /\ UNCHANGED task

EnsureNext ==
    \/ Environment
    \/ \E job \in Job : MakeSubStream(job) \/ Run(job) \/ Rejected(job)

\* A job that can go on does; what the manager's FairSpec assumes is kept.
EnsureSpec ==
    /\ EnsureInit /\ [][EnsureNext]_ensureVars
    /\ \A job \in Job : WF_ensureVars(Run(job) \/ Rejected(job))
    /\ WF_ensureVars(FetchEnds /\ UNCHANGED task)
    /\ WF_ensureVars(ProgressiveData(arrived) /\ UNCHANGED task)

------------------------------------------------------------------------------

\* The tasks have the values the code gives them.
EnsureTypeOK ==
    task \in [Job -> [state : States, view : Views, at : Nat, id : Nat,
                      read : SUBSET Positions]]

\* A parser never reads a byte that has not arrived, although its view of the
\* progressive data and its one-chunk cache are copies that are never refreshed.
OnlyWrittenBytesRead ==
    /\ EnsureTypeOK
    /\ \A job \in Job : task[job].read \subseteq bytes

\* When the request made for a missing range is answered, the read that missed
\* it succeeds: the rounding of requestRange and the checks of ensureByte and
\* ensureRange agree on which chunks a range needs. Otherwise ensure would run
\* its function again and again.
NoRetryInVain ==
    \A job \in Job :
        (task[job].state = "waiting" /\ promise[task[job].id] = "resolved") =>
            ~Throws(task[job].view, Program[job][task[job].at])

\* Every ensure call ends with its value or an exception, unless a request of
\* another has failed or the manager is aborted.
EnsureEnds ==
    []<>(\/ \A job \in Job : task[job].state \notin {"ready", "waiting"}
         \/ Failed \/ aborted)

==============================================================================
