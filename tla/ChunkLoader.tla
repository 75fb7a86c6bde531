------------------------------ MODULE ChunkLoader ------------------------------
(***************************************************************************)
(* What the callers of the ChunkedStreamManager may rely on, without its    *)
(* tables and its network: a set of loaded chunks that only grows, and      *)
(* requests that are answered in the very step that loads the last chunk    *)
(* they asked for, neither earlier nor later, and only once.                *)
(***************************************************************************)
EXTENDS Integers

CONSTANT Chunk      \* the chunks of the file

VARIABLES
    loaded,     \* the chunks that may be read
    count,      \* the number of requests made so far
    wants,      \* request -> the chunks it asked for
    answer      \* request -> what its caller has been told

loaderVars == <<loaded, count, wants, answer>>

Requests == 0 .. count - 1

LoaderInit ==
    /\ loaded = {}
    /\ count = 0
    /\ wants = << >>
    /\ answer = << >>

\* The answer of an old request once the chunks of loaded' are there.
AnswerNow(i) ==
    IF answer[i] = "pending" /\ wants[i] \subseteq loaded' THEN "resolved" ELSE answer[i]

\* One more request. Its caller is told at once if it has to wait.
NewRequest ==
    /\ count' = count + 1
    /\ \E S \in SUBSET Chunk :
          /\ wants' = [i \in 0 .. count |-> IF i = count THEN S ELSE wants[i]]
          /\ answer' = [i \in 0 .. count |->
                IF i = count THEN (IF S \subseteq loaded' THEN "resolved" ELSE "pending")
                             ELSE AnswerNow(i)]

Ask == NewRequest /\ UNCHANGED loaded

\* Chunks arrive; the loader may ask for more on its own account.
Load ==
    /\ loaded' \in SUBSET Chunk
    /\ loaded \subseteq loaded'
    /\ \/ NewRequest
       \/ /\ answer' = [i \in Requests |-> AnswerNow(i)]
          /\ UNCHANGED <<count, wants>>

\* One waiting request is answered with a failure.
Fail ==
    \E i \in Requests :
        /\ answer[i] = "pending"
        /\ \E a \in {"rejected", "ignored"} : answer' = [answer EXCEPT ![i] = a]
        /\ UNCHANGED <<loaded, count, wants>>

\* All waiting requests are let go.
GiveUp ==
    /\ answer' = [i \in Requests |-> IF answer[i] = "pending" THEN "ignored" ELSE answer[i]]
    /\ UNCHANGED <<loaded, count, wants>>

LoaderNext == Ask \/ Load \/ Fail \/ GiveUp

LoaderSpec == LoaderInit /\ [][LoaderNext]_loaderVars

==============================================================================
