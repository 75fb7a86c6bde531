------------------------------- MODULE PageTree -------------------------------
(***************************************************************************)
(* Pages of a document in the worker: Catalog.getPageDict, getAllPageDicts *)
(* and getPageIndex (seren-core/src/document/catalog.ts) over the caches   *)
(* they share, and PDFDocument.getPage, checkFirstPage and checkLastPage   *)
(* (document.ts), which run first and may replace the pages by those of a  *)
(* walk over the whole tree.  The search for a page waits for every node   *)
(* it fetches; in between other searches, and cleanup(), run.              *)
(*                                                                         *)
(* A node of the tree is known by its reference; 0 is the top-level node.  *)
(* It is a record of kids, a sequence of nodes, leaf, and count: what its  *)
(* Count says, or Absent.                                                  *)
(***************************************************************************)
EXTENDS Integers, Sequences, FiniteSets, SequencesExt

CONSTANTS
    Trees,          \* the trees: functions from nodes to records
    MaxCleanups     \* bound: calls of cleanup() by the application

Absent == -1

VARIABLES
    tree,           \* the file
    kidsCount,      \* pageKidsCountCache
    pageIndex,      \* pageIndexCache
    search,         \* _pagePromises: for each page index the search behind it
    walk,           \* the queue, visitedNodes and map of getAllPageDicts
    numPages,       \* what numPages gives
    stage,          \* "first", "last": being checked; "walk"; "use"
    cleanups        \* how many calls of cleanup() there were

pageVars == <<tree, kidsCount, pageIndex, search, walk, numPages, stage, cleanups>>

Nodes   == DOMAIN tree
Indices == 0 .. Cardinality(Nodes)

\* RefSetCache.get: what is absent is null, and so is what is 0.
Null == -2
CacheGet(cache, node) == IF node \in DOMAIN cache /\ cache[node] # 0 THEN cache[node] ELSE Null

CachePut(cache, node, value) ==
    [n \in DOMAIN cache \cup {node} |-> IF n \in DOMAIN cache THEN cache[n] ELSE value]

NoCache  == [n \in {} |-> 0]
NoSearch == [state |-> "none", visit |-> << >>, visited |-> {}, current |-> 0, node |-> 0]

PagesInit ==
    /\ tree \in Trees
    /\ kidsCount = NoCache /\ pageIndex = NoCache
    /\ search = [i \in Indices |-> NoSearch]
    /\ walk = [stack |-> << >>, visited |-> {}, pages |-> << >>]
    /\ numPages = tree[0].count
    /\ stage = "first"
    /\ cleanups = 0

------------------------------------------------------------------------------
(* getPageDict: a depth-first search that skips what lies before the page.  *)

\* A node to visit: its reference, or the dictionary itself.
Item(node, dict) == [node |-> node, dict |-> dict]

Started == [NoSearch EXCEPT !.state = "run", !.visit = <<Item(0, TRUE)>>, !.visited = {0}]

Top(i)    == Last(search[i].visit)
Popped(i) == Front(search[i].visit)

\* Mutant of LiesBefore: a count of one page too many is skipped.
LiesBeforeOrHere(count, i) == count >= 0 /\ search[i].current + count <= i + 1

\* The page cannot be in a subtree that ends before it.
LiesBefore(count, i) == count >= 0 /\ search[i].current + count <= i

Becomes(i, s)     == search' = [search EXCEPT ![i] = s]
Ends(i, how)      == Becomes(i, [NoSearch EXCEPT !.state = how])
FoundAt(i, node)  == Becomes(i, [NoSearch EXCEPT !.state = "found", !.node = node])
Skips(i, count)   == Becomes(i, [search[i] EXCEPT !.visit = Popped(i), !.current = @ + count])

NotFound(i) ==
    /\ search[i].visit = << >>
    /\ Ends(i, "failed")
    /\ UNCHANGED <<kidsCount, pageIndex>>

\* A reference: it is skipped, closes a circle, or is fetched.
VisitRef(i) ==
    /\ search[i].visit # << >> /\ ~Top(i).dict
    /\ LET node  == Top(i).node
           count == CacheGet(kidsCount, node)
       IN  IF LiesBefore(count, i) THEN Skips(i, count)
           ELSE IF node \in search[i].visited THEN Ends(i, "failed")
           ELSE Becomes(i, [search[i] EXCEPT !.visit = Popped(i), !.visited = @ \cup {node},
                                             !.state = "fetch", !.node = node])
    /\ UNCHANGED <<kidsCount, pageIndex>>

\* A dictionary with kids: it is skipped, or the kids are to be visited.
VisitDict(i) ==
    /\ search[i].visit # << >> /\ Top(i).dict
    /\ LET node == Top(i).node
           count == tree[node].count
           kids == [k \in DOMAIN tree[node].kids |-> Item(tree[node].kids[k], FALSE)]
       IN  /\ kidsCount' = IF count >= 0 THEN CachePut(kidsCount, node, count) ELSE kidsCount
           /\ IF LiesBefore(count, i) THEN Skips(i, count)
              ELSE Becomes(i, [search[i] EXCEPT !.visit = Popped(i) \o Reverse(kids)])
    /\ UNCHANGED pageIndex

\* The node has been fetched: a page, or a dictionary to visit.
Fetched(i) ==
    /\ search[i].state = "fetch"
    /\ LET node == search[i].node
       IN  IF tree[node].leaf
           THEN /\ kidsCount' = CachePut(kidsCount, node, 1)
                /\ pageIndex' = CachePut(pageIndex, node, search[i].current)
                /\ IF search[i].current = i THEN FoundAt(i, node)
                   ELSE Becomes(i, [search[i] EXCEPT !.state = "run", !.current = @ + 1])
           ELSE /\ Becomes(i, [search[i] EXCEPT !.state = "run",
                                                !.visit = Append(@, Item(node, TRUE))])
                /\ UNCHANGED <<kidsCount, pageIndex>>

Searches(i) ==
    /\ \/ search[i].state = "run" /\ (NotFound(i) \/ VisitRef(i) \/ VisitDict(i))
       \/ Fetched(i)
    /\ UNCHANGED <<tree, walk, numPages, stage, cleanups>>

------------------------------------------------------------------------------
(* Loading: checkFirstPage and checkLastPage.                               *)

\* PDFDocument.getPage
GetPage(i) ==
    /\ search[i].state = "none"
    /\ Becomes(i, Started)

CheckFirstPage ==
    /\ stage = "first"
    /\ \/ GetPage(0) /\ UNCHANGED stage
       \/ search[0].state \in {"found", "failed"} /\ stage' = "last" /\ UNCHANGED search
    /\ UNCHANGED <<tree, kidsCount, pageIndex, walk, numPages, cleanups>>

LastPageIsFine ==
    \/ numPages \in {0, 1}
    \/ numPages > 1 /\ search[numPages - 1].state = "found"

CheckLastPage ==
    /\ stage = "last"
    /\ \/ numPages > 1 /\ GetPage(numPages - 1) /\ UNCHANGED stage
       \/ LastPageIsFine /\ stage' = "use" /\ UNCHANGED search
    /\ UNCHANGED <<tree, kidsCount, pageIndex, walk, numPages, cleanups>>

\* The count is not a number or the last page is not there: the caches are cleared
\* and the whole tree is walked.
LastPageFails ==
    /\ stage = "last"
    /\ numPages = Absent \/ (numPages > 1 /\ search[numPages - 1].state = "failed")
    /\ kidsCount' = NoCache /\ pageIndex' = NoCache
    /\ search' = IF numPages > 1 THEN [search EXCEPT ![numPages - 1] = NoSearch] ELSE search
    /\ walk' = [stack |-> <<[node |-> 0, pos |-> 1]>>, visited |-> {0}, pages |-> << >>]
    /\ stage' = "walk"
    /\ UNCHANGED <<tree, numPages, cleanups>>

Error == -1     \* a page that is an error (addPageError)

WalkItem == Last(walk.stack)
WalkKids == tree[WalkItem.node].kids
WalkKid  == WalkKids[WalkItem.pos]
Advanced == Append(Front(walk.stack), [WalkItem EXCEPT !.pos = @ + 1])

WalkUp ==
    /\ WalkItem.pos > Len(WalkKids)
    /\ walk' = [walk EXCEPT !.stack = Front(@)]
    /\ UNCHANGED pageIndex

WalkCircle ==
    /\ WalkItem.pos <= Len(WalkKids) /\ WalkKid \in walk.visited
    /\ walk' = [walk EXCEPT !.stack = << >>, !.pages = Append(@, Error)]
    /\ UNCHANGED pageIndex

WalkPage ==
    /\ WalkItem.pos <= Len(WalkKids) /\ WalkKid \notin walk.visited /\ tree[WalkKid].leaf
    /\ pageIndex' = CachePut(pageIndex, WalkKid, Len(walk.pages))
    /\ walk' = [stack |-> Advanced, visited |-> walk.visited \cup {WalkKid},
                pages |-> Append(walk.pages, WalkKid)]

WalkDown ==
    /\ WalkItem.pos <= Len(WalkKids) /\ WalkKid \notin walk.visited /\ ~tree[WalkKid].leaf
    /\ walk' = [walk EXCEPT !.stack = Append(Advanced, [node |-> WalkKid, pos |-> 1]),
                            !.visited = @ \cup {WalkKid}]
    /\ UNCHANGED pageIndex

WalkTree ==
    /\ stage = "walk" /\ walk.stack # << >>
    /\ WalkUp \/ WalkCircle \/ WalkPage \/ WalkDown
    /\ UNCHANGED <<tree, kidsCount, search, numPages, stage, cleanups>>

\* The pages that were found replace the promises.
PageOf(node) == [NoSearch EXCEPT !.state = IF node = Error THEN "failed" ELSE "found",
                                 !.node = IF node = Error THEN 0 ELSE node]

WalkDone ==
    /\ stage = "walk" /\ walk.stack = << >>
    /\ search' = [i \in Indices |-> IF i < Len(walk.pages) THEN PageOf(walk.pages[i + 1])
                                    ELSE search[i]]
    /\ numPages' = Len(walk.pages)
    /\ stage' = "use"
    /\ UNCHANGED <<tree, kidsCount, pageIndex, walk, cleanups>>

------------------------------------------------------------------------------

\* The application asks for a page.
UsePage(i) ==
    /\ stage = "use" /\ i < numPages
    /\ GetPage(i)
    /\ UNCHANGED <<tree, kidsCount, pageIndex, walk, numPages, stage, cleanups>>

\* ... or has the worker clean up.
Cleanup ==
    /\ stage = "use" /\ cleanups < MaxCleanups
    /\ kidsCount' = NoCache /\ pageIndex' = NoCache
    /\ cleanups' = cleanups + 1
    /\ UNCHANGED <<tree, search, walk, numPages, stage>>

\* What getPageIndex answers: a cached index that is not undefined.
GetPageIndex(node) == CacheGet(pageIndex, node)

Checks == CheckFirstPage \/ CheckLastPage \/ LastPageFails \/ WalkTree \/ WalkDone

PagesNext ==
    \/ Checks
    \/ \E i \in Indices : Searches(i) \/ UsePage(i)
    \/ Cleanup

\* The worker runs; the application need not ask.
PagesSpec ==
    /\ PagesInit /\ [][PagesNext]_pageVars
    /\ WF_pageVars(Checks) /\ WF_pageVars(\E i \in Indices : Searches(i))

------------------------------------------------------------------------------

\* The pages below a node, in order; depth bounds the recursion in a circle.
Leaves[node \in Nodes, depth \in Indices] ==
    IF tree[node].leaf THEN <<node>>
    ELSE IF depth = 0 THEN << >>
    ELSE FlattenSeq([k \in DOMAIN tree[node].kids |-> Leaves[tree[node].kids[k], depth - 1]])

Below(node) == Leaves[node, Cardinality(Nodes)]
AllPages    == Below(0)

\* A tree in which every node occurs once and a Count, where there is one, is true;
\* that of the top-level node may claim too much.
Sound ==
    /\ \A m, n \in Nodes : \A k \in DOMAIN tree[m].kids, l \in DOMAIN tree[n].kids :
          tree[m].kids[k] = tree[n].kids[l] => m = n /\ k = l
    /\ \A n \in Nodes \ {0} : ~tree[n].leaf => tree[n].count \in {Absent, Len(Below(n))}
    /\ tree[0].count = Absent \/ tree[0].count >= Len(AllPages)

\* Each page that is found is the page of its number, and each number the document
\* claims to have has its page, whichever searches ran before or run meanwhile and
\* left their counts in the caches, and whenever these are cleared.
PagesAreFound ==
    Sound =>
        /\ stage = "use" => numPages = Len(AllPages)
        /\ \A i \in Indices :
              /\ search[i].state = "found" => i < Len(AllPages) /\ search[i].node = AllPages[i + 1]
              /\ search[i].state = "failed" => i >= Len(AllPages)
        /\ \A n \in DOMAIN pageIndex : AllPages[pageIndex[n] + 1] = n
        /\ \A n \in DOMAIN kidsCount \ {0} : kidsCount[n] = Len(Below(n))

\* Every search ends, in a tree with circles too.
SearchesDone ==
    stage = "use" /\ \A i \in Indices : search[i].state \in {"none", "found", "failed"}

\* "A promise that is resolved with the page index, starting from zero, that is
\* associated with the reference" (api.ts).
PageIndexIsKnown ==
    stage = "use" => \A i \in DOMAIN AllPages : GetPageIndex(AllPages[i]) = i - 1
==============================================================================
