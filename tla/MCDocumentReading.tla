--------------------------- MODULE MCDocumentReading ---------------------------
(* Instances of DocumentReading for TLC: every way of loading a file, files of *)
(* at most two sections, graphs of three objects, and small page trees.        *)
EXTENDS DocumentReading, MCXRefReader

AllPlans == [range : BOOLEAN, streaming : BOOLEAN, closes : BOOLEAN]

MCRefs == 1 .. 3
MCGraphs == [MCRefs -> {<< >>, <<1>>, <<2, 3>>, <<3, 2>>}]
MCKeys == <<1>>
MCStreams == {{}, {2}, {2, 3}}
MCBad == {{}, {3}}

\* Page trees: the kids of each node, which nodes are inner ones, and the counts they have.
Kids ==
    {[n \in 0 .. 3 |-> IF n = 0 THEN <<1, 2, 3>> ELSE << >>],
     [n \in 0 .. 4 |-> CASE n = 0 -> <<1, 2>> [] n = 1 -> <<3, 4>> [] OTHER -> << >>],
     [n \in 0 .. 5 |-> CASE n = 0 -> <<5, 1, 2>> [] n = 1 -> <<3>> [] n = 2 -> <<4>>
                         [] OTHER -> << >>],
     [n \in 0 .. 7 |-> CASE n = 0 -> <<1, 2>> [] n = 1 -> <<3, 4, 5>> [] n = 2 -> <<6, 7>>
                         [] OTHER -> << >>],
     [n \in 0 .. 3 |-> CASE n = 0 -> <<1, 2, 3>> [] n = 1 -> << >> [] OTHER -> << >>],
     [n \in 0 .. 2 |-> CASE n = 0 -> <<1, 2>> [] n = 2 -> <<1, 2>> [] OTHER -> << >>]}

\* Node 1 of the fourth has no pages.
Inner(kids) == {n \in DOMAIN kids : kids[n] # << >>}
               \cup (IF kids[0] = <<1, 2, 3>> THEN {1} ELSE {})

LeavesBelow[kids \in Kids, inner \in SUBSET (0 .. 7), n \in 0 .. 7] ==
    IF n \notin inner THEN 1
    ELSE IF n \in ToSet(kids[n]) THEN 0
    ELSE FoldLeft(LAMBDA sum, k : sum + LeavesBelow[kids, inner, k], 0, kids[n])

MCTrees ==
    UNION {UNION {{[n \in DOMAIN kids |->
                       [kids |-> kids[n], leaf |-> n \notin inner,
                        count |-> IF n \notin inner THEN Absent
                                  ELSE IF n = 0 THEN (IF extra = Absent THEN Absent
                                                      ELSE LeavesBelow[kids, inner, 0] + extra)
                                  ELSE IF n \in counted THEN LeavesBelow[kids, inner, n]
                                  ELSE Absent]] :
                    counted \in SUBSET (inner \ {0}), extra \in {Absent, 0, 1}} :
                  inner \in {{n \in DOMAIN kids : kids[n] # << >>}, Inner(kids)}} :
           kids \in Kids}
==============================================================================
