------------------------------- MODULE MCSaving -------------------------------
(* Two pages: new, edited and deleted annotations, and stamps.                *)
EXTENDS Saving

OldOf == <<3, 4>>

New(id)        == [id |-> id, bitmap |-> NoBitmap, freetext |-> FALSE, ref |-> NoRef,
                   deleted |-> FALSE]
FreeText(id)   == [New(id) EXCEPT !.freetext = TRUE]
Edited(id, r)  == [New(id) EXCEPT !.ref = r]
Deleted(id, r) == [New(id) EXCEPT !.ref = r, !.deleted = TRUE]
Stamp(id, b)   == [New(id) EXCEPT !.bitmap = b]

Request(first, second, tagged) == [notes |-> <<first, second>>, tagged |-> tagged]
OnePage(notes, tagged) == [notes |-> <<notes>>, tagged |-> tagged]

SomeRequests ==
    <<{Request(<<FreeText("a")>>, <<FreeText("b"), [Edited("c", 4) EXCEPT !.freetext = TRUE]>>, TRUE),
       Request(<<Stamp("a", "logo"), Stamp("b", "logo")>>, <<Stamp("c", "photo")>>, TRUE),
       Request(<<Stamp("a", "logo")>>, <<Stamp("b", "logo")>>, TRUE),
       OnePage(<<Deleted("a", 3), New("b")>>, TRUE),
       OnePage(<<New("a"), FreeText("b")>>, FALSE),
       [notes |-> <<>>, tagged |-> FALSE]},
      {Request(<<Deleted("a", 3)>>, <<New("b")>>, TRUE)}>>

UntaggedRequests == <<{OnePage(<<New("a")>>, FALSE)}>>

AllDocuments   == [stream : BOOLEAN, tree : BOOLEAN]
\* A tagged document, and one with a reference table and no structure tree.
TreeAndTable == {[stream |-> TRUE, tree |-> TRUE], [stream |-> FALSE, tree |-> FALSE]}
==============================================================================
