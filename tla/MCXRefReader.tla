----------------------------- MODULE MCXRefReader -----------------------------
(* Files of three sections, with every way to link them, and the contents that  *)
(* make a difference: objects redefined, several subsections, broken entries.   *)
EXTENDS XRefReader

Contents ==
    {[kind |-> "table",  ranges |-> <<<<0, 2>>>>,            records |-> <<"free", "used">>],
     [kind |-> "table",  ranges |-> <<<<0, 1>>, <<2, 2>>>>,  records |-> <<"free", "used", "free">>],
     [kind |-> "table",  ranges |-> <<<<1, 1>>, <<3, 1>>>>,  records |-> <<"used", "bad">>],
     [kind |-> "stream", ranges |-> <<<<1, 1>>, <<3, 1>>>>,  records |-> <<"used", "used">>]}

Misnumbering ==
    {[kind |-> "table",  ranges |-> <<<<1, 3>>>>, records |-> <<"free", "used", "used">>]}

Linked(contents, xrefStm, prev) ==
    [kind |-> contents.kind, ranges |-> contents.ranges, records |-> contents.records,
     xrefStm |-> IF contents.kind = "table" THEN xrefStm ELSE 0, prev |-> prev]

FilesOf(contents) ==
    {<<Linked(a, x, p), Linked(b, y, q), Linked(c, 0, r)>> :
        a \in contents, b \in contents, c \in contents,
        x \in {0, 3}, p \in {0, 2}, y \in {0, 3}, q \in {0, 1, 3}, r \in {0, 2}}

MCFiles   == FilesOf(Contents)
ShortFile == {<<Linked(c, 0, 0)>> : c \in Misnumbering}
==============================================================================
