---------------------------- MODULE MCPageRender ----------------------------
EXTENDS PageRender

Image(name) == [image |-> TRUE, name |-> name]
Text(name) == [image |-> FALSE, name |-> name]
MCPages == {[content |-> <<Image("a")>>, annotations |-> <<<<Image("a")>>>>],
            [content |-> <<Text("text"), Text("restore"), Image("b")>>, annotations |-> <<>>]}
=============================================================================
