----------------------------- MODULE MCPageViews -----------------------------
(* The viewer loads a document of one page and one of two, in either order.    *)
EXTENDS PageViews

MCPageCounts == {<<1, 2>>}
==============================================================================
