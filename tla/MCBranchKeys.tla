---------------------------- MODULE MCBranchKeys ----------------------------
(* Instances of BranchKeys: lists of up to three branches with two names,  *)
(* three keys, and canvases with a good, an old and a spoilt condition.    *)
EXTENDS BranchKeys

CONSTANTS x, y, j, k, l

B(key, name) == [key |-> key, name |-> name]

Sent == [key : {"", j, k, l}, name : {x, y}]

\* Lists of two, and some that are shorter or longer.
Some ==
    {<<b, c>> : b \in Sent, c \in {B("", x), B(j, x), B(j, y)}}
      \cup {<<B("else", x)>>, <<B("", x), B("", y), B("", "")>>, <<B("", x), B("", y), B(j, x)>>}

Canvas(list, edges) ==
    [branches |-> list, stop |-> FALSE, nodes |-> {e.to : e \in edges}, edges |-> edges]

\* Two branches; none, as an old condition; and three, two of them with one key.
Brought ==
    { Canvas(<<B(j, x), B(k, y)>>, {}),
      Canvas(<<>>, {}),
      Canvas(<<B(j, x), B(j, y), B("true", "")>>, {}) }

=============================================================================
