----------------------------- MODULE MCRunMount -----------------------------
EXTENDS RunMount

CONSTANTS F, G, g, i, n

Text(says, in) == [says |-> says, in |-> in]
Frame(in)      == Text(None, in)

\* F and G are (or become) Contexts, g is a frame inside F; i is an instruction in F,
\* n a note.
Drawn(at) == [e \in {F, G, g, i, n} |->
    CASE e = F -> Frame(None) [] e = G -> Frame(None) [] e = g -> Frame(F)
      [] e = i -> Text("do", F) [] e = n -> Text("a", at)]

\* i depends on all of F, g on all of itself, i on n.
All == [context |-> F, from |-> i, to |-> F, whole |-> TRUE]
Sub == [context |-> F, from |-> g, to |-> g, whole |-> TRUE]
One == [context |-> F, from |-> i, to |-> n, whole |-> FALSE]

\* A guest writes on n outside; members move what is there into g, move or rewrite n,
\* delete it, and move the instruction to the other Context.
ByGuest == [guest |-> TRUE,  id |-> n, to |-> Text("b", None)]
Into    == [guest |-> FALSE, id |-> n, to |-> Text("b", g)]
Rewrite == [guest |-> FALSE, id |-> n, to |-> Text("c", g)]
Away    == [guest |-> FALSE, id |-> n, to |-> None]
Over    == [guest |-> FALSE, id |-> i, to |-> Text("do", G)]

\* An instruction that means a whole frame; one whose relation points out of its
\* Context; a frame that is yet to become a Context, on an old board.
Starts ==
    {[board |-> Drawn(g), registered |-> {F, G}, relations |-> {All, Sub}, known |-> "clean",
      saves |-> {Rewrite, Over}, declared |-> {One}],
     [board |-> Drawn(None), registered |-> {F}, relations |-> {One}, known |-> "clean",
      saves |-> {ByGuest, Into}, declared |-> {All}],
     [board |-> Drawn(F), registered |-> {G}, relations |-> {}, known |-> "unknown",
      saves |-> {ByGuest, Away, Into}, declared |-> {}]}
=============================================================================
