---------------------------- MODULE MCEditorSync ----------------------------
EXTENDS EditorSync

CONSTANTS a, b

\* a and b meet on x, with b losing or winning a tie; b changes x twice, or y.
Drafts == {<<a, "x", 2>>, <<b, "x", 1>>, <<b, "x", 3>>, <<b, "y", 3>>}

\* b's first change of x is one the signature does not see.
Signatures == [i \in Ids |-> [n \in Ranks |-> IF i = "x" /\ n = 1 THEN 0 ELSE n]]
\* The signature sees every change.
Distinct == [i \in Ids |-> [n \in Ranks |-> n]]

\* Whom mishaps befall, and what a person may hold when an update comes.
NoGrip == {{}}
Grip == {{}, {"x"}}
Second == {b}
=============================================================================
