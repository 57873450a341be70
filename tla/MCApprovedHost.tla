---- MODULE MCApprovedHost ----
\* Two runs, together or one after the other, with any one failure.
EXTENDS ApprovedHost

CONSTANTS h1, h2

MCOps == {h1, h2}

\* Constraint: the two runs are alike, so only h1 first asks, and only h1 is first served.  Nothing
\* is assumed about when a request comes, so no fairness speaks of the steps left out.
InOrder ==
    /\ client[h2] # "none" => client[h1] # "none"
    /\ client[h2] = "done" => client[h1] = "done"
====
