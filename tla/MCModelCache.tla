----------------------------- MODULE MCModelCache ------------------------------
EXTENDS ModelCache, TLC

CONSTANTS r1, r2, g1, g2

Symmetry == Permutations({r1, r2})

MCMaxName(m) == IF m = "m" THEN "m-max" ELSE IF m = "m-max" THEN "m-max-max" ELSE "k-max"

C(name, dev, max, devWindow, maxWindow) ==
    [name |-> name, available |-> name # "off", dev |-> dev, max |-> max,
     devWindow |-> devWindow, maxWindow |-> maxWindow]

\* One account: "m" by both functions, the second with details and a larger window,
\* and another model that has the name of the larger variant, by the first function.
\* The other account: "m" with a larger variant, whose window only the first function tells.
MCCatalog ==
    [g \in Identities |->
        IF g = g1
        THEN [f \in 1..Functions |->
                IF f = 1 THEN <<C("m", Absent, Absent, 0, 0), C("m-max", 2, Absent, 2, 0)>>
                ELSE <<C("m", 1, 3, 1, 2), C("off", 1, 1, 1, 2)>>]
        ELSE [f \in 1..Functions |->
                IF f = 1 THEN <<C("m", Absent, Absent, 1, 3)>>
                ELSE <<C("m", 0, 0, 0, 0), C("k", 2, 2, 2, 2)>>]]
===============================================================================
