\* All 512 graphs over three tasks, searched in every order.
CONSTANTS
    Size = 3
    Node <- Nodes
SPECIFICATION FairSpec
INVARIANT VerdictIsRight
PROPERTY Terminates
CHECK_DEADLOCK FALSE
