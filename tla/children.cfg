\* Pipes of two records, and a user who kills one child.
SPECIFICATION FairSpec
CONSTANTS
    Room = 2
    MaxKills = 1
INVARIANT
    NobodyForgotten
PROPERTY
    ParentEnds
CHECK_DEADLOCK FALSE
