\* The five philosophers, two meals each, with and without the barrier; one fork or
\* thread creation fails.
SPECIFICATION FairSpec
CONSTANTS
    N = 5
    Meals = 2
    MaxFailures = 1
INVARIANTS
    Exclusion
    SomebodyCanGoOn
    DinnerStartsTogether
PROPERTY
    EverybodyLeaves
CHECK_DEADLOCK FALSE
