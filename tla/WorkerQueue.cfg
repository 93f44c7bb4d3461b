\* Two workers, one of which may die, and a scheduler that dispatches two jobs and
\* restarts them when they are settled.
SPECIFICATION FairSpec
CONSTANTS
    Job = {j1, j2}
    Worker = {w1, w2}
    Scheduler = {s1}
    StaleAfter = 1
    Restarts = {TRUE, FALSE}
    Timely = TRUE
    FinishMayRaise = FALSE
    MaxCrashes = 1
    None = None
INVARIANT ExclusiveExecution
PROPERTIES HandedOut JobSettles
