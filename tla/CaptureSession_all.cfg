\* Every kind of capture, two exiting threads, the budgets of the code.
SPECIFICATION FairSpec
CONSTANTS
    Exiting = {e1, e2}
    Kinds = {"launch", "attach", "standalone"}
    DrainBudget = 120
    StopTimeout = 30
    MaxQueries = 1
    None = None
INVARIANTS OneDrainer TeardownAfterTrace WriterErrorVisible AnswersMatch
PROPERTIES SessionReturns
CHECK_DEADLOCK FALSE
