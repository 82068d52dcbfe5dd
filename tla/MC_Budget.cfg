SPECIFICATION GuardSpec
CONSTANTS
    MaxAttempts = 2
    MaxDecays = 4
INVARIANTS
    BudgetInWindow
