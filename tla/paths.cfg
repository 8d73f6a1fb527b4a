SPECIFICATION FairSpec
CONSTANTS
    Frames <- MCFrames
    MaxPlace = 2
    Odd = "odd"
    SpinTicks = 2
    Budgets <- MCBudgets
INVARIANTS
    TypeOK
    ArrivedThere
    AnsweredOnce
    Agree
PROPERTIES
    MoveEnds
