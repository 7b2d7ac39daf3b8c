CONSTANTS
    owner = owner
    stranger = stranger
    basic = basic
    pro = pro
    enterprise = enterprise
    User = {owner, stranger}
    Bundle = {basic}
    Cancel = {c1}
    TicksPerDay = 2
    LastTick = 4
    MaxFailures = 0
    FreeAllowance = 1
    None = None
    Owner <- MCOwner
    TierOf <- MCTierOf
    MaxMessages <- MCMaxMessages
    Cycle <- MCCycle
SPECIFICATION Spec
INVARIANT CancelledForGood
CHECK_DEADLOCK FALSE
