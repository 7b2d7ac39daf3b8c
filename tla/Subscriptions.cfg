CONSTANTS
    owner = owner
    stranger = stranger
    basic = basic
    pro = pro
    enterprise = enterprise
    User = {owner, stranger}
    Bundle = {basic, pro}
    Cancel = {c1}
    TicksPerDay = 2
    LastTick = 6
    MaxFailures = 1
    FreeAllowance = 1
    None = None
    Owner <- MCOwner
    TierOf <- MCTierOf
    MaxMessages <- MCMaxMessages
    Cycle <- MCCycle
SPECIFICATION FairSpec
INVARIANTS SavesAreSound RenewNeverThrows NoFreeCycle NoLostPayment AllowanceKept OverdueOnlyByFailure
PROPERTIES DueIsHandled NoFutureRenewal
CHECK_DEADLOCK FALSE
