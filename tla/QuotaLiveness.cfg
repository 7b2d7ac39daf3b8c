CONSTANTS
    user = user
    basic = basic
    pro = pro
    enterprise = enterprise
    Request = {r1, r2, r3}
    Writer = {}
    Bundle = {basic, enterprise}
    LastMonth = 1
    FreeAllowance = 2
    None = None
    User <- MCUser
    Owner <- MCOwner
    TierOf <- MCTierOf
    MaxMessages <- MCMaxMessages
SPECIFICATION FairSpec
INVARIANT FreeGrantsCounted
PROPERTY EveryDeductionEnds
CHECK_DEADLOCK FALSE
