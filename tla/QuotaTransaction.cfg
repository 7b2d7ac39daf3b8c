CONSTANTS
    user = user
    basic = basic
    pro = pro
    enterprise = enterprise
    Request = {r1, r2, r3}
    Writer = {w}
    Bundle = {basic, pro}
    LastMonth = 1
    FreeAllowance = 1
    None = None
    User <- MCUser
    Owner <- MCOwner
    TierOf <- MCTierOf
    MaxMessages <- MCMaxMessages
SPECIFICATION Spec
SYMMETRY RequestSymmetry
INVARIANTS ReadsStayCurrent DecisionStillHolds DecrementNeverMisses DeadlockNeedsTwoMonths StuckOnlyInCycle
PROPERTY DeductionIsAtomic
CHECK_DEADLOCK FALSE
