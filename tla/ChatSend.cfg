CONSTANTS
    alice = alice
    bob = bob
    basic = basic
    User = {alice, bob}
    Bundle = {basic}
    Request = {r1, r2}
    LastMonth = 1
    FreeAllowance = 1
    Owner <- MCOwner
    TierOf <- MCTierOf
    MaxMessages <- MCMaxMessages
SPECIFICATION FairSpec
INVARIANTS TypeOK RepliesTellTheTruth AuditIsPaid FreeMessagesCounted BundleMessagesCounted
PROPERTY EveryRequestAnswered
CHECK_DEADLOCK FALSE
