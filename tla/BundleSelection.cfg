CONSTANTS
    basic = basic
    pro = pro
    enterprise = enterprise
    user = user
    Nobody = Nobody
    FreeAllowance = 1
    User <- MCUser
    Bundle <- MCBundle
    Owner <- MCOwner
    TierOf <- MCTierOf
    MaxMessages <- MCMaxMessages
    RowLists <- MCRowLists
SPECIFICATION Spec
INVARIANTS TypeOK SelectedIsBest FirstOfTiesWins
CHECK_DEADLOCK FALSE
