CONSTANTS
    FirstMonth = 24288
    LastMonth = 25223
    MaxRenewals = 13
SPECIFICATION Spec
INVARIANTS TypeOK RollsOverOnce NeverEarly CycleLengths
CHECK_DEADLOCK FALSE
