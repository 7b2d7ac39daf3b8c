CONSTANTS
    alice = alice
    bob = bob
    s1 = s1
    phone = phone
    office = office
    mobile = mobile
    Request = {r1, r2, r3}
    User = {alice, bob}
    Sid = {s1, s2}
    Agent = {phone, laptop}
    Ttl = 0
    LastTick = 1
    None = None
    Route = {"send"}
    Address = {office, mobile}
    Admin = {bob}
    Subject <- MCSubject
    AddressOf <- MCAddressOf
    RateLimit <- MCRateLimit
SPECIFICATION GuardSpec
SYMMETRY RequestSymmetry
INVARIANTS UsersAreCountedApart
CHECK_DEADLOCK FALSE
