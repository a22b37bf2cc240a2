SPECIFICATION Spec
CONSTANTS
    ana = ana
    h1 = h1
    h2 = h2
    u1 = u1
    u2 = u2
    fallback = fallback
    Nobody = Nobody
    Handlers <- MCHandlers
    Employees <- MCEmployees
    Users <- MCUsers
    AddressOf <- MCAddressOf
    Kept <- MCKept
    Copies <- MCCopies
    MaxTenants = 2
INVARIANTS
    TypeOK
    OnlyRacesFail
PROPERTIES
    DeletedKnowingly
    NothingOutlivesItsTenant
SYMMETRY MCSymmetry
