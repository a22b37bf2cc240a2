---------------------------- MODULE MCTenantData ----------------------------
EXTENDS TenantData, TLC

CONSTANTS ana, h1, h2, u1, u2, fallback

MCHandlers == {h1, h2}
MCEmployees == {ana}
MCUsers == {u1, u2}
MCAddressOf == [u \in MCUsers |-> fallback]
MCKept == {"notification", "employeeTip"}
MCCopies == {1}
MCSymmetry == Permutations(MCHandlers) \cup Permutations(MCUsers)
=============================================================================
