------------------------------ MODULE MCAlerts ------------------------------
EXTENDS OperationalAlerts, TLC

CONSTANTS ann, eve, l1, l2

MCEmployees == {ann, eve}
MCOwnerManagers == {eve}
MCActing == {ann}
MCStart == (ann :> 0) @@ (eve :> 0)
MCListings == {l1, l2}
MCSymmetry == Permutations(MCListings)
=============================================================================
