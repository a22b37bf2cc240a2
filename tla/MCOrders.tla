------------------------------ MODULE MCOrders ------------------------------
EXTENDS OrderClients, TLC

CONSTANTS kiosk, office, h1, h2, meat, dairy, beef, milk, ana, ben, eva

MCClients == {kiosk}
MCKiosks == {kiosk}
MCNames == {ana, ben, eva}
MCSignedIn == <<{ana}, {ben}, {eva}, {ana}>>
MCHandlers == {h1, h2}
MCSuppliers == {meat, dairy}
MCProducts == {beef, milk}
MCSupplierOf == (beef :> meat) @@ (milk :> dairy)
MCCatalogs == {{beef, milk}, {beef}}
MCQuantity == {0, 1}
MCSymmetry == Permutations(MCHandlers)
=============================================================================
