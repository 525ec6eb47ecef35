CONSTANTS
    a = a
    b = b
    macA = macA
    macB = macB
    Ips <- MCIps
    MacOf <- MCMacOf
    Inserts <- MCInserts
    StoreOrders <- MCAnyOrder
SPECIFICATION Spec
INVARIANT LookupSound
