CONSTANTS
    a = a
    b = b
    macA = macA
    macB = macB
    Ips <- MCIps
    MacOf <- MCMacOf
    Inserts <- MCInserts
    StoreOrders <- MCProgramOrder
SPECIFICATION Spec
INVARIANT TypeOK
INVARIANT LookupSound
INVARIANT FreshKept
