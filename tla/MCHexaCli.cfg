SPECIFICATION Spec
CONSTANTS
    s1 = s1
    s2 = s2
    gcp = gcp
    opa = opa
    o1 = o1
    o2 = o2
    o3 = o3
    work = work
    test = test
    p1 = p1
    p2 = p2
    Sessions = {s1, s2}
    Accounts = {gcp, opa}
    OpaAccounts = {opa}
    Objects = {o1, o2, o3}
    Owner <- MCOwner
    IntAliases = {work, test}
    PapAliases = {p1, p2}
    MaxStarts = 3
    MaxCommands = 3
    MaxChanges = 1
SYMMETRY Symmetry
INVARIANTS
    FileIsWhatWasTold
PROPERTIES
    DiscoveryNamesEach
CHECK_DEADLOCK FALSE
