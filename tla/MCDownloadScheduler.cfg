SPECIFICATION Spec
CONSTANTS
    r1 = r1  r2 = r2  r3 = r3  r4 = r4
    c1 = c1  c2 = c2  c3 = c3
    tA = tA  tB = tB  dc1 = dc1  dc2 = dc2
    Reqs = {r1, r2, r3, r4}
    Chunks = {c1, c2, c3}
    Tasks = {tA, tB}
    DCs = {dc1, dc2}
    TaskOf <- SharedTask
    DCOf <- MovedDC
    LeaseOf <- OnePerLease
    Cancelable = {r2, c3}
    FileLimits = {2}
    Capacities = {0, 2}
    MaxReconfigs = 1
    MaxCancels = 1
    None = None
INVARIANTS TypeOK Conserved LeasesServed
PROPERTIES NoOvertaking
