SPECIFICATION HostFairSpec
CONSTANTS
    prov = prov  cons = cons  opt = opt
    Comps = {prov, cons, opt}
    Required <- RequiredDef
    Optional <- OptionalDef
    Work <- WorkDef
    Capacity = 1
    MaxOps = 3
    MaxFaults = 2
INVARIANTS PortsSound WholePolicy
PROPERTIES HostSettles

CHECK_DEADLOCK FALSE
