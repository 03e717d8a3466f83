\* Two orders, up to ten messages, two probes, one fault.
SPECIFICATION Spec
CONSTANTS
    count = 2
    Lifecycles <- MCLifecycles
    Placements <- MCPlacements
    AUDIT_POINTS = 2
    LiquibookTable = 2
    MaxFaults = 1
CHECK_DEADLOCK FALSE
INVARIANTS TapeIsLegal AuditIsExact
