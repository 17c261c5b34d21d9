SPECIFICATION Spec
CONSTANTS
    Envs <- MCEnvs
    Policies <- MCPolicies
    Fallback = 5
    MaxPairs = 3
    MaxStarts = 2
INVARIANTS TLSIsComplete PolicyIsWholeOrDefault
PROPERTIES NoClobber
