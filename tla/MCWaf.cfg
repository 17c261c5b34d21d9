SPECIFICATION Spec
CONSTANTS
    Bytes <- MCBytes
    Blanks = {" "}
    Lower <- MCLower
    Policies <- MCPolicies
    Scanned <- MCScanned
    MaxInput = 6
INVARIANTS AutomatonIsRight TextIsNormalized MatchIffContained
