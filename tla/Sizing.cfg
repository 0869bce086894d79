SPECIFICATION Spec
CONSTANTS
    Names <- MCNames
    Hosts = {"old", "other"}
    Candidate = "old"
    NoHost = "nohost"
    Pods <- MCPods
    Clusters <- MCClusters
INVARIANTS
    ShortfallWithinBand
    NothingUnreserved
    FitsFreshNode
    DrainIsWhatMoves
    GatePrechecks
