SPECIFICATION FaultsSpec
CONSTANTS
    w1 = w1
    w2 = w2
    w3 = w3
    p1 = p1
    p2 = p2
    Worker = {w1, w2, w3}
    Provenance = {p1, p2}
    Wants <- OneDiffers
    Absent = absent
    Torn = torn
    Canonical = canonical
    Nobody = nobody
    MaxFaults = 3
INVARIANTS ManifestHasRecord FailuresAreCleared
PROPERTIES CompletedPreserved PersistsAtomically Completes
