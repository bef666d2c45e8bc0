\* Violation: a probe that neither answers nor trips keeps the flag.
SPECIFICATION Spec
CONSTANTS
    c1 = c1
    c2 = c2
    c3 = c3
    primary = primary
    fallback = fallback
    Caller = {c1, c2}
    Alias = {primary, fallback}
    Orders <- PrimaryFirst
    Threshold = 1
    Endings = {"success", "unavailable", "declined", "cancelled"}
INVARIANTS
    ProbeOwned
