\* Three calls, the alias of a fallback behind the one every route tries
\* first, and every way an attempt may end.
SPECIFICATION FairSpec
CONSTANTS
    c1 = c1
    c2 = c2
    c3 = c3
    primary = primary
    fallback = fallback
    Caller = {c1, c2, c3}
    Alias = {primary, fallback}
    Orders <- PrimaryFirst
    Threshold = 2
    Endings = {"success", "unavailable", "stream_timeout", "timeout", "declined",
               "invalid", "cancelled"}
INVARIANTS
    ThresholdKept
    OneProbe
PROPERTIES
    Resolves
