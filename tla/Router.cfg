\* Two requests, one of them streaming, on all routes; two providers; one retry.
SPECIFICATION FairSpec
CONSTANTS
    r1 = r1  r2 = r2  p = p  q = q
    Requests = {r1, r2}
    Streaming = {r2}
    WithAlt = {r1}
    Providers = {p, q}
    Streamers = {p}
    Chain <- ChainPQ
    Fallback = Fallback
    Routes = {"direct", "global", "perkey"}
    MaxRetries = 1
    Threshold = 2
    Period = 1
    MaxTime = 2
INVARIANTS TrackersExact UpstreamBound
PROPERTIES EveryRequestReturns
CHECK_DEADLOCK FALSE
