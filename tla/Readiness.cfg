\* uvicorn, a default configuration, one subscription more and one without a server; two
\* polls before the default, three requests, two deaths.
SPECIFICATION FairSpec
CONSTANTS
    s1 = s1  s2 = s2  s3 = s3
    Subscriptions = {s1, s2, s3}
    NoServer = {s3}
    Default <- MCDefault
    NoConfig = NoConfig
    Launcher = "uvicorn"
    PollLimit = 2
    MaxRequests = 3
    MaxCrashes = 2
INVARIANTS
    ReadyInv
    ReadyIsSubscribed
    SubscribedOnce
PROPERTIES
    ReadyStarts
CHECK_DEADLOCK FALSE
