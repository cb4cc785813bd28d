\* python run.py without a default configuration, on an empty database.
SPECIFICATION FairSpec
CONSTANTS
    s1 = s1  s2 = s2  s3 = s3
    Subscriptions = {s1, s2, s3}
    NoServer = {s3}
    Default = NoConfig
    NoConfig = NoConfig
    Launcher = "python"
    PollLimit = 2
    MaxRequests = 3
    MaxCrashes = 0
PROPERTIES
    EventuallyStarted
CHECK_DEADLOCK FALSE
