\* An event that two forks may hold and the fetcher state, three messages on their way, one
\* lost, two stops, one excursion out of server mode and back.
SPECIFICATION FairSpec
CONSTANTS
    Events = {e1}
    Occurrences = {here, fork}
    Versions = 3
    MaxFlight = 3
    MaxLost = 1
    MaxStops = 2
    MaxSwitches = 2
    Absent = Absent
INVARIANTS
    ReplicationInv
    ReplicaShowsOnlyJudged
PROPERTIES
    StateCatchesUp
