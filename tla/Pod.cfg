SPECIFICATION FairSpec
CONSTANTS
    Boots <- MCBoots
    Askers <- MCAskers
    MaxAsks = 1
INVARIANTS ServeEndsWithPod OneWorkload
PROPERTIES EndsOnce StoppedStaysStopped EndCompletes WorkloadLossHeard
CHECK_DEADLOCK FALSE
