\* The real loop: one minute in sixty slices.
SPECIFICATION FairSpec
CONSTANT PollMinutes = 1
INVARIANTS IInv StopsPromptly
PROPERTIES PollsAtInterval StopEndsWatch KeepsPolling
CHECK_DEADLOCK FALSE
