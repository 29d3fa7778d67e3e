SPECIFICATION Spec
CONSTANTS
    Incoming <- MCIncoming
    MaxPlays <- MCMaxPlays
INVARIANTS
    RefusedStopMeansSilent
