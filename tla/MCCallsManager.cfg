SPECIFICATION Spec
CONSTANTS
    Incoming <- MCIncoming
    Outgoing <- MCOutgoing
INVARIANTS
    TypeOK
    NotifiedWhilePending
    CurrentCallKnown
    ConnectionIsOwn
    ResourcesReleased
