\* Every response to a challenge of up to five probes.
SPECIFICATION Spec
CONSTANTS
    Payloads <- MCPayloads
    Millis <- MCMillis
INVARIANTS
    TypeOK
    CountsDecide
CHECK_DEADLOCK FALSE
