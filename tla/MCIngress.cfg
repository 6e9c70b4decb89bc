SPECIFICATION FairSpec
CONSTANTS
    e1 = e1
    e2 = e2
    Never = Never
    Envelopes = {e1, e2}
    Remote = {e1}
    Addressed = {e1, e2}
    Expiry <- MCExpiry
    Retries = 2
    MaxPersisted = 2
    Bounds <- MCBounds
    Recipient = Recipient
    TTL = 3
    NoRecord = NoRecord
    Unpublished = Unpublished
PROPERTY DecisionStandsWhileUp
PROPERTY RestartKeepsTheQueue
PROPERTY ExpiryHasAReason
PROPERTY DeliveryIsAnswered
