SPECIFICATION WireSpec
CONSTANTS
    CountCap = 2
    Profiles <- SampleProfiles
    Names = {"HELLO", "REGISTER_CACHE", "REGISTER_LOCATION", "REGISTER_REPLICA",
             "REGISTER_ENTRY", "UPDATE_HEALTH", "RENEW_LEASE", "INVALIDATE", "TOMBSTONE",
             "QUERY", "QUERY_RESULT", "SAVE", "ACK", "EPOCH", "ERROR"}
    Messages <- SerializedMessages
    Payload <- SerializedPayload
    Parse <- DeserializedObject
    Unreadable <- Malformed
    Fits <- IsWithinCaps
    Arrives <- IsSameObject
    GarbledCells = {0}
    LengthErrors <- OneMoreOrLess
    AlteredKinds = {"ACK"}
    LostTails = {0, 1, 3}
    MaxSent = 2
    MaxStored = 3
CHECK_DEADLOCK FALSE
INVARIANTS
    CodecRoundTrips
    DeliveredAsSent
    StoredReadsBack
    TakenIsDecoded
