SPECIFICATION FairSpec
CONSTANTS
    None = None
    patient = patient
    hasty = hasty
    Canisters = {c1}
    Sessions = {patient, hasty}
    ClientKeys = {}
    ChannelCapacity = 1
    MaxSent = 2
    Window <- WindowOf
    Patient = {patient}
CHECK_DEADLOCK FALSE
INVARIANTS
    TypeOK
    NothingBeforeOpen
    PatientClientHeard
    OpenedClientForgotten
    PacedClientNotCutOff
    ClientRelayInv
PROPERTY PacedMessagesArrive
