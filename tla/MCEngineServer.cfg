CONSTANTS
    Clients = {c1, c2}
    MaxClients = 2
    MaxMessages = 2
    PatientExit = FALSE
    Nobody = Nobody
SYMMETRY Symmetry
SPECIFICATION Spec
CHECK_DEADLOCK FALSE
INVARIANT RegistryIsReaders
INVARIANT OneStream
INVARIANT ExactlyOnceInOrder
