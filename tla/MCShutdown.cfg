CONSTANTS
    Clients = {c1, c2}
    MaxClients = 1
    MaxMessages = 1
    PatientExit = TRUE
    Nobody = Nobody
SPECIFICATION Spec
CHECK_DEADLOCK FALSE
PROPERTY StatsPrinted
