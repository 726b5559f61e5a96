SPECIFICATION Spec
CONSTANTS
    Clients <- MCClients
    MaxTries <- MCMaxTries
INVARIANTS
    Corrected
    Totals
PROPERTIES
    Finishes
CHECK_DEADLOCK FALSE
