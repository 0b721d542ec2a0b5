CONSTANTS
    Algorithm = "GNMS"
    K = 3
    KShot = 1
    LineSearchActive = TRUE
    Hpipm = TRUE
    MaxCount = 16
SPECIFICATION Spec
PROPERTY FreshProcessId
CHECK_DEADLOCK FALSE
