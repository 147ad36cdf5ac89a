SPECIFICATION DiagnosisSpec
CONSTANTS
    Hosts = {"github.com", "ghe"}
    MaxChanges = 2
PROPERTY NeverMeansNever
CHECK_DEADLOCK FALSE
