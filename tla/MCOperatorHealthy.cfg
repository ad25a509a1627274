CONSTANTS
    MaxConditions = 3
    CsvPhases = {"Succeeded", "Failed", "Installing", "Pending"}
SPECIFICATION Spec
INVARIANT AvailableOnlyWhenHealthy
