SPECIFICATION Spec
CONSTANTS
    MaxTracked = 1
    MaxRequestId = 4
    MaxPanelRetries = 1
    MaxConnections = 3
    MaxPublications = 2
    Budgets <- Scenarios
INVARIANT ShownIsOfStream
PROPERTIES ShownNeverRegresses NoStaleAction
CHECK_DEADLOCK FALSE
