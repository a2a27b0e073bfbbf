SPECIFICATION TenantSpec
CONSTANTS
    TenantConnections = {"c1"}
    Quotas = {1, 2}
    MaxFences = 3
INVARIANTS
    SuspendedTenantIsDark
CHECK_DEADLOCK FALSE
