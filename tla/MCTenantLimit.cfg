SPECIFICATION Spec
CONSTANTS
  limited = limited
  unlimited = unlimited
  Tenants <- MCTenants
  RateOf <- MCLimits
  CrewsOf <- MCLimits
  SlotCount = 1
  Minute = 3
  Second = 1
  Unit = 2
  NoTenant = NoTenant
  MaxNow = 4
  MaxLag = 1
  MaxHeld <- MCMaxHeld
  MaxSpent = 3
INVARIANTS
  PlacesExact
  CapHeld
  RateHeld
PROPERTIES
  RetryFinds
CHECK_DEADLOCK FALSE
