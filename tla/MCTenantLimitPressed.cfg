SPECIFICATION Spec
CONSTANTS
  limited = limited
  unlimited = unlimited
  Tenants <- MCTenants
  RateOf <- MCLimits
  CrewsOf <- MCLimits
  SlotCount = 1
  Minute = 6
  Second = 2
  Unit = 2
  NoTenant = NoTenant
  MaxNow = 6
  MaxLag = 0
  MaxHeld <- MCMaxHeld
  MaxSpent = 3
PROPERTIES
  RefillAccrues
CHECK_DEADLOCK FALSE
