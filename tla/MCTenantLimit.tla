--------------------------- MODULE MCTenantLimit ---------------------------
(* Two tenants that share one slot: one with a rate and a cap of two crews, *)
(* one with neither limit.  The configurations choose a unit of time over   *)
(* which a refill does not come to a whole number of parts of a token.      *)
EXTENDS TenantLimit

CONSTANTS limited, unlimited

MCTenants == {limited, unlimited}
MCLimits  == [t \in MCTenants |-> IF t = limited THEN 2 ELSE 0]
MCMaxHeld == [t \in MCTenants |-> IF t = limited THEN 3 ELSE 1]
=============================================================================
