-------------------------- MODULE MCTenantServer --------------------------
(* Two workers, two tenants; every request the callbacks tell apart.      *)
EXTENDS TenantServer

CONSTANTS t1, t2, gateway, iot, bad, none, k1

TwoThreads == {t1, t2}
TwoTenants == {gateway, iot}
OneKey == {k1}
AllKinds == {"enroll", "keygen", "cacerts"}
=============================================================================
