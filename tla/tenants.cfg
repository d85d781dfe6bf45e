SPECIFICATION Spec
CONSTANTS
  Sessions = {s1, s2}
  Subjects = {a1, a2}
  Users = {u1, u2}
  Creates = {c1, c2}
  Deletes = {d1}
  Workers = {w1, w2}
  Instances = {i1, i2}
  Nil = Nil
  ProvisionMaxRetry = 2
  TerminateMaxRetry = 3
  Faults = {"hangup", "boot"}
  PatientClients = FALSE
\* Requests and faults are finite: the deployment comes to rest.
CHECK_DEADLOCK FALSE
SYMMETRY Symmetry
INVARIANTS
  TenantInv
  NoLostInstance
  ReadyMeansRunning
PROPERTIES
  OnlyOwnerStopsNode
  TenantsKeptApart
