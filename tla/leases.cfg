SPECIFICATION Spec
CONSTANTS
  Sessions = {s1}
  Subjects = {a1}
  Users = {u1}
  Creates = {c1}
  Deletes = {d1}
  Workers = {w1, w2, w3}
  Instances = {i1, i2, i3, i4}
  Nil = Nil
  ProvisionMaxRetry = 2
  TerminateMaxRetry = 0
  Faults = {"crash", "lease"}
  PatientClients = FALSE
\* Requests and faults are finite: the deployment comes to rest.
CHECK_DEADLOCK FALSE
SYMMETRY Symmetry
INVARIANTS
  BudgetInv
  LaunchesWithinBudget
