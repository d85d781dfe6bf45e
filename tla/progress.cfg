SPECIFICATION FairSpec
CONSTANTS
  Sessions = {s1}
  Subjects = {a1}
  Users = {u1}
  Creates = {c1}
  Deletes = {d1, d2}
  Workers = {w1, w2}
  Instances = {i1, i2}
  Nil = Nil
  ProvisionMaxRetry = 2
  TerminateMaxRetry = 3
  Faults = {"ec2", "boot"}
  PatientClients = FALSE
\* Requests and faults are finite: the deployment comes to rest.
CHECK_DEADLOCK FALSE
INVARIANTS
  JobsInv
  JobsBehindRows
  RestIsSettled
  AtMostOneLaunch
PROPERTIES
  WorkShrinks
  Settles
  DeleteCompletes
