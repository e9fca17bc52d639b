SPECIFICATION Spec
CONSTANTS
  Batches = {b1, b2}
  Agents = {a1, a2}
  Consumers = {c1, c2}
  Keys = {k1}
  Invocations = {i1}
  None = None
  MaxRetryAttempts = 2
  MaxRetryBackoff = 2
  MaxLease = 1
SYMMETRY Perms
INVARIANTS TypeOK QueueIdentity OneLeasePerAgent BudgetRespected
PROPERTIES TerminalStable NoLeapfrogOfSteering LeasesKept SubmissionsCounted
