SPECIFICATION DeploymentSpec
CONSTANTS
  m1 = m1
  m2 = m2
  m3 = m3
  old = old
  new = new
  Runs = {m1, m2, m3}
  Latest = 3
  Image <- MCImage
  None = None
  Replicas = {old, new}
  Embedded <- MCEmbedded
INVARIANTS
  AppliedOnce
  SuccessIsMigrated
PROPERTY RunsEnd
