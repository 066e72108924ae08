SPECIFICATION Spec
CONSTANTS
  h1 = h1
  h2 = h2
  Jobs <- MCJobs
  NoJob = NoJob
  Workers = {w1, w2}
  NoWorker = NoWorker
  MaxAttempts = 2
  MaxJobs = 2
  ClaimedColumns <- TestColumns
  Sources = {s1}
  Hashes = {h1, h2, h3}
  Suspicious = {h3}
  Keys = {k1, k2}
  MaxVersions = 2
SYMMETRY MCSymmetry
INVARIANTS
  OneIndexedVersion
  VersionsAgree
  AnswerIsApproved
  JobsAgree
PROPERTIES
  VersionLifeCycle
  LeaseRespected
