SPECIFICATION MCSpec
CONSTANTS
  Names = {n1, n2}
  Requests = {r1, r2}
  MaxUsers = 2
  MaxTokens = 2
  u1 = u1
  u2 = u2
  k1 = k1
  k2 = k2
  PasskeyUsers = {u1, u2}
  Credentials = {k1, k2}
  Codes = {c1}
  Logins = {l1, l2}
  MaxChallenges = 2
  ChallengeLimit = 1
  MaxCount = 1
  MaxRegistrations = 2
  Enrolled <- MCEnrolled
  Keys = {key1, key2, key3}
  Attempts = {a1, a2, a3}
  MaxFailures = 2
  MaxItems = 2
SYMMETRY MCSymmetry
CHECK_DEADLOCK FALSE
INVARIANTS AccountsSound NoLockout OneTimeCredentials AdmissionsBounded
PROPERTIES RevokedStaysRevoked
