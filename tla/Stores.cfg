SPECIFICATION Spec
CONSTANTS
  None = None
  Keys = {k1, k2}
  Nodes = {n1}
  Contents = {c1, c2}
  MaxProposals = 3
  MaxReads = 2
  UnlockKeys = {k3}
  Passwords = {p1, p2}
  NoPassword = NoPassword
  IdleTimeout = 2
  UnlockWindow = 2
  UnlockBackoff = 1
  MaxFailures = 2
  MaxAttempts = 2
  MaxClock = 3
  MaxProcesses = 2
  MaxSessions = 2
  Bytes = {b1, b2}
  Unrecognised = unrecognised
  WriterLease = 2
  Retention = 2
  EphemeralFor = 1
  QuarantineGrace = 1
  OrphanGrace = 1
  MaxUploads = 2
  Chunks = {1, 2}
  PageSize = 2
  MaxEvents = 5
  Sources = {s1, s2}
  Commits = {g1, g2, g3}
  Dependent = {g2}
  MaxFetches = 3
  Shapes = {"claude", "chat", "responses", "gemini"}
  PersistLimit = 2
  HostedUses = 1
  MaxBlocks = 3
  MaxFragments = 2
  Editors = {e1, e2}
  Runs = {r1}
  MaxDrafts = 2
  MaxHeads = 2
  MaxSwitches = 1
  MaxTries = 2
SYMMETRY Symmetric
INVARIANTS
    MemoryFollowsProposals
    WaitsAreServed
    OwnersFindTheirObjects
    JournalServesItsReaders
    PackagesAreWhole
    OutcomesAreWhatWasSaid
    RevisionsServe
PROPERTIES
    StepsAreLawful
CHECK_DEADLOCK FALSE
