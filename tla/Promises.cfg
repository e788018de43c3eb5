SPECIFICATION Spec
CONSTANTS
  MaxTurns = 2
  MaxRuns = 3
  MaxForks = 1
  MaxWrites = 1
  Routers = {r1, r2}
  Steps = {s1}
  MaxVisits = 1
  MaxEdges = 4
  Gone = Gone
INVARIANTS
    StoryIsSound
PROPERTIES
    OnlySelectionsGoBack
    CandidatesSettle
    ValuesLeave
CHECK_DEADLOCK FALSE
