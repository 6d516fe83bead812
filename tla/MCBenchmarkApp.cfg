SPECIFICATION Spec
CONSTANTS
  Requests = {r1, r2, r3}
SYMMETRY Alike
INVARIANTS ScrapeIsConsistent CleanExitAnswersAll
CHECK_DEADLOCK FALSE
