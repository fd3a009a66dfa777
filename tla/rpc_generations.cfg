CONSTANTS
  MaxClients = 2
  MaxCalls = 1
  MaxRuns = 2
  Usage = {"cancel", "retry", "progress", "unregistered"}
SPECIFICATION Spec
INVARIANTS
  AnswerNotRefused
  StaleResponseRefused
