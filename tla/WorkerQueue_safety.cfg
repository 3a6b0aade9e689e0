SPECIFICATION LiveSpec
CONSTANTS
  c1 = c1
  c2 = c2
  c3 = c3
  Caller = {c1, c2, c3}
  NoCaller = NoCaller
  Failures = {"script", "wasm"}
  MaxProgress = 1
INVARIANTS
  AnswersMatch
PROPERTIES
  RestartLosesNothing
  CallsSettleWhileItRuns
CHECK_DEADLOCK FALSE
