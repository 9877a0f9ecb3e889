SPECIFICATION FairSpec
CONSTANTS
  Task = {t1}
  Tick = {k1}
  Job = {j1, j2}
  Request = {r1}
  Args = {a1}
  Answer = {c1}
  Origin <- Origins
  Approval <- Request
  Scheduled = Scheduled
  Feedback = Feedback
  Channels <- Buttons
  Budgets <- FaultOrToggle
  NoTask = NoTask
  NoRequest = NoRequest
  NoArgs = NoArgs
  NoAnswer = NoAnswer
PROPERTIES ApprovedActionRuns DueTaskQueued DueUntilQueued
CHECK_DEADLOCK FALSE
