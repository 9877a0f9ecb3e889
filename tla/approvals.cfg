SPECIFICATION Spec
CONSTANTS
  Task = {t1}
  Tick = {}
  Job = {j1, j2}
  Request = {r1, r2}
  Args = {a1}
  Answer = {c1, c2}
  Origin <- Origins
  Approval <- Request
  Scheduled = Scheduled
  Feedback = Feedback
  Channels <- Both
  Budgets <- TwoAnswers
  NoTask = NoTask
  NoRequest = NoRequest
  NoArgs = NoArgs
  NoAnswer = NoAnswer
INVARIANTS TypeOK OncePerApproval NoApprovalForgotten
PROPERTIES RepliesNeverOverride
SYMMETRY Symmetry
CHECK_DEADLOCK FALSE
