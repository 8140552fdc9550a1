SPECIFICATION Spec
CONSTANTS
  Task = {t1}
  Writer = {w1, w2}
  LogField = {"start_time"}
  ExecField = {"exit_code"}
  Entry = {e1, e2}
INVARIANT AckedLogsVisible
