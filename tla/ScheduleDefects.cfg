SPECIFICATION Spec
CONSTANTS
  None = None
  Damaged = Damaged
  Callers = {c1, c2}
  Tasks = {t1, t2}
  Schedules = {n1}
  MaxRevision = 2
  MaxFaults = 1
  Failing = {"state", "schtasks", "remove", "xml", "write"}
SYMMETRY NameSymmetry
INVARIANT StoresAlwaysAgree
