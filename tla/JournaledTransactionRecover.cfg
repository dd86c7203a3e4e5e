SPECIFICATION Spec
CHECK_DEADLOCK FALSE
CONSTANTS
  rules = rules
  skill = skill
  skills = skills
  old = old
  new = new
  Absent = Absent
  Unchecked = Unchecked
  Files = {rules, skill}
  Inside = {skill}
  Folder = skills
  Guarded = {rules}
  Contents = {old, new}
  LiveRecovery = FALSE
  MaxOps = 2
  MaxFaults = 0
  MaxEdits = 0
  MaxRecovers = 1
INVARIANT
  RecoveredIsWhole
