SPECIFICATION Spec
CHECK_DEADLOCK FALSE
CONSTANTS
  rules = rules
  skill = skill
  skills = skills
  old = old
  new = new
  Absent = Absent
  Unchecked = Unchecked
  Files = {rules, skill}
  Inside = {skill}
  Folder = skills
  Guarded = {rules}
  Contents = {old, new}
  LiveRecovery = TRUE
  MaxOps = 3
  MaxFaults = 2
  MaxEdits = 1
  MaxRecovers = 1
CONSTRAINT Undisturbed
SYMMETRY ContentSymmetry
INVARIANTS
  OriginalsSurvive
  HalfDoneIsPending
  FolderComesBack
PROPERTIES
  Atomic
