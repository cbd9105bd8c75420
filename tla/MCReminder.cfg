SPECIFICATION Spec
CONSTANTS
  Jobs = {"daily-reminder"}
  Due <- MCDue
  HourLen = 2
  MaxHour = 3
  MaxRestarts = 1
  Users = {u1}
  DayLen = 2
  MaxChanges = 2
  MaxErrors = 1
INVARIANTS
  TypeOK
  RemindedOnceUnlessSlipped
  RemindedWhenDue
SYMMETRY Symmetry
CHECK_DEADLOCK FALSE
