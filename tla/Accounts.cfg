\* The administrator and one more name; five calls are the bootstrap, two
\* creations of one name side by side, a disabling and a creation after it, any
\* creation by the script instead.
SPECIFICATION Spec
CONSTANTS
  Names = {admin, operator}
  Admin = admin
  MaxCalls = 5
  MaxFaults = 1
  MaxEnds = 2
\* A process that is initialising, with no call left for the administrator it
\* has to create, stays there.
CHECK_DEADLOCK FALSE
INVARIANTS
  NoAccountForgotten
  NamesAreUnique
