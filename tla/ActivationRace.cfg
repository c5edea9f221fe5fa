CONSTANTS
  hype = hype
  btc = btc
  Slots = {1, 2}
  Symbols = {hype, btc}
  Submissions <- MCSubmissions
  Defaults <- MCDefaults
  Environments <- MCEnvironments
  Requests = {r1, r2}
  MaxRequests = 2
  MaxStarts = 2
  MaxOutages = 1
SPECIFICATION Spec
SYMMETRY RequestSymmetry
INVARIANTS
  SaveReturnsToDraft
CHECK_DEADLOCK FALSE
