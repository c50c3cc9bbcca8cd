CONSTANTS
  PortNumbers = {22, 443, 993, 3389, 9999}
  Intensities = {0, 1, 2, 3, 5}
  Budgets = {0, 1, 4}
  Services = {"ssh", "smtp", "vnc", "http", "redis", "rdp", "smb", "other"}
SPECIFICATION Spec
INVARIANTS NamesWhatIsThere NothingLearntIsForgotten PaidAndClosed
