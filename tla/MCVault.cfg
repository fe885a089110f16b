CONSTANTS
  Callers = {a, b}
  Credentials <- MCCredentials
  Algorithms = {"XTS", "CBC"}
  Sizes = {1023, 1024}
  Iterations = {9999, 10000}
  MaxCalls = 2
  MaxFaults = 1
  MaxCrashes = 1
SPECIFICATION VSpec
INVARIANTS
  OpensWithOwner
  MountedIsPlain
  DisksAccounted
CHECK_DEADLOCK FALSE
