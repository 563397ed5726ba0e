SPECIFICATION CacheFairSpec
CONSTANTS
  Procs <- MCProcs
  Names <- MCNames
  Want <- MCWant
  Flock = TRUE
  MaxCrashes = 1
INVARIANTS
  NoTornShard
  GeneratedOnce
PROPERTIES
  AllServed
CHECK_DEADLOCK FALSE
