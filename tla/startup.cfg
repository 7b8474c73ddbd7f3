\* Two files, two kills or stops anywhere, one failing call, two sessions,
\* one edit of the settings, integers that wrap at eight.
\* The bounds run out, and then an idle server waits for its next request: no
\* step is left, and that is no deadlock of the program.
SPECIFICATION ProcessSpec
CHECK_DEADLOCK FALSE
CONSTANTS
  File = {f1, f2}
  MaxKills = 2
  MaxErrors = 1
  Settings <- MCSettings
  Modulus = 8
  MaxClock = 2
  MaxLogins = 2
  MaxEdits = 1
INVARIANTS TypeOK ServesFullSchema ScanExact LeftoversHaveCause ProcessTypeOK SessionExact StreamFollowsKey
PROPERTIES StartupKeepsData Restarts
