\* Two files that compute each other's path, and a retry; one worker copies from
\* another device, and two calls fail or workers die.
CONSTANTS
  Paths = {"mkv", "avi"}
  Files = {"mkv", "avi"}
  Jobs = {"mkv1", "mkv2", "avi1"}
  FileOf <- FileOfJob
  Containers = {"mkv"}
  Noteless = {"mkv2"}
  Links = {"all", "own", "none"}
  Crossing = {"mkv1"}
  AllowHardlinked = FALSE
  Guests = {"mkv"}
  MaxFaults = 2
SPECIFICATION FairSpec
INVARIANTS TypeOK 
PROPERTIES  ReplacedIsInstalled GapsHeal
CHECK_DEADLOCK FALSE
