\* A library whose files others own, nothing from outside, and one call that fails.
CONSTANTS
  Paths = {"mkv", "avi"}
  Files = {"mkv", "avi"}
  Jobs = {"mkv1", "avi1"}
  FileOf <- FileOfJob
  Containers = {"mkv"}
  Noteless = {}
  Links = {"own"}
  Crossing = {}
  AllowHardlinked = FALSE
  Guests = {}
  MaxFaults = 1
SPECIFICATION Spec
PROPERTY DestinationsAreExclusive
CHECK_DEADLOCK FALSE
