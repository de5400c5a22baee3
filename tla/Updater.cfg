SPECIFICATION FairSpec
CONSTANTS
  Image = Image
  Site = Site
  Library = Library
  App = {Image, Site, Library}
  Entries <- MCEntries
  Repo <- MCRepo
  Prefixed = {Image, Site}
  File <- MCFile
  Dependency = {Library}
  Checked = {Image, Site}
  Asked = {Image}
  Version <- MCVersion
  Missing = Missing
  Lockfile = "aube-lock.yaml"
  MaxEdits = 1
  MaxFaults = 1
INVARIANTS TypeOK PinsResolve LockfileAgrees
PROPERTIES PushedAsReported PinsMoveForward CurrentInTheEnd
CHECK_DEADLOCK FALSE
