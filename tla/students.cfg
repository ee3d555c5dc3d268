SPECIFICATION FairSpec
CONSTANTS
  unavailable = unavailable  boot = boot  a1 = a1  a2 = a2  ann = ann  bob = bob
  Callers = {boot, a1, a2}
  Startup = boot
  Userids = {ann, bob}
  Raw <- MCRaw
  Strip <- MCStrip
  Ids = {1, 2}
  Lists <- MCLists
  MaxEditions = 3
  Errors = {unavailable}
  NoId = NoId
  NoRow = NoRow
  NoError = NoError
INVARIANT RosterIsOneEdition
INVARIANT FreshOrFlagged
PROPERTY NeverOlder
PROPERTY SyncsEnd
