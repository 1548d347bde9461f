SPECIFICATION FairSpec
CONSTANTS
  c1 = c1
  c2 = c2
  alice = alice
  ALICE = ALICE
  bob = bob
  blank = blank
  Nobody = Nobody
  Actors <- MCActors
  People <- MCPeople
  Canon <- MCCanon
  EnvActor = EnvActor
  ReconActor = ReconActor
  BootReason = BootReason
  Reasons = {drift}
  Callers = {c1, c2}
  DrainLimit = 2
  MaxSwitches = 1
  MaxStream = 2
INVARIANTS AnnouncedInOrder
PROPERTIES EverySwitchAnnounced ThawTakesTwo
