SPECIFICATION MCSpec
CONSTANTS
  alice = alice
  bob = bob
  none = none
  Users = {alice, bob}
  Names = {"bob"}
  RoomIds = {1}
  Turns = 2
  MaxSends = 2
  MaxLoops = 2
  None = none
  Faults = {"rooms", "in_place"}
  MaxEdits = 1
  MaxSaves = 1
PROPERTY
  RevokedLeaves
