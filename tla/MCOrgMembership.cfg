CONSTANTS
  Creator = alice
  Users = {alice, bob}
  MaxInvitations = 2
  MaxCommands = 4
  MaxRestarts = 1
  MaxFailures = 1
  MaxWrites = 2
SPECIFICATION Spec
INVARIANT TypeOK
PROPERTIES
  OwnerIsKept
  OutStaysOut
  VanishedForGood
CHECK_DEADLOCK FALSE
