CONSTANTS
  Creator = alice
  Users = {alice, bob}
  MaxInvitations = 1
  MaxCommands = 2
  MaxRestarts = 1
  MaxFailures = 0
  MaxWrites = 2
SPECIFICATION Spec
INVARIANT HydrationKnowsMembers
CHECK_DEADLOCK FALSE
