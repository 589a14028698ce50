SPECIFICATION Spec
CONSTANTS
  Groups <- MCGroups
  g1 = g1
  g2 = g2
  Keys <- MCKeys
  Identities <- MCIdentities
  Roles = {"node", "provisioner"}
  Unused = 65535
  Missing = Missing
  MaxGroups = 2
  Losses <- MCLosses
  MaxChanges = 3
  MaxRequests = 1
  MaxRestarts = 1
  MaxEvents = 2
SYMMETRY MCSymmetry
INVARIANT KeyInUse SubscribedAsListed LeftClean
CHECK_DEADLOCK FALSE
