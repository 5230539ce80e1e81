CONSTANTS
  p1 = p1
  p2 = p2
  p3 = p3
  Nobody = Nobody
  Runs = {p1, p2, p3}
  Lease = 2
  MaxWait = 1
SPECIFICATION FairLockSpec
INVARIANTS
  LockTypeOK
  FreshLeasesExclusive
PROPERTIES
  LostForGood
  DeadOwnerReplaced
