SPECIFICATION FairSubsSpec
CONSTANTS
  Users = {u1}
  Locations = {l1, l2}
  Tasks = {t1, t2}
INVARIANT TypeOK
PROPERTIES ToggleFlips DeletionIsTotal ActiveUnlessOvertaken LockGivenBack
