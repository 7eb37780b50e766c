SPECIFICATION SubsSpec
CONSTANTS
  Users = {u1}
  Locations = {l1}
  Tasks = {t1}

PROPERTY VisitorIsNotBlocked
