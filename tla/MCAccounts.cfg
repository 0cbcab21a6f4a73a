SPECIFICATION AccountsSpec
CONSTANTS
  Names = {admin, reader}
  AdminName = admin
  Threads = {t1, t2}
  MaxRows = 3
SYMMETRY Symmetry
CHECK_DEADLOCK FALSE
INVARIANTS
  AccountsTypeOK
  SingleAccount
  NoLostChange
  BootSucceeds
