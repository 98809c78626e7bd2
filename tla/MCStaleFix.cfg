\* An account opened with nothing, two creates, a call that fixes.
CONSTANTS
  Scale = 1
  u1 = u1
  a1 = a1
  a2 = a2
  Users = {u1}
  Accounts = {a1}
  Owner <- OneOwner
  Keys = {}
  NoKey = NoKey
  Creates = {c1, c2}
  Deletes = {}
  CreateInputs <- OneAccount
  DeleteInputs <- AnyDelete
  Openings = {0}
  MaxConns = 10
  None = None
  Reconcilers = {x1}
  Asks <- Fixing
SPECIFICATION ReconciliationSpec
INVARIANTS
  BalanceConsistent
