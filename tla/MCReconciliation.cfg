\* Two accounts that hold something, two creates, a delete, a call that fixes.
CONSTANTS
  Scale = 1
  u1 = u1
  a1 = a1
  a2 = a2
  Users = {u1}
  Accounts = {a1, a2}
  Owner <- OneOwner
  Keys = {}
  NoKey = NoKey
  Creates = {c1, c2}
  Deletes = {d1}
  CreateInputs <- TwoAccounts
  DeleteInputs <- AnyDelete
  Openings = {1}
  MaxConns = 10
  None = None
  Reconcilers = {x1}
  Asks <- Fixing
SPECIFICATION ReconciliationSpec
SYMMETRY Symmetry
INVARIANTS
  ReconciliationTypeOK
  SumIsCurrent
  NoOverdraft
  NoVersionConflict
PROPERTIES
  NoBlindFix
  ImplementsAdjustedLedger
