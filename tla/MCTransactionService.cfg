\* One user, two accounts, two creates and two deletes.
CONSTANTS
  Scale = 1
  u1 = u1
  u2 = u2
  a1 = a1
  a2 = a2
  k1 = k1
  Users = {u1}
  Accounts = {a1, a2}
  Owner <- OneOwner
  Keys = {k1}
  NoKey = NoKey
  Creates = {c1, c2}
  Deletes = {d1, d2}
  CreateInputs <- MixedInputs
  DeleteInputs <- AnyDelete
  Openings = {1}
  MaxConns = 10
  None = None
SPECIFICATION Spec
SYMMETRY Symmetry
INVARIANTS
  TypeOK
  BalanceConsistent
  NoOverdraft
  OneTransactionPerKey
  AllOrNothing
  NoVersionConflict
  RepliesAgree
  AnswersStand
  OneDeleteSucceeds
PROPERTIES
  ImplementsLedger
