\* An input with a third decimal: ten units to the cent, an opening balance of ten cents.
CONSTANTS
  Scale = 10
  u1 = u1
  u2 = u2
  a1 = a1
  a2 = a2
  k1 = k1
  Users = {u1}
  Accounts = {a1, a2}
  Owner <- OneOwner
  Keys = {k1}
  NoKey = NoKey
  Creates = {c1, c2}
  Deletes = {d1, d2}
  CreateInputs <- HalfCent
  DeleteInputs <- AnyDelete
  Openings = {100}
  MaxConns = 10
  None = None
SPECIFICATION Spec
INVARIANTS
  BalanceConsistent
