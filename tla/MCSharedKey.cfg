\* Two users who use the same key.
CONSTANTS
  Scale = 1
  u1 = u1
  u2 = u2
  a1 = a1
  a2 = a2
  k1 = k1
  Users = {u1, u2}
  Accounts = {a1, a2}
  Owner <- TwoOwners
  Keys = {k1}
  NoKey = NoKey
  Creates = {c1, c2}
  Deletes = {d1, d2}
  CreateInputs <- SharedKey
  DeleteInputs <- AnyDelete
  Openings = {2}
  MaxConns = 10
  None = None
SPECIFICATION Spec
INVARIANTS
  KeysScopedToUser
