\* Transfers in both directions, and a delete of either; one connection to spare.
CONSTANTS
  Scale = 1
  u1 = u1
  u2 = u2
  a1 = a1
  a2 = a2
  k1 = k1
  Users = {u1}
  Accounts = {a1, a2}
  Owner <- OneOwner
  Keys = {k1}
  NoKey = NoKey
  Creates = {c1, c2}
  Deletes = {d1}
  CreateInputs <- OppositeTransfers
  DeleteInputs <- AnyDelete
  Openings = {2}
  MaxConns = 3
  None = None
SPECIFICATION FairSpec
PROPERTIES
  EveryRequestAnswered
