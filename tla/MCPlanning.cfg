\* Three requests of any kind.
CONSTANTS
  u1 = u1
  u2 = u2
  food = food
  rent = rent
  Users = {u1, u2}
  Requests = {r1, r2, r3}
  Seed = Seed
  None = None
  Names = {food, rent}
  Global = Global
  Keep = Keep
  Months = {1, 2}
  SeedRows <- EitherFood
  Inputs <- AllInputs
  MaxPoints = 6
  Scale = 10
SPECIFICATION Spec
SYMMETRY Symmetry
INVARIANTS
  PlanningTypeOK
  RefusalLeavesNothing
  NamedOnce
  OneCategoryUnlessRaced
  EditTakesEffect
  FiledRight
  CountedOnce
  BudgetsFiledRight
  StatusTellsTheTruth
  SummaryAgrees
PROPERTIES
  CompletionSticks
