\* Integers wider than an int.
SPECIFICATION Spec
CONSTANTS
  Arg <- OnceOnly
  MaxArgs = 1
  Var = {x1}
  Secret = {s1}
  Name = {a}
  MaxRecipients = 1
  RawInt <- WideInts
  IntWidth = 8
  Blank = Blank
  Unset = Unset
INVARIANT AcceptedIntsPositive
CHECK_DEADLOCK FALSE
