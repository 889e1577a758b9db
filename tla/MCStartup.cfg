\* Every command line of up to three arguments; two recipients, two variables
\* with any value in the environment and in the .env file; integers that fit.
SPECIFICATION Spec
CONSTANTS
  Arg <- AllArgs
  MaxArgs = 3
  Var = {x1, x2}
  Secret = {s1, s2}
  Name = {a, b}
  MaxRecipients = 2
  RawInt <- SmallInts
  IntWidth = 8
  Blank = Blank
  Unset = Unset
INVARIANTS EveryRecipientHasOwnKey GivenSecretsUsed RunsComplete PolicyIsSound
CHECK_DEADLOCK FALSE
