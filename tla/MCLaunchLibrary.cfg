\* Two items, so that one stands before or after a broken one; any failure of
\* the request; then the relevance test on what was fetched.
SPECIFICATION ListingSpec
CONSTANTS
  Body <- Bodies
  HttpThrows = HttpThrows
  Id = {id1}
  Text <- Texts
  DefaultName <- DefaultNames
  Comma <- CommaText
  Lower <- LowerCase
  Space <- SpaceLetters
  LaunchProvider <- Provider
  IncludeTerms <- Terms
  Time <- Times
  PrecisionName <- PrecisionNames
  StatusName <- StatusNames
  SourceItem <- Items
  MaxItems = 2
  Absent = Absent
  Garbled = Garbled
  NoTime = NoTime
INVARIANTS SourceContract NothingLost UnknownIsWarned SearchesEveryField
CHECK_DEADLOCK FALSE
