\* A reply whose status is no number.
SPECIFICATION Spec
CONSTANTS
  Body <- Bodies
  HttpThrows = HttpThrows
  Recipients <- ThreeRecipients
  MaxAlerts = 2
INVARIANT ChannelNeverThrows
CHECK_DEADLOCK FALSE
