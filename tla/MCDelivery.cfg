\* Every command, every reply, three recipients, up to two alerts.
SPECIFICATION Spec
CONSTANTS
  Body <- Bodies
  HttpThrows = HttpThrows
  Recipients <- ThreeRecipients
  MaxAlerts = 2
INVARIANTS ExitCodeTells EachPostedOnce
CHECK_DEADLOCK FALSE
