CONSTANTS
  User = {u1, u2}
  Token = {t1, t2}
  MaxMessages = 2
  null = null
SPECIFICATION Spec
INVARIANTS TypeOK NothingAckedUnsettled PushedToRecipients
PROPERTY EverySteadyDeviceSettled
CHECK_DEADLOCK FALSE
