SPECIFICATION Spec
CONSTANTS
  Thread = {t1, t2}
  IdleThread = IdleThread
  Quota = 3
  Period = 4
  NoTimer = NoTimer
  NoThread = NoThread
  Calls = {"tick_in_switch"}
INVARIANTS QuotaRespected BlockedWithGroup ExecutingIsContext
PROPERTY Replenished
