SPECIFICATION Spec
CONSTANTS
  Thread = {t1, t2}
  IdleThread = IdleThread
  Quota = 1
  Period = 2
  NoTimer = NoTimer
  NoThread = NoThread
  Calls = {"suspend", "resume", "add_running", "add_suspended", "add_leaving",
           "remove_suspended", "raw_remove", "delete_members", "tick_in_switch"}
SYMMETRY Symmetry
INVARIANTS TypeOK SuspendedStops PooledUnarmed
