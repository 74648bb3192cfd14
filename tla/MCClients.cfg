CONSTANTS
  Client = {c1, c2}
  Server = {s1, s2}
  Msg = {m1, m2, m3}
  Nil = Nil
  Kinds = {"single", "noreply", "local", "mget"}
  FailKinds = {"single", "noreply", "mget"}
  MaxTag = 2
  MaxFrag = 2
  RequireAuth = FALSE
  SelectDb = FALSE
  UnixSocket = FALSE
  HasTimeout = TRUE
  BadReplies = TRUE
  Shutdown = FALSE
SPECIFICATION Spec
SYMMETRY Symmetry
INVARIANTS TypeOK NoUseAfterFree ClosedIsClean OwnerAlive NeverLost TimerSound Paired NoLostWakeup
