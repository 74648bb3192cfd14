CONSTANTS
  Client = {c1}
  Server = {s1}
  Msg = {m1, m2, m3}
  Nil = Nil
  Kinds = {"single", "mget"}
  FailKinds = {"single", "mget"}
  MaxTag = 2
  MaxFrag = 2
  RequireAuth = FALSE
  SelectDb = FALSE
  UnixSocket = FALSE
  HasTimeout = TRUE
  BadReplies = FALSE
  Shutdown = FALSE
SPECIFICATION LiveSpec
PROPERTIES EventuallyAnswered
