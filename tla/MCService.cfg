CONSTANTS
  Client = {c1, c2}
  Server = {s1}
  Msg = {m1, m2, m3}
  Nil = Nil
  Kinds = {"single", "mget"}
  FailKinds = {"single", "mget"}
  MaxTag = 2
  MaxFrag = 2
  RequireAuth = FALSE
  SelectDb = TRUE
  UnixSocket = FALSE
  HasTimeout = FALSE
  BadReplies = TRUE
  Shutdown = FALSE
SPECIFICATION Spec
PROPERTIES ServedInOrder InSelectedDb
