CONSTANTS
  Client = {c1}
  Server = {s1, s2}
  Msg = {m1, m2, m3, m4, m5}
  Nil = Nil
  Kinds = {"mget", "mset"}
  FailKinds = {"mget", "mset"}
  MaxTag = 1
  MaxFrag = 3
  RequireAuth = TRUE
  SelectDb = FALSE
  UnixSocket = FALSE
  HasTimeout = TRUE
  BadReplies = TRUE
  Shutdown = TRUE
SPECIFICATION Spec
SYMMETRY Symmetry
INVARIANTS FragmentsCounted
PROPERTIES AuthFirst
