SPECIFICATION Spec
CONSTANTS
  Socks = {1, 2}
  u1 = u1
  u2 = u2
  r1 = r1
  Users = {u1, u2}
  UsersOf <- FirstIsU1
  Remotes <- OneRemote
  RemoteOwner <- OwnedByU1
  Kinds = {"standalone", "server"}
  DetachTimeouts = {TRUE, FALSE}
  Nil = Nil
INVARIANTS SessionOwner OneSession SessionReachable ContextsLive
PROPERTIES ResumeAnswered DetachEnds
CHECK_DEADLOCK FALSE
