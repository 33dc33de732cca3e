\* Two logins and their sessions on the three hosts.
SPECIFICATION WorkerSpec
CONSTANTS
  None = None
  Login = {l1, l2}
  User = {u1}
  Host = {"full", "openai", "claude"}
  Request = {r1, r2, r3}
  RawId = {s1, s2}
SYMMETRY SessionSymmetry
CHECK_DEADLOCK FALSE
INVARIANTS
  SessionServesItsLogin
  ProfilesStayApart
  RefusedLoginReachesNothing
  SessionsSeeCanonicalRequests
  ReviewedHostShowsItsOwn
  GuardSeesWhatProviderSees
