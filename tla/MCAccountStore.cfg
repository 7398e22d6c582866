SPECIFICATION FairSpec
CONSTANTS
  t1 = t1
  t2 = t2
  t3 = t3
  server = server
  other = other
  Threads = {t1, t2, t3}
  Host <- MCHost
  Names = {"Ann"}
  Account <- MCAccount
  Passwords = {"p", "q"}
  Mortal = {other}
  None = None
INVARIANTS
  OutcomeIsTrue
PROPERTIES
  LoginIsAtomic
