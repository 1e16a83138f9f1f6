SPECIFICATION RacesSpec
CONSTANTS
  Tokens = {t1, t2, t3}
  Families = {f1, f2}
  Tabs = {tab1, tab2}
  Calls = {c1, c2}
  MaxFailures = 1
  NoToken = NoToken
  NoFamily = NoFamily
  NoTab = NoTab
  NoCall = NoCall
SYMMETRY Interchangeable
INVARIANTS
  PromiseIsKept
  ReuseIsNoAccident
  CookieWorks
  LogoutEndsSession
  ReuseKillsFamily
PROPERTIES
  ExchangedOnce
  ImplementsSuccession
