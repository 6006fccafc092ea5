SPECIFICATION Spec
CONSTANTS
  None = None
  Thread = {t1, t2}
  First = s1  Second = s2  FirstOffset = o1  SecondOffset = o2
  Site <- MCSite
  Key <- MCKey
  SiteOf <- MCSiteOf
  Address = {a1, low}
  Low = {low}
  Behind <- MCBehind
  Register <- MCRegister
  Decision <- MCDecision
  MaxDetours = 2
INVARIANTS
  TypeOK
  ThreadsKeepTheirWay
  OverridesStayHome
  TrampolinesOwned
SYMMETRY Alike
CHECK_DEADLOCK FALSE
