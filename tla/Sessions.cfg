\* One account, two requests or scripts at once.
CONSTANTS
  u1 = u1
  p1 = p1
  p2 = p2
  w1 = w1
  w2 = w2
  o1 = o1
  o2 = o2
  Users = {u1}
  Orgs = {o1, o2}
  Passwords = {p1}
  Workers = {w1, w2}
  NoOrg = NoOrg
  NoPassword = NoPassword
  MaxTokens = 3
  MaxVersion = 2
SPECIFICATION Spec
CHECK_DEADLOCK FALSE
SYMMETRY Interchangeable
PROPERTIES
  LoginIsNewest
  
