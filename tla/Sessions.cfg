SPECIFICATION Spec
CONSTANTS
  Passwords = {"old", "new"}
  MaxUsers = 2
  MaxVersion = 4
  MaxRequests = 2
INVARIANT TypeOK
INVARIANT SessionsAreCurrent
INVARIANT AdminStays
PROPERTY SessionsStayDead
