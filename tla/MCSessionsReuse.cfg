\* One request at a time is enough.
SPECIFICATION CookieSpec
CONSTANTS
  Requests = {q1}
  Browsers = {b1}
  MaxSessions = 3
  MaxVersion = 1
  None = None
PROPERTY ReuseRevokesFamily
