\* Two accounts, two pages and two requests, anybody signing in anywhere.
SPECIFICATION FairSpec
CONSTANTS
  User = {ann, bob}
  Page = {p1, p2}
  Req = {r1, r2}
  None = None
INVARIANTS
  TypeOK
  OwnAccountOnly
  SignedOutIsSeen
PROPERTIES
  RequestsEnd
