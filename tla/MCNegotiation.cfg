SPECIFICATION Spec
CONSTANTS
  Nodes = {a, b}
  Sessions = {s1, s2}
  Requests = {r1, r2}
  Asked = {"offer", "propose"}
INVARIANTS NegotiationTypeOK SenderHasItFirst RoundTripIsRecorded AnsweredComesFirst UnsupportedStaysHome
PROPERTIES DiskOnlyGrows
