SPECIFICATION Spec
CONSTANTS
  c1 = c1  c2 = c2  b1 = b1  p1 = p1  p2 = p2  r1 = r1  r2 = r2  d1 = d1  d2 = d2
  None = None
  Clients = {c1}
  Bots = {b1}
  Processes = {p1, p2}
  Requests = {r1, r2}
  Tickets = {d1}
  MaxSecret = 3
  MaxFaults = 1
SYMMETRY Alike
INVARIANTS TypeOK WebhookMatches NeverLeftProvisioning
PROPERTY TakenOnlyIfAsked
VIEW Relevant
