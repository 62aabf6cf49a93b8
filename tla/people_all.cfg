SPECIFICATION PeopleSpec
CONSTANTS
  Sockets = {s1, s2}
  Pumps = {p1}
  Messages = {m1, m2, m3}
  Chat = {m3}
  Nothing = Nothing
  MaxEntries = 2
  MaxClears = 1
  Users = {u1, u2}
  Panels = {d1}
  Conns = {s1, s2}
  Absent = Absent
  Saves = {{"own"}}
  Members = {f1}
  LastHour = 1
  MaxDay = 1
  Owner = p
  Calls = {a}
  People = {p, q}
  NoName = NoName
  Licensee <- OwnLicence
  MaxRows = 2
  MaxFlights = 2
  Names = {g1}
  Addresses = {i1, i2}
  Tokens = {t1}
  Tickets = {k1}
  Gone = Gone
  Second = 2
  MaxAttempts = 2
  LockFor = 2
  PerWindow = 2
  Window = 3
  MaxAddresses = 1
  SessionFor = 2
  TicketFor = 1
  MaxNow = 4
SYMMETRY Symmetry
INVARIANTS PeopleTypeOK ShownOnce AnAdminRemains RolesHold BoardIsTrue SignInKeeps
PROPERTIES BadgeIsEarned
CHECK_DEADLOCK FALSE
