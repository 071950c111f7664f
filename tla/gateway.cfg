CONSTANTS
 Callers = {h1, h2}
 Devices = {1, 2}
 Requested = {1}
 Earlier = {1, 2}
 PhoneOf <- MCPhoneOf
 MaxClients = 4
 MaxSessions = 3
 MaxHappenings = 4
 Messages = {m1}
 Kinds <- MCKinds
 Requests = {r1, r2}
 MaxTickers = 3
 MaxChanges = 1
SPECIFICATION MCSpec
INVARIANTS SessionsAsAsked ChatIsHonest
SYMMETRY Symmetry
CHECK_DEADLOCK FALSE
