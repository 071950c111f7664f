CONSTANTS
 Calls = {c1, c2}
 Agents = {a1, a2}
 References = {"ref"}
 Codes = {"code"}
 Plans = {"trial", "pro"}
 MaxCalls = 3
 MaxChanges = 1
 Requests = {r1, r2}
 Built = {b1, b2}
 Specs <- MCSpecs
 Changes <- MCChanges
 Entitled = {"subagents"}
 MaxRequests = 4
 c1 = c1
 c2 = c2
 a1 = a1
 a2 = a2
 r1 = r1
 r2 = r2
 b1 = b1
 b2 = b2
SPECIFICATION PlatformSpec
INVARIANTS AccountsAddUp BuiltAsAgreed
SYMMETRY Symmetry
CHECK_DEADLOCK FALSE
