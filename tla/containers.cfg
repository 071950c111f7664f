CONSTANTS
 Sessions = {s1, s2}
 Deploys = {d1, d2}
 MaxDeployments = 1
 MaxTunnels = 3
 Commands = {c1, c2, c3}
 MaxSandboxes = 1
 Ttl = 0
 MaxTime = 2
 MaxEvents = 2
 None = None
SPECIFICATION MCSpec
INVARIANTS ContainersAccountedFor
SYMMETRY Symmetry
CHECK_DEADLOCK FALSE
