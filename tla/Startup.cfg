CONSTANT Daemons = {p1, p2, p3}
CONSTANT Starts <- MCStarts
CONSTANT Modules = {"htb", "tbf"}
CONSTANT Interfaces = {"eth0", "eth1"}
CONSTANT BinDir = "bin"
CONSTANT DefaultPort = 12244
CONSTANT MaxTogether = 2
CONSTANT MaxFaults = 2
SPECIFICATION Spec
SYMMETRY Symmetry
INVARIANT OneServes
INVARIANT QdiscHeld
INVARIANT SettingsHeld
CHECK_DEADLOCK FALSE
