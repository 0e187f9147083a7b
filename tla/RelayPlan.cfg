SPECIFICATION Spec
CONSTANTS
  A = A
  B = B
  C = C
  u = u
  v = v
  bad = bad
  p = p
  q = q
  any = any
  lan = lan
  Names = {A, B, C}
  Users = {u, v, bad}
  Passwords = {p, q}
  Addresses = {any, lan}
  Ports <- MCPorts
  OwnPort = 8080
  BadUsers = {bad}
  Types = {"", "http", "socks5", "mixed", "tproxy"}
  None = None
  Configs <- MCConfigs
INVARIANTS
  TypeOK
  RejectsExactlyConflicts
  EveryDownstreamServed
  NoAmbiguousCaller
CHECK_DEADLOCK FALSE
