\* Two receivers of one mailbox against two cutovers of their account.
CONSTANTS
    root = root  box = box  s1 = s1  s2 = s2  a1 = a1  a2 = a2  c1 = c1  c2 = c2
    NoGate = NoGate
    Threads = {a1, a2, c1, c2}
    Kind <- ThreadKind
    Path <- ThreadPath
    Roots = {root}
    Mailboxes = {box}
    Gens = {1, 2, 3, 4, 5}
    MaxPermits = 1
SPECIFICATION Spec
INVARIANTS SettlementExclusive CutoverExcludes
