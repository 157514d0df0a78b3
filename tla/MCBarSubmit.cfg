\* Two submissions that keep coming, one without a known root, against a cutover.
CONSTANTS
    root = root  box = box  s1 = s1  s2 = s2  a1 = a1  a2 = a2  c1 = c1  c2 = c2
    NoGate = NoGate
    Threads = {s1, s2, c1}
    Kind <- ThreadKind
    Path <- ThreadPath
    Roots = {root}
    Mailboxes = {box}
    Gens = {1, 2, 3, 4}
    MaxPermits = 1
SPECIFICATION FairSpec
INVARIANTS AdmittedIsHome BacklogComplete
PROPERTIES CutoverGetsTurn
