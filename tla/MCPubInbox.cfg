\* One inbox, three submissions, and the deletion of its account.
CONSTANTS
    t1 = t1  t2 = t2  r1 = r1  r2 = r2
    NoReq = NoReq
    Targets = {t1}
    Requests = {r1, r2, r3}
    Batch <- SingleBatch
    Deletable = {t1}
    MaxSeq = 3
    Capacity = 2
    MaxCrashes = 0
SPECIFICATION Spec
SYMMETRY Submissions
INVARIANTS TypeOK PrefixExplained SettledIsRetired RowOrTombstone LedgerFits
PROPERTIES KeepsContract
