-------------------------- MODULE SenderRetryProofs --------------------------
(***************************************************************************)
(* Theorems about SenderRetry, for every set of requests and identities,   *)
(* any assignment of contents, any number of permits and of crashes.       *)
(***************************************************************************)
EXTENDS SenderRetry, TLAPS

\* A request that may still write its row.
Holding(r) == pc[r] \in {"reserved", "handed"} \/ (pc[r] = "owner" /\ open)

\* A request that has not got as far as its write.
Early == {"new", "owner", "reserved", "handed"}

\* The index has one entry per stored row, under the row's identity.
IndexTruth ==
    /\ \A q \in stored : index[KeyOf[q]] = q
    /\ \A k \in Keys : index[k] # None => index[k] \in stored /\ KeyOf[index[k]] = k

\* A request that may still write is the registered one, and nothing is stored
\* under its identity: the registry lock covers the lookup.
Holders ==
    ~fenced => \A r \in Requests : Holding(r) =>
        registry[KeyOf[r]] = r /\ index[KeyOf[r]] = None

\* Where a request is tells whether its row is stored, its owner bound and its
\* descriptor aborted.
Stages ==
    /\ hooks \subseteq {r \in Requests : desc[r] = "aborted"}
    /\ \A r \in Requests :
          /\ desc[r] \in {"detached", "aborted"} => pc[r] \in {"reply", "done"}
          /\ desc[r] = "reserved" => pc[r] \in {"reserved", "leave", "end"}
          /\ desc[r] \in {"reserved", "detached", "aborted"} => r \notin stored
          /\ pc[r] = "reserved" => desc[r] = "reserved"
          /\ pc[r] \in {"reserved", "handed", "written", "hook", "accepted"} => r \in bound
          /\ pc[r] \in {"written", "hook", "accepted"} => r \in stored
          /\ r \in stored => pc[r] \notin {"new", "owner", "reserved", "waiting"}
          /\ r \in stored => pc[r] = "done" \/ r \in bound
          /\ r \in durable => r \in stored
          /\ on[r] # None => pc[r] \in {"waiting", "reply", "done"}

\* What a slot was resolved to is true of its original.
Verdicts ==
    \A r \in Requests :
        /\ result[r] \in {"accepted", "recheck"} => r \in stored
        /\ result[r] = "aborted" => r \notin stored /\ pc[r] \notin Early

\* A slot is registered under its identity; a waiter has the content of its slot.
Attached ==
    /\ \A k \in Keys : registry[k] # None => KeyOf[registry[k]] = k
    /\ \A r \in Requests : pc[r] = "waiting" =>
          on[r] \in Requests /\ KeyOf[on[r]] = KeyOf[r] /\ Digest[on[r]] = Digest[r]

\* What a request is answered is true of the row it speaks of.
Answers ==
    \A r \in Requests :
        /\ answer[r] # "missing"
        /\ answer[r] = "accepted" => /\ told[r] \in stored /\ index[KeyOf[r]] = told[r]
                                     /\ Digest[told[r]] = Digest[r]
        /\ answer[r] = "aborted" =>
              LET original == IF on[r] = None THEN r ELSE on[r]
              IN  original \in Requests /\ original \notin stored /\ pc[original] \notin Early

RetryInv == IndexTruth /\ Holders /\ Stages /\ Verdicts /\ Attached /\ Answers

\* A permit is with a registered slot or with a reply under way; a registered slot
\* is pending, and its owner or the resolver will come back to it.
Permits ==
    \A r \in Requests :
        /\ permit[r] = "slot" => registry[KeyOf[r]] = r
        /\ permit[r] = "held" => pc[r] \in {"waiting", "reply", "leave", "end"}

Attended ==
    /\ \A r \in Requests :
          /\ pc[r] \in {"new", "owner"} => r \notin bound
          /\ pc[r] = "accepted" => fenced \/ r \in durable
          /\ pc[r] = "leave" /\ r \in bound => fenced \/ r \in durable \/ desc[r] = "reserved"
    /\ SlotIsAttended

SlotInv == Permits /\ Attended

-----------------------------------------------------------------------------
(* Types.                                                                  *)

LEMMA InitTypeOK == Init => TypeOK
<1>1. 0 \in 0 .. MaxCrashes
  BY BoundAssumption
<1>2. Init => open \in BOOLEAN /\ fenced \in BOOLEAN
  BY Zenon DEF Init
<1> QED BY <1>1, <1>2, KeyAssumption DEF Init, TypeOK, Resolutions, Owning

LEMMA NextTypeOK == TypeOK /\ [Next]_vars => TypeOK'
<1> SUFFICES ASSUME TypeOK, [Next]_vars PROVE TypeOK'
  OBVIOUS
<1> USE KeyAssumption, BoundAssumption DEF TypeOK, slots, request, Goto, Answer
<1>1. ASSUME NEW r \in Requests, RefuseCapacity(r) PROVE TypeOK'
  BY <1>1 DEF RefuseCapacity, Owning
<1>2. ASSUME NEW r \in Requests, RefuseLookup(r) PROVE TypeOK'
  BY <1>2 DEF RefuseLookup, Owning
<1>3. ASSUME NEW r \in Requests, Admit(r) PROVE TypeOK'
  BY <1>3 DEF Admit, Original, Conflicts, Resolutions, Owning
<1>4. ASSUME NEW r \in Requests, GiveUp(r) PROVE TypeOK'
  BY <1>4 DEF GiveUp, Owning
<1>5. ASSUME NEW r \in Requests, Forward(r) PROVE TypeOK'
  BY <1>5 DEF Forward, Resolved, Resolutions, Owning
<1>6. ASSUME NEW r \in Requests, Reserve(r) PROVE TypeOK'
  BY <1>6 DEF Reserve, Owning
<1>7. ASSUME NEW r \in Requests, Withdraw(r) PROVE TypeOK'
  BY <1>7 DEF Withdraw, Owning
<1>8. ASSUME NEW r \in Requests, HandOff(r) PROVE TypeOK'
  BY <1>8 DEF HandOff, Owning
<1>9. ASSUME NEW r \in Requests, Write(r) PROVE TypeOK'
  BY <1>9 DEF Write, StoreRow, Owning
<1>10. ASSUME NEW r \in Requests, WriteFails(r) PROVE TypeOK'
  BY <1>10 DEF WriteFails, StoreRow, Owning
<1>11. ASSUME NEW r \in Requests, Accept(r) PROVE TypeOK'
  BY <1>11 DEF Accept, Owning
<1>12. ASSUME NEW r \in Requests, Hook(r) PROVE TypeOK'
  BY <1>12 DEF Hook, Owning
<1>13. ASSUME NEW r \in Requests, OwnerAccepted(r) PROVE TypeOK'
  BY <1>13 DEF OwnerAccepted, Resolutions, Owning
<1>14. ASSUME NEW r \in Requests, DropOwner(r) PROVE TypeOK'
  BY <1>14 DEF DropOwner, Resolved, Resolutions, Owning
<1>15. ASSUME NEW r \in Requests, EndScope(r) PROVE TypeOK'
  BY <1>15 DEF EndScope, Owning
<1>16. ASSUME NEW r \in Requests, ResolverAbort(r) PROVE TypeOK'
  BY <1>16 DEF ResolverAbort, Owning
<1>17. ASSUME NEW r \in Requests, ResolverAbortFails(r) PROVE TypeOK'
  BY <1>17 DEF ResolverAbortFails, Owning
<1>18. ASSUME NEW r \in Requests, ResolverHook(r) PROVE TypeOK'
  BY <1>18 DEF ResolverHook, Resolved, Resolutions, Owning
<1>19. ASSUME NEW r \in Requests, WaiterWakes(r) PROVE TypeOK'
  BY <1>19 DEF WaiterWakes, Wake, Resolutions, Owning
<1>20. ASSUME NEW r \in Requests, Reply(r) PROVE TypeOK'
  BY <1>20 DEF Reply, Owning
<1>21. ASSUME NEW r \in Requests, Cancel(r) PROVE TypeOK'
  BY <1>21 DEF Cancel, Owning
<1>22. ASSUME Close PROVE TypeOK'
  BY <1>22 DEF Close, Resolutions, Owning
<1>23. ASSUME Abort PROVE TypeOK'
  BY <1>23 DEF Abort, Die, Resolutions, Owning
<1>24. ASSUME Restart PROVE TypeOK'
  BY <1>24 DEF Restart, Die, Resolutions, Owning
<1>25. ASSUME Crash PROVE TypeOK'
  <2>1. crashes' \in 0 .. MaxCrashes
    BY <1>25 DEF Crash
  <2> QED BY <2>1, <1>25 DEF Crash, Die, Resolutions, Owning
<1>26. CASE UNCHANGED vars
  BY <1>26 DEF vars
<1> QED BY <1>1, <1>2, <1>3, <1>4, <1>5, <1>6, <1>7, <1>8, <1>9, <1>10, <1>11, <1>12, <1>13,
            <1>14, <1>15, <1>16, <1>17, <1>18, <1>19, <1>20, <1>21, <1>22, <1>23, <1>24, <1>25, <1>26
  DEF Next, Runs, Resolver

\* Every variable keeps its type: no resolution or answer outside the ones the code
\* has, and no slot or index entry that is not a request (registry.rs).
THEOREM TypeCorrect == Spec => []TypeOK
<1> QED BY InitTypeOK, NextTypeOK, PTL DEF Spec

-----------------------------------------------------------------------------
(* Rows, index and answers.                                               *)

LEMMA InitRetryInv == Init => RetryInv
  BY NoneAssumption, KeyAssumption DEF Init, RetryInv, Answers, Attached, Early, Holders,
      Holding, IndexTruth, Stages, Verdicts

LEMMA NextRetryInv == TypeOK /\ RetryInv /\ [Next]_vars => RetryInv'
<1> SUFFICES ASSUME TypeOK, RetryInv, [Next]_vars PROVE RetryInv'
  OBVIOUS
<1> USE NoneAssumption, KeyAssumption
    DEF TypeOK, slots, request, Goto, Answer, RetryInv
<1>1. ASSUME NEW r \in Requests, RefuseCapacity(r) PROVE RetryInv'
  BY <1>1 DEF RefuseCapacity, IndexTruth, Holders, Holding, Stages, Verdicts, Early,
      Attached, Answers
<1>2. ASSUME NEW r \in Requests, RefuseLookup(r) PROVE RetryInv'
  BY <1>2 DEF RefuseLookup, IndexTruth, Holders, Holding, Stages, Verdicts, Early, Attached,
      Answers
<1>3. ASSUME NEW r \in Requests, Admit(r) PROVE RetryInv'
  <2>1. IndexTruth'
    BY <1>3 DEF Admit, Original, Conflicts, IndexTruth, Holders, Holding
  <2>2. Holders'
    BY <1>3 DEF Admit, Original, Conflicts, Holders, Holding, Stages
  <2>3. Stages'
    BY <1>3 DEF Admit, Original, Conflicts, Stages
  <2>4. Verdicts'
    BY <1>3 DEF Admit, Original, Conflicts, Verdicts, Early, Stages
  <2>5. Attached'
    BY <1>3 DEF Admit, Original, Conflicts, Attached
  <2>6. Answers'
    BY <1>3 DEF Admit, Original, Conflicts, Answers, Early, Stages, Verdicts, IndexTruth,
        Attached, Holders, Holding
  <2> QED BY <2>1, <2>2, <2>3, <2>4, <2>5, <2>6
<1>4. ASSUME NEW r \in Requests, GiveUp(r) PROVE RetryInv'
  BY <1>4 DEF GiveUp, IndexTruth, Holders, Holding, Stages, Verdicts, Early, Attached,
      Answers
<1>5. ASSUME NEW r \in Requests, Forward(r) PROVE RetryInv'
  <2>1. IndexTruth'
    BY <1>5 DEF Forward, Resolved, IndexTruth, Holders, Holding
  <2>2. Holders'
    BY <1>5 DEF Forward, Resolved, Holders, Holding, Stages
  <2>3. Stages'
    BY <1>5 DEF Forward, Resolved, Stages
  <2>4. Verdicts'
    BY <1>5 DEF Forward, Resolved, Verdicts, Early, Stages
  <2>5. Attached'
    BY <1>5 DEF Forward, Resolved, Attached
  <2>6. Answers'
    BY <1>5 DEF Forward, Resolved, Answers, Early, Stages, Verdicts, IndexTruth, Attached,
        Holders, Holding
  <2> QED BY <2>1, <2>2, <2>3, <2>4, <2>5, <2>6
<1>6. ASSUME NEW r \in Requests, Reserve(r) PROVE RetryInv'
  BY <1>6 DEF Reserve, IndexTruth, Holders, Holding, Stages, Verdicts, Early, Attached,
      Answers
<1>7. ASSUME NEW r \in Requests, Withdraw(r) PROVE RetryInv'
  BY <1>7 DEF Withdraw, IndexTruth, Holders, Holding, Stages, Verdicts, Early, Attached,
      Answers
<1>8. ASSUME NEW r \in Requests, HandOff(r) PROVE RetryInv'
  BY <1>8 DEF HandOff, IndexTruth, Holders, Holding, Stages, Verdicts, Early, Attached,
      Answers
<1>9. ASSUME NEW r \in Requests, Write(r) PROVE RetryInv'
  <2>1. IndexTruth'
    BY <1>9 DEF Write, StoreRow, IndexTruth, Holders, Holding
  <2>2. Holders'
    BY <1>9 DEF Write, StoreRow, Holders, Holding, Stages
  <2>3. Stages'
    BY <1>9 DEF Write, StoreRow, Stages
  <2>4. Verdicts'
    BY <1>9 DEF Write, StoreRow, Verdicts, Early, Stages
  <2>5. Attached'
    BY <1>9 DEF Write, StoreRow, Attached
  <2>6. Answers'
    BY <1>9 DEF Write, StoreRow, Answers, Early, Stages, Verdicts, IndexTruth, Attached,
        Holders, Holding
  <2> QED BY <2>1, <2>2, <2>3, <2>4, <2>5, <2>6
<1>10. ASSUME NEW r \in Requests, WriteFails(r) PROVE RetryInv'
  <2>1. IndexTruth'
    BY <1>10 DEF WriteFails, StoreRow, IndexTruth, Holders, Holding
  <2>2. Holders'
    BY <1>10 DEF WriteFails, StoreRow, Holders, Holding, Stages
  <2>3. Stages'
    BY <1>10 DEF WriteFails, StoreRow, Stages
  <2>4. Verdicts'
    BY <1>10 DEF WriteFails, StoreRow, Verdicts, Early, Stages
  <2>5. Attached'
    BY <1>10 DEF WriteFails, StoreRow, Attached
  <2>6. Answers'
    BY <1>10 DEF WriteFails, StoreRow, Answers, Early, Stages, Verdicts, IndexTruth,
        Attached, Holders, Holding
  <2> QED BY <2>1, <2>2, <2>3, <2>4, <2>5, <2>6
<1>11. ASSUME NEW r \in Requests, Accept(r) PROVE RetryInv'
  BY <1>11 DEF Accept, IndexTruth, Holders, Holding, Stages, Verdicts, Early, Attached,
      Answers
<1>12. ASSUME NEW r \in Requests, Hook(r) PROVE RetryInv'
  BY <1>12 DEF Hook, IndexTruth, Holders, Holding, Stages, Verdicts, Early, Attached, Answers
<1>13. ASSUME NEW r \in Requests, OwnerAccepted(r) PROVE RetryInv'
  <2>1. IndexTruth'
    BY <1>13 DEF OwnerAccepted, IndexTruth, Holders, Holding
  <2>2. Holders'
    BY <1>13 DEF OwnerAccepted, Holders, Holding, Stages
  <2>3. Stages'
    BY <1>13 DEF OwnerAccepted, Stages
  <2>4. Verdicts'
    BY <1>13 DEF OwnerAccepted, Verdicts, Early, Stages
  <2>5. Attached'
    BY <1>13 DEF OwnerAccepted, Attached
  <2>6. Answers'
    BY <1>13 DEF OwnerAccepted, Answers, Early, Stages, Verdicts, IndexTruth, Attached,
        Holders, Holding
  <2> QED BY <2>1, <2>2, <2>3, <2>4, <2>5, <2>6
<1>14. ASSUME NEW r \in Requests, DropOwner(r) PROVE RetryInv'
  <2>1. IndexTruth'
    BY <1>14 DEF DropOwner, Resolved, IndexTruth, Holders, Holding
  <2>2. Holders'
    BY <1>14 DEF DropOwner, Resolved, Holders, Holding, Stages
  <2>3. Stages'
    BY <1>14 DEF DropOwner, Resolved, Stages
  <2>4. Verdicts'
    BY <1>14 DEF DropOwner, Resolved, Verdicts, Early, Stages
  <2>5. Attached'
    BY <1>14 DEF DropOwner, Resolved, Attached
  <2>6. Answers'
    BY <1>14 DEF DropOwner, Resolved, Answers, Early, Stages, Verdicts, IndexTruth, Attached,
        Holders, Holding
  <2> QED BY <2>1, <2>2, <2>3, <2>4, <2>5, <2>6
<1>15. ASSUME NEW r \in Requests, EndScope(r) PROVE RetryInv'
  <2>1. IndexTruth'
    BY <1>15 DEF EndScope, IndexTruth, Holders, Holding
  <2>2. Holders'
    BY <1>15 DEF EndScope, Holders, Holding, Stages
  <2>3. Stages'
    BY <1>15 DEF EndScope, Stages
  <2>4. Verdicts'
    BY <1>15 DEF EndScope, Verdicts, Early, Stages
  <2>5. Attached'
    BY <1>15 DEF EndScope, Attached
  <2>6. Answers'
    BY <1>15 DEF EndScope, Answers, Early, Stages, Verdicts, IndexTruth, Attached, Holders,
        Holding
  <2> QED BY <2>1, <2>2, <2>3, <2>4, <2>5, <2>6
<1>16. ASSUME NEW r \in Requests, ResolverAbort(r) PROVE RetryInv'
  BY <1>16 DEF ResolverAbort, IndexTruth, Holders, Holding, Stages, Verdicts, Early,
      Attached, Answers
<1>17. ASSUME NEW r \in Requests, ResolverAbortFails(r) PROVE RetryInv'
  BY <1>17 DEF ResolverAbortFails, IndexTruth, Holders, Holding, Stages, Verdicts, Early,
      Attached, Answers
<1>18. ASSUME NEW r \in Requests, ResolverHook(r) PROVE RetryInv'
  <2>1. IndexTruth'
    BY <1>18 DEF ResolverHook, Resolved, IndexTruth, Holders, Holding
  <2>2. Holders'
    BY <1>18 DEF ResolverHook, Resolved, Holders, Holding, Stages
  <2>3. Stages'
    BY <1>18 DEF ResolverHook, Resolved, Stages
  <2>4. Verdicts'
    BY <1>18 DEF ResolverHook, Resolved, Verdicts, Early, Stages
  <2>5. Attached'
    BY <1>18 DEF ResolverHook, Resolved, Attached
  <2>6. Answers'
    BY <1>18 DEF ResolverHook, Resolved, Answers, Early, Stages, Verdicts, IndexTruth,
        Attached, Holders, Holding
  <2> QED BY <2>1, <2>2, <2>3, <2>4, <2>5, <2>6
<1>19. ASSUME NEW r \in Requests, WaiterWakes(r) PROVE RetryInv'
  <2>1. IndexTruth'
    BY <1>19 DEF WaiterWakes, Wake, IndexTruth, Holders, Holding
  <2>2. Holders'
    BY <1>19 DEF WaiterWakes, Wake, Holders, Holding, Stages
  <2>3. Stages'
    BY <1>19 DEF WaiterWakes, Wake, Stages
  <2>4. Verdicts'
    BY <1>19 DEF WaiterWakes, Wake, Verdicts, Early, Stages
  <2>5. Attached'
    BY <1>19 DEF WaiterWakes, Wake, Attached
  <2>6. Answers'
    BY <1>19 DEF WaiterWakes, Wake, Answers, Early, Stages, Verdicts, IndexTruth, Attached,
        Holders, Holding
  <2> QED BY <2>1, <2>2, <2>3, <2>4, <2>5, <2>6
<1>20. ASSUME NEW r \in Requests, Reply(r) PROVE RetryInv'
  BY <1>20 DEF Reply, IndexTruth, Holders, Holding, Stages, Verdicts, Early, Attached,
      Answers
<1>21. ASSUME NEW r \in Requests, Cancel(r) PROVE RetryInv'
  BY <1>21 DEF Cancel, IndexTruth, Holders, Holding, Stages, Verdicts, Early, Attached,
      Answers
<1>22. ASSUME Close PROVE RetryInv'
  <2>1. IndexTruth'
    BY <1>22 DEF Close, IndexTruth, Holders, Holding
  <2>2. Holders'
    BY <1>22 DEF Close, Holders, Holding, Stages
  <2>3. Stages'
    BY <1>22 DEF Close, Stages
  <2>4. Verdicts'
    BY <1>22 DEF Close, Verdicts, Early, Stages
  <2>5. Attached'
    BY <1>22 DEF Close, Attached
  <2>6. Answers'
    BY <1>22 DEF Close, Answers, Early, Stages, Verdicts, IndexTruth, Attached, Holders,
        Holding
  <2> QED BY <2>1, <2>2, <2>3, <2>4, <2>5, <2>6
<1>23. ASSUME Abort PROVE RetryInv'
  <2>1. IndexTruth'
    BY <1>23 DEF Abort, Die, IndexTruth, Holders, Holding
  <2>2. Holders'
    BY <1>23 DEF Abort, Die, Holders, Holding, Stages
  <2>3. Stages'
    BY <1>23 DEF Abort, Die, Stages
  <2>4. Verdicts'
    BY <1>23 DEF Abort, Die, Verdicts, Early, Stages
  <2>5. Attached'
    BY <1>23 DEF Abort, Die, Attached
  <2>6. Answers'
    BY <1>23 DEF Abort, Die, Answers, Early, Stages, Verdicts, IndexTruth, Attached, Holders,
        Holding
  <2> QED BY <2>1, <2>2, <2>3, <2>4, <2>5, <2>6
<1>24. ASSUME Restart PROVE RetryInv'
  <2>1. IndexTruth'
    BY <1>24 DEF Restart, Die, IndexTruth, Holders, Holding
  <2>2. Holders'
    BY <1>24 DEF Restart, Die, Holders, Holding, Stages
  <2>3. Stages'
    BY <1>24 DEF Restart, Die, Stages
  <2>4. Verdicts'
    BY <1>24 DEF Restart, Die, Verdicts, Early, Stages
  <2>5. Attached'
    BY <1>24 DEF Restart, Die, Attached
  <2>6. Answers'
    BY <1>24 DEF Restart, Die, Answers, Early, Stages, Verdicts, IndexTruth, Attached,
        Holders, Holding
  <2> QED BY <2>1, <2>2, <2>3, <2>4, <2>5, <2>6
<1>25. ASSUME Crash PROVE RetryInv'
  <2>1. IndexTruth'
    BY <1>25 DEF Crash, Die, IndexTruth, Holders, Holding
  <2>2. Holders'
    BY <1>25 DEF Crash, Die, Holders, Holding, Stages
  <2>3. Stages'
    BY <1>25 DEF Crash, Die, Stages
  <2>4. Verdicts'
    BY <1>25 DEF Crash, Die, Verdicts, Early, Stages
  <2>5. Attached'
    BY <1>25 DEF Crash, Die, Attached
  <2>6. Answers'
    BY <1>25 DEF Crash, Die, Answers, Early, Stages, Verdicts, IndexTruth, Attached, Holders,
        Holding
  <2> QED BY <2>1, <2>2, <2>3, <2>4, <2>5, <2>6
<1>26. CASE UNCHANGED vars
  BY <1>26 DEF vars, Answers, Attached, Early, Holders, Holding, IndexTruth, Stages, Verdicts
<1> QED BY <1>1, <1>2, <1>3, <1>4, <1>5, <1>6, <1>7, <1>8, <1>9, <1>10, <1>11, <1>12, <1>13,
            <1>14, <1>15, <1>16, <1>17, <1>18, <1>19, <1>20, <1>21, <1>22, <1>23, <1>24, <1>25, <1>26
  DEF Next, Runs, Resolver

LEMMA RetryInvariant == Spec => [](TypeOK /\ RetryInv)
<1> QED BY InitRetryInv, NextRetryInv, TypeCorrect, PTL DEF Spec

\* However often an envelope is sent, one of its requests is stored at most.
THEOREM RetriesStoredOnce == Spec => []StoredOnce
<1>1. RetryInv => StoredOnce
  BY DEF RetryInv, IndexTruth, StoredOnce
<1> QED BY <1>1, RetryInvariant, PTL

\* Every request told accepted is told the one stored assignment, for its own content.
THEOREM RetriesAgree == Spec => []AcceptedAgree
<1>1. RetryInv => AcceptedAgree
  BY DEF RetryInv, Answers, AcceptedAgree
<1> QED BY <1>1, RetryInvariant, PTL

\* aborted_retry_safe is only said when the original is not stored and cannot be any more.
THEOREM AbortedFinal == Spec => []AbortedIsFinal
<1>1. RetryInv => AbortedIsFinal
  BY DEF RetryInv, Answers, Early, AbortedIsFinal
<1> QED BY <1>1, RetryInvariant, PTL

-----------------------------------------------------------------------------
(* Slots and permits.                                                      *)

LEMMA InitSlotInv == Init => SlotInv
  BY NoneAssumption, KeyAssumption DEF Init, SlotInv, Attended, Owning, Permits,
      SlotIsAttended, Stages

LEMMA NextSlotInv == TypeOK /\ RetryInv /\ SlotInv /\ [Next]_vars => SlotInv'
<1> SUFFICES ASSUME TypeOK, RetryInv, SlotInv, [Next]_vars PROVE SlotInv'
  OBVIOUS
<1> USE NoneAssumption, KeyAssumption
    DEF TypeOK, slots, request, Goto, Answer, RetryInv, SlotInv
<1>1. ASSUME NEW r \in Requests, RefuseCapacity(r) PROVE SlotInv'
  BY <1>1 DEF RefuseCapacity, Permits, Attended, SlotIsAttended, Owning, Stages
<1>2. ASSUME NEW r \in Requests, RefuseLookup(r) PROVE SlotInv'
  BY <1>2 DEF RefuseLookup, Permits, Attended, SlotIsAttended, Owning, Stages
<1>3. ASSUME NEW r \in Requests, Admit(r) PROVE SlotInv'
  BY <1>3 DEF Admit, Original, Conflicts, Permits, Attended, SlotIsAttended, Owning, Stages
<1>4. ASSUME NEW r \in Requests, GiveUp(r) PROVE SlotInv'
  BY <1>4 DEF GiveUp, Permits, Attended, SlotIsAttended, Owning, Stages
<1>5. ASSUME NEW r \in Requests, Forward(r) PROVE SlotInv'
  BY <1>5 DEF Forward, Resolved, Permits, Attended, SlotIsAttended, Owning, Stages
<1>6. ASSUME NEW r \in Requests, Reserve(r) PROVE SlotInv'
  BY <1>6 DEF Reserve, Permits, Attended, SlotIsAttended, Owning, Stages
<1>7. ASSUME NEW r \in Requests, Withdraw(r) PROVE SlotInv'
  BY <1>7 DEF Withdraw, Permits, Attended, SlotIsAttended, Owning, Stages
<1>8. ASSUME NEW r \in Requests, HandOff(r) PROVE SlotInv'
  BY <1>8 DEF HandOff, Permits, Attended, SlotIsAttended, Owning, Stages
<1>9. ASSUME NEW r \in Requests, Write(r) PROVE SlotInv'
  BY <1>9 DEF Write, StoreRow, Permits, Attended, SlotIsAttended, Owning, Stages
<1>10. ASSUME NEW r \in Requests, WriteFails(r) PROVE SlotInv'
  BY <1>10 DEF WriteFails, StoreRow, Permits, Attended, SlotIsAttended, Owning, Stages
<1>11. ASSUME NEW r \in Requests, Accept(r) PROVE SlotInv'
  BY <1>11 DEF Accept, Permits, Attended, SlotIsAttended, Owning, Stages
<1>12. ASSUME NEW r \in Requests, Hook(r) PROVE SlotInv'
  BY <1>12 DEF Hook, Permits, Attended, SlotIsAttended, Owning, Stages
<1>13. ASSUME NEW r \in Requests, OwnerAccepted(r) PROVE SlotInv'
  <2>1. Permits'
    BY <1>13 DEF OwnerAccepted, Permits
  <2>2. Attended'
    BY <1>13 DEF OwnerAccepted, Attended, SlotIsAttended, Owning, Stages
  <2> QED BY <2>1, <2>2
<1>14. ASSUME NEW r \in Requests, DropOwner(r) PROVE SlotInv'
  <2>1. Permits'
    BY <1>14 DEF DropOwner, Resolved, Permits
  <2>2. Attended'
    BY <1>14 DEF DropOwner, Resolved, Attended, SlotIsAttended, Owning, Stages
  <2> QED BY <2>1, <2>2
<1>15. ASSUME NEW r \in Requests, EndScope(r) PROVE SlotInv'
  <2>1. Permits'
    BY <1>15 DEF EndScope, Permits
  <2>2. Attended'
    BY <1>15 DEF EndScope, Attended, SlotIsAttended, Owning, Stages
  <2> QED BY <2>1, <2>2
<1>16. ASSUME NEW r \in Requests, ResolverAbort(r) PROVE SlotInv'
  BY <1>16 DEF ResolverAbort, Permits, Attended, SlotIsAttended, Owning, Stages
<1>17. ASSUME NEW r \in Requests, ResolverAbortFails(r) PROVE SlotInv'
  BY <1>17 DEF ResolverAbortFails, Permits, Attended, SlotIsAttended, Owning, Stages
<1>18. ASSUME NEW r \in Requests, ResolverHook(r) PROVE SlotInv'
  <2>1. Permits'
    BY <1>18 DEF ResolverHook, Resolved, Permits
  <2>2. Attended'
    BY <1>18 DEF ResolverHook, Resolved, Attended, SlotIsAttended, Owning, Stages
  <2> QED BY <2>1, <2>2
<1>19. ASSUME NEW r \in Requests, WaiterWakes(r) PROVE SlotInv'
  BY <1>19 DEF WaiterWakes, Wake, Permits, Attended, SlotIsAttended, Owning, Stages
<1>20. ASSUME NEW r \in Requests, Reply(r) PROVE SlotInv'
  BY <1>20 DEF Reply, Permits, Attended, SlotIsAttended, Owning, Stages
<1>21. ASSUME NEW r \in Requests, Cancel(r) PROVE SlotInv'
  BY <1>21 DEF Cancel, Permits, Attended, SlotIsAttended, Owning, Stages
<1>22. ASSUME Close PROVE SlotInv'
  BY <1>22 DEF Close, Permits, Attended, SlotIsAttended, Owning, Stages
<1>23. ASSUME Abort PROVE SlotInv'
  BY <1>23 DEF Abort, Die, Permits, Attended, SlotIsAttended, Owning, Stages
<1>24. ASSUME Restart PROVE SlotInv'
  BY <1>24 DEF Restart, Die, Permits, Attended, SlotIsAttended, Owning, Stages
<1>25. ASSUME Crash PROVE SlotInv'
  BY <1>25 DEF Crash, Die, Permits, Attended, SlotIsAttended, Owning, Stages
<1>26. CASE UNCHANGED vars
  BY <1>26 DEF vars, Attended, Owning, Permits, SlotIsAttended, Stages
<1> QED BY <1>1, <1>2, <1>3, <1>4, <1>5, <1>6, <1>7, <1>8, <1>9, <1>10, <1>11, <1>12, <1>13,
            <1>14, <1>15, <1>16, <1>17, <1>18, <1>19, <1>20, <1>21, <1>22, <1>23, <1>24, <1>25, <1>26
  DEF Next, Runs, Resolver

LEMMA SlotInvariant == Spec => []SlotInv
<1> QED BY InitSlotInv, NextSlotInv, RetryInvariant, PTL DEF Spec

\* A registered slot is pending and somebody will still resolve it.
THEOREM SlotsAttended == Spec => []SlotIsAttended
<1>1. SlotInv => SlotIsAttended
  BY DEF SlotInv, Attended
<1> QED BY <1>1, SlotInvariant, PTL

\* A finished request holds no permit, unless its slot is still to be resolved.
THEOREM PermitsReturned == Spec => []PermitsReturn
<1>1. TypeOK /\ SlotInv => PermitsReturn
  BY DEF TypeOK, SlotInv, Permits, PermitsReturn
<1> QED BY <1>1, SlotInvariant, TypeCorrect, PTL
=============================================================================
