----------------------------- MODULE SenderRetry -----------------------------
(***************************************************************************)
(* Sender retries                                                          *)
(* (crates/ramflux-node-core/src/router_store/sender_retry.rs and          *)
(* sender_retry/registry.rs).  A client that got no answer sends the same  *)
(* envelope again.  The first request with an identity owns a slot of the  *)
(* registry until its outcome is known; identical requests attach to the   *)
(* slot and wait; later ones are answered from the durable sender index.   *)
(*                                                                         *)
(* A request is one call of prepare_submission (apps/ramflux-router/src/   *)
(* router_engine.rs) or of its custody and forwarded counterparts.  Its    *)
(* assignment goes through module Publication; of the descriptor only the  *)
(* fate matters here: handed to the writer, or aborted by the resolver.    *)
(***************************************************************************)
EXTENDS Integers, FiniteSets

CONSTANTS
    Requests,     \* requests, each one made once
    Keys,         \* replay identities (envelope_replay_tuple_key)
    KeyOf,        \* the identity of a request
    Digest,       \* its content_digest
    None,         \* no slot, no assignment
    MaxPermits,   \* permits of submission_admission
    MaxCrashes    \* bound on crashes that no fence announces

ASSUME KeyAssumption == KeyOf \in [Requests -> Keys]
ASSUME NoneAssumption == None \notin Requests
ASSUME BoundAssumption == MaxPermits \in Nat /\ MaxCrashes \in Nat

VARIABLES
    registry,   \* the slot of each identity, named after the request that made it
    result,     \* Resolution of each slot
    durable,    \* slots told that the write is durable
    bound,      \* owners whose assignment carries their RetryAbort
    permit,     \* where the admission permit of a request is
    pc,
    on,         \* the slot a waiter is attached to
    told,       \* whose assignment a request is answered with
    answer,
    desc,       \* fate of a request's descriptor
    hooks,      \* aborted descriptors whose RetryAbort the resolver has yet to call
    open,       \* the store exists
    fenced,     \* fatal_durability
    crashes,
    \* durable
    stored,     \* requests whose row is stored
    index       \* the sender index: the assignment of each identity

slots   == <<registry, result, permit>>
request == <<pc, on, told, answer>>
vars == <<slots, durable, bound, request, desc, hooks, open, fenced, crashes, stored, index>>

Resolutions == {"none", "pending", "accepted", "aborted", "recheck", "forwarded", "closed"}

\* Stages of a request that owns a slot and has not dropped its RetryOwner.
Owning == {"owner", "reserved", "handed", "written", "hook", "accepted", "leave"}

Init ==
    /\ registry = [k \in Keys |-> None]
    /\ result = [r \in Requests |-> "none"]
    /\ durable = {} /\ bound = {}
    /\ permit = [r \in Requests |-> "none"]
    /\ pc = [r \in Requests |-> "new"]
    /\ on = [r \in Requests |-> None]
    /\ told = [r \in Requests |-> None]
    /\ answer = [r \in Requests |-> "none"]
    /\ desc = [r \in Requests |-> "none"]
    /\ hooks = {} /\ open = TRUE /\ fenced = FALSE /\ crashes = 0
    /\ stored = {} /\ index = [k \in Keys |-> None]

Goto(r, where) == pc' = [pc EXCEPT ![r] = where]

Answer(r, what) == answer' = [answer EXCEPT ![r] = what]

-----------------------------------------------------------------------------
(* The registry.                                                           *)

\* Mutant: the slot keeps its permit.
ResolvedKeepingPermit(s, resolution) ==
    IF result[s] # "pending" THEN UNCHANGED slots
    ELSE /\ result' = [result EXCEPT ![s] = resolution]
         /\ registry' = [registry EXCEPT ![KeyOf[s]] = IF @ = s THEN None ELSE @]
         /\ UNCHANGED permit

\* finish: the first resolution of a slot counts; it leaves the registry.
Resolved(s, resolution) ==
    IF result[s] # "pending" THEN UNCHANGED slots
    ELSE /\ result' = [result EXCEPT ![s] = resolution]
         /\ registry' = [registry EXCEPT ![KeyOf[s]] = IF @ = s THEN None ELSE @]
         /\ permit' = [permit EXCEPT ![s] = IF @ = "slot" THEN "none" ELSE @]

HasPermit == Cardinality({r \in Requests : permit[r] # "none"}) < MaxPermits

\* admit_sender_retry without a permit: capacity_retry_after.
RefuseCapacity(r) ==
    /\ pc[r] = "new" /\ open /\ ~HasPermit
    /\ Answer(r, "capacity") /\ Goto(r, "done")
    /\ UNCHANGED <<slots, durable, bound, on, told, desc, hooks, open, fenced, crashes, stored,
                   index>>

\* The index lookup fails: an error and no slot.
RefuseLookup(r) ==
    /\ pc[r] = "new" /\ open /\ HasPermit /\ registry[KeyOf[r]] = None
    /\ Answer(r, "error") /\ Goto(r, "done")
    /\ UNCHANGED <<slots, durable, bound, on, told, desc, hooks, open, fenced, crashes, stored,
                   index>>

\* The request whose content this identity stands for: a pending one, or the stored one.
Original(k) == IF registry[k] # None THEN registry[k] ELSE index[k]

\* Mutant: an identical identity is enough.
ConflictsNever(r) == FALSE

Conflicts(r) == Digest[Original(KeyOf[r])] # Digest[r]

\* admit_sender_retry: the registry lock is held across the lookup of the index.
Admit(r) ==
    LET k == KeyOf[r]
    IN  /\ pc[r] = "new" /\ open /\ HasPermit
        /\ \/ /\ Original(k) # None /\ Conflicts(r)
              /\ Answer(r, "conflict") /\ Goto(r, "done")
              /\ UNCHANGED <<slots, on, told>>
           \/ /\ registry[k] # None /\ ~Conflicts(r)
              /\ on' = [on EXCEPT ![r] = registry[k]]
              /\ permit' = [permit EXCEPT ![r] = "held"]
              /\ Goto(r, "waiting")
              /\ UNCHANGED <<registry, result, told, answer>>
           \/ /\ registry[k] = None /\ index[k] # None /\ ~Conflicts(r)
              /\ told' = [told EXCEPT ![r] = index[k]]
              /\ permit' = [permit EXCEPT ![r] = "held"]
              /\ Answer(r, "accepted") /\ Goto(r, "reply")
              /\ UNCHANGED <<registry, result, on>>
           \/ /\ registry[k] = None /\ index[k] = None
              /\ registry' = [registry EXCEPT ![k] = r]
              /\ result' = [result EXCEPT ![r] = "pending"]
              /\ permit' = [permit EXCEPT ![r] = "slot"]
              /\ Goto(r, "owner")
              /\ UNCHANGED <<on, told, answer>>
        /\ UNCHANGED <<durable, bound, desc, hooks, open, fenced, crashes, stored, index>>

-----------------------------------------------------------------------------
(* The original request.                                                   *)

\* Refused before an assignment: oversized, replayed, no capacity, an error, a panic.
GiveUp(r) ==
    /\ pc[r] = "owner"
    /\ \E what \in {"refused", "lost"} : Answer(r, what)
    /\ Goto(r, "leave")
    /\ UNCHANGED <<slots, durable, bound, on, told, desc, hooks, open, fenced, crashes, stored,
                   index>>

\* The recipient moved: the remote home has the request (RetryOwner::forwarded).
Forward(r) ==
    /\ pc[r] = "owner" /\ open
    /\ Resolved(r, "forwarded")
    /\ Answer(r, "forwarded") /\ Goto(r, "leave")
    /\ UNCHANGED <<durable, bound, on, told, desc, hooks, open, fenced, crashes, stored, index>>

\* allocate: the descriptor takes the RetryAbort of its owner.
Reserve(r) ==
    /\ pc[r] = "owner" /\ open
    /\ bound' = bound \cup {r}
    /\ desc' = [desc EXCEPT ![r] = "reserved"]
    /\ Goto(r, "reserved")
    /\ UNCHANGED <<slots, durable, on, told, answer, hooks, open, fenced, crashes, stored, index>>

\* Proved not to be written (aborted_retry_safe), or a panic.
Withdraw(r) ==
    /\ pc[r] = "reserved"
    /\ \E what \in {"aborted", "lost"} : Answer(r, what)
    /\ Goto(r, "leave")
    /\ UNCHANGED <<slots, durable, bound, on, told, desc, hooks, open, fenced, crashes, stored,
                   index>>

HandOff(r) ==
    /\ pc[r] = "reserved" /\ ~fenced
    /\ desc' = [desc EXCEPT ![r] = "handed"]
    /\ Goto(r, "handed")
    /\ UNCHANGED <<slots, durable, bound, on, told, answer, hooks, open, fenced, crashes, stored,
                   index>>

\* One transaction stores the row and the sender index.
StoreRow(r) ==
    /\ stored' = stored \cup {r}
    /\ index' = [index EXCEPT ![KeyOf[r]] = r]

Write(r) ==
    /\ pc[r] = "handed" /\ ~fenced
    /\ StoreRow(r)
    /\ Goto(r, "written")
    /\ UNCHANGED <<slots, durable, bound, on, told, answer, desc, hooks, open, fenced, crashes>>

\* Mutant: a failed write may leave a row that the index does not know.
WriteFailsTorn(r) ==
    /\ pc[r] = "handed" /\ ~fenced
    /\ stored' = stored \cup {r} \/ UNCHANGED stored
    /\ fenced' = TRUE
    /\ UNCHANGED <<slots, durable, bound, request, desc, hooks, open, crashes, index>>

\* A failed write may have landed: the process is fenced and aborts.
WriteFails(r) ==
    /\ pc[r] = "handed" /\ ~fenced
    /\ StoreRow(r) \/ UNCHANGED <<stored, index>>
    /\ fenced' = TRUE
    /\ UNCHANGED <<slots, durable, bound, request, desc, hooks, open, crashes>>

\* accepted_durable does nothing in a fenced process.
Accept(r) ==
    /\ pc[r] = "written"
    /\ IF fenced
       THEN Goto(r, "accepted") /\ UNCHANGED desc
       ELSE Goto(r, "hook") /\ desc' = [desc EXCEPT ![r] = "durable"]
    /\ UNCHANGED <<slots, durable, bound, on, told, answer, hooks, open, fenced, crashes, stored,
                   index>>

\* RetryAbort::durable, on the thread of the owner: owner_alive is still true.
Hook(r) ==
    /\ pc[r] = "hook"
    /\ durable' = durable \cup {r}
    /\ Goto(r, "accepted")
    /\ UNCHANGED <<slots, bound, on, told, answer, desc, hooks, open, fenced, crashes, stored,
                   index>>

\* accepted_entry: the assignment found in the index resolves the slot and the
\* permit stays with the reply; a failed lookup leaves both to the drop.
OwnerAccepted(r) ==
    /\ pc[r] = "accepted"
    /\ \/ /\ result[r] = "pending"
          /\ result' = [result EXCEPT ![r] = "accepted"]
          /\ registry' = [registry EXCEPT ![KeyOf[r]] = IF @ = r THEN None ELSE @]
          /\ permit' = [permit EXCEPT ![r] = "held"]
       \/ UNCHANGED slots
    /\ told' = [told EXCEPT ![r] = r]
    /\ Answer(r, "accepted") /\ Goto(r, "leave")
    /\ UNCHANGED <<durable, bound, on, desc, hooks, open, fenced, crashes, stored, index>>

\* Mutant: an owner that finds its write durable aborts instead of having waiters look again.
DropOwnerUnchecked(r) ==
    /\ pc[r] = "leave"
    /\ IF r \notin bound \/ r \in durable THEN Resolved(r, "aborted") ELSE UNCHANGED slots
    /\ Goto(r, "end")
    /\ UNCHANGED <<durable, bound, on, told, answer, desc, hooks, open, fenced, crashes, stored,
                   index>>

\* Mutant: the write being durable, the slot is left to somebody else.
DropOwnerLeaving(r) ==
    /\ pc[r] = "leave"
    /\ IF r \notin bound THEN Resolved(r, "aborted") ELSE UNCHANGED slots
    /\ Goto(r, "end")
    /\ UNCHANGED <<durable, bound, on, told, answer, desc, hooks, open, fenced, crashes, stored,
                   index>>

\* Drop for RetryOwner: without an assignment nothing was written; with a durable
\* one waiters look it up; otherwise the descriptor decides.
DropOwner(r) ==
    /\ pc[r] = "leave"
    /\ IF r \notin bound THEN Resolved(r, "aborted")
       ELSE IF r \in durable THEN Resolved(r, "recheck")
       ELSE UNCHANGED slots
    /\ Goto(r, "end")
    /\ UNCHANGED <<durable, bound, on, told, answer, desc, hooks, open, fenced, crashes, stored,
                   index>>

\* The publication scope ends after the owner: what was not handed off is detached.
EndScope(r) ==
    /\ pc[r] = "end"
    /\ desc' = [desc EXCEPT ![r] = IF @ = "reserved" THEN "detached" ELSE @]
    /\ Goto(r, "reply")
    /\ UNCHANGED <<slots, durable, bound, on, told, answer, hooks, open, fenced, crashes, stored,
                   index>>

-----------------------------------------------------------------------------
(* The resolver of module Publication.                                     *)

\* A tombstone is durable and published; the RetryAbort is called after that.
ResolverAbort(r) ==
    /\ open /\ ~fenced /\ desc[r] = "detached"
    /\ desc' = [desc EXCEPT ![r] = "aborted"]
    /\ hooks' = hooks \cup {r}
    /\ UNCHANGED <<slots, durable, bound, request, open, fenced, crashes, stored, index>>

ResolverAbortFails(r) ==
    /\ open /\ ~fenced /\ desc[r] = "detached"
    /\ fenced' = TRUE
    /\ UNCHANGED <<slots, durable, bound, request, desc, hooks, open, crashes, stored, index>>

\* Mutant: the resolver calls nobody.
ResolverHookNothing(r) ==
    /\ r \in hooks
    /\ hooks' = hooks \ {r}
    /\ UNCHANGED <<slots, durable, bound, request, desc, open, fenced, crashes, stored, index>>

\* RetryAbort::aborted.
ResolverHook(r) ==
    /\ r \in hooks
    /\ hooks' = hooks \ {r}
    /\ Resolved(r, "aborted")
    /\ UNCHANGED <<durable, bound, request, desc, open, fenced, crashes, stored, index>>

-----------------------------------------------------------------------------
(* Waiters and replies.                                                    *)

Wake(r, what, whose) ==
    /\ Answer(r, what)
    /\ told' = [told EXCEPT ![r] = whose]
    /\ Goto(r, IF what = "accepted" THEN "reply" ELSE "done")
    /\ permit' = [permit EXCEPT ![r] = IF what = "accepted" THEN @ ELSE "none"]

\* Mutant: a waiter told to look the assignment up reports that instead.
WaiterWakesUnresolved(r) ==
    /\ pc[r] = "waiting"
    /\ \/ result[on[r]] = "accepted" /\ Wake(r, "accepted", on[r])
       \/ result[on[r]] \in {"aborted", "forwarded", "closed", "recheck"} /\ Wake(r, result[on[r]], None)
    /\ UNCHANGED <<registry, result, durable, bound, on, desc, hooks, open, fenced, crashes, stored,
                   index>>

\* RetryWaiter::resolved.
WaiterWakes(r) ==
    /\ pc[r] = "waiting"
    /\ \/ result[on[r]] = "accepted" /\ Wake(r, "accepted", on[r])
       \/ /\ result[on[r]] = "recheck"
          /\ \/ Wake(r, "error", None)
             \/ Wake(r, IF index[KeyOf[r]] = None THEN "missing" ELSE "accepted", index[KeyOf[r]])
       \/ result[on[r]] \in {"aborted", "forwarded", "closed"} /\ Wake(r, result[on[r]], None)
    /\ UNCHANGED <<registry, result, durable, bound, on, desc, hooks, open, fenced, crashes, stored,
                   index>>

\* Whether the assignment of s lies in the published prefix (module Publication).
Published(s) == desc[s] \in {"none", "durable", "aborted"}

\* The reply waits for publication and leaves only an unfenced process.
Reply(r) ==
    /\ pc[r] = "reply"
    /\ IF answer[r] = "accepted" THEN Published(told[r]) /\ ~fenced
       ELSE desc[r] = "none" \/ (Published(r) /\ ~fenced)
    /\ permit' = [permit EXCEPT ![r] = IF @ = "held" THEN "none" ELSE @]
    /\ Goto(r, "done")
    /\ UNCHANGED <<registry, result, durable, bound, on, told, answer, desc, hooks, open, fenced,
                   crashes, stored, index>>

\* The connection is lost: the waiter or the reply is dropped.
Cancel(r) ==
    /\ pc[r] \in {"waiting", "reply"}
    /\ permit' = [permit EXCEPT ![r] = IF @ = "held" THEN "none" ELSE @]
    /\ told' = [told EXCEPT ![r] = None]
    /\ Answer(r, "lost") /\ Goto(r, "done")
    /\ UNCHANGED <<registry, result, durable, bound, on, desc, hooks, open, fenced, crashes, stored,
                   index>>

-----------------------------------------------------------------------------
(* The store and the process.                                              *)

\* The store is dropped with its resolver drained; at most owners without an
\* assignment are left, and their waiters are told store_closed (Drop for Registry).
Close ==
    /\ open /\ ~fenced /\ hooks = {}
    /\ \A r \in Requests : pc[r] \in Owning => pc[r] = "owner"
    /\ \A r \in Requests : desc[r] # "detached" /\ pc[r] # "end"
    /\ open' = FALSE
    /\ LET left == {s \in Requests : registry[KeyOf[s]] = s}
       IN  /\ result' = [s \in Requests |-> IF s \in left THEN "closed" ELSE result[s]]
           /\ permit' = [s \in Requests |-> IF s \in left THEN "none" ELSE permit[s]]
    /\ registry' = [k \in Keys |-> None]
    /\ UNCHANGED <<durable, bound, request, desc, hooks, fenced, crashes, stored, index>>

\* Memory is gone; requests that were running never get an answer.
Die ==
    LET running == {r \in Requests : pc[r] \notin {"new", "done"}}
    IN  /\ registry' = [k \in Keys |-> None]
        /\ result' = [r \in Requests |-> "none"]
        /\ durable' = {} /\ bound' = {}
        /\ permit' = [r \in Requests |-> "none"]
        /\ pc' = [r \in Requests |-> IF r \in running THEN "done" ELSE pc[r]]
        /\ answer' = [r \in Requests |-> IF r \in running THEN "lost" ELSE answer[r]]
        /\ told' = [r \in Requests |-> IF r \in running THEN None ELSE told[r]]
        /\ desc' = [r \in Requests |-> "none"]
        /\ hooks' = {} /\ open' = TRUE /\ fenced' = FALSE
        /\ UNCHANGED <<on, stored, index>>

Abort == fenced /\ Die /\ UNCHANGED crashes

Restart == ~open /\ Die /\ UNCHANGED crashes

Crash == crashes < MaxCrashes /\ Die /\ crashes' = crashes + 1

-----------------------------------------------------------------------------
Runs(r) ==
    \/ GiveUp(r) \/ Forward(r) \/ Reserve(r) \/ Withdraw(r) \/ HandOff(r)
    \/ Write(r) \/ WriteFails(r) \/ Accept(r) \/ Hook(r) \/ OwnerAccepted(r)
    \/ DropOwner(r) \/ EndScope(r) \/ WaiterWakes(r) \/ Reply(r)

Resolver == \E r \in Requests : ResolverAbort(r) \/ ResolverAbortFails(r) \/ ResolverHook(r)

Next ==
    \/ \E r \in Requests :
          RefuseCapacity(r) \/ RefuseLookup(r) \/ Admit(r) \/ Runs(r) \/ Cancel(r)
    \/ Resolver
    \/ Close \/ Abort \/ Restart \/ Crash

Spec == Init /\ [][Next]_vars

\* Threads and tasks run, the resolver runs, the supervisor aborts a fenced process.
Fairness ==
    /\ \A r \in Requests : WF_vars(Runs(r))
    /\ WF_vars(Resolver) /\ WF_vars(Abort)

FairSpec == Spec /\ Fairness

-----------------------------------------------------------------------------
TypeOK ==
    /\ registry \in [Keys -> Requests \cup {None}]
    /\ result \in [Requests -> Resolutions]
    /\ durable \subseteq Requests /\ bound \subseteq Requests /\ hooks \subseteq Requests
    /\ permit \in [Requests -> {"none", "slot", "held"}]
    /\ pc \in [Requests -> Owning \cup {"new", "end", "waiting", "reply", "done"}]
    /\ on \in [Requests -> Requests \cup {None}]
    /\ told \in [Requests -> Requests \cup {None}]
    /\ answer \in [Requests -> {"none", "capacity", "error", "conflict", "refused", "forwarded",
                                "aborted", "closed", "missing", "accepted", "lost"}]
    /\ desc \in [Requests -> {"none", "reserved", "detached", "handed", "durable", "aborted"}]
    /\ open \in BOOLEAN /\ fenced \in BOOLEAN
    /\ crashes \in 0 .. MaxCrashes
    /\ stored \subseteq Requests
    /\ index \in [Keys -> Requests \cup {None}]

\* However often a client sends an envelope, whatever fails or crashes in between,
\* at most one of the requests is stored (admit_sender_retry and finish).
StoredOnce ==
    \A r, q \in stored : KeyOf[r] = KeyOf[q] => r = q

\* Every request told accepted is told the one stored assignment of its identity,
\* and only if its content is the stored content (content_digest).
AcceptedAgree ==
    \A r \in Requests : answer[r] = "accepted" =>
        /\ told[r] \in stored /\ index[KeyOf[r]] = told[r]
        /\ Digest[told[r]] = Digest[r]

\* aborted_retry_safe is final: the original it speaks of is not stored and no
\* longer can be; and no waiter finds its durable assignment missing.
AbortedIsFinal ==
    /\ \A r \in Requests : answer[r] = "aborted" =>
          LET original == IF on[r] = None THEN r ELSE on[r]
          IN  original \notin stored /\ pc[original] \notin {"owner", "reserved", "handed"}
    /\ \A r \in Requests : answer[r] # "missing"

\* A registered slot is pending and somebody will still resolve it: its owner, the
\* resolver that has its descriptor, or the supervisor (terminal slots retain no history).
SlotIsAttended ==
    \A k \in Keys : registry[k] # None =>
        LET s == registry[k]
        IN  /\ KeyOf[s] = k /\ result[s] = "pending"
            /\ \/ pc[s] \in Owning \/ fenced \/ s \in hooks
               \/ s \in bound /\ pc[s] = "end" /\ desc[s] = "reserved"
               \/ s \in bound /\ desc[s] = "detached"

\* The permit of a finished request is back, or with a slot that is not resolved yet.
PermitsReturn ==
    \A r \in Requests : pc[r] = "done" /\ permit[r] # "none" =>
        permit[r] = "slot" /\ registry[KeyOf[r]] = r

\* A waiter does not wait for ever (RetryWaiter::resolved, finish, Drop for Registry).
WaitersResolve ==
    \A r \in Requests : pc[r] = "waiting" ~> pc[r] # "waiting"
=============================================================================
