----------------------------- MODULE DurableLog -----------------------------
(***************************************************************************)
(* What the router's submission log promises its callers: a record whose   *)
(* append was answered with success, or which a lookup has shown to a      *)
(* caller, is found again after every restart, until it is due, unless the *)
(* restart announces the loss by a new inbox incarnation.  RouterWal is    *)
(* shown to implement this specification.                                  *)
(***************************************************************************)
EXTENDS Naturals, FiniteSets

CONSTANT Requests

VARIABLES
  reply,   \* what the caller of each append knows
  live,    \* records a lookup finds; empty while the log is closed
  owed,    \* records some caller was told are stored
  due,     \* records no longer promised: past their deadline, or excused
  epoch,   \* the inbox incarnation
  open

absVars == <<reply, live, owed, due, epoch, open>>

Replies == {"idle", "pending", "ok", "err"}

AbsInit ==
  /\ reply = [r \in Requests |-> "idle"]
  /\ live = {} /\ owed = {} /\ due = {}
  /\ epoch = 0 /\ open = FALSE

AbsSubmit(r) ==
  /\ open /\ reply[r] = "idle"
  /\ reply' = [reply EXCEPT ![r] = "pending"]
  /\ UNCHANGED <<live, owed, due, epoch, open>>

\* A batch becomes visible before any of its callers is answered.
AbsApply ==
  /\ open
  /\ \E S \in SUBSET {r \in Requests : reply[r] = "pending"} : live' = live \cup S
  /\ UNCHANGED <<reply, owed, due, epoch, open>>

\* Success is only told of a record a lookup would find, or one past its deadline.
AbsConfirm(r) ==
  /\ open /\ r \in live \cup due /\ reply[r] \in {"pending", "err"}
  /\ reply' = [reply EXCEPT ![r] = "ok"]
  /\ owed' = owed \cup {r}
  /\ UNCHANGED <<live, due, epoch, open>>

AbsRefuse ==
  /\ \E S \in SUBSET {r \in Requests : reply[r] = "pending"} :
        reply' = [r \in Requests |-> IF r \in S THEN "err" ELSE reply[r]]
  /\ UNCHANGED <<live, owed, due, epoch, open>>

AbsAge ==
  /\ due \subseteq due'
  /\ due' \subseteq Requests
  /\ UNCHANGED <<reply, live, owed, epoch, open>>

AbsExpire ==
  /\ open
  /\ live \ due \subseteq live' /\ live' \subseteq live
  /\ UNCHANGED <<reply, owed, due, epoch, open>>

\* A crash answers nobody: every append in progress has failed for its caller.
AbsCrash ==
  /\ reply' = [r \in Requests |-> IF reply[r] = "pending" THEN "err" ELSE reply[r]]
  /\ live' = {} /\ open' = FALSE
  /\ UNCHANGED <<owed, due, epoch>>

\* Losing a record that is owed and not due takes a new incarnation.
AbsRestart ==
  /\ ~open /\ open' = TRUE
  /\ live' \subseteq {r \in Requests : reply[r] # "idle"}
  /\ \/ epoch' = epoch /\ owed \ due \subseteq live' /\ owed' = owed
     \/ epoch' > epoch /\ owed' = owed \cap live'
  /\ UNCHANGED <<reply, due>>

AbsNext ==
  \/ \E r \in Requests : AbsSubmit(r) \/ AbsConfirm(r)
  \/ AbsApply \/ AbsRefuse \/ AbsAge \/ AbsExpire \/ AbsCrash \/ AbsRestart

AbsSpec == AbsInit /\ [][AbsNext]_absVars
=============================================================================
