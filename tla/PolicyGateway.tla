--------------------------- MODULE PolicyGateway ---------------------------
(***************************************************************************)
(* src/gateway/policy_gateway.py with the two handlers of src/main.py that *)
(* drive it (/chat from the authorization on, /approve) and the approvals  *)
(* table of src/auth/models.py.                                            *)
(*                                                                         *)
(* A caller is a thread of control inside the gateway.  The server has one *)
(* (its handlers never await here); the steps of a caller are the database *)
(* calls, the audit entries and the tool runs, because between any two of  *)
(* them the process can stop or a call can raise.  Rows and audit entries  *)
(* survive that, the callers do not.                                       *)
(***************************************************************************)
EXTENDS Integers, FiniteSets

CONSTANTS Callers,
          Users, Role,             \* Role[u]: the role of user u
          Tools, Manifest,         \* Manifest[t]: role, permission and hitl flag
          UnknownAction,           \* an action name no tool has
          Ids,                     \* approval ids
          None,                    \* no row, no approval id
          Ttl,                     \* hitl_ttl_minutes, in ticks of the clock
          MaxTime,                 \* bound: the clock
          MaxFaults,               \* bound: stops and calls that raise
          Kept                     \* the kinds of audit entries that are kept

VARIABLES approvals,     \* table pending_approvals: id -> row
          trail,         \* the entries of the audit log
          now,
          pc, req,       \* per caller: where it is, and its local variables
          ran,           \* who had which plain tool run
          runs,          \* how often the tool of an approval was run
          faults         \* stops and raised calls so far

vars == <<approvals, trail, now, pc, req, ran, runs, faults>>

Roles       == {"guest", "user", "operator", "master"}
Permissions == {"read", "write", "execute", "backup", "admin"}
Statuses    == {"pending", "confirmed", "denied", "expired"}
Kinds       == {"allow", "refused", "expired", "explicit_denial",
                "hitl_required", "error", "executed"}
Actions     == Tools \cup {UnknownAction}
Times       == 0 .. MaxTime
Rows == [status : Statuses, user : Users, action : Actions, expires : Nat]
\* "kind" is an entry's decision, and the reason that goes with a "deny".
LogEntries == [user : Users, action : Actions \cup {"approve"},
               kind : Kinds, ref : Ids \cup {None}]

Labels == {"idle", "log_deny", "create", "log_hitl", "log_allow", "run",
           "log_error", "log_executed", "check_ttl", "expire", "log_expired",
           "confirm", "log_confirm", "run_approved", "deny", "log_denied", "sweep"}
Vias   == {"chat", "execute", "approve", "deny", "sweep"}
Reqs   == [via : Vias, user : Users \cup {None}, action : Actions \cup {"approve"},
           id : Ids \cup {None}, seen : Rows \cup {None}, todo : SUBSET Ids]

ASSUME RolesAssumption == Role \in [Users -> Roles]
ASSUME ManifestAssumption ==
  Manifest \in [Tools -> [required_role : Roles, required_permission : Permissions,
                          hitl : BOOLEAN]]
ASSUME NamesAssumption == /\ UnknownAction \notin Tools
                          /\ None \notin Users /\ None \notin Ids /\ None \notin Rows
                          /\ "approve" \notin Actions
ASSUME BoundsAssumption == /\ Ttl \in Nat /\ MaxTime \in Nat /\ MaxFaults \in Nat
                           /\ Kept \subseteq Kinds

-----------------------------------------------------------------------------
(* Who may do what.                                                        *)

ROLE_TIER == [guest |-> 0, user |-> 1, operator |-> 2, master |-> 3]

Granted == [master   |-> Permissions,
            operator |-> {"read", "write", "execute", "backup"},
            user     |-> {"read", "write"},
            guest    |-> {"read"}]

\* Mutant of Permitted: the role tier is not compared.
MutantPermitted(u, a) ==
  /\ a \in Tools
  /\ Manifest[a].required_permission \in Granted[Role[u]]

\* authorize(), steps 1 to 3: a known tool, a sufficient tier, the permission.
Permitted(u, a) ==
  /\ a \in Tools
  /\ ROLE_TIER[Role[u]] >= ROLE_TIER[Manifest[a].required_role]
  /\ Manifest[a].required_permission \in Granted[Role[u]]

Hitl(a) == Manifest[a].hitl

-----------------------------------------------------------------------------
(* The steps of a caller.                                                  *)

NoReq == [via |-> "chat", user |-> None, action |-> UnknownAction, id |-> None,
          seen |-> None, todo |-> {}]

Goto(c, label) == pc' = [pc EXCEPT ![c] = label] /\ UNCHANGED req

Done(c) == /\ pc' = [pc EXCEPT ![c] = "idle"]
           /\ req' = [req EXCEPT ![c] = NoReq]

Begin(c, label, r) == /\ pc[c] = "idle"
                      /\ pc' = [pc EXCEPT ![c] = label]
                      /\ req' = [req EXCEPT ![c] = r]

\* _log: an entry about the caller's request.  Entries nothing is said about
\* (those of a kind that is not in Kept) leave no mark in the model.
Logged(c, kind) ==
  trail' = IF kind \in Kept
           THEN trail \cup {[user |-> req[c].user, action |-> req[c].action,
                             kind |-> kind, ref |-> req[c].id]}
           ELSE trail

\* decide_approval: UPDATE ... SET status, whatever the status was.
Decided(i, s) == approvals' = [approvals EXCEPT ![i].status = s]

\* The handler's answer to an exception: /chat logs it, the others pass it on.
Raised(c) == IF req[c].via = "chat" /\ pc[c] # "log_error"
             THEN Goto(c, "log_error") ELSE Done(c)

(* authorize, then tool.execute: /chat, and PolicyGateway.execute.         *)

\* Bound: a dangerous action is asked for only while an id is left for it.
IdLeft == Cardinality({i \in Ids : approvals[i] = None})
            > Cardinality({c \in Callers : pc[c] = "create"})

Authorize(c, via, u, a) ==
  /\ (Permitted(u, a) /\ Hitl(a)) => IdLeft
  /\ Begin(c, IF ~Permitted(u, a) THEN "log_deny"
              ELSE IF Hitl(a) THEN "create" ELSE "log_allow",
           [NoReq EXCEPT !.via = via, !.user = u, !.action = a])
  /\ UNCHANGED <<approvals, trail, now, ran, runs, faults>>

LogDeny(c) == /\ pc[c] = "log_deny"
              /\ Logged(c, "refused")
              /\ Done(c)
              /\ UNCHANGED <<approvals, now, ran, runs, faults>>

\* _create_approval: a fresh uuid, a pending row that expires Ttl later.
CreateApproval(c) ==
  /\ pc[c] = "create"
  /\ \E i \in Ids :
       /\ approvals[i] = None
       /\ approvals' = [approvals EXCEPT ![i] =
            [status |-> "pending", user |-> req[c].user, action |-> req[c].action,
             expires |-> now + Ttl]]
       /\ pc' = [pc EXCEPT ![c] = "log_hitl"]
       /\ req' = [req EXCEPT ![c].id = i]
  /\ UNCHANGED <<trail, now, ran, runs, faults>>

LogHitl(c) == /\ pc[c] = "log_hitl"
              /\ Logged(c, "hitl_required")
              /\ Done(c)
              /\ UNCHANGED <<approvals, now, ran, runs, faults>>

LogAllow(c) == /\ pc[c] = "log_allow"
               /\ Logged(c, "allow")
               /\ Goto(c, "run")
               /\ UNCHANGED <<approvals, now, ran, runs, faults>>

\* Tool.execute: the arguments are refused, or the executor runs, and it may
\* raise after that.
RunTool(c) ==
  /\ pc[c] = "run"
  /\ \/ /\ Raised(c)
        /\ UNCHANGED ran
     \/ /\ ran' = ran \cup {[user |-> req[c].user, action |-> req[c].action]}
        /\ \/ Raised(c)
           \/ IF req[c].via = "chat" THEN Done(c) ELSE Goto(c, "log_executed")
  /\ UNCHANGED <<approvals, trail, now, runs, faults>>

LogError(c) == /\ pc[c] = "log_error"
               /\ Logged(c, "error")
               /\ Done(c)
               /\ UNCHANGED <<approvals, now, ran, runs, faults>>

LogExecuted(c) == /\ pc[c] = "log_executed"
                  /\ Logged(c, "executed")
                  /\ Done(c)
                  /\ UNCHANGED <<approvals, now, ran, runs, faults>>

(* confirm_approval, then the execution: /approve.                         *)

\* Mutant of Approve: a row that is already decided is not refused.
MutantApprove(c, u, i) ==
  /\ Begin(c, IF approvals[i] = None THEN "log_deny" ELSE "check_ttl",
           [NoReq EXCEPT !.via = "approve", !.user = u, !.action = "approve",
                         !.id = i, !.seen = approvals[i]])
  /\ UNCHANGED <<approvals, trail, now, ran, runs, faults>>

\* get_approval, and the refusals that need nothing but the row.
Approve(c, u, i) ==
  /\ Begin(c, IF approvals[i] = None THEN "log_deny"
              ELSE IF approvals[i].status # "pending" THEN "log_deny"
              ELSE "check_ttl",
           [NoReq EXCEPT !.via = "approve", !.user = u, !.action = "approve",
                         !.id = i, !.seen = approvals[i]])
  /\ UNCHANGED <<approvals, trail, now, ran, runs, faults>>

MayConfirm(u, row) == row.user = u \/ Role[u] = "master"

\* Mutant of CheckTtl: the time to live is not compared.
MutantCheckTtl(c) ==
  /\ pc[c] = "check_ttl"
  /\ Goto(c, IF ~MayConfirm(req[c].user, req[c].seen) THEN "log_deny" ELSE "confirm")
  /\ UNCHANGED <<approvals, trail, now, ran, runs, faults>>

\* Mutant of CheckTtl: anybody may confirm.
MutantCheckRequester(c) ==
  /\ pc[c] = "check_ttl"
  /\ Goto(c, IF now > req[c].seen.expires THEN "expire" ELSE "confirm")
  /\ UNCHANGED <<approvals, trail, now, ran, runs, faults>>

\* The clock is read, then the requester compared.
CheckTtl(c) ==
  /\ pc[c] = "check_ttl"
  /\ Goto(c, IF now > req[c].seen.expires THEN "expire"
             ELSE IF ~MayConfirm(req[c].user, req[c].seen) THEN "log_deny"
             ELSE "confirm")
  /\ UNCHANGED <<approvals, trail, now, ran, runs, faults>>

Expire(c) == /\ pc[c] = "expire"
             /\ Decided(req[c].id, "expired")
             /\ Goto(c, "log_expired")
             /\ UNCHANGED <<trail, now, ran, runs, faults>>

LogExpired(c) == /\ pc[c] = "log_expired"
                 /\ Logged(c, "expired")
                 /\ Done(c)
                 /\ UNCHANGED <<approvals, now, ran, runs, faults>>

\* Mutant of Confirm: the tool runs before the confirmation is logged.
MutantConfirm(c) == /\ pc[c] = "confirm"
                    /\ Decided(req[c].id, "confirmed")
                    /\ Goto(c, "run_approved")
                    /\ UNCHANGED <<trail, now, ran, runs, faults>>

Confirm(c) == /\ pc[c] = "confirm"
              /\ Decided(req[c].id, "confirmed")
              /\ Goto(c, "log_confirm")
              /\ UNCHANGED <<trail, now, ran, runs, faults>>

LogConfirm(c) == /\ pc[c] = "log_confirm"
                 /\ Logged(c, "allow")
                 /\ Goto(c, "run_approved")
                 /\ UNCHANGED <<approvals, now, ran, runs, faults>>

\* /approve reads the row again for its arguments and runs the tool; what the
\* tool raises leaves the handler.
RunApproved(c) ==
  /\ pc[c] = "run_approved"
  /\ \/ UNCHANGED runs
     \/ runs' = [runs EXCEPT ![req[c].id] = @ + 1]
  /\ Done(c)
  /\ UNCHANGED <<approvals, trail, now, ran, faults>>

(* deny_approval and expire_stale_approvals, which no handler calls.       *)

\* An id without a pending row is refused, without an entry in the log.
Deny(c, u, i) ==
  /\ approvals[i] # None
  /\ approvals[i].status = "pending"
  /\ Begin(c, "deny", [NoReq EXCEPT !.via = "deny", !.user = u, !.action = "approve",
                                    !.id = i, !.seen = approvals[i]])
  /\ UNCHANGED <<approvals, trail, now, ran, runs, faults>>

\* Mutant of DecideDenied: the log's word for the decision is stored as the status.
MutantDecideDenied(c) == /\ pc[c] = "deny"
                         /\ Decided(req[c].id, "deny")
                         /\ Goto(c, "log_denied")
                         /\ UNCHANGED <<trail, now, ran, runs, faults>>

DecideDenied(c) == /\ pc[c] = "deny"
                   /\ Decided(req[c].id, "denied")
                   /\ Goto(c, "log_denied")
                   /\ UNCHANGED <<trail, now, ran, runs, faults>>

LogDenied(c) == /\ pc[c] = "log_denied"
                /\ Logged(c, "explicit_denial")
                /\ Done(c)
                /\ UNCHANGED <<approvals, now, ran, runs, faults>>

\* Mutant of Pending: the query does not select on the status.
MutantPending == {i \in Ids : approvals[i] # None}

Pending == {i \in Ids : approvals[i] # None /\ approvals[i].status = "pending"}

\* list_pending_approvals; the loop then works on that list.
Sweep(c) ==
  /\ Begin(c, "sweep", [NoReq EXCEPT !.via = "sweep", !.todo = Pending])
  /\ UNCHANGED <<approvals, trail, now, ran, runs, faults>>

\* Mutant of SweepOne: the entry looked at stays in the list.
MutantSweepOne(c) ==
  /\ pc[c] = "sweep"
  /\ IF req[c].todo = {} THEN Done(c) /\ UNCHANGED approvals
     ELSE \E i \in req[c].todo :
            /\ IF now > approvals[i].expires THEN Decided(i, "expired")
               ELSE UNCHANGED approvals
            /\ UNCHANGED <<pc, req>>
  /\ UNCHANGED <<trail, now, ran, runs, faults>>

\* One turn of the loop, or its end.  An expiry here is not logged.
SweepOne(c) ==
  /\ pc[c] = "sweep"
  /\ IF req[c].todo = {} THEN Done(c) /\ UNCHANGED approvals
     ELSE \E i \in req[c].todo :
            /\ IF now > approvals[i].expires THEN Decided(i, "expired")
               ELSE UNCHANGED approvals
            /\ req' = [req EXCEPT ![c].todo = @ \ {i}]
            /\ UNCHANGED pc
  /\ UNCHANGED <<trail, now, ran, runs, faults>>

-----------------------------------------------------------------------------
(* Failures and time.                                                      *)

\* The database or the audit log raises (a locked database, a full disk) and
\* the call changes nothing.
CallRaises(c) ==
  /\ pc[c] \notin {"idle", "check_ttl", "run", "run_approved"}
  /\ faults < MaxFaults
  /\ faults' = faults + 1
  /\ Raised(c)
  /\ UNCHANGED <<approvals, trail, now, ran, runs>>

\* The process stops and is started again (restart: unless-stopped).
Crash == /\ faults < MaxFaults
         /\ faults' = faults + 1
         /\ pc' = [c \in Callers |-> "idle"]
         /\ req' = [c \in Callers |-> NoReq]
         /\ UNCHANGED <<approvals, trail, now, ran, runs>>

Tick == /\ now < MaxTime
        /\ now' = now + 1
        /\ UNCHANGED <<approvals, trail, pc, req, ran, runs, faults>>

-----------------------------------------------------------------------------

Init == /\ approvals = [i \in Ids |-> None]
        /\ trail = {}
        /\ now = 0
        /\ pc = [c \in Callers |-> "idle"]
        /\ req = [c \in Callers |-> NoReq]
        /\ ran = {}
        /\ runs = [i \in Ids |-> 0]
        /\ faults = 0

Start(c) == \/ \E via \in {"chat", "execute"}, u \in Users, a \in Actions :
                 Authorize(c, via, u, a)
            \/ \E u \in Users, i \in Ids : Approve(c, u, i) \/ Deny(c, u, i)
            \/ Sweep(c)

Step(c) == \/ LogDeny(c)  \/ CreateApproval(c) \/ LogHitl(c)
           \/ LogAllow(c) \/ RunTool(c) \/ LogError(c) \/ LogExecuted(c)
           \/ CheckTtl(c) \/ Expire(c) \/ LogExpired(c) \/ Confirm(c) \/ LogConfirm(c)
           \/ RunApproved(c) \/ DecideDenied(c) \/ LogDenied(c) \/ SweepOne(c)

Next == \/ \E c \in Callers : Start(c) \/ Step(c) \/ CallRaises(c)
        \/ Crash
        \/ Tick

Spec == Init /\ [][Next]_vars

\* An operation that has begun goes on: the code between its steps does not wait.
FairSpec == Spec /\ \A c \in Callers : WF_vars(Step(c))

-----------------------------------------------------------------------------
(* Properties.                                                             *)

TypeOK ==
  /\ approvals \in [Ids -> Rows \cup {None}]
  /\ trail \subseteq LogEntries
  /\ now \in Times
  /\ pc \in [Callers -> Labels]
  /\ req \in [Callers -> Reqs]
  /\ \A c \in Callers : pc[c] = "idle" <=> req[c] = NoReq
  /\ ran \subseteq [user : Users, action : Tools]
  /\ runs \in [Ids -> Nat]
  /\ faults \in 0 .. MaxFaults

Entry(i, kind) == \E e \in trail : e.ref = i /\ e.kind = kind

\* With one caller, what an approval stands for is handed to its tool at most
\* once, whatever is retried after a crash, a raised call or a tool that failed
\* (confirm_approval decides the row before anything runs).
RunsAtMostOnce == \A i \in Ids : runs[i] <= 1

\* Every run of a tool has its "allow" entry in the log before it starts, across
\* crashes: for a plain tool that of the user, for a dangerous one that of a
\* confirmation by the user who asked or by a master.
EffectsAudited ==
  /\ \A x \in ran : \E e \in trail :
       e.kind = "allow" /\ e.user = x.user /\ e.action = x.action
  /\ \A i \in Ids : runs[i] > 0 =>
       \E e \in trail : /\ e.kind = "allow" /\ e.ref = i
                        /\ \/ e.user = approvals[i].user
                           \/ Role[e.user] = "master"

\* No tool runs for a user below its tier or without its permission, and a
\* dangerous one only through an approval its requester was entitled to ask for,
\* also when the confirmation comes from somebody else.
Entitled(u, t) ==
  /\ ROLE_TIER[Role[u]] >= ROLE_TIER[Manifest[t].required_role]
  /\ Manifest[t].required_permission \in Granted[Role[u]]

EffectsPermitted ==
  /\ \A x \in ran : ~Hitl(x.action) /\ Entitled(x.user, x.action)
  /\ \A i \in Ids : runs[i] > 0 => /\ approvals[i] # None
                                  /\ Hitl(approvals[i].action)
                                  /\ Entitled(approvals[i].user, approvals[i].action)

\* The entries the log owes for an approval, and those it has not got.
Owed(row) == {"hitl_required"}
             \cup (IF row.status = "confirmed" THEN {"allow"} ELSE {})
             \cup (IF row.status = "denied" THEN {"explicit_denial"} ELSE {})

Missing == {x \in Ids \X Kinds : /\ approvals[x[1]] # None
                                /\ x[2] \in Owed(approvals[x[1]])
                                /\ ~Entry(x[1], x[2])}

\* A request, a confirmation or a denial that is in the table but not in the log
\* is being logged just now, or is the work of a failure of its own: the table
\* runs ahead of the log by at most one entry per failure and caller.
SilentOnlyByFault ==
  Cardinality(Missing) <=
    faults * Cardinality(Callers)
      + Cardinality({c \in Callers :
                       pc[c] \in {"log_hitl", "log_confirm", "log_denied"}})

\* Once the time of a pending approval is over and nobody is past the check of
\* it, it is never confirmed any more.
Late(i) == /\ approvals[i] # None
           /\ approvals[i].status = "pending"
           /\ now > approvals[i].expires
           /\ \A c \in Callers : ~(pc[c] = "confirm" /\ req[c].id = i)

Confirmed(i) == approvals[i] # None /\ approvals[i].status = "confirmed"

LateStaysUnconfirmed == \A i \in Ids : [](Late(i) => [](~Confirmed(i)))

\* Every operation ends, in an answer, an exception or a crash.
OperationsEnd == \A c \in Callers : pc[c] # "idle" ~> pc[c] = "idle"

\* With one caller the gateway implements Hitl.
StatusOf == [i \in Ids |-> IF approvals[i] = None THEN "none" ELSE approvals[i].status]

Promise == INSTANCE Hitl WITH status <- StatusOf

ImplementsHitl == Promise!Spec
=============================================================================
