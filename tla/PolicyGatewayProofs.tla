------------------------ MODULE PolicyGatewayProofs ------------------------
(***************************************************************************)
(* Proofs about PolicyGateway, for any users, roles, manifest, time to     *)
(* live and number of failures: for any number of callers, that no tool    *)
(* runs without its entry in the log or without entitlement, that a late   *)
(* approval stays unconfirmed, that only failures leave a change out of    *)
(* the log and that operations count down; for one caller, which is what   *)
(* the server has, that an approval is run at most once and that the       *)
(* gateway implements Hitl.                                                *)
(***************************************************************************)
EXTENDS PolicyGateway, FiniteSetTheorems, TLAPS

\* What a caller knows at each label, from the checks it has already passed.
LocalOK(c) ==
  LET r   == req[c]
      row == approvals[r.id]
  IN  /\ pc[c] \notin {"idle", "sweep"} => r.user \in Users
      /\ pc[c] = "sweep" => r.via = "sweep"
      /\ pc[c] \in {"log_allow", "run"} => /\ Permitted(r.user, r.action)
                                           /\ ~Hitl(r.action)
      /\ pc[c] = "create" => Permitted(r.user, r.action) /\ Hitl(r.action)
      /\ pc[c] \in {"check_ttl", "expire", "confirm", "log_confirm",
                    "run_approved", "deny"} => r.id \in Ids /\ row # None
      /\ pc[c] = "check_ttl" => r.seen \in Rows /\ r.seen.user = row.user
      /\ pc[c] \in {"confirm", "log_confirm", "run_approved"}
           => MayConfirm(r.user, row)
      /\ pc[c] = "sweep" => \A i \in r.todo : approvals[i] # None

\* A run that is about to start has its entry.
LoggedOK(c) ==
  /\ pc[c] = "run" =>
       \E e \in trail : /\ e.kind = "allow"
                        /\ e.user = req[c].user /\ e.action = req[c].action
  /\ pc[c] = "run_approved" =>
       \E e \in trail : /\ e.kind = "allow" /\ e.ref = req[c].id
                        /\ e.user = req[c].user

\* Every row was asked for by somebody entitled to it.
RowsOK == \A i \in Ids : approvals[i] # None =>
            Permitted(approvals[i].user, approvals[i].action) /\ Hitl(approvals[i].action)

\* What was run, plainly or through an approval.
RunsOK == /\ \A x \in ran : Permitted(x.user, x.action) /\ ~Hitl(x.action)
          /\ \A i \in Ids : runs[i] > 0 => approvals[i] # None

IInv == /\ TypeOK
        /\ \A c \in Callers : LocalOK(c)
        /\ RowsOK
        /\ RunsOK

LogInv == (\A c \in Callers : LoggedOK(c)) /\ EffectsAudited

\* With one caller: what the row of an approval is like while it is decided and
\* run.
Decider == {"check_ttl", "confirm", "expire", "deny"}

OnceOK(c) ==
  /\ pc[c] \in Decider => approvals[req[c].id].status = "pending"
  /\ pc[c] \in {"log_confirm", "run_approved"}
       => approvals[req[c].id].status = "confirmed" /\ runs[req[c].id] = 0
  /\ pc[c] = "sweep" => \A i \in req[c].todo : approvals[i].status = "pending"

OnceInv == /\ \A c \in Callers : OnceOK(c)
           /\ \A i \in Ids : runs[i] > 0 => Confirmed(i)
           /\ RunsAtMostOnce

-----------------------------------------------------------------------------
(* What the building blocks of the actions do.                             *)

\* The part of TypeOK that is about the callers.
CallersOK == /\ pc \in [Callers -> Labels]
             /\ req \in [Callers -> Reqs]
             /\ \A c \in Callers : pc[c] = "idle" <=> req[c] = NoReq

MovesOnly(c) == \A d \in Callers \ {c} : pc'[d] = pc[d] /\ req'[d] = req[d]

\* Rows stay, with the user who asked.
RowsGrow == \A i \in Ids : approvals[i] # None =>
              approvals'[i] # None /\ approvals'[i].user = approvals[i].user

StepOK(c) == /\ TypeOK' /\ LocalOK(c)' /\ RowsOK' /\ RunsOK'
             /\ RowsGrow /\ MovesOnly(c)

LEMMA NoReqFacts ==
  /\ NoReq \in Reqs
  /\ NoReq.via = "chat" /\ NoReq.user = None /\ NoReq.id = None /\ NoReq.todo = {}
BY DEF NoReq, Reqs, Vias, Actions

LEMMA GotoFacts ==
  ASSUME CallersOK, NEW c \in Callers, NEW l \in Labels, l # "idle", pc[c] # "idle",
         Goto(c, l)
  PROVE  /\ CallersOK' /\ MovesOnly(c)
         /\ pc'[c] = l /\ req'[c] = req[c]
BY DEF CallersOK, Goto, MovesOnly

LEMMA DoneFacts ==
  ASSUME CallersOK, NEW c \in Callers, Done(c)
  PROVE  /\ CallersOK' /\ MovesOnly(c)
         /\ pc'[c] = "idle" /\ req'[c] = NoReq
<1>1. "idle" \in Labels /\ NoReq \in Reqs
  BY NoReqFacts DEF Labels
<1> QED BY <1>1 DEF CallersOK, Done, MovesOnly

LEMMA BeginFacts ==
  ASSUME CallersOK, NEW c \in Callers, NEW l \in Labels, l # "idle",
         NEW r \in Reqs, r # NoReq, Begin(c, l, r)
  PROVE  /\ CallersOK' /\ MovesOnly(c)
         /\ pc'[c] = l /\ req'[c] = r
BY DEF CallersOK, Begin, MovesOnly

LEMMA RaisedFacts ==
  ASSUME CallersOK, NEW c \in Callers, pc[c] # "idle", Raised(c)
  PROVE  /\ CallersOK' /\ MovesOnly(c)
         /\ \/ pc'[c] = "idle" /\ req'[c] = NoReq
            \/ pc'[c] = "log_error" /\ req'[c] = req[c] /\ req[c].via = "chat"
<1>1. CASE req[c].via = "chat" /\ pc[c] # "log_error"
  <2>1. Goto(c, "log_error") /\ "log_error" \in Labels
    BY <1>1 DEF Raised, Labels
  <2> QED BY <1>1, <2>1, GotoFacts
<1>2. CASE ~(req[c].via = "chat" /\ pc[c] # "log_error")
  <2>1. Done(c)
    BY <1>2 DEF Raised
  <2> QED BY <2>1, DoneFacts
<1> QED BY <1>1, <1>2

LEMMA LoggedFacts ==
  ASSUME TypeOK, NEW c \in Callers, req[c].user \in Users, NEW kind \in Kinds,
         Logged(c, kind)
  PROVE  /\ trail' \subseteq LogEntries /\ trail \subseteq trail'
         /\ kind \in Kept =>
              [user |-> req[c].user, action |-> req[c].action,
               kind |-> kind, ref |-> req[c].id] \in trail'
<1>1. req[c] \in Reqs /\ trail \subseteq LogEntries
  BY DEF TypeOK
<1>2. req[c].action \in Actions \cup {"approve"} /\ req[c].id \in Ids \cup {None}
  BY <1>1 DEF Reqs
<1>3. [user |-> req[c].user, action |-> req[c].action,
       kind |-> kind, ref |-> req[c].id] \in LogEntries
  BY <1>2 DEF LogEntries
<1> QED BY <1>1, <1>3 DEF Logged

LEMMA DecidedFacts ==
  ASSUME TypeOK, RowsOK, NEW i \in Ids, approvals[i] # None, NEW s \in Statuses,
         Decided(i, s)
  PROVE  /\ approvals' \in [Ids -> Rows \cup {None}]
         /\ RowsGrow /\ RowsOK'
         /\ approvals'[i].status = s /\ approvals'[i] # None
         /\ \A j \in Ids \ {i} : approvals'[j] = approvals[j]
<1>1. approvals \in [Ids -> Rows \cup {None}] /\ approvals[i] \in Rows
  BY DEF TypeOK
<1> DEFINE row == [approvals[i] EXCEPT !.status = s]
<1>2. /\ row \in Rows /\ row.status = s
      /\ row.user = approvals[i].user /\ row.action = approvals[i].action
  BY <1>1 DEF Rows
<1>3. row # None
  BY <1>2, NamesAssumption
<1>4. approvals' = [approvals EXCEPT ![i] = row]
  BY DEF Decided
<1> HIDE DEF row
<1>5. approvals'[i] = row /\ \A j \in Ids \ {i} : approvals'[j] = approvals[j]
  BY <1>1, <1>4
<1>6. RowsOK'
  BY <1>2, <1>5 DEF RowsOK, Permitted, Hitl
<1> QED BY <1>1, <1>2, <1>3, <1>4, <1>5, <1>6 DEF RowsGrow

\* What the other callers know stays true.
LEMMA OthersKeep ==
  ASSUME IInv, NEW c \in Callers, StepOK(c)
  PROVE  IInv'
<1>1. ASSUME NEW d \in Callers, d # c
      PROVE  LocalOK(d)'
  <2>1. pc'[d] = pc[d] /\ req'[d] = req[d]
    BY <1>1 DEF StepOK, MovesOnly
  <2>2. LocalOK(d) /\ req[d] \in Reqs
    BY DEF IInv, TypeOK
  <2>3. req[d].todo \subseteq Ids
    BY <2>2 DEF Reqs
  <2> QED BY <2>1, <2>2, <2>3 DEF StepOK, RowsGrow, LocalOK, Permitted, Hitl, MayConfirm
<1> QED BY <1>1 DEF StepOK, IInv

\* The steps that move the caller and may add to the log.
LEMMA QuietStep ==
  ASSUME IInv, NEW c \in Callers, CallersOK', MovesOnly(c), LocalOK(c)',
         trail' \subseteq LogEntries, UNCHANGED <<approvals, now, ran, runs>>,
         faults' \in 0 .. MaxFaults
  PROVE  StepOK(c)
<1>1. TypeOK'
  BY DEF IInv, TypeOK, CallersOK, Times
<1>2. RowsOK' /\ RunsOK' /\ RowsGrow
  BY DEF IInv, RowsOK, RunsOK, RowsGrow, Permitted, Hitl
<1> QED BY <1>1, <1>2 DEF StepOK

LEMMA TypesOfParts ==
  ASSUME IInv
  PROVE  /\ CallersOK
         /\ trail \subseteq LogEntries /\ faults \in 0 .. MaxFaults /\ TypeOK
         /\ \A c \in Callers : LocalOK(c) /\ req[c] \in Reqs
BY DEF IInv, TypeOK, CallersOK

-----------------------------------------------------------------------------
(* The first step of an operation.                                         *)

LEMMA AuthorizeStep ==
  ASSUME IInv, NEW c \in Callers, NEW via \in {"chat", "execute"}, NEW u \in Users,
         NEW a \in Actions, Authorize(c, via, u, a)
  PROVE  StepOK(c)
<1> DEFINE r == [NoReq EXCEPT !.via = via, !.user = u, !.action = a]
           l == IF ~Permitted(u, a) THEN "log_deny"
                ELSE IF Hitl(a) THEN "create" ELSE "log_allow"
<1>1. r \in Reqs /\ r # NoReq /\ r.user = u /\ r.action = a
  <2>1. r \in Reqs /\ r.user = u /\ r.action = a
    BY NoReqFacts DEF Reqs, NoReq, Vias
  <2> QED BY <2>1, NoReqFacts, NamesAssumption
<1>2. l \in Labels /\ l # "idle"
  BY DEF Labels
<1>3. Begin(c, l, r)
  BY DEF Authorize
<1>4. UNCHANGED <<approvals, trail, now, ran, runs, faults>>
  BY DEF Authorize
<1>5. l \in {"log_deny", "create", "log_allow"}
  OBVIOUS
<1>6. /\ l = "create" => Permitted(u, a) /\ Hitl(a)
      /\ l = "log_allow" => Permitted(u, a) /\ ~Hitl(a)
  OBVIOUS
<1> HIDE DEF r, l
<1>7. /\ CallersOK' /\ MovesOnly(c)
      /\ pc'[c] = l /\ req'[c] = r
  BY <1>1, <1>2, <1>3, BeginFacts, TypesOfParts
<1>8. LocalOK(c)'
  BY <1>1, <1>5, <1>6, <1>7 DEF LocalOK, Permitted, Hitl
<1> QED BY <1>4, <1>7, <1>8, QuietStep, TypesOfParts

LEMMA ApproveStep ==
  ASSUME IInv, NEW c \in Callers, NEW u \in Users, NEW i \in Ids, Approve(c, u, i)
  PROVE  StepOK(c)
<1> DEFINE r == [NoReq EXCEPT !.via = "approve", !.user = u, !.action = "approve",
                              !.id = i, !.seen = approvals[i]]
           l == IF approvals[i] = None THEN "log_deny"
                ELSE IF approvals[i].status # "pending" THEN "log_deny"
                ELSE "check_ttl"
<1>1. approvals[i] \in Rows \cup {None}
  BY DEF IInv, TypeOK
<1>2. /\ r \in Reqs /\ r # NoReq
      /\ r.user = u /\ r.id = i /\ r.seen = approvals[i]
  <2>1. r \in Reqs /\ r.user = u /\ r.id = i /\ r.seen = approvals[i]
    BY <1>1, NoReqFacts DEF Reqs, NoReq, Vias
  <2> QED BY <2>1, NoReqFacts, NamesAssumption
<1>3. /\ l \in {"log_deny", "check_ttl"} /\ l \in Labels
      /\ l = "check_ttl" => approvals[i] # None
  BY DEF Labels
<1>4. Begin(c, l, r) /\ UNCHANGED <<approvals, trail, now, ran, runs, faults>>
  BY DEF Approve
<1> HIDE DEF r, l
<1>5. /\ CallersOK' /\ MovesOnly(c)
      /\ pc'[c] = l /\ req'[c] = r
  BY <1>2, <1>3, <1>4, BeginFacts, TypesOfParts
<1>6. LocalOK(c)'
  BY <1>1, <1>2, <1>3, <1>4, <1>5 DEF LocalOK
<1> QED BY <1>4, <1>5, <1>6, QuietStep, TypesOfParts

LEMMA DenyStep ==
  ASSUME IInv, NEW c \in Callers, NEW u \in Users, NEW i \in Ids, Deny(c, u, i)
  PROVE  StepOK(c)
<1> DEFINE r == [NoReq EXCEPT !.via = "deny", !.user = u, !.action = "approve",
                              !.id = i, !.seen = approvals[i]]
<1>1. approvals[i] \in Rows \cup {None}
  BY DEF IInv, TypeOK
<1>2. r \in Reqs /\ r # NoReq /\ r.user = u /\ r.id = i
  <2>1. r \in Reqs /\ r.user = u /\ r.id = i
    BY <1>1, NoReqFacts DEF Reqs, NoReq, Vias
  <2> QED BY <2>1, NoReqFacts, NamesAssumption
<1>3. /\ Begin(c, "deny", r) /\ approvals[i] # None
      /\ UNCHANGED <<approvals, trail, now, ran, runs, faults>>
  BY DEF Deny
<1> HIDE DEF r
<1>4. /\ CallersOK' /\ MovesOnly(c)
      /\ pc'[c] = "deny" /\ req'[c] = r
  BY <1>2, <1>3, BeginFacts, TypesOfParts DEF Labels
<1>5. LocalOK(c)'
  BY <1>2, <1>3, <1>4 DEF LocalOK
<1> QED BY <1>3, <1>4, <1>5, QuietStep, TypesOfParts

LEMMA SweepStep ==
  ASSUME IInv, NEW c \in Callers, Sweep(c)
  PROVE  StepOK(c)
<1> DEFINE r == [NoReq EXCEPT !.via = "sweep", !.todo = Pending]
<1>1. Pending \subseteq Ids /\ \A i \in Pending : approvals[i] # None
  BY DEF Pending
<1>2. r \in Reqs /\ r.via = "sweep" /\ r.todo = Pending
  BY <1>1, NoReqFacts DEF Reqs, NoReq, Vias
<1>3. r # NoReq
  BY <1>2, NoReqFacts
<1>4. Begin(c, "sweep", r) /\ UNCHANGED <<approvals, trail, now, ran, runs, faults>>
  BY DEF Sweep
<1> HIDE DEF r
<1>5. /\ CallersOK' /\ MovesOnly(c)
      /\ pc'[c] = "sweep" /\ req'[c] = r
  BY <1>2, <1>3, <1>4, BeginFacts, TypesOfParts DEF Labels
<1>6. LocalOK(c)'
  BY <1>1, <1>2, <1>4, <1>5 DEF LocalOK
<1> QED BY <1>4, <1>5, <1>6, QuietStep, TypesOfParts

-----------------------------------------------------------------------------
(* The steps between.                                                      *)

\* An entry, and the operation is over.
LEMMA LogDoneStep ==
  ASSUME IInv, NEW c \in Callers, pc[c] \notin {"idle", "sweep"}, NEW kind \in Kinds,
         Logged(c, kind), Done(c), UNCHANGED <<approvals, now, ran, runs, faults>>
  PROVE  StepOK(c)
<1>1. req[c].user \in Users
  BY TypesOfParts DEF LocalOK
<1>2. trail' \subseteq LogEntries
  BY <1>1, LoggedFacts, TypesOfParts
<1>3. /\ CallersOK' /\ MovesOnly(c)
      /\ pc'[c] = "idle" /\ req'[c] = NoReq
  BY DoneFacts, TypesOfParts
<1>4. LocalOK(c)'
  BY <1>3 DEF LocalOK
<1> QED BY <1>2, <1>3, <1>4, QuietStep, TypesOfParts

\* An entry, and on to label l, of which nothing new has to be known.
LEMMA LogGotoStep ==
  ASSUME IInv, NEW c \in Callers, NEW l \in Labels,
         Logged(c, "allow"), Goto(c, l), UNCHANGED <<approvals, now, ran, runs, faults>>,
         \/ pc[c] = "log_allow" /\ l = "run"
         \/ pc[c] = "log_confirm" /\ l = "run_approved"
  PROVE  StepOK(c)
<1>1. req[c].user \in Users /\ "allow" \in Kinds
  BY TypesOfParts DEF LocalOK, Kinds
<1>2. trail' \subseteq LogEntries
  BY <1>1, LoggedFacts, TypesOfParts
<1>3. /\ CallersOK' /\ MovesOnly(c)
      /\ pc'[c] = l /\ req'[c] = req[c]
  BY GotoFacts, TypesOfParts
<1>4. LocalOK(c)'
  BY <1>3, TypesOfParts DEF LocalOK, Permitted, Hitl, MayConfirm
<1> QED BY <1>2, <1>3, <1>4, QuietStep, TypesOfParts

LEMMA CheckTtlStep ==
  ASSUME IInv, NEW c \in Callers, CheckTtl(c)
  PROVE  StepOK(c)
<1> DEFINE l == IF now > req[c].seen.expires THEN "expire"
                ELSE IF ~MayConfirm(req[c].user, req[c].seen) THEN "log_deny"
                ELSE "confirm"
<1>1. /\ l \in Labels /\ l \in {"expire", "log_deny", "confirm"}
      /\ l = "confirm" => MayConfirm(req[c].user, req[c].seen)
  BY DEF Labels
<1>2. /\ pc[c] = "check_ttl" /\ Goto(c, l)
      /\ UNCHANGED <<approvals, trail, now, ran, runs, faults>>
  BY DEF CheckTtl
<1> HIDE DEF l
<1>3. /\ CallersOK' /\ MovesOnly(c)
      /\ pc'[c] = l /\ req'[c] = req[c]
  BY <1>1, <1>2, GotoFacts, TypesOfParts
<1>4. LocalOK(c)'
  BY <1>1, <1>2, <1>3, TypesOfParts DEF LocalOK, MayConfirm
<1> QED BY <1>2, <1>3, <1>4, QuietStep, TypesOfParts

\* decide_approval by the caller that has the row.
LEMMA DecideStep ==
  ASSUME IInv, NEW c \in Callers, NEW l \in Labels, NEW s \in Statuses,
         Decided(req[c].id, s), Goto(c, l), UNCHANGED <<trail, now, ran, runs, faults>>,
         \/ pc[c] = "expire" /\ l = "log_expired"
         \/ pc[c] = "confirm" /\ l = "log_confirm"
         \/ pc[c] = "deny" /\ l = "log_denied"
  PROVE  StepOK(c)
<1>1. req[c].id \in Ids /\ approvals[req[c].id] # None
  BY TypesOfParts DEF LocalOK
<1>2. /\ approvals' \in [Ids -> Rows \cup {None}]
      /\ RowsGrow /\ RowsOK' /\ approvals'[req[c].id] # None
  BY <1>1, DecidedFacts DEF IInv
<1>3. /\ CallersOK' /\ MovesOnly(c)
      /\ pc'[c] = l /\ req'[c] = req[c]
  BY GotoFacts, TypesOfParts
<1>4. LocalOK(c)'
  BY <1>1, <1>2, <1>3, TypesOfParts DEF LocalOK, MayConfirm, RowsGrow
<1>5. TypeOK'
  BY <1>2, <1>3 DEF IInv, TypeOK, CallersOK, Times
<1>6. RunsOK'
  BY <1>2 DEF IInv, RunsOK, RowsGrow, Permitted, Hitl
<1> QED BY <1>2, <1>3, <1>4, <1>5, <1>6 DEF StepOK

LEMMA CreateApprovalStep ==
  ASSUME IInv, NEW c \in Callers, CreateApproval(c)
  PROVE  StepOK(c)
<1> DEFINE row == [status |-> "pending", user |-> req[c].user,
                   action |-> req[c].action, expires |-> now + Ttl]
<1>1. PICK i \in Ids :
        /\ approvals[i] = None
        /\ approvals' = [approvals EXCEPT ![i] = row]
        /\ pc' = [pc EXCEPT ![c] = "log_hitl"]
        /\ req' = [req EXCEPT ![c].id = i]
  BY DEF CreateApproval
<1>2. pc[c] = "create" /\ UNCHANGED <<trail, now, ran, runs, faults>>
  BY DEF CreateApproval
<1>3. /\ req[c].user \in Users /\ Permitted(req[c].user, req[c].action)
      /\ Hitl(req[c].action)
  BY <1>2, TypesOfParts DEF LocalOK
<1>4. /\ row \in Rows /\ row.user = req[c].user /\ row.action = req[c].action
      /\ row # None
  <2>1. req[c].action \in Actions /\ now + Ttl \in Nat
    BY <1>3, BoundsAssumption DEF IInv, TypeOK, Times, Permitted, Actions
  <2>2. row \in Rows
    BY <1>3, <2>1 DEF Rows, Statuses
  <2> QED BY <2>2, NamesAssumption
<1> HIDE DEF row
<1>5. /\ approvals' \in [Ids -> Rows \cup {None}] /\ RowsGrow
      /\ approvals'[i] = row /\ \A j \in Ids \ {i} : approvals'[j] = approvals[j]
  BY <1>1, <1>4 DEF IInv, TypeOK, RowsGrow
<1>6. RowsOK'
  BY <1>3, <1>4, <1>5 DEF IInv, RowsOK, Permitted, Hitl
<1>7. req'[c] \in Reqs /\ req'[c].user = req[c].user /\ req'[c] # NoReq
  <2>1. req[c] \in Reqs /\ req'[c] = [req[c] EXCEPT !.id = i]
    BY <1>1 DEF IInv, TypeOK
  <2>2. req'[c] \in Reqs /\ req'[c].user = req[c].user
    BY <2>1 DEF Reqs
  <2> QED BY <1>3, <2>2, NoReqFacts, NamesAssumption
<1>8. CallersOK' /\ MovesOnly(c) /\ pc'[c] = "log_hitl"
  BY <1>1, <1>7 DEF CallersOK, MovesOnly, IInv, TypeOK, Labels
<1>9. LocalOK(c)'
  BY <1>3, <1>7, <1>8 DEF LocalOK
<1>10. TypeOK'
  BY <1>2, <1>5, <1>8 DEF IInv, TypeOK, CallersOK, Times
<1>11. RunsOK'
  BY <1>2, <1>5 DEF IInv, RunsOK, RowsGrow, Permitted, Hitl
<1> QED BY <1>5, <1>6, <1>8, <1>9, <1>10, <1>11 DEF StepOK

\* The steps after which the caller is done or logs the error.
LEMMA RaisedStep ==
  ASSUME IInv, NEW c \in Callers, pc[c] # "idle", Raised(c),
         UNCHANGED <<approvals, trail, now, ran, runs>>, faults' \in 0 .. MaxFaults
  PROVE  StepOK(c)
<1>1. /\ CallersOK' /\ MovesOnly(c)
      /\ \/ pc'[c] = "idle" /\ req'[c] = NoReq
         \/ pc'[c] = "log_error" /\ req'[c] = req[c] /\ req[c].via = "chat"
  BY RaisedFacts, TypesOfParts
<1>2. LocalOK(c)'
  BY <1>1, TypesOfParts DEF LocalOK
<1> QED BY <1>1, <1>2, QuietStep, TypesOfParts

LEMMA RunToolStep ==
  ASSUME IInv, NEW c \in Callers, RunTool(c)
  PROVE  StepOK(c)
<1> DEFINE x == [user |-> req[c].user, action |-> req[c].action]
<1>1. pc[c] = "run" /\ UNCHANGED <<approvals, trail, now, runs, faults>>
  BY DEF RunTool
<1>2. /\ req[c].user \in Users /\ Permitted(req[c].user, req[c].action)
      /\ ~Hitl(req[c].action)
  BY <1>1, TypesOfParts DEF LocalOK
<1>3. /\ x \in [user : Users, action : Tools]
      /\ Permitted(x.user, x.action) /\ ~Hitl(x.action)
  BY <1>2 DEF Permitted
<1>4. ran' = ran \/ ran' = ran \cup {x}
  BY DEF RunTool
<1> HIDE DEF x
<1>5. /\ CallersOK' /\ MovesOnly(c)
      /\ \/ pc'[c] = "idle" /\ req'[c] = NoReq
         \/ pc'[c] \in {"log_error", "log_executed"} /\ req'[c] = req[c]
  <2>1. CASE Raised(c)
    BY <1>1, <2>1, RaisedFacts, TypesOfParts
  <2>2. CASE Done(c)
    BY <2>2, DoneFacts, TypesOfParts
  <2>3. CASE Goto(c, "log_executed")
    <3>1. "log_executed" \in Labels
      BY DEF Labels
    <3> QED BY <1>1, <2>3, <3>1, GotoFacts, TypesOfParts
  <2>4. Raised(c) \/ Done(c) \/ Goto(c, "log_executed")
    BY DEF RunTool
  <2> QED BY <2>1, <2>2, <2>3, <2>4
<1>6. LocalOK(c)'
  BY <1>2, <1>5 DEF LocalOK
<1>7. ran' \subseteq [user : Users, action : Tools]
  BY <1>3, <1>4 DEF IInv, TypeOK
<1>8. TypeOK'
  BY <1>1, <1>5, <1>7 DEF IInv, TypeOK, CallersOK, Times
<1>9. RunsOK'
  <2>1. \A y \in ran' : Permitted(y.user, y.action) /\ ~Hitl(y.action)
    BY <1>3, <1>4 DEF IInv, RunsOK
  <2> QED BY <1>1, <2>1 DEF IInv, RunsOK, Permitted, Hitl
<1>10. RowsOK' /\ RowsGrow
  BY <1>1 DEF IInv, RowsOK, RowsGrow, Permitted, Hitl
<1> QED BY <1>5, <1>6, <1>8, <1>9, <1>10 DEF StepOK

LEMMA RunApprovedStep ==
  ASSUME IInv, NEW c \in Callers, RunApproved(c)
  PROVE  StepOK(c)
<1>1. /\ pc[c] = "run_approved" /\ Done(c)
      /\ UNCHANGED <<approvals, trail, now, ran, faults>>
      /\ runs' = runs \/ runs' = [runs EXCEPT ![req[c].id] = @ + 1]
  BY DEF RunApproved
<1>2. req[c].id \in Ids /\ approvals[req[c].id] # None
  BY <1>1, TypesOfParts DEF LocalOK
<1>3. /\ CallersOK' /\ MovesOnly(c)
      /\ pc'[c] = "idle" /\ req'[c] = NoReq
  BY <1>1, DoneFacts, TypesOfParts
<1>4. LocalOK(c)'
  BY <1>3 DEF LocalOK
<1>5. runs' \in [Ids -> Nat] /\ \A i \in Ids : i # req[c].id => runs'[i] = runs[i]
  BY <1>1, <1>2 DEF IInv, TypeOK
<1>6. TypeOK'
  BY <1>1, <1>3, <1>5 DEF IInv, TypeOK, CallersOK, Times
<1>7. RunsOK'
  BY <1>1, <1>2, <1>5 DEF IInv, RunsOK, Permitted, Hitl
<1>8. RowsOK' /\ RowsGrow
  BY <1>1 DEF IInv, RowsOK, RowsGrow, Permitted, Hitl
<1> QED BY <1>3, <1>4, <1>6, <1>7, <1>8 DEF StepOK

LEMMA SweepOneStep ==
  ASSUME IInv, NEW c \in Callers, SweepOne(c)
  PROVE  StepOK(c)
<1>1. pc[c] = "sweep" /\ UNCHANGED <<trail, now, ran, runs, faults>>
  BY DEF SweepOne
<1>2. CASE req[c].todo = {}
  <2>1. Done(c) /\ UNCHANGED approvals
    BY <1>2 DEF SweepOne
  <2>2. /\ CallersOK' /\ MovesOnly(c)
        /\ pc'[c] = "idle" /\ req'[c] = NoReq
    BY <2>1, DoneFacts, TypesOfParts
  <2>3. LocalOK(c)'
    BY <2>2 DEF LocalOK
  <2> QED BY <1>1, <2>1, <2>2, <2>3, QuietStep, TypesOfParts
<1>3. CASE req[c].todo # {}
  <2>1. PICK i \in req[c].todo :
          /\ IF now > approvals[i].expires THEN Decided(i, "expired")
             ELSE UNCHANGED approvals
          /\ req' = [req EXCEPT ![c].todo = @ \ {i}]
          /\ UNCHANGED pc
    BY <1>3 DEF SweepOne
  <2>2. req[c] \in Reqs /\ req[c].via = "sweep"
    BY <1>1, TypesOfParts DEF LocalOK
  <2>3. /\ req[c].todo \subseteq Ids
        /\ \A j \in req[c].todo : approvals[j] # None
    BY <1>1, <2>2, TypesOfParts DEF LocalOK, Reqs
  <2>4. /\ approvals' \in [Ids -> Rows \cup {None}] /\ RowsGrow /\ RowsOK'
    <3>1. CASE Decided(i, "expired")
      BY <2>3, <3>1, DecidedFacts DEF IInv, Statuses
    <3>2. CASE UNCHANGED approvals
      BY <3>2 DEF IInv, TypeOK, RowsGrow, RowsOK, Permitted, Hitl
    <3> QED BY <2>1, <3>1, <3>2
  <2>5. /\ req'[c] \in Reqs /\ req'[c].via = "sweep"
        /\ req'[c].todo \subseteq req[c].todo /\ req'[c] # NoReq
    <3>1. req'[c] = [req[c] EXCEPT !.todo = req[c].todo \ {i}]
      BY <2>1 DEF IInv, TypeOK
    <3>2. /\ req'[c] \in Reqs /\ req'[c].via = "sweep"
          /\ req'[c].todo \subseteq req[c].todo
      BY <2>2, <3>1 DEF Reqs
    <3> QED BY <3>2, NoReqFacts
  <2>6. CallersOK' /\ MovesOnly(c) /\ pc'[c] = "sweep"
    BY <1>1, <2>1, <2>5 DEF CallersOK, MovesOnly, IInv, TypeOK
  <2>7. LocalOK(c)'
    BY <2>3, <2>4, <2>5, <2>6 DEF LocalOK, RowsGrow
  <2>8. TypeOK'
    BY <1>1, <2>4, <2>6 DEF IInv, TypeOK, CallersOK, Times
  <2>9. RunsOK'
    BY <1>1, <2>4 DEF IInv, RunsOK, RowsGrow, Permitted, Hitl
  <2> QED BY <2>4, <2>6, <2>7, <2>8, <2>9 DEF StepOK
<1> QED BY <1>2, <1>3

LEMMA CallRaisesStep ==
  ASSUME IInv, NEW c \in Callers, CallRaises(c)
  PROVE  StepOK(c)
<1>1. /\ pc[c] # "idle" /\ Raised(c) /\ UNCHANGED <<approvals, trail, now, ran, runs>>
      /\ faults < MaxFaults /\ faults' = faults + 1
  BY DEF CallRaises
<1>2. faults' \in 0 .. MaxFaults
  BY <1>1, TypesOfParts, BoundsAssumption
<1>3. /\ CallersOK' /\ MovesOnly(c)
      /\ \/ pc'[c] = "idle" /\ req'[c] = NoReq
         \/ pc'[c] = "log_error" /\ req'[c] = req[c] /\ req[c].via = "chat"
  BY <1>1, RaisedFacts, TypesOfParts
<1>4. LocalOK(c)'
  BY <1>1, <1>3, TypesOfParts DEF LocalOK
<1> QED BY <1>1, <1>2, <1>3, <1>4, QuietStep, TypesOfParts

LEMMA CallerStep ==
  ASSUME IInv, NEW c \in Callers, Start(c) \/ Step(c) \/ CallRaises(c)
  PROVE  StepOK(c)
<1>1. CASE Start(c)
  BY <1>1, AuthorizeStep, ApproveStep, DenyStep, SweepStep DEF Start
<1>2. CASE LogDeny(c) \/ LogHitl(c) \/ LogError(c) \/ LogExecuted(c)
             \/ LogExpired(c) \/ LogDenied(c)
  BY <1>2, LogDoneStep DEF LogDeny, LogHitl, LogError, LogExecuted, LogExpired,
                           LogDenied, Kinds
<1>3. CASE LogAllow(c) \/ LogConfirm(c)
  BY <1>3, LogGotoStep DEF LogAllow, LogConfirm, Labels
<1>4. CASE Expire(c) \/ Confirm(c) \/ DecideDenied(c)
  BY <1>4, DecideStep DEF Expire, Confirm, DecideDenied, Labels, Statuses
<1>5. CASE CreateApproval(c) \/ RunTool(c) \/ CheckTtl(c) \/ RunApproved(c) \/ SweepOne(c)
  BY <1>5, CreateApprovalStep, RunToolStep, CheckTtlStep, RunApprovedStep, SweepOneStep
<1>6. CASE CallRaises(c)
  BY <1>6, CallRaisesStep
<1>7. CASE Step(c)
  BY <1>2, <1>3, <1>4, <1>5, <1>7 DEF Step
<1> QED BY <1>1, <1>6, <1>7

LEMMA CrashIInv == ASSUME IInv, Crash PROVE IInv'
<1>1. /\ pc' = [c \in Callers |-> "idle"] /\ req' = [c \in Callers |-> NoReq]
      /\ UNCHANGED <<approvals, trail, now, ran, runs>>
      /\ faults < MaxFaults /\ faults' = faults + 1
  BY DEF Crash
<1>2. faults' \in 0 .. MaxFaults
  BY <1>1, TypesOfParts, BoundsAssumption
<1>3. TypeOK'
  BY <1>1, <1>2, NoReqFacts DEF IInv, TypeOK, Times, Labels
<1>4. \A c \in Callers : LocalOK(c)'
  BY <1>1 DEF LocalOK
<1>5. RowsOK' /\ RunsOK'
  BY <1>1 DEF IInv, RowsOK, RunsOK, Permitted, Hitl
<1> QED BY <1>3, <1>4, <1>5 DEF IInv

LEMMA TickIInv == ASSUME IInv, Tick PROVE IInv'
<1>1. /\ now < MaxTime /\ now' = now + 1
      /\ UNCHANGED <<approvals, trail, pc, req, ran, runs, faults>>
  BY DEF Tick
<1>2. now' \in Times
  BY <1>1, BoundsAssumption DEF IInv, TypeOK, Times
<1>3. TypeOK'
  BY <1>1, <1>2 DEF IInv, TypeOK
<1>4. \A c \in Callers : LocalOK(c)'
  BY <1>1 DEF IInv, LocalOK, Permitted, Hitl, MayConfirm
<1>5. RowsOK' /\ RunsOK'
  BY <1>1 DEF IInv, RowsOK, RunsOK, Permitted, Hitl
<1> QED BY <1>3, <1>4, <1>5 DEF IInv

LEMMA StutterIInv == ASSUME IInv, UNCHANGED vars PROVE IInv'
<1>1. TypeOK'
  BY DEF vars, IInv, TypeOK
<1>2. \A c \in Callers : LocalOK(c)'
  BY DEF vars, IInv, LocalOK, Permitted, Hitl, MayConfirm
<1>3. RowsOK' /\ RunsOK'
  BY DEF vars, IInv, RowsOK, RunsOK, Permitted, Hitl
<1> QED BY <1>1, <1>2, <1>3 DEF IInv

LEMMA InitIInv == Init => IInv
<1> SUFFICES ASSUME Init PROVE IInv
  OBVIOUS
<1>1. TypeOK
  BY NoReqFacts, BoundsAssumption DEF Init, TypeOK, Times, Labels
<1>2. \A c \in Callers : LocalOK(c)
  BY DEF Init, LocalOK
<1>3. RowsOK /\ RunsOK
  BY DEF Init, RowsOK, RunsOK
<1> QED BY <1>1, <1>2, <1>3 DEF IInv

LEMMA NextIInv == ASSUME IInv, [Next]_vars PROVE IInv'
<1>1. CASE \E c \in Callers : Start(c) \/ Step(c) \/ CallRaises(c)
  BY <1>1, CallerStep, OthersKeep
<1> QED BY <1>1, CrashIInv, TickIInv, StutterIInv DEF Next

LEMMA Invariant == Spec => []IInv
<1>1. Init => IInv
  BY InitIInv
<1>2. IInv /\ [Next]_vars => IInv'
  BY NextIInv
<1> QED BY <1>1, <1>2, PTL DEF Spec

\* The table, the log and the local variables of policy_gateway.py's callers keep
\* their types across failures and restarts.
THEOREM TypeCorrect == Spec => []TypeOK
<1>1. IInv => TypeOK
  BY DEF IInv
<1> QED BY <1>1, Invariant, PTL

\* No tool runs without the tier and the permission of its user, and a dangerous
\* one only for a row its requester was entitled to, for any number of callers.
THEOREM PermittedEffects == Spec => []EffectsPermitted
<1>1. IInv => EffectsPermitted
  BY DEF IInv, RowsOK, RunsOK, EffectsPermitted, Entitled, Permitted
<1> QED BY <1>1, Invariant, PTL

-----------------------------------------------------------------------------
(* The log.                                                                *)

\* What a step leaves of the log, and of the entries a run rests on.
LEMMA LogKeeps ==
  ASSUME IInv, LogInv, NEW c \in Callers, StepOK(c), trail \subseteq trail',
         LoggedOK(c)', EffectsAudited'
  PROVE  LogInv'
<1>1. ASSUME NEW d \in Callers, d # c
      PROVE  LoggedOK(d)'
  <2>1. pc'[d] = pc[d] /\ req'[d] = req[d] /\ LoggedOK(d)
    BY <1>1 DEF StepOK, MovesOnly, LogInv
  <2> QED BY <2>1 DEF LoggedOK
<1> QED BY <1>1 DEF LogInv

LEMMA AuditKeeps ==
  ASSUME IInv, LogInv, RowsGrow, trail \subseteq trail', ran' = ran, runs' = runs
  PROVE  EffectsAudited'
<1>1. \A x \in ran' : \E e \in trail' :
        e.kind = "allow" /\ e.user = x.user /\ e.action = x.action
  BY DEF LogInv, EffectsAudited
<1>2. ASSUME NEW i \in Ids, runs'[i] > 0
      PROVE  \E e \in trail' : /\ e.kind = "allow" /\ e.ref = i
                               /\ \/ e.user = approvals'[i].user
                                  \/ Role[e.user] = "master"
  <2>1. runs[i] > 0 /\ approvals[i] # None
    BY <1>2 DEF IInv, RunsOK
  <2>2. approvals'[i].user = approvals[i].user
    BY <2>1 DEF RowsGrow
  <2> QED BY <2>1, <2>2 DEF LogInv, EffectsAudited
<1> QED BY <1>1, <1>2 DEF EffectsAudited

\* Steps that run nothing and do not lead to a run.
LEMMA PlainLogStep ==
  ASSUME IInv, LogInv, NEW c \in Callers, StepOK(c), trail \subseteq trail',
         ran' = ran, runs' = runs, pc'[c] \notin {"run", "run_approved"}
  PROVE  LogInv'
<1>1. LoggedOK(c)'
  BY DEF LoggedOK
<1>2. EffectsAudited'
  BY AuditKeeps DEF StepOK
<1> QED BY <1>1, <1>2, LogKeeps

LEMMA StartPlain ==
  ASSUME IInv, NEW c \in Callers, Start(c)
  PROVE  /\ trail' = trail /\ ran' = ran /\ runs' = runs
         /\ pc'[c] \notin {"run", "run_approved"}
<1>1. pc \in [Callers -> Labels]
  BY DEF IInv, TypeOK
<1>2. ASSUME NEW via \in {"chat", "execute"}, NEW u \in Users, NEW a \in Actions,
             Authorize(c, via, u, a)
      PROVE  pc'[c] \notin {"run", "run_approved"}
  <2>1. pc'[c] \in {"log_deny", "create", "log_allow"}
    BY <1>1, <1>2 DEF Authorize, Begin
  <2> QED BY <2>1
<1>3. ASSUME NEW u \in Users, NEW i \in Ids, Approve(c, u, i) \/ Deny(c, u, i)
      PROVE  pc'[c] \notin {"run", "run_approved"}
  <2>1. pc'[c] \in {"log_deny", "check_ttl", "deny"}
    BY <1>1, <1>3 DEF Approve, Deny, Begin
  <2> QED BY <2>1
<1>4. ASSUME Sweep(c)
      PROVE  pc'[c] \notin {"run", "run_approved"}
  BY <1>1, <1>4 DEF Sweep, Begin
<1>5. trail' = trail /\ ran' = ran /\ runs' = runs
  BY DEF Start, Authorize, Approve, Deny, Sweep
<1> QED BY <1>2, <1>3, <1>4, <1>5 DEF Start

LEMMA LogDonePlain ==
  ASSUME IInv, NEW c \in Callers,
         LogDeny(c) \/ LogHitl(c) \/ LogError(c) \/ LogExecuted(c)
           \/ LogExpired(c) \/ LogDenied(c)
  PROVE  /\ trail \subseteq trail' /\ ran' = ran /\ runs' = runs
         /\ pc'[c] = "idle"
<1>1. Done(c) /\ ran' = ran /\ runs' = runs
  BY DEF LogDeny, LogHitl, LogError, LogExecuted, LogExpired, LogDenied
<1>2. trail \subseteq trail'
  BY DEF LogDeny, LogHitl, LogError, LogExecuted, LogExpired, LogDenied, Logged
<1> QED BY <1>1, <1>2, DoneFacts, TypesOfParts

LEMMA OtherPlain ==
  ASSUME IInv, NEW c \in Callers,
         CheckTtl(c) \/ Expire(c) \/ Confirm(c) \/ DecideDenied(c)
           \/ CreateApproval(c) \/ SweepOne(c) \/ CallRaises(c)
  PROVE  /\ trail' = trail /\ ran' = ran /\ runs' = runs
         /\ pc'[c] \notin {"run", "run_approved"}
<1>1. pc \in [Callers -> Labels]
  BY DEF IInv, TypeOK
<1>2. CASE CheckTtl(c)
  <2>1. pc'[c] \in {"expire", "log_deny", "confirm"}
    BY <1>1, <1>2 DEF CheckTtl, Goto
  <2> QED BY <1>2, <2>1 DEF CheckTtl
<1>3. CASE Expire(c) \/ Confirm(c) \/ DecideDenied(c)
  <2>1. pc'[c] \in {"log_expired", "log_confirm", "log_denied"}
    BY <1>1, <1>3 DEF Expire, Confirm, DecideDenied, Goto
  <2> QED BY <1>3, <2>1 DEF Expire, Confirm, DecideDenied
<1>4. CASE CreateApproval(c)
  BY <1>1, <1>4 DEF CreateApproval
<1>5. CASE SweepOne(c)
  <2>1. pc'[c] \in {"idle", "sweep"}
    BY <1>1, <1>5 DEF SweepOne, Done
  <2> QED BY <1>5, <2>1 DEF SweepOne
<1>6. CASE CallRaises(c)
  <2>1. pc'[c] \in {"idle", "log_error"}
    BY <1>1, <1>6 DEF CallRaises, Raised, Done, Goto
  <2> QED BY <1>6, <2>1 DEF CallRaises
<1> QED BY <1>2, <1>3, <1>4, <1>5, <1>6

\* The two entries a run rests on.
LEMMA LogAllowLog ==
  ASSUME "allow" \in Kept, IInv, LogInv, NEW c \in Callers,
         LogAllow(c) \/ LogConfirm(c)
  PROVE  LogInv'
<1> DEFINE x == [user |-> req[c].user, action |-> req[c].action,
                 kind |-> "allow", ref |-> req[c].id]
<1>1. StepOK(c)
  BY CallerStep DEF Step
<1>2. /\ Logged(c, "allow") /\ pc[c] \in {"log_allow", "log_confirm"}
      /\ ran' = ran /\ runs' = runs /\ req' = req
  BY DEF LogAllow, LogConfirm, Goto
<1>3. req[c].user \in Users /\ "allow" \in Kinds
  BY <1>2, TypesOfParts DEF LocalOK, Kinds
<1>4. trail \subseteq trail' /\ x \in trail'
  BY <1>2, <1>3, LoggedFacts, TypesOfParts
<1>5. LoggedOK(c)'
  BY <1>2, <1>4 DEF LoggedOK
<1>6. EffectsAudited'
  BY <1>1, <1>2, <1>4, AuditKeeps DEF StepOK
<1> QED BY <1>1, <1>4, <1>5, <1>6, LogKeeps

LEMMA RunToolLog ==
  ASSUME IInv, LogInv, NEW c \in Callers, RunTool(c)
  PROVE  LogInv'
<1> DEFINE x == [user |-> req[c].user, action |-> req[c].action]
<1>1. StepOK(c)
  BY CallerStep DEF Step
<1>2. /\ pc[c] = "run" /\ UNCHANGED <<approvals, trail, runs>>
      /\ ran' = ran \/ ran' = ran \cup {x}
  BY DEF RunTool
<1>3. pc'[c] \in {"idle", "log_error", "log_executed"}
  BY DEF RunTool, Raised, Done, Goto, IInv, TypeOK
<1>4. LoggedOK(c)'
  BY <1>3 DEF LoggedOK
<1>5. \E e \in trail : e.kind = "allow" /\ e.user = x.user /\ e.action = x.action
  BY <1>2 DEF LogInv, LoggedOK
<1> HIDE DEF x
<1>6. EffectsAudited'
  BY <1>2, <1>5 DEF LogInv, EffectsAudited
<1>7. trail \subseteq trail'
  BY <1>2
<1> QED BY <1>1, <1>4, <1>6, <1>7, LogKeeps

LEMMA RunApprovedLog ==
  ASSUME IInv, LogInv, NEW c \in Callers, RunApproved(c)
  PROVE  LogInv'
<1>1. StepOK(c)
  BY CallerStep DEF Step
<1>2. /\ pc[c] = "run_approved" /\ Done(c) /\ UNCHANGED <<approvals, trail, ran>>
      /\ runs' = runs \/ runs' = [runs EXCEPT ![req[c].id] = @ + 1]
  BY DEF RunApproved
<1>3. pc'[c] = "idle"
  BY <1>2, DoneFacts, TypesOfParts
<1>4. LoggedOK(c)'
  BY <1>3 DEF LoggedOK
<1>5. MayConfirm(req[c].user, approvals[req[c].id])
  BY <1>2, TypesOfParts DEF LocalOK
<1>6. \E e \in trail : /\ e.kind = "allow" /\ e.ref = req[c].id
                       /\ \/ e.user = approvals[req[c].id].user
                          \/ Role[e.user] = "master"
  BY <1>2, <1>5 DEF LogInv, LoggedOK, MayConfirm
<1>7. \A i \in Ids : i # req[c].id => runs'[i] = runs[i]
  BY <1>2 DEF IInv, TypeOK
<1>8. EffectsAudited'
  BY <1>2, <1>6, <1>7 DEF LogInv, EffectsAudited
<1>9. trail \subseteq trail'
  BY <1>2
<1> QED BY <1>1, <1>4, <1>8, <1>9, LogKeeps

LEMMA NextLogInv ==
  ASSUME "allow" \in Kept, IInv, LogInv, [Next]_vars
  PROVE  LogInv'
<1>1. ASSUME NEW c \in Callers, Start(c) \/ Step(c) \/ CallRaises(c)
      PROVE  LogInv'
  <2>1. StepOK(c)
    BY <1>1, CallerStep
  <2>2. CASE Start(c)
    BY <2>1, <2>2, StartPlain, PlainLogStep
  <2>3. CASE LogDeny(c) \/ LogHitl(c) \/ LogError(c) \/ LogExecuted(c)
               \/ LogExpired(c) \/ LogDenied(c)
    BY <2>1, <2>3, LogDonePlain, PlainLogStep
  <2>4. CASE CheckTtl(c) \/ Expire(c) \/ Confirm(c) \/ DecideDenied(c)
               \/ CreateApproval(c) \/ SweepOne(c) \/ CallRaises(c)
    BY <2>1, <2>4, OtherPlain, PlainLogStep
  <2>5. CASE LogAllow(c) \/ LogConfirm(c)
    BY <2>5, LogAllowLog
  <2>6. CASE RunTool(c) \/ RunApproved(c)
    BY <2>6, RunToolLog, RunApprovedLog
  <2> QED BY <1>1, <2>2, <2>3, <2>4, <2>5, <2>6 DEF Step
<1>2. CASE Crash
  <2>1. \A c \in Callers : pc'[c] = "idle"
    BY <1>2 DEF Crash
  <2>2. \A c \in Callers : LoggedOK(c)'
    BY <2>1 DEF LoggedOK
  <2>3. RowsGrow /\ UNCHANGED <<trail, ran, runs>>
    BY <1>2 DEF Crash, RowsGrow
  <2> QED BY <2>2, <2>3, AuditKeeps DEF LogInv
<1>3. CASE Tick \/ UNCHANGED vars
  BY <1>3 DEF Tick, vars, LogInv, LoggedOK, EffectsAudited
<1> QED BY <1>1, <1>2, <1>3 DEF Next

\* Provided "allow" entries are among those modelled: no tool runs without its
\* entry in the log before it, across failures, for any number of callers.
THEOREM AuditedEffects == ASSUME "allow" \in Kept PROVE Spec => []EffectsAudited
<1>1. Init => LogInv
  BY DEF Init, LogInv, LoggedOK, EffectsAudited
<1>2. IInv /\ LogInv /\ [Next]_vars => LogInv'
  BY NextLogInv
<1>3. LogInv => EffectsAudited
  BY DEF LogInv
<1> QED BY <1>1, <1>2, <1>3, Invariant, PTL DEF Spec

-----------------------------------------------------------------------------
(* One caller: an approval is run at most once.                            *)

Alone == \A c, d \in Callers : c = d

\* Steps that leave the table and the runs alone, and lead to no decision.
LEMMA QuietOnce ==
  ASSUME Alone, IInv, OnceInv, NEW c \in Callers,
         approvals' = approvals, runs' = runs,
         pc'[c] \notin Decider \cup {"log_confirm", "run_approved", "sweep"}
  PROVE  OnceInv'
<1>1. OnceOK(c)'
  BY DEF OnceOK, Decider
<1>2. \A d \in Callers : OnceOK(d)'
  BY <1>1 DEF Alone
<1> QED BY <1>2 DEF OnceInv, Confirmed, RunsAtMostOnce

\* A row is looked up: only a pending one leads on to a decision.
LEMMA ApproveOnce ==
  ASSUME Alone, IInv, OnceInv, NEW c \in Callers, NEW u \in Users, NEW i \in Ids,
         Approve(c, u, i) \/ Deny(c, u, i)
  PROVE  OnceInv'
<1>1. /\ approvals' = approvals /\ runs' = runs
      /\ pc'[c] \in {"log_deny", "check_ttl", "deny"}
      /\ pc'[c] # "log_deny" => approvals[i].status = "pending"
      /\ req'[c].id = i
  <2>1. pc \in [Callers -> Labels] /\ req \in [Callers -> Reqs]
    BY DEF IInv, TypeOK
  <2>2. CASE Approve(c, u, i)
    <3>1. /\ approvals' = approvals /\ runs' = runs
          /\ pc'[c] = IF approvals[i] = None THEN "log_deny"
                      ELSE IF approvals[i].status # "pending" THEN "log_deny"
                      ELSE "check_ttl"
      BY <2>1, <2>2 DEF Approve, Begin
    <3>2. req'[c].id = i
      BY <2>1, <2>2 DEF Approve, Begin, NoReq
    <3> QED BY <3>1, <3>2
  <2>3. CASE Deny(c, u, i)
    <3>1. /\ approvals' = approvals /\ runs' = runs
          /\ pc'[c] = "deny" /\ approvals[i].status = "pending"
      BY <2>1, <2>3 DEF Deny, Begin
    <3>2. req'[c].id = i
      BY <2>1, <2>3 DEF Deny, Begin, NoReq
    <3> QED BY <3>1, <3>2
  <2> QED BY <2>2, <2>3
<1>2. OnceOK(c)'
  BY <1>1 DEF OnceOK, Decider
<1>3. \A d \in Callers : OnceOK(d)'
  BY <1>2 DEF Alone
<1> QED BY <1>1, <1>3 DEF OnceInv, Confirmed, RunsAtMostOnce

LEMMA SweepOnce ==
  ASSUME Alone, IInv, OnceInv, NEW c \in Callers, Sweep(c)
  PROVE  OnceInv'
<1>1. /\ approvals' = approvals /\ runs' = runs
      /\ pc'[c] = "sweep" /\ req'[c].todo = Pending
  BY DEF IInv, TypeOK, Sweep, Begin, NoReq
<1>2. OnceOK(c)'
  BY <1>1 DEF OnceOK, Decider, Pending
<1>3. \A d \in Callers : OnceOK(d)'
  BY <1>2 DEF Alone
<1> QED BY <1>1, <1>3 DEF OnceInv, Confirmed, RunsAtMostOnce

LEMMA CheckTtlOnce ==
  ASSUME Alone, IInv, OnceInv, NEW c \in Callers, CheckTtl(c)
  PROVE  OnceInv'
<1>1. /\ approvals' = approvals /\ runs' = runs /\ req' = req /\ pc[c] = "check_ttl"
      /\ pc'[c] \in {"expire", "log_deny", "confirm"}
  BY DEF IInv, TypeOK, CheckTtl, Goto
<1>2. OnceOK(c)'
  BY <1>1 DEF OnceInv, OnceOK, Decider
<1>3. \A d \in Callers : OnceOK(d)'
  BY <1>2 DEF Alone
<1> QED BY <1>1, <1>3 DEF OnceInv, Confirmed, RunsAtMostOnce

\* A decision is about a pending row, which has not been run.
LEMMA DecideOnce ==
  ASSUME Alone, IInv, OnceInv, NEW c \in Callers,
         Expire(c) \/ Confirm(c) \/ DecideDenied(c)
  PROVE  OnceInv'
<1> DEFINE i == req[c].id
<1>1. /\ runs' = runs /\ req' = req /\ pc[c] \in {"expire", "confirm", "deny"}
      /\ pc'[c] \in {"log_expired", "log_confirm", "log_denied"}
      /\ pc'[c] = "log_confirm" => Decided(i, "confirmed")
      /\ \E s \in Statuses : Decided(i, s)
  BY DEF IInv, TypeOK, Expire, Confirm, DecideDenied, Goto, Statuses
<1>2. i \in Ids /\ approvals[i] # None
  BY <1>1, TypesOfParts DEF LocalOK
<1>3. approvals[i].status = "pending"
  BY <1>1 DEF OnceInv, OnceOK, Decider
<1> HIDE DEF i
<1>4. runs[i] = 0
  <2>1. ~(runs[i] > 0)
    BY <1>2, <1>3 DEF OnceInv, Confirmed
  <2> QED BY <1>2, <2>1 DEF IInv, TypeOK
<1>5. /\ \A j \in Ids \ {i} : approvals'[j] = approvals[j]
      /\ pc'[c] = "log_confirm" => approvals'[i].status = "confirmed"
  BY <1>1, <1>2, DecidedFacts DEF IInv, Statuses
<1>6. OnceOK(c)'
  BY <1>1, <1>4, <1>5 DEF OnceOK, Decider, i
<1>7. \A d \in Callers : OnceOK(d)'
  BY <1>6 DEF Alone
<1>8. \A j \in Ids : runs'[j] > 0 => Confirmed(j)'
  BY <1>1, <1>4, <1>5 DEF OnceInv, Confirmed
<1> QED BY <1>1, <1>7, <1>8 DEF OnceInv, RunsAtMostOnce

LEMMA CreateOnce ==
  ASSUME Alone, IInv, OnceInv, NEW c \in Callers, CreateApproval(c)
  PROVE  OnceInv'
<1>1. runs' = runs /\ pc'[c] = "log_hitl"
  BY DEF IInv, TypeOK, CreateApproval
<1>2. PICK i \in Ids : approvals[i] = None
                      /\ \A j \in Ids \ {i} : approvals'[j] = approvals[j]
  BY DEF IInv, TypeOK, CreateApproval
<1>3. OnceOK(c)'
  BY <1>1 DEF OnceOK, Decider
<1>4. \A d \in Callers : OnceOK(d)'
  BY <1>3 DEF Alone
<1>5. \A j \in Ids : runs'[j] > 0 => Confirmed(j)'
  BY <1>1, <1>2 DEF OnceInv, Confirmed
<1> QED BY <1>1, <1>4, <1>5 DEF OnceInv, RunsAtMostOnce

LEMMA SweepOneOnce ==
  ASSUME Alone, IInv, OnceInv, NEW c \in Callers, SweepOne(c)
  PROVE  OnceInv'
<1>1. pc[c] = "sweep" /\ runs' = runs
  BY DEF SweepOne
<1>2. CASE req[c].todo = {}
  <2>1. approvals' = approvals /\ pc'[c] = "idle"
    BY <1>2, DoneFacts, TypesOfParts DEF SweepOne
  <2> QED BY <1>1, <2>1, QuietOnce DEF Decider
<1>3. CASE req[c].todo # {}
  <2>1. PICK i \in req[c].todo :
          /\ Decided(i, "expired") \/ UNCHANGED approvals
          /\ req' = [req EXCEPT ![c].todo = @ \ {i}]
          /\ UNCHANGED pc
    BY <1>3 DEF SweepOne
  <2>2. req[c].todo \subseteq Ids /\ req'[c].todo = req[c].todo \ {i}
    BY <2>1 DEF IInv, TypeOK, Reqs
  <2>3. approvals[i] # None /\ approvals[i].status = "pending"
    BY <1>1, TypesOfParts DEF LocalOK, OnceInv, OnceOK
  <2>4. ~(runs[i] > 0)
    BY <2>2, <2>3 DEF OnceInv, Confirmed
  <2>5. \A j \in Ids \ {i} : approvals'[j] = approvals[j]
    BY <2>1, <2>2, <2>3, DecidedFacts DEF IInv, Statuses
  <2>6. OnceOK(c)'
    BY <1>1, <2>1, <2>2, <2>5 DEF OnceInv, OnceOK, Decider
  <2>7. \A d \in Callers : OnceOK(d)'
    BY <2>6 DEF Alone
  <2>8. \A j \in Ids : runs'[j] > 0 => Confirmed(j)'
    BY <1>1, <2>4, <2>5 DEF OnceInv, Confirmed
  <2> QED BY <1>1, <2>7, <2>8 DEF OnceInv, RunsAtMostOnce
<1> QED BY <1>2, <1>3

LEMMA LogConfirmOnce ==
  ASSUME Alone, IInv, OnceInv, NEW c \in Callers, LogConfirm(c)
  PROVE  OnceInv'
<1>1. /\ approvals' = approvals /\ runs' = runs /\ req' = req
      /\ pc[c] = "log_confirm" /\ pc'[c] = "run_approved"
  BY DEF IInv, TypeOK, LogConfirm, Goto
<1>2. OnceOK(c)'
  BY <1>1 DEF OnceInv, OnceOK, Decider
<1>3. \A d \in Callers : OnceOK(d)'
  BY <1>2 DEF Alone
<1> QED BY <1>1, <1>3 DEF OnceInv, Confirmed, RunsAtMostOnce

LEMMA RunApprovedOnce ==
  ASSUME Alone, IInv, OnceInv, NEW c \in Callers, RunApproved(c)
  PROVE  OnceInv'
<1> DEFINE i == req[c].id
<1>1. /\ approvals' = approvals /\ pc[c] = "run_approved" /\ pc'[c] = "idle"
      /\ runs' = runs \/ runs' = [runs EXCEPT ![i] = @ + 1]
  BY DoneFacts, TypesOfParts DEF RunApproved
<1>2. i \in Ids /\ approvals[i] # None
  BY <1>1, TypesOfParts DEF LocalOK
<1>3. approvals[i].status = "confirmed" /\ runs[i] = 0
  BY <1>1 DEF OnceInv, OnceOK
<1> HIDE DEF i
<1>4. /\ runs'[i] \in {0, 1}
      /\ \A j \in Ids \ {i} : runs'[j] = runs[j]
  BY <1>1, <1>2, <1>3 DEF IInv, TypeOK
<1>5. \A j \in Ids : runs'[j] > 0 => Confirmed(j)'
  BY <1>1, <1>2, <1>3, <1>4 DEF OnceInv, Confirmed
<1>6. \A j \in Ids : runs'[j] <= 1
  BY <1>4 DEF OnceInv, RunsAtMostOnce
<1>7. OnceOK(c)'
  BY <1>1 DEF OnceOK, Decider
<1>8. \A d \in Callers : OnceOK(d)'
  BY <1>7 DEF Alone
<1> QED BY <1>5, <1>6, <1>8 DEF OnceInv, RunsAtMostOnce

\* The steps of plain requests, and those that only log or fail.
LEMMA QuietSteps ==
  ASSUME IInv, NEW c \in Callers,
         \/ \E via \in {"chat", "execute"}, u \in Users, a \in Actions :
              Authorize(c, via, u, a)
         \/ LogDeny(c) \/ LogHitl(c) \/ LogAllow(c) \/ RunTool(c) \/ LogError(c)
         \/ LogExecuted(c) \/ LogExpired(c) \/ LogDenied(c) \/ CallRaises(c)
  PROVE  /\ approvals' = approvals /\ runs' = runs
         /\ pc'[c] \notin Decider \cup {"log_confirm", "run_approved", "sweep"}
<1>1. pc \in [Callers -> Labels]
  BY DEF IInv, TypeOK
<1>2. approvals' = approvals /\ runs' = runs
  BY DEF Authorize, LogDeny, LogHitl, LogAllow, RunTool, LogError, LogExecuted,
         LogExpired, LogDenied, CallRaises
<1>3. CASE \E via \in {"chat", "execute"}, u \in Users, a \in Actions :
             Authorize(c, via, u, a)
  <2>1. pc'[c] \in {"log_deny", "create", "log_allow"}
    BY <1>1, <1>3 DEF Authorize, Begin
  <2> QED BY <1>2, <2>1 DEF Decider
<1>4. CASE LogDeny(c) \/ LogHitl(c) \/ LogError(c) \/ LogExecuted(c)
             \/ LogExpired(c) \/ LogDenied(c)
  BY <1>2, <1>4, LogDonePlain DEF Decider
<1>5. CASE LogAllow(c)
  BY <1>1, <1>2, <1>5 DEF LogAllow, Goto, Decider
<1>6. CASE RunTool(c) \/ CallRaises(c)
  <2>1. pc'[c] \in {"idle", "log_error", "log_executed"}
    BY <1>1, <1>6 DEF RunTool, CallRaises, Raised, Done, Goto
  <2> QED BY <1>2, <2>1 DEF Decider
<1> QED BY <1>3, <1>4, <1>5, <1>6

LEMMA NextOnce ==
  ASSUME Alone, IInv, OnceInv, [Next]_vars
  PROVE  OnceInv'
<1>1. ASSUME NEW c \in Callers, Start(c) \/ Step(c) \/ CallRaises(c)
      PROVE  OnceInv'
  <2>1. CASE Start(c)
    BY <2>1, QuietSteps, QuietOnce, ApproveOnce, SweepOnce DEF Start
  <2>2. CASE LogDeny(c) \/ LogHitl(c) \/ LogAllow(c) \/ RunTool(c) \/ LogError(c)
               \/ LogExecuted(c) \/ LogExpired(c) \/ LogDenied(c) \/ CallRaises(c)
    BY <2>2, QuietSteps, QuietOnce
  <2>3. CASE CheckTtl(c) \/ Expire(c) \/ Confirm(c) \/ DecideDenied(c)
               \/ CreateApproval(c) \/ SweepOne(c) \/ LogConfirm(c) \/ RunApproved(c)
    BY <2>3, CheckTtlOnce, DecideOnce, CreateOnce, SweepOneOnce, LogConfirmOnce,
       RunApprovedOnce
  <2> QED BY <1>1, <2>1, <2>2, <2>3 DEF Step
<1>2. CASE Crash
  <2>1. /\ \A c \in Callers : pc'[c] = "idle"
        /\ approvals' = approvals /\ runs' = runs
    BY <1>2 DEF Crash
  <2>2. \A c \in Callers : OnceOK(c)'
    BY <2>1 DEF OnceOK, Decider
  <2> QED BY <2>1, <2>2 DEF OnceInv, Confirmed, RunsAtMostOnce
<1>3. CASE Tick \/ UNCHANGED vars
  BY <1>3 DEF Tick, vars, OnceInv, OnceOK, Confirmed, RunsAtMostOnce
<1> QED BY <1>1, <1>2, <1>3 DEF Next

LEMMA OnceInvariant == ASSUME Alone PROVE Spec => []OnceInv
<1>1. Init => OnceInv
  BY DEF Init, OnceInv, OnceOK, Decider, Confirmed, RunsAtMostOnce
<1>2. IInv /\ OnceInv /\ [Next]_vars => OnceInv'
  BY NextOnce
<1> QED BY <1>1, <1>2, Invariant, PTL DEF Spec

\* The server has one caller: the tool of an approval is run at most once, however
\* often /approve is retried and whatever fails in between.
THEOREM RunOnce == ASSUME Alone PROVE Spec => []RunsAtMostOnce
<1>1. OnceInv => RunsAtMostOnce
  BY DEF OnceInv
<1> QED BY <1>1, OnceInvariant, PTL
-----------------------------------------------------------------------------
(* One caller: the gateway implements Hitl.                                *)

\* Steps that leave the table and the runs alone are no steps of Hitl.
LEMMA PromiseStutters ==
  ASSUME approvals' = approvals, runs' = runs
  PROVE  [Promise!Next]_(Promise!vars)
BY DEF StatusOf, Promise!vars

\* A row that is decided while it is pending is a decision of Hitl.
LEMMA DecidedIsPromised ==
  ASSUME TypeOK, RowsOK, NEW i \in Ids, approvals[i] # None,
         approvals[i].status = "pending", NEW s \in Promise!Decisions,
         Decided(i, s), runs' = runs
  PROVE  [Promise!Next]_(Promise!vars)
<1>1. s \in Statuses
  BY DEF Promise!Decisions, Statuses
<1>2. /\ approvals'[i].status = s /\ approvals'[i] # None
      /\ \A j \in Ids \ {i} : approvals'[j] = approvals[j]
  BY <1>1, DecidedFacts
<1>3. StatusOf[i] = "pending"
  BY DEF StatusOf
<1>4. StatusOf' = [StatusOf EXCEPT ![i] = s]
  BY <1>2 DEF StatusOf
<1>5. Promise!Decide(i)
  BY <1>3, <1>4 DEF Promise!Decide
<1> QED BY <1>5 DEF Promise!Next

\* A fresh row is a request.
LEMMA CreateIsPromised ==
  ASSUME IInv, NEW c \in Callers, CreateApproval(c)
  PROVE  [Promise!Next]_(Promise!vars)
<1>1. runs' = runs
  BY DEF CreateApproval
<1>2. PICK i \in Ids :
        /\ approvals[i] = None
        /\ approvals' = [approvals EXCEPT ![i] =
             [status |-> "pending", user |-> req[c].user, action |-> req[c].action,
              expires |-> now + Ttl]]
  BY DEF CreateApproval
<1>3. RowsGrow /\ StepOK(c)
  BY CreateApprovalStep DEF StepOK
<1>4. /\ approvals'[i].status = "pending"
      /\ \A j \in Ids \ {i} : approvals'[j] = approvals[j]
  BY <1>2 DEF IInv, TypeOK
<1>5. approvals'[i] # None
  <2>1. approvals'[i] = [status |-> "pending", user |-> req[c].user,
                         action |-> req[c].action, expires |-> now + Ttl]
    BY <1>2 DEF IInv, TypeOK
  <2>2. req[c].user \in Users /\ req[c].action \in Actions /\ now + Ttl \in Nat
    BY TypesOfParts, BoundsAssumption
       DEF CreateApproval, LocalOK, Permitted, Actions, TypeOK, Times
  <2>3. approvals'[i] \in Rows
    BY <2>1, <2>2 DEF Rows, Statuses
  <2> QED BY <2>3, NamesAssumption
<1>6. StatusOf[i] = "none"
  BY <1>2 DEF StatusOf
<1>7. StatusOf' = [StatusOf EXCEPT ![i] = "pending"]
  BY <1>4, <1>5 DEF StatusOf
<1>8. Promise!Request(i)
  BY <1>1, <1>6, <1>7 DEF Promise!Request
<1> QED BY <1>8 DEF Promise!Next

LEMMA DecideIsPromised ==
  ASSUME IInv, OnceInv, NEW c \in Callers, Expire(c) \/ Confirm(c) \/ DecideDenied(c)
  PROVE  [Promise!Next]_(Promise!vars)
<1>1. /\ runs' = runs /\ pc[c] \in {"expire", "confirm", "deny"}
      /\ \E s \in Promise!Decisions : Decided(req[c].id, s)
  BY DEF Expire, Confirm, DecideDenied, Promise!Decisions
<1>2. req[c].id \in Ids /\ approvals[req[c].id] # None
  BY <1>1, TypesOfParts DEF LocalOK
<1>3. approvals[req[c].id].status = "pending"
  BY <1>1 DEF OnceInv, OnceOK, Decider
<1> QED BY <1>1, <1>2, <1>3, DecidedIsPromised DEF IInv

LEMMA SweepOneIsPromised ==
  ASSUME IInv, OnceInv, NEW c \in Callers, SweepOne(c)
  PROVE  [Promise!Next]_(Promise!vars)
<1>1. pc[c] = "sweep" /\ runs' = runs
  BY DEF SweepOne
<1>2. CASE approvals' = approvals
  BY <1>1, <1>2, PromiseStutters
<1>3. CASE approvals' # approvals
  <2>1. PICK i \in req[c].todo : Decided(i, "expired")
    BY <1>3 DEF SweepOne
  <2>2. i \in Ids /\ approvals[i] # None /\ approvals[i].status = "pending"
    BY <1>1, <2>1, TypesOfParts DEF LocalOK, Reqs, OnceInv, OnceOK
  <2>3. "expired" \in Promise!Decisions
    BY DEF Promise!Decisions
  <2> QED BY <1>1, <2>1, <2>2, <2>3, DecidedIsPromised DEF IInv
<1> QED BY <1>2, <1>3

\* The tool of a confirmed row is run for the first time.
LEMMA RunIsPromised ==
  ASSUME IInv, OnceInv, NEW c \in Callers, RunApproved(c)
  PROVE  [Promise!Next]_(Promise!vars)
<1> DEFINE i == req[c].id
<1>1. /\ approvals' = approvals /\ pc[c] = "run_approved"
      /\ runs' = runs \/ runs' = [runs EXCEPT ![i] = @ + 1]
  BY DEF RunApproved
<1>2. i \in Ids /\ approvals[i] # None
  BY <1>1, TypesOfParts DEF LocalOK
<1>3. approvals[i].status = "confirmed" /\ runs[i] = 0
  BY <1>1 DEF OnceInv, OnceOK
<1> HIDE DEF i
<1>4. CASE runs' = [runs EXCEPT ![i] = @ + 1]
  <2>1. runs' = [runs EXCEPT ![i] = 1]
    BY <1>3, <1>4
  <2>2. StatusOf[i] = "confirmed" /\ StatusOf' = StatusOf
    BY <1>1, <1>2, <1>3 DEF StatusOf
  <2>3. Promise!Run(i)
    BY <1>3, <2>1, <2>2 DEF Promise!Run
  <2> QED BY <1>2, <2>3 DEF Promise!Next
<1> QED BY <1>1, <1>4, PromiseStutters

LEMMA PromiseStep ==
  ASSUME IInv, OnceInv, [Next]_vars
  PROVE  [Promise!Next]_(Promise!vars)
<1>1. ASSUME NEW c \in Callers, Start(c) \/ Step(c) \/ CallRaises(c)
      PROVE  [Promise!Next]_(Promise!vars)
  <2>1. CASE Start(c)
    <3>1. approvals' = approvals /\ runs' = runs
      BY <2>1 DEF Start, Authorize, Approve, Deny, Sweep
    <3> QED BY <3>1, PromiseStutters
  <2>2. CASE LogDeny(c) \/ LogHitl(c) \/ LogAllow(c) \/ RunTool(c) \/ LogError(c)
               \/ LogExecuted(c) \/ LogExpired(c) \/ LogDenied(c) \/ CallRaises(c)
    BY <2>2, QuietSteps, PromiseStutters
  <2>3. CASE CheckTtl(c) \/ LogConfirm(c)
    <3>1. approvals' = approvals /\ runs' = runs
      BY <2>3 DEF CheckTtl, LogConfirm
    <3> QED BY <3>1, PromiseStutters
  <2>4. CASE Expire(c) \/ Confirm(c) \/ DecideDenied(c) \/ CreateApproval(c)
               \/ SweepOne(c) \/ RunApproved(c)
    BY <2>4, DecideIsPromised, CreateIsPromised, SweepOneIsPromised, RunIsPromised
  <2> QED BY <1>1, <2>1, <2>2, <2>3, <2>4 DEF Step
<1>2. CASE Crash \/ Tick \/ UNCHANGED vars
  <2>1. approvals' = approvals /\ runs' = runs
    BY <1>2 DEF Crash, Tick, vars
  <2> QED BY <2>1, PromiseStutters
<1> QED BY <1>1, <1>2 DEF Next

\* The server has one caller, and its gateway keeps what Hitl promises: across
\* crashes, raised calls and retries each step of the table and the runs is a request,
\* a decision of a pending request or the only run of a confirmed one.
THEOREM PromiseKept == ASSUME Alone PROVE Spec => ImplementsHitl
<1>1. Init => Promise!Init
  BY DEF Init, Promise!Init, StatusOf
<1>2. IInv /\ OnceInv /\ [Next]_vars => [Promise!Next]_(Promise!vars)
  BY PromiseStep
<1> QED BY <1>1, <1>2, Invariant, OnceInvariant, PTL DEF Spec, ImplementsHitl, Promise!Spec

-----------------------------------------------------------------------------
(* Any number of callers: a late approval stays unconfirmed.               *)

\* The time to live a caller compares is the one in the table.
SeenOK(c) == pc[c] = "check_ttl" => req[c].seen.expires = approvals[req[c].id].expires

SeenInv == \A c \in Callers : SeenOK(c)

\* What keeps an approval unconfirmed once it is late, whatever its decision.
LateInv(i) == /\ approvals[i] # None
              /\ ~Confirmed(i)
              /\ now > approvals[i].expires
              /\ \A c \in Callers : ~(pc[c] = "confirm" /\ req[c].id = i)

\* What a step of caller c may do to a row that is there.
RowMoves(c, i) ==
  /\ approvals'[i] # None
  /\ approvals'[i].expires = approvals[i].expires
  /\ \/ approvals'[i].status = approvals[i].status
     \/ approvals'[i].status # "confirmed"
     \/ pc[c] = "confirm" /\ req[c].id = i

LEMMA DecidedMoves ==
  ASSUME TypeOK, NEW c \in Callers, NEW k \in Ids, approvals[k] # None,
         NEW s \in Statuses, Decided(k, s),
         s # "confirmed" \/ (pc[c] = "confirm" /\ req[c].id = k),
         NEW i \in Ids, approvals[i] # None
  PROVE  RowMoves(c, i)
<1> DEFINE row == [approvals[k] EXCEPT !.status = s]
<1>1. approvals[k] \in Rows /\ approvals \in [Ids -> Rows \cup {None}]
  BY DEF TypeOK
<1>2. /\ row \in Rows /\ row.status = s /\ row.expires = approvals[k].expires
      /\ row # None
  BY <1>1, NamesAssumption DEF Rows
<1>3. approvals' = [approvals EXCEPT ![k] = row]
  BY DEF Decided
<1> HIDE DEF row
<1> QED BY <1>1, <1>2, <1>3 DEF RowMoves

LEMMA RowsMove ==
  ASSUME IInv, NEW c \in Callers, Start(c) \/ Step(c) \/ CallRaises(c),
         NEW i \in Ids, approvals[i] # None
  PROVE  RowMoves(c, i)
<1>1. CASE approvals' = approvals
  BY <1>1 DEF RowMoves
<1>2. CASE Expire(c) \/ Confirm(c) \/ DecideDenied(c)
  <2>1. /\ pc[c] \in {"expire", "confirm", "deny"}
        /\ \E s \in Statuses : /\ Decided(req[c].id, s)
                               /\ s # "confirmed" \/ pc[c] = "confirm"
    BY <1>2 DEF Expire, Confirm, DecideDenied, Statuses
  <2>2. req[c].id \in Ids /\ approvals[req[c].id] # None
    BY <2>1, TypesOfParts DEF LocalOK
  <2> QED BY <2>1, <2>2, DecidedMoves, TypesOfParts
<1>3. CASE SweepOne(c) /\ approvals' # approvals
  <2>1. PICK k \in req[c].todo : Decided(k, "expired")
    BY <1>3 DEF SweepOne
  <2>2. k \in Ids /\ approvals[k] # None
    BY <1>3, <2>1, TypesOfParts DEF SweepOne, LocalOK, Reqs
  <2> QED BY <2>1, <2>2, DecidedMoves, TypesOfParts DEF Statuses
<1>4. CASE CreateApproval(c)
  <2>1. PICK k \in Ids : approvals[k] = None
                        /\ \A j \in Ids \ {k} : approvals'[j] = approvals[j]
    BY <1>4 DEF IInv, TypeOK, CreateApproval
  <2> QED BY <2>1 DEF RowMoves
<1>5. \/ approvals' = approvals
      \/ Expire(c) \/ Confirm(c) \/ DecideDenied(c) \/ SweepOne(c) \/ CreateApproval(c)
  BY DEF Start, Authorize, Approve, Deny, Sweep, Step, LogDeny, LogHitl, LogAllow,
         RunTool, LogError, LogExecuted, CheckTtl, LogExpired, LogConfirm, RunApproved,
         LogDenied, CallRaises
<1> QED BY <1>1, <1>2, <1>3, <1>4, <1>5

\* The clock is compared only with what Approve has read, and only a caller that found
\* the time not over goes on to confirm.
LEMMA ToTheClock ==
  ASSUME IInv, NEW c \in Callers, Start(c) \/ Step(c) \/ CallRaises(c)
  PROVE  /\ pc'[c] = "check_ttl" =>
              \E u \in Users, i \in Ids : Approve(c, u, i) /\ approvals[i] # None
         /\ pc'[c] = "confirm" => /\ CheckTtl(c) /\ ~(now > req[c].seen.expires)
                                  /\ req' = req
<1>0. pc \in [Callers -> Labels] /\ CallersOK
  BY TypesOfParts DEF IInv, TypeOK
<1>1. CASE \/ \E via \in {"chat", "execute"}, u \in Users, a \in Actions :
                Authorize(c, via, u, a)
           \/ LogDeny(c) \/ LogHitl(c) \/ LogAllow(c) \/ RunTool(c) \/ LogError(c)
           \/ LogExecuted(c) \/ LogExpired(c) \/ LogDenied(c) \/ CallRaises(c)
  BY <1>1, QuietSteps DEF Decider
<1>2. ASSUME NEW u \in Users, NEW i \in Ids, Approve(c, u, i) \/ Deny(c, u, i)
      PROVE  /\ pc'[c] = "check_ttl" => Approve(c, u, i) /\ approvals[i] # None
             /\ pc'[c] # "confirm"
  BY <1>0, <1>2 DEF Approve, Deny, Begin
<1>3. CASE Sweep(c)
  BY <1>0, <1>3 DEF Sweep, Begin
<1>4. CASE CheckTtl(c)
  BY <1>0, <1>4 DEF CheckTtl, Goto
<1>5. CASE Expire(c) \/ Confirm(c) \/ DecideDenied(c) \/ LogConfirm(c)
  BY <1>0, <1>5 DEF Expire, Confirm, DecideDenied, LogConfirm, Goto
<1>6. CASE CreateApproval(c)
  BY <1>0, <1>6 DEF CreateApproval
<1>7. CASE SweepOne(c) \/ RunApproved(c)
  BY <1>0, <1>7 DEF SweepOne, RunApproved, Done
<1> QED BY <1>1, <1>2, <1>3, <1>4, <1>5, <1>6, <1>7 DEF Start, Step

LEMMA SeenStep ==
  ASSUME IInv, SeenInv, [Next]_vars
  PROVE  SeenInv'
<1>1. ASSUME NEW c \in Callers, Start(c) \/ Step(c) \/ CallRaises(c)
      PROVE  SeenInv'
  <2>1. MovesOnly(c)
    BY <1>1, CallerStep DEF StepOK
  <2>2. ASSUME NEW d \in Callers, d # c
        PROVE  SeenOK(d)'
    <3>1. pc'[d] = pc[d] /\ req'[d] = req[d]
      BY <2>1, <2>2 DEF MovesOnly
    <3>2. pc[d] = "check_ttl" => /\ req[d].id \in Ids /\ approvals[req[d].id] # None
                                 /\ req[d].seen.expires = approvals[req[d].id].expires
      BY TypesOfParts DEF LocalOK, SeenInv, SeenOK
    <3>3. pc[d] = "check_ttl" => RowMoves(c, req[d].id)
      BY <1>1, <3>2, RowsMove
    <3> QED BY <3>1, <3>2, <3>3 DEF SeenOK, RowMoves
  <2>3. SeenOK(c)'
    <3> SUFFICES ASSUME pc'[c] = "check_ttl"
                 PROVE  req'[c].seen.expires = approvals'[req'[c].id].expires
      BY DEF SeenOK
    <3>1. PICK u \in Users, i \in Ids : Approve(c, u, i)
      BY <1>1, ToTheClock
    <3>2. req'[c].seen = approvals[i] /\ req'[c].id = i /\ approvals' = approvals
      BY <3>1 DEF Approve, Begin, NoReq, IInv, TypeOK
    <3> QED BY <3>2
  <2> QED BY <2>2, <2>3 DEF SeenInv
<1>2. CASE Crash
  BY <1>2 DEF Crash, SeenInv, SeenOK
<1>3. CASE Tick \/ UNCHANGED vars
  BY <1>3 DEF Tick, vars, SeenInv, SeenOK
<1> QED BY <1>1, <1>2, <1>3 DEF Next

LEMMA LateStep ==
  ASSUME IInv, IInv', SeenInv, NEW i \in Ids, LateInv(i), [Next]_vars
  PROVE  LateInv(i)'
<1>0. /\ now \in Nat /\ now' \in Nat
      /\ approvals[i] \in Rows /\ approvals[i].expires \in Nat
  <2>1. now \in Nat /\ now' \in Nat /\ approvals[i] \in Rows
    BY DEF IInv, TypeOK, Times, LateInv
  <2> QED BY <2>1 DEF Rows
<1>1. ASSUME NEW c \in Callers, Start(c) \/ Step(c) \/ CallRaises(c)
      PROVE  LateInv(i)'
  <2>1. MovesOnly(c) /\ now' = now
    <3>1. MovesOnly(c)
      BY <1>1, CallerStep DEF StepOK
    <3>2. now' = now
      BY <1>1 DEF Start, Authorize, Approve, Deny, Sweep, Step, LogDeny, LogHitl,
            LogAllow, RunTool, LogError, LogExecuted, CheckTtl, LogExpired, LogConfirm,
            RunApproved, LogDenied, CallRaises, Expire, Confirm, DecideDenied, SweepOne,
            CreateApproval
    <3> QED BY <3>1, <3>2
  <2>2. RowMoves(c, i)
    BY <1>1, RowsMove DEF LateInv
  <2>3. /\ approvals'[i] # None /\ ~Confirmed(i)'
        /\ now' > approvals'[i].expires
    BY <2>1, <2>2 DEF RowMoves, LateInv, Confirmed
  <2>4. ASSUME pc'[c] = "confirm", req'[c].id = i
        PROVE  FALSE
    <3>1. /\ pc[c] = "check_ttl" /\ ~(now > req[c].seen.expires) /\ req[c].id = i
      BY <1>1, <2>4, ToTheClock DEF CheckTtl
    <3>2. req[c].seen.expires = approvals[i].expires
      BY <3>1 DEF SeenInv, SeenOK
    <3> QED BY <1>0, <3>1, <3>2 DEF LateInv
  <2>5. \A d \in Callers : ~(pc'[d] = "confirm" /\ req'[d].id = i)
    BY <2>1, <2>4 DEF MovesOnly, LateInv
  <2> QED BY <2>3, <2>5 DEF LateInv
<1>2. CASE Crash
  BY <1>2 DEF Crash, LateInv, Confirmed
<1>3. CASE Tick
  <2>1. now' = now + 1 /\ UNCHANGED <<approvals, pc, req>>
    BY <1>3 DEF Tick
  <2> QED BY <1>0, <2>1 DEF LateInv, Confirmed
<1>4. CASE UNCHANGED vars
  BY <1>4 DEF vars, LateInv, Confirmed
<1> QED BY <1>1, <1>2, <1>3, <1>4 DEF Next

\* For any number of callers: once the time of a pending approval is over and nobody is
\* past the check of it, no later /approve, sweep, denial, failure or restart confirms
\* it: each looks at the expiry time again, and that never changes.
THEOREM LateUnconfirmed == Spec => LateStaysUnconfirmed
<1> SUFFICES ASSUME NEW i \in Ids
             PROVE  Spec => [](Late(i) => [](~Confirmed(i)))
  BY DEF LateStaysUnconfirmed
<1>1. Init => SeenInv
  BY DEF Init, SeenInv, SeenOK
<1>2. IInv /\ SeenInv /\ [Next]_vars => SeenInv'
  BY SeenStep
<1>3. Late(i) => LateInv(i)
  BY DEF Late, LateInv, Confirmed
<1>4. IInv /\ IInv' /\ SeenInv /\ LateInv(i) /\ [Next]_vars => LateInv(i)'
  BY LateStep
<1>5. LateInv(i) => ~Confirmed(i)
  BY DEF LateInv
<1> QED BY <1>1, <1>2, <1>3, <1>4, <1>5, Invariant, PTL DEF Spec

-----------------------------------------------------------------------------
(* Any number of callers: how far the table can run ahead of the log.      *)

\* The callers that have changed the table and are about to log it, and the entry
\* each of them is about to write.
Loggers == {c \in Callers : pc[c] \in {"log_hitl", "log_confirm", "log_denied"}}

KindAt == [log_hitl |-> "hitl_required", log_confirm |-> "allow",
           log_denied |-> "explicit_denial"]

InHand(c) == <<req[c].id, KindAt[pc[c]]>>

Held == {InHand(c) : c \in Loggers}

\* The entries nobody is going to write any more.
Lost == Missing \ Held

LostInv == /\ IsFiniteSet(Lost)
           /\ Cardinality(Lost) <= faults * Cardinality(Callers)

KeptAssumed == {"hitl_required", "allow", "explicit_denial"} \subseteq Kept

LEMMA HeldBound ==
  ASSUME IsFiniteSet(Callers)
  PROVE  /\ IsFiniteSet(Loggers) /\ IsFiniteSet(Held)
         /\ Cardinality(Held) <= Cardinality(Loggers)
         /\ Cardinality(Loggers) <= Cardinality(Callers)
         /\ Cardinality(Held) \in Nat /\ Cardinality(Loggers) \in Nat
         /\ Cardinality(Callers) \in Nat
<1> DEFINE f == [c \in Loggers |-> InHand(c)]
<1>1. Loggers \in SUBSET Callers
  BY DEF Loggers
<1>2. IsFiniteSet(Loggers) /\ Cardinality(Loggers) <= Cardinality(Callers)
  BY <1>1, FS_Subset
<1>3. f \in Surjection(Loggers, Held)
  <2> SUFFICES /\ f \in [Loggers -> Held]
               /\ \A x \in Held : \E c \in Loggers : f[c] = x
    BY Zenon DEF Surjection
  <2> QED BY DEF Held
<1> HIDE DEF f
<1>4. IsFiniteSet(Held) /\ Cardinality(Held) <= Cardinality(Loggers)
  BY <1>2, <1>3, FS_Surjection
<1> QED BY <1>2, <1>4, FS_CardinalityType

\* A set that grows by at most the elements of another is at most that much larger.
LEMMA GrowthBound ==
  ASSUME NEW S, IsFiniteSet(S), NEW D, IsFiniteSet(D), NEW T \in SUBSET (S \cup D)
  PROVE  /\ IsFiniteSet(T)
         /\ Cardinality(T) <= Cardinality(S) + Cardinality(D)
         /\ Cardinality(T) \in Nat /\ Cardinality(S) \in Nat /\ Cardinality(D) \in Nat
<1>1. /\ IsFiniteSet(S \cup D)
      /\ Cardinality(S \cup D)
           = Cardinality(S) + Cardinality(D) - Cardinality(S \cap D)
  BY FS_Union
<1>2. S \cap D \in SUBSET S
  OBVIOUS
<1>3. IsFiniteSet(S \cap D)
  BY <1>2, FS_Subset
<1>4. IsFiniteSet(T) /\ Cardinality(T) <= Cardinality(S \cup D)
  BY <1>1, FS_Subset
<1>5. /\ Cardinality(S) \in Nat /\ Cardinality(D) \in Nat /\ Cardinality(T) \in Nat
      /\ Cardinality(S \cap D) \in Nat /\ Cardinality(S \cup D) \in Nat
  BY <1>1, <1>3, <1>4, FS_CardinalityType
<1> QED BY <1>1, <1>4, <1>5

LEMMA OneMoreTimes ==
  ASSUME NEW f \in Nat, NEW n \in Nat
  PROVE  (f + 1) * n = f * n + n /\ f * n \in Nat
OBVIOUS

\* A step of one caller loses nothing when each entry that becomes missing is one it
\* is going to write, and the one it was going to write is not missing any more.
LEMMA NothingLost ==
  ASSUME NEW c \in Callers, MovesOnly(c),
         \A x \in Missing' : x \in Missing \/ (c \in Loggers' /\ x = InHand(c)'),
         c \in Loggers => InHand(c) \notin Missing'
  PROVE  Lost' \subseteq Lost
<1> SUFFICES ASSUME NEW x \in Lost' PROVE x \in Lost
  OBVIOUS
<1>1. x \in Missing' /\ \A d \in Loggers' : x # InHand(d)'
  BY DEF Lost, Held
<1>2. x \in Missing
  BY <1>1
<1>3. ASSUME NEW d \in Loggers, x = InHand(d)
      PROVE  FALSE
  <2>1. CASE d = c
    BY <1>1, <1>3, <2>1
  <2>2. CASE d # c
    <3>1. pc'[d] = pc[d] /\ req'[d] = req[d] /\ d \in Callers
      BY <2>2 DEF MovesOnly, Loggers
    <3>2. d \in Loggers' /\ InHand(d)' = InHand(d)
      BY <3>1 DEF Loggers, InHand
    <3> QED BY <1>1, <1>3, <3>2
  <2> QED BY <2>1, <2>2
<1> QED BY <1>2, <1>3 DEF Lost, Held

\* With the table as it was, nothing becomes missing.
LEMMA MissingShrinks ==
  ASSUME approvals' = approvals, trail \subseteq trail'
  PROVE  Missing' \subseteq Missing
BY DEF Missing, Entry

\* Steps that leave the table alone, of a caller with no entry in hand.
LEMMA QuietLost ==
  ASSUME IInv, NEW c \in Callers, MovesOnly(c), c \notin Loggers,
         approvals' = approvals, trail \subseteq trail'
  PROVE  Lost' \subseteq Lost
BY MissingShrinks, NothingLost

\* The entry in hand is written.
LEMMA LoggedLost ==
  ASSUME KeptAssumed, IInv, NEW c \in Callers, MovesOnly(c),
         LogHitl(c) \/ LogConfirm(c) \/ LogDenied(c)
  PROVE  Lost' \subseteq Lost
<1>1. /\ approvals' = approvals /\ c \in Loggers
      /\ Logged(c, KindAt[pc[c]]) /\ KindAt[pc[c]] \in Kept /\ KindAt[pc[c]] \in Kinds
  BY DEF LogHitl, LogConfirm, LogDenied, Loggers, KindAt, KeptAssumed, Kinds
<1> DEFINE e == [user |-> req[c].user, action |-> req[c].action,
                 kind |-> KindAt[pc[c]], ref |-> req[c].id]
<1>2. trail \subseteq trail' /\ e \in trail'
  <2>1. req[c].user \in Users
    BY <1>1, TypesOfParts DEF LocalOK, Loggers
  <2> QED BY <1>1, <2>1, LoggedFacts, TypesOfParts
<1>3. e.kind = KindAt[pc[c]] /\ e.ref = req[c].id
  OBVIOUS
<1> HIDE DEF e
<1>4. InHand(c)[1] = req[c].id /\ InHand(c)[2] = KindAt[pc[c]]
  BY DEF InHand
<1>5. InHand(c) \notin Missing'
  <2>1. \E x \in trail' : x.ref = InHand(c)[1] /\ x.kind = InHand(c)[2]
    BY <1>2, <1>3, <1>4
  <2> QED BY <2>1 DEF Missing, Entry
<1> QED BY <1>1, <1>2, <1>5, MissingShrinks, NothingLost

\* A fresh row lacks the entry its caller writes next.
LEMMA CreateLost ==
  ASSUME IInv, NEW c \in Callers, CreateApproval(c)
  PROVE  Lost' \subseteq Lost
<1>1. PICK i \in Ids :
        /\ approvals[i] = None
        /\ approvals' = [approvals EXCEPT ![i] =
             [status |-> "pending", user |-> req[c].user, action |-> req[c].action,
              expires |-> now + Ttl]]
        /\ pc' = [pc EXCEPT ![c] = "log_hitl"]
        /\ req' = [req EXCEPT ![c].id = i]
  BY DEF CreateApproval
<1>2. /\ approvals'[i].status = "pending"
      /\ \A j \in Ids \ {i} : approvals'[j] = approvals[j]
  BY <1>1 DEF IInv, TypeOK
<1>3. pc[c] = "create" /\ trail' = trail /\ MovesOnly(c)
  BY CreateApprovalStep DEF CreateApproval, StepOK
<1>4. pc'[c] = "log_hitl" /\ req'[c].id = i
  BY <1>1 DEF IInv, TypeOK
<1>5. c \in Loggers' /\ InHand(c)' = <<i, "hitl_required">>
  BY <1>4 DEF Loggers, InHand, KindAt
<1>6. ASSUME NEW x \in Missing'
      PROVE  x \in Missing \/ x = <<i, "hitl_required">>
  <2>1. /\ x \in Ids \X Kinds /\ approvals'[x[1]] # None
        /\ x[2] \in Owed(approvals'[x[1]]) /\ ~Entry(x[1], x[2])
    BY <1>3 DEF Missing, Entry
  <2>2. CASE x[1] = i
    <3>1. x[2] = "hitl_required"
      BY <1>2, <2>1, <2>2 DEF Owed
    <3> QED BY <2>1, <2>2, <3>1
  <2>3. CASE x[1] # i
    <3>1. approvals'[x[1]] = approvals[x[1]]
      BY <1>2, <2>1, <2>3
    <3> QED BY <2>1, <3>1 DEF Missing
  <2> QED BY <2>2, <2>3
<1>7. c \notin Loggers
  BY <1>3 DEF Loggers
<1> QED BY <1>3, <1>5, <1>6, <1>7, NothingLost

\* What a decision can make missing: the entry that goes with it.
LEMMA DecidedMissing ==
  ASSUME TypeOK, RowsOK, NEW i \in Ids, approvals[i] # None, NEW s \in Statuses,
         Decided(i, s), trail' = trail, NEW x \in Missing'
  PROVE  \/ x \in Missing
         \/ s = "confirmed" /\ x = <<i, "allow">>
         \/ s = "denied" /\ x = <<i, "explicit_denial">>
<1>1. /\ approvals'[i].status = s
      /\ \A j \in Ids \ {i} : approvals'[j] = approvals[j]
  BY DecidedFacts
<1>2. /\ x \in Ids \X Kinds /\ approvals'[x[1]] # None
      /\ x[2] \in Owed(approvals'[x[1]]) /\ ~Entry(x[1], x[2])
  BY DEF Missing, Entry
<1>3. CASE x[1] = i
  <2>1. \/ x[2] = "hitl_required"
        \/ s = "confirmed" /\ x[2] = "allow"
        \/ s = "denied" /\ x[2] = "explicit_denial"
    BY <1>1, <1>2, <1>3 DEF Owed
  <2>2. x[2] = "hitl_required" => x \in Missing
    BY <1>2, <1>3 DEF Missing, Owed
  <2> QED BY <1>2, <1>3, <2>1, <2>2
<1>4. CASE x[1] # i
  <2>1. approvals'[x[1]] = approvals[x[1]]
    BY <1>1, <1>2, <1>4
  <2> QED BY <1>2, <2>1 DEF Missing
<1> QED BY <1>3, <1>4

LEMMA DecideLost ==
  ASSUME IInv, NEW c \in Callers, Expire(c) \/ Confirm(c) \/ DecideDenied(c)
  PROVE  Lost' \subseteq Lost
<1>1. /\ pc[c] \in {"expire", "confirm", "deny"} /\ trail' = trail /\ req' = req
      /\ MovesOnly(c)
  <2>1. MovesOnly(c)
    BY CallerStep DEF Step, StepOK
  <2> QED BY <2>1 DEF Expire, Confirm, DecideDenied, Goto
<1>2. PICK s \in {"expired", "confirmed", "denied"} :
        /\ Decided(req[c].id, s)
        /\ s = "confirmed" => pc'[c] = "log_confirm"
        /\ s = "denied" => pc'[c] = "log_denied"
  BY DEF Expire, Confirm, DecideDenied, Goto, IInv, TypeOK
<1>3. req[c].id \in Ids /\ approvals[req[c].id] # None /\ s \in Statuses
  BY <1>1, <1>2, TypesOfParts DEF LocalOK, Statuses
<1>4. /\ s = "confirmed" => c \in Loggers' /\ InHand(c)' = <<req[c].id, "allow">>
      /\ s = "denied" => c \in Loggers' /\ InHand(c)' = <<req[c].id, "explicit_denial">>
  BY <1>1, <1>2 DEF Loggers, InHand, KindAt
<1>5. \A x \in Missing' : x \in Missing \/ (c \in Loggers' /\ x = InHand(c)')
  BY <1>1, <1>2, <1>3, <1>4, DecidedMissing DEF IInv
<1>6. c \notin Loggers
  BY <1>1 DEF Loggers
<1> QED BY <1>1, <1>5, <1>6, NothingLost

LEMMA SweepOneLost ==
  ASSUME IInv, NEW c \in Callers, SweepOne(c)
  PROVE  Lost' \subseteq Lost
<1>1. pc[c] = "sweep" /\ trail' = trail /\ MovesOnly(c) /\ c \notin Loggers
  BY CallerStep DEF SweepOne, Step, StepOK, Loggers
<1>2. CASE approvals' = approvals
  BY <1>1, <1>2, QuietLost
<1>3. CASE approvals' # approvals
  <2>1. PICK i \in req[c].todo : Decided(i, "expired")
    BY <1>3 DEF SweepOne
  <2>2. i \in Ids /\ approvals[i] # None /\ "expired" \in Statuses
    BY <1>1, <2>1, TypesOfParts DEF LocalOK, Reqs, Statuses
  <2>3. Missing' \subseteq Missing
    BY <1>1, <2>1, <2>2, DecidedMissing DEF IInv
  <2> QED BY <1>1, <2>3, NothingLost
<1> QED BY <1>2, <1>3

\* A step of a caller that does not fail loses nothing.
LEMMA StepLost ==
  ASSUME KeptAssumed, IInv, NEW c \in Callers, Start(c) \/ Step(c)
  PROVE  Lost' \subseteq Lost
<1>1. MovesOnly(c) /\ pc \in [Callers -> Labels]
  BY CallerStep DEF StepOK, IInv, TypeOK
<1>2. CASE Start(c)
  <2>1. approvals' = approvals /\ trail' = trail /\ pc[c] = "idle"
    BY <1>2 DEF Start, Authorize, Approve, Deny, Sweep, Begin
  <2> QED BY <1>1, <2>1, QuietLost DEF Loggers
<1>3. CASE \/ LogDeny(c) \/ LogAllow(c) \/ RunTool(c) \/ LogError(c) \/ LogExecuted(c)
           \/ CheckTtl(c) \/ LogExpired(c) \/ RunApproved(c)
  <2>1. /\ approvals' = approvals /\ trail \subseteq trail'
        /\ pc[c] \notin {"log_hitl", "log_confirm", "log_denied"}
    BY <1>3 DEF LogDeny, LogAllow, RunTool, LogError, LogExecuted, CheckTtl, LogExpired,
       RunApproved, Logged
  <2> QED BY <1>1, <2>1, QuietLost DEF Loggers
<1>4. CASE LogHitl(c) \/ LogConfirm(c) \/ LogDenied(c)
  BY <1>1, <1>4, LoggedLost
<1>5. CASE CreateApproval(c) \/ Expire(c) \/ Confirm(c) \/ DecideDenied(c) \/ SweepOne(c)
  BY <1>5, CreateLost, DecideLost, SweepOneLost
<1> QED BY <1>2, <1>3, <1>4, <1>5 DEF Step

\* A failure loses at most what the callers had in hand.
LEMMA FailureLost ==
  ASSUME IInv, UNCHANGED <<approvals, trail>>
  PROVE  Lost' \subseteq Lost \cup Held
BY DEF Lost, Missing, Entry

LEMMA NextLost ==
  ASSUME KeptAssumed, IInv, [Next]_vars
  PROVE  \/ Lost' \subseteq Lost /\ faults' = faults
         \/ Lost' \subseteq Lost \cup Held /\ faults' = faults + 1
<1>1. ASSUME NEW c \in Callers, Start(c) \/ Step(c)
      PROVE  Lost' \subseteq Lost /\ faults' = faults
  <2>1. faults' = faults
    BY <1>1 DEF Start, Authorize, Approve, Deny, Sweep, Step, LogDeny, LogHitl, LogAllow,
       RunTool, LogError, LogExecuted, CheckTtl, LogExpired, LogConfirm, RunApproved,
       LogDenied, Expire, Confirm, DecideDenied, SweepOne, CreateApproval
  <2> QED BY <1>1, <2>1, StepLost
<1>2. CASE Crash \/ \E c \in Callers : CallRaises(c)
  <2>1. UNCHANGED <<approvals, trail>> /\ faults' = faults + 1
    BY <1>2 DEF Crash, CallRaises
  <2> QED BY <2>1, FailureLost
<1>3. CASE Tick \/ UNCHANGED vars
  <2>1. Missing' = Missing /\ Held' = Held /\ faults' = faults
    BY <1>3 DEF Tick, vars, Missing, Entry, Held, Loggers, InHand
  <2> QED BY <2>1 DEF Lost
<1> QED BY <1>1, <1>2, <1>3 DEF Next

LEMMA LostStep ==
  ASSUME IsFiniteSet(Callers), KeptAssumed, IInv, LostInv, [Next]_vars
  PROVE  LostInv'
<1>0. /\ faults \in Nat /\ Cardinality(Callers) \in Nat /\ IsFiniteSet(Lost)
      /\ Cardinality(Lost) <= faults * Cardinality(Callers)
      /\ IsFiniteSet(Held) /\ Cardinality(Held) <= Cardinality(Callers)
  <2>1. faults \in Nat
    BY BoundsAssumption DEF IInv, TypeOK
  <2>2. /\ IsFiniteSet(Held) /\ Cardinality(Held) <= Cardinality(Loggers)
        /\ Cardinality(Loggers) <= Cardinality(Callers)
        /\ Cardinality(Held) \in Nat /\ Cardinality(Loggers) \in Nat
        /\ Cardinality(Callers) \in Nat
    BY HeldBound
  <2> QED BY <2>1, <2>2 DEF LostInv
<1>1. CASE Lost' \subseteq Lost /\ faults' = faults
  <2>1. /\ IsFiniteSet(Lost') /\ Cardinality(Lost') <= Cardinality(Lost)
        /\ Cardinality(Lost') \in Nat /\ Cardinality(Lost) \in Nat
    BY <1>0, <1>1, FS_Subset, FS_CardinalityType
  <2>2. faults * Cardinality(Callers) \in Nat
    BY <1>0, OneMoreTimes
  <2> QED BY <1>0, <1>1, <2>1, <2>2 DEF LostInv
<1>2. CASE Lost' \subseteq Lost \cup Held /\ faults' = faults + 1
  <2>1. /\ IsFiniteSet(Lost')
        /\ Cardinality(Lost') <= Cardinality(Lost) + Cardinality(Held)
        /\ Cardinality(Lost') \in Nat /\ Cardinality(Lost) \in Nat
        /\ Cardinality(Held) \in Nat
    BY <1>0, <1>2, GrowthBound
  <2>2. /\ (faults + 1) * Cardinality(Callers)
             = faults * Cardinality(Callers) + Cardinality(Callers)
        /\ faults * Cardinality(Callers) \in Nat
    BY <1>0, OneMoreTimes
  <2>3. Cardinality(Lost') <= (faults + 1) * Cardinality(Callers)
    BY <1>0, <2>1, <2>2
  <2> QED BY <1>2, <2>1, <2>3 DEF LostInv
<1> QED BY <1>1, <1>2, NextLost

LEMMA InitLost ==
  ASSUME IsFiniteSet(Callers), Init
  PROVE  LostInv
<1>1. Lost = {}
  BY DEF Init, Lost, Missing
<1>2. Cardinality(Callers) \in Nat /\ faults = 0
  BY FS_CardinalityType DEF Init
<1>3. IsFiniteSet({}) /\ Cardinality({}) = 0
  BY FS_EmptySet
<1>4. 0 * Cardinality(Callers) = 0
  BY <1>2
<1> QED BY <1>1, <1>2, <1>3, <1>4 DEF LostInv

LEMMA LostIsFew ==
  ASSUME IsFiniteSet(Callers), IInv, LostInv
  PROVE  SilentOnlyByFault
<1>1. /\ IsFiniteSet(Held) /\ Cardinality(Held) <= Cardinality(Loggers)
      /\ Cardinality(Held) \in Nat /\ Cardinality(Loggers) \in Nat
      /\ Cardinality(Callers) \in Nat
  BY HeldBound
<1>2. faults \in Nat
  BY BoundsAssumption DEF IInv, TypeOK
<1>3. faults * Cardinality(Callers) \in Nat
  BY <1>1, <1>2, OneMoreTimes
<1>4. Missing \in SUBSET (Lost \cup Held)
  BY DEF Lost
<1>5. /\ Cardinality(Missing) <= Cardinality(Lost) + Cardinality(Held)
      /\ Cardinality(Missing) \in Nat /\ Cardinality(Lost) \in Nat
  BY <1>1, <1>4, GrowthBound DEF LostInv
<1>6. Cardinality(Missing) <= faults * Cardinality(Callers) + Cardinality(Loggers)
  BY <1>1, <1>3, <1>5 DEF LostInv
<1> QED BY <1>6 DEF SilentOnlyByFault, Loggers

\* For any number of callers: whatever is confirmed, denied or asked for and is not in
\* the log is about to be logged, or was lost to a failure, each of which loses at most
\* one entry per caller; no order of steps without a failure leaves a silent change.
THEOREM SilentFew ==
  ASSUME IsFiniteSet(Callers), KeptAssumed
  PROVE  Spec => []SilentOnlyByFault
<1>1. Init => LostInv
  BY InitLost
<1>2. IInv /\ LostInv /\ [Next]_vars => LostInv'
  BY LostStep
<1>3. IInv /\ LostInv => SilentOnlyByFault
  BY LostIsFew
<1> QED BY <1>1, <1>2, <1>3, Invariant, PTL DEF Spec

-----------------------------------------------------------------------------
(* An operation never goes in a circle: what of OperationsEnd can be said  *)
(* of single steps.                                                        *)

\* How many steps an operation at the label l still has at the most.
Left(l) ==
  CASE l = "idle" -> 0
    [] l = "log_error" -> 1
    [] l \in {"create", "run", "expire", "deny", "log_confirm"} -> 3
    [] l \in {"log_allow", "confirm"} -> 4
    [] l = "check_ttl" -> 5
    [] OTHER -> 2

\* A sweep has a turn for every approval left in its list.
Ahead(c) == IF pc[c] = "sweep" THEN 2 + Cardinality(req[c].todo) ELSE Left(pc[c])

\* Caller c has begun nothing, stays where it is, or gets nearer to its end.
Nearer(c) == pc[c] # "idle" /\ (pc'[c] # pc[c] \/ req'[c] # req[c]) => Ahead(c)' < Ahead(c)

LEMMA NearerOthers ==
  ASSUME NEW c \in Callers, MovesOnly(c), NEW d \in Callers, d # c
  PROVE  Nearer(d)
BY DEF MovesOnly, Nearer

\* A jump to a label other than the sweep's.
LEMMA NearerJump ==
  ASSUME CallersOK, IsFiniteSet(Ids), NEW c \in Callers, pc'[c] # "sweep",
         pc[c] # "sweep" => Left(pc'[c]) < Left(pc[c]),
         pc[c] = "sweep" => pc'[c] \in {"idle", "log_error"}
  PROVE  Nearer(c)
<1>1. CASE pc[c] # "sweep"
  BY <1>1 DEF Nearer, Ahead
<1>2. CASE pc[c] = "sweep"
  <2>1. IsFiniteSet(req[c].todo)
    BY FS_Subset DEF CallersOK, Reqs
  <2>2. Cardinality(req[c].todo) \in Nat
    BY <2>1, FS_CardinalityType
  <2>3. Left(pc'[c]) \in {0, 1}
    BY <1>2 DEF Left
  <2> QED BY <1>2, <2>2, <2>3 DEF Nearer, Ahead
<1> QED BY <1>1, <1>2

\* What a call that raises leads to.
LEMMA NearerRaised ==
  ASSUME CallersOK, IsFiniteSet(Ids), NEW c \in Callers, pc[c] # "idle", Raised(c)
  PROVE  Nearer(c)
<1>1. \/ pc'[c] = "idle"
      \/ pc'[c] = "log_error" /\ pc[c] # "log_error"
  BY DEF Raised, Goto, Done, CallersOK
<1>2. pc[c] \in Labels
  BY DEF CallersOK
<1>3. pc[c] # "sweep" => Left(pc'[c]) < Left(pc[c])
  BY <1>1, <1>2 DEF Left, Labels
<1> QED BY <1>1, <1>3, NearerJump

\* One turn of the sweep.
LEMMA NearerSweep ==
  ASSUME CallersOK, IsFiniteSet(Ids), NEW c \in Callers, SweepOne(c)
  PROVE  Nearer(c)
<1>1. pc[c] = "sweep" /\ IsFiniteSet(req[c].todo) /\ req[c] \in Reqs
  BY FS_Subset DEF CallersOK, Reqs, SweepOne
<1>2. CASE req[c].todo = {}
  <2>1. pc'[c] = "idle"
    BY <1>2 DEF SweepOne, Done, CallersOK
  <2> QED BY <1>1, <2>1, NearerJump
<1>3. CASE req[c].todo # {}
  <2>1. PICK i \in req[c].todo : req' = [req EXCEPT ![c].todo = @ \ {i}] /\ pc' = pc
    BY <1>3 DEF SweepOne
  <2>2. req'[c].todo = req[c].todo \ {i}
    BY <1>1, <2>1 DEF CallersOK, Reqs
  <2>3. Cardinality(req'[c].todo) = Cardinality(req[c].todo) - 1
    BY <1>1, <2>1, <2>2, FS_RemoveElement
  <2>4. Cardinality(req[c].todo) \in Nat
    BY <1>1, FS_CardinalityType
  <2> QED BY <1>1, <2>1, <2>3, <2>4 DEF Nearer, Ahead
<1> QED BY <1>2, <1>3

LEMMA NearerStep ==
  ASSUME CallersOK, IsFiniteSet(Ids), NEW c \in Callers, Start(c) \/ Step(c) \/ CallRaises(c)
  PROVE  Nearer(c)
<1> USE DEF CallersOK
<1>1. CASE Start(c)
  BY <1>1 DEF Start, Authorize, Approve, Deny, Sweep, Begin, Nearer
<1>2. CASE LogDeny(c) \/ LogHitl(c) \/ LogError(c) \/ LogExecuted(c) \/ LogExpired(c)
             \/ LogDenied(c) \/ RunApproved(c)
  BY <1>2, NearerJump DEF LogDeny, LogHitl, LogError, LogExecuted, LogExpired, LogDenied,
     RunApproved, Done, Left
<1>3. CASE LogAllow(c) \/ LogConfirm(c) \/ Expire(c) \/ Confirm(c) \/ DecideDenied(c)
             \/ CheckTtl(c)
  BY <1>3, NearerJump DEF LogAllow, LogConfirm, Expire, Confirm, DecideDenied, CheckTtl,
     Goto, Left
<1>4. CASE CreateApproval(c)
  BY <1>4, NearerJump DEF CreateApproval, Left
<1>5. CASE RunTool(c)
  BY <1>5, NearerJump, NearerRaised DEF RunTool, Done, Goto, Left
<1>6. CASE SweepOne(c)
  BY <1>6, NearerSweep
<1>7. CASE CallRaises(c)
  BY <1>7, NearerRaised DEF CallRaises
<1> QED BY <1>1, <1>2, <1>3, <1>4, <1>5, <1>6, <1>7 DEF Step

LEMMA NearerCrash ==
  ASSUME CallersOK, IsFiniteSet(Ids), Crash, NEW c \in Callers
  PROVE  Nearer(c)
<1>1. pc'[c] = "idle" /\ pc[c] \in Labels
  BY DEF Crash, CallersOK
<1>2. CASE pc[c] = "idle"
  BY <1>2 DEF Nearer
<1>3. CASE pc[c] # "idle"
  <2>1. pc[c] # "sweep" => Left(pc'[c]) < Left(pc[c])
    BY <1>1, <1>3 DEF Left, Labels
  <2> QED BY <1>1, <2>1, NearerJump
<1> QED BY <1>2, <1>3

\* Every operation counts down, however callers interleave and calls raise: a step of
\* it leads nearer to its end, an exception from inside the handling of an exception
\* included, and nobody else's step moves it (the sweep, which works on the list it has
\* read at its start, has a turn for each approval in it and no more).
THEOREM OperationsCountDown ==
  ASSUME IsFiniteSet(Ids)
  PROVE  Spec => [][\A c \in Callers : Nearer(c)]_vars
<1>1. IInv /\ [Next]_vars => [\A c \in Callers : Nearer(c)]_vars
  <2> SUFFICES ASSUME IInv, Next PROVE \A c \in Callers : Nearer(c)
    OBVIOUS
  <2>1. CallersOK
    BY DEF IInv, TypeOK, CallersOK
  <2>2. ASSUME NEW c \in Callers, Start(c) \/ Step(c) \/ CallRaises(c)
        PROVE  \A d \in Callers : Nearer(d)
    BY <2>1, <2>2, NearerStep, NearerOthers, CallerStep DEF StepOK
  <2>3. CASE Crash
    BY <2>1, <2>3, NearerCrash
  <2>4. CASE Tick
    BY <2>4 DEF Tick, Nearer
  <2> QED BY <2>2, <2>3, <2>4 DEF Next
<1> QED BY <1>1, Invariant, PTL DEF Spec

-----------------------------------------------------------------------------
(* Nor does an operation wait for what is not there.                       *)

Free     == {i \in Ids : approvals[i] = None}
Creators == {c \in Callers : pc[c] = "create"}

\* Every caller that is to create an approval finds a fresh id.
IdsLast == Cardinality(Creators) <= Cardinality(Free)

LEMMA Counted ==
  ASSUME IsFiniteSet(Callers), IsFiniteSet(Ids)
  PROVE  /\ IsFiniteSet(Creators) /\ Cardinality(Creators) \in Nat
         /\ IsFiniteSet(Free) /\ Cardinality(Free) \in Nat
BY FS_Subset, FS_CardinalityType DEF Creators, Free

\* Nobody comes to create, and no id is taken.
LEMMA IdsKept ==
  ASSUME IsFiniteSet(Callers), IsFiniteSet(Ids), IdsLast,
         Creators' \subseteq Creators, Free \subseteq Free'
  PROVE  IdsLast'
<1>1. IsFiniteSet(Free') /\ Cardinality(Free') \in Nat
  BY FS_Subset, FS_CardinalityType DEF Free
<1>2. /\ Cardinality(Creators') <= Cardinality(Creators) /\ Cardinality(Creators') \in Nat
      /\ Cardinality(Free) <= Cardinality(Free')
  BY <1>1, Counted, FS_Subset, FS_CardinalityType
<1> QED BY <1>1, <1>2, Counted DEF IdsLast

LEMMA IdsStep ==
  ASSUME IsFiniteSet(Callers), IsFiniteSet(Ids), IInv, IdsLast, [Next]_vars
  PROVE  IdsLast'
<1>0. pc \in [Callers -> Labels] /\ approvals \in [Ids -> Rows \cup {None}]
  BY DEF IInv, TypeOK
<1>1. ASSUME NEW c \in Callers, Start(c)
      PROVE  IdsLast'
  <2>1. approvals' = approvals /\ MovesOnly(c)
    BY <1>1, CallerStep DEF Start, Authorize, Approve, Deny, Sweep, StepOK
  <2>2. Free' = Free /\ Creators' \subseteq Creators \cup {c}
    BY <2>1 DEF Free, Creators, MovesOnly
  <2>3. CASE pc'[c] # "create"
    <3>1. Creators' \subseteq Creators
      BY <2>2, <2>3 DEF Creators
    <3> QED BY <2>2, <3>1, IdsKept
  <2>4. CASE pc'[c] = "create"
    <3>1. PICK via \in {"chat", "execute"}, u \in Users, a \in Actions :
            Authorize(c, via, u, a)
      BY <1>0, <1>1, <2>4 DEF Start, Approve, Deny, Sweep, Begin
    <3>2. IdLeft
      BY <1>0, <2>4, <3>1 DEF Authorize, Begin
    <3>3. Cardinality(Creators) < Cardinality(Free)
      BY <3>2, Counted DEF IdLeft, Free, Creators
    <3>4. c \notin Creators
      BY <3>1 DEF Authorize, Begin, Creators
    <3>5. Cardinality(Creators \cup {c}) = Cardinality(Creators) + 1
          /\ IsFiniteSet(Creators \cup {c})
      BY <3>4, Counted, FS_AddElement
    <3>6. Cardinality(Creators') <= Cardinality(Creators \cup {c})
          /\ Cardinality(Creators') \in Nat
      BY <2>2, <3>5, FS_Subset, FS_CardinalityType
    <3> QED BY <2>2, <3>3, <3>5, <3>6, Counted DEF IdsLast
  <2> QED BY <2>3, <2>4
<1>2. ASSUME NEW c \in Callers, CreateApproval(c)
      PROVE  IdsLast'
  <2>1. PICK i \in Ids : /\ approvals[i] = None
                         /\ \A j \in Ids \ {i} : approvals'[j] = approvals[j]
    BY <1>0, <1>2 DEF CreateApproval
  <2>2. c \in Creators /\ c \notin Creators' /\ Creators' \subseteq Creators
    BY <1>0, <1>2 DEF CreateApproval, Creators
  <2>3. i \in Free /\ Free \ {i} \subseteq Free'
    BY <2>1 DEF Free
  <2>4. /\ Cardinality(Creators \ {c}) = Cardinality(Creators) - 1
        /\ Cardinality(Free \ {i}) = Cardinality(Free) - 1
        /\ IsFiniteSet(Creators \ {c})
    BY <2>2, <2>3, Counted, FS_RemoveElement
  <2>5. Creators' \subseteq Creators \ {c}
    BY <2>2
  <2>6. IsFiniteSet(Free')
    BY FS_Subset DEF Free
  <2>7. /\ Cardinality(Creators') <= Cardinality(Creators \ {c})
        /\ Cardinality(Free \ {i}) <= Cardinality(Free')
        /\ Cardinality(Creators') \in Nat /\ Cardinality(Free') \in Nat
    BY <2>3, <2>4, <2>5, <2>6, FS_Subset, FS_CardinalityType
  <2> QED BY <2>4, <2>7, Counted DEF IdsLast
<1>3. ASSUME NEW c \in Callers, (Step(c) /\ ~CreateApproval(c)) \/ CallRaises(c)
      PROVE  IdsLast'
  <2>1. MovesOnly(c) /\ pc'[c] # "create"
    BY <1>0, <1>3, CallerStep
    DEF StepOK, Step, LogDeny, LogHitl, LogAllow, RunTool, LogError, LogExecuted, CheckTtl,
        Expire, LogExpired, Confirm, LogConfirm, RunApproved, DecideDenied, LogDenied,
        SweepOne, CallRaises, Raised, Done, Goto
  <2>2. Creators' \subseteq Creators
    BY <2>1 DEF Creators, MovesOnly
  <2>3. ASSUME NEW i \in Free PROVE i \in Free'
    <3>1. CASE approvals' = approvals
      BY <2>3, <3>1 DEF Free
    <3>2. CASE Expire(c) \/ Confirm(c) \/ DecideDenied(c)
      <4>1. /\ pc[c] \in {"expire", "confirm", "deny"}
            /\ \E s : Decided(req[c].id, s)
        BY <3>2 DEF Expire, Confirm, DecideDenied
      <4>2. approvals[req[c].id] # None
        BY <4>1 DEF IInv, LocalOK
      <4> QED BY <1>0, <2>3, <4>1, <4>2 DEF Decided, Free
    <3>3. CASE SweepOne(c) /\ approvals' # approvals
      <4>1. PICK k \in req[c].todo : Decided(k, "expired")
        BY <3>3 DEF SweepOne
      <4>2. approvals[k] # None
        BY <3>3, <4>1 DEF SweepOne, IInv, LocalOK
      <4> QED BY <1>0, <2>3, <4>1, <4>2 DEF Decided, Free
    <3>4. \/ approvals' = approvals
          \/ Expire(c) \/ Confirm(c) \/ DecideDenied(c) \/ SweepOne(c)
      BY <1>3 DEF Step, LogDeny, LogHitl, LogAllow, RunTool, LogError, LogExecuted,
         CheckTtl, LogExpired, LogConfirm, RunApproved, LogDenied, CallRaises
    <3> QED BY <3>1, <3>2, <3>3, <3>4
  <2> QED BY <2>2, <2>3, IdsKept
<1>4. CASE Crash \/ Tick \/ UNCHANGED vars
  <2>1. Creators' \subseteq Creators /\ Free' = Free
    BY <1>4 DEF Crash, Tick, vars, Creators, Free
  <2> QED BY <2>1, IdsKept
<1> QED BY <1>1, <1>2, <1>3, <1>4 DEF Next

\* A caller that is about to create an approval finds an id for it, whatever the others
\* take meanwhile: the bound on the ids refuses requests before they begin, and leaves
\* none hanging.  It is the one step of an operation that needs something of others.
THEOREM FreshIdFound ==
  ASSUME IsFiniteSet(Callers), IsFiniteSet(Ids)
  PROVE  Spec => [](\A c \in Callers : pc[c] = "create" => \E i \in Ids : approvals[i] = None)
<1>1. Init => IdsLast
  <2> SUFFICES ASSUME Init PROVE IdsLast
    OBVIOUS
  <2>1. Creators = {}
    BY DEF Init, Creators
  <2> QED BY <2>1, Counted, FS_EmptySet DEF IdsLast
<1>2. IInv /\ IdsLast /\ [Next]_vars => IdsLast'
  BY IdsStep
<1>3. IdsLast => \A c \in Callers : pc[c] = "create" => \E i \in Ids : approvals[i] = None
  <2> SUFFICES ASSUME IdsLast, NEW c \in Callers, pc[c] = "create"
               PROVE  Free # {}
    BY DEF Free
  <2>1. Creators # {}
    BY DEF Creators
  <2>2. Cardinality(Creators) # 0
    BY <2>1, Counted, FS_EmptySet
  <2> QED BY <2>2, Counted, FS_EmptySet DEF IdsLast
<1> QED BY <1>1, <1>2, <1>3, Invariant, PTL DEF Spec
=============================================================================
