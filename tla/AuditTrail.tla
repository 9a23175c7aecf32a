----------------------------- MODULE AuditTrail -----------------------------
(***************************************************************************)
(* What the audit log promises, with no files and no hashes: a list of     *)
(* records that only grows at its end.  The logger never alters and never  *)
(* moves a record already in the list.  Records can be lost, but only from *)
(* the end: at most one while the logger is running, any number when the   *)
(* machine stops.  The one that was spoiled while it was running may come  *)
(* back when the machine stops, and until then nothing more can be read.   *)
(*                                                                         *)
(* A record changes only when somebody else alters it, and that is counted. *)
(*                                                                         *)
(* AuditLog shows that src/audit/logger.py implements this.                *)
(***************************************************************************)
EXTENDS Integers, Sequences

CONSTANT Payloads        \* what a record says

VARIABLES trail,         \* the records that can be read back, oldest first
          spoiled,       \* the record a failed write made unreadable, or none
          up,            \* is a logger running?
          damage         \* alterations of a record from outside

vars == <<trail, spoiled, up, damage>>

Init == trail = << >> /\ spoiled = {} /\ up = FALSE /\ damage = 0

Prefix(n) == SubSeq(trail, 1, n)

Start == ~up /\ up' = TRUE /\ UNCHANGED <<trail, spoiled, damage>>

Record(p) == /\ up
             /\ spoiled = {}
             /\ trail' = Append(trail, p)
             /\ UNCHANGED <<spoiled, up, damage>>

\* A write that fails can spoil the record before it, never an older one.
LoseNewest == /\ up
              /\ spoiled = {}
              /\ trail # << >>
              /\ trail' = Prefix(Len(trail) - 1)
              /\ spoiled' = {trail[Len(trail)]}
              /\ UNCHANGED <<up, damage>>

\* The machine stops: nothing is lost, a few of the newest records and what was
\* spoiled are, or only what had spoiled the one that now comes back.
Stop == /\ up' = FALSE
        /\ \/ UNCHANGED <<trail, spoiled>>
           \/ /\ \E n \in 0 .. Len(trail) : trail' = Prefix(n)
              /\ spoiled' = {}
           \/ /\ \E r \in spoiled : trail' = Append(trail, r)
              /\ spoiled' = {}
        /\ UNCHANGED damage

\* Somebody alters one record; one that cannot be read back may be hit as well.
Alter == /\ damage' = damage + 1
         /\ \/ /\ \E i \in DOMAIN trail, p \in Payloads : trail' = [trail EXCEPT ![i] = p]
               /\ UNCHANGED spoiled
            \/ /\ spoiled # {}
               /\ \E p \in Payloads : spoiled' = {p}
               /\ UNCHANGED trail
            \/ UNCHANGED <<trail, spoiled>>
         /\ UNCHANGED up

Next == \/ Start
        \/ \E p \in Payloads : Record(p)
        \/ LoseNewest
        \/ Stop
        \/ Alter

Spec == Init /\ [][Next]_vars
=============================================================================
