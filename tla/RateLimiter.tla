---------------------------- MODULE RateLimiter ----------------------------
(***************************************************************************)
(* src/gateway/rate_limit.py: the sliding window of RateLimiter.check and  *)
(* the middleware that asks it before every request but those to /health.  *)
(*                                                                         *)
(* Time is counted in ticks, Hz of them to a second, because check() works *)
(* on fractions of a second and answers in whole ones.                     *)
(***************************************************************************)
EXTENDS Integers, Sequences, FiniteSets

CONSTANTS Sessions,      \* clients, each with a session of its own
          Ips, Ip,       \* Ip[s]: the address session s comes from
          MaxRequests,   \* max_requests
          Window,        \* window_seconds
          Hz,            \* ticks per second
          MaxTime        \* bound: the clock

VARIABLES now,           \* time.monotonic()
          queue,         \* _requests: key -> times of the requests in the window
          admitted,      \* key -> [at, by] of each admitted request, in order
          told           \* session -> its last refusal that still stands

vars == <<now, queue, admitted, told>>

Times == Nat
Admissions == [at : Times, by : Sessions]
NotTold == [refused |-> FALSE, until |-> 0, seen |-> 0]
Refusals == [refused : BOOLEAN, until : Times, seen : Nat]

ASSUME SessionsAssumption == Ip \in [Sessions -> Ips]
ASSUME LimitsAssumption == /\ MaxRequests \in Nat \ {0}
                           /\ Window \in Nat
                           /\ Hz \in Nat \ {0}
                           /\ MaxTime \in Nat

-----------------------------------------------------------------------------
(* check(key)                                                              *)

\* Mutant of Expired: a request leaves the window when exactly its length old.
MutantExpired(t) == now - t >= Window * Hz

Expired(t) == now - t > Window * Hz

\* "while queue and now - queue[0] > window: popleft()": everything before the
\* first time that has not expired is dropped.
Kept(q) == {n \in 1 .. Len(q) + 1 : n = Len(q) + 1 \/ ~Expired(q[n])}
First(q) == CHOOSE n \in Kept(q) : \A m \in Kept(q) : n <= m
Evicted(q) == SubSeq(q, First(q), Len(q))

\* Mutant of Full: one request more is let through.
MutantFull(q) == Len(q) > MaxRequests

\* Mutant of Full: one request less is let through.
MutantFullEarly(q) == Len(q) + 1 >= MaxRequests

Full(q) == Len(q) >= MaxRequests

\* Mutant of RetryAfter: the fraction of a second is cut off and not made up for.
MutantRetryAfter(q) == (Window * Hz - (now - q[1])) \div Hz

\* int(window - (now - queue[0])) + 1, in seconds.
RetryAfter(q) == (Window * Hz - (now - q[1])) \div Hz + 1

\* dispatch: the key is the address of the client and nothing else.
Key(s) == Ip[s]

\* The request is passed on.
Admit(s) ==
  LET k == Key(s)
      q == Evicted(queue[k])
  IN  /\ ~Full(q)
      /\ queue' = [queue EXCEPT ![k] = Append(q, now)]
      /\ admitted' = [admitted EXCEPT ![k] = Append(@, [at |-> now, by |-> s])]
      /\ told' = [told EXCEPT ![s] = NotTold]
      /\ UNCHANGED now

\* 429 with Retry-After.
Refuse(s) ==
  LET k == Key(s)
      q == Evicted(queue[k])
  IN  /\ Full(q)
      /\ queue' = [queue EXCEPT ![k] = q]
      /\ told' = [told EXCEPT ![s] =
                    [refused |-> TRUE, until |-> now + RetryAfter(q) * Hz,
                     seen |-> Len(admitted[k])]]
      /\ UNCHANGED <<now, admitted>>

\* reset(key), and what it forgets is not held against the key.
Reset(k) == /\ queue' = [queue EXCEPT ![k] = << >>]
            /\ admitted' = [admitted EXCEPT ![k] = << >>]
            /\ told' = [s \in Sessions |-> IF Key(s) = k THEN NotTold ELSE told[s]]
            /\ UNCHANGED now

Tick == /\ now < MaxTime
        /\ now' = now + 1
        /\ UNCHANGED <<queue, admitted, told>>

Init == /\ now = 0
        /\ queue = [k \in Ips |-> << >>]
        /\ admitted = [k \in Ips |-> << >>]
        /\ told = [s \in Sessions |-> NotTold]

Next == \/ \E s \in Sessions : Admit(s) \/ Refuse(s)
        \/ \E k \in Ips : Reset(k)
        \/ Tick

Spec == Init /\ [][Next]_vars

-----------------------------------------------------------------------------
(* Properties.                                                             *)

TypeOK == /\ now \in Times
          /\ queue \in [Ips -> Seq(Times)]
          /\ admitted \in [Ips -> Seq(Admissions)]
          /\ told \in [Sessions -> Refusals]
          /\ \A k \in Ips : Len(queue[k]) <= MaxRequests

\* Any MaxRequests + 1 requests admitted one after the other for a key take more
\* than the window: no choice of a moment for a window beats the limit, although
\* check() forgets what it has evicted.
WindowBound ==
  \A k \in Ips : \A i \in 1 .. Len(admitted[k]) :
    i + MaxRequests <= Len(admitted[k]) =>
      admitted[k][i + MaxRequests].at - admitted[k][i].at > Window * Hz

InWindow(k, s) == {i \in 1 .. Len(admitted[k]) :
                     /\ admitted[k][i].by = s
                     /\ now - admitted[k][i].at <= Window * Hz}

\* A request is refused only when the last MaxRequests admitted ones are all
\* still in the window: check() is never stricter than the limit.
RefusedOnlyWhenSpent ==
  [][ \A s \in Sessions :
        (told'[s] # told[s] /\ told'[s].refused) =>
          LET a == admitted[Key(s)]
          IN  /\ Len(a) >= MaxRequests
              /\ \A i \in Len(a) - MaxRequests + 1 .. Len(a) :
                   now - a[i].at <= Window * Hz ]_vars

\* A client that waits as long as Retry-After told it is not refused again, unless
\* another request from its address got in first.
RetryAfterSuffices ==
  [][ \A s \in Sessions :
        (/\ told[s].refused
         /\ now >= told[s].until
         /\ told[s].seen = Len(admitted[Key(s)]))
        => told'[s] = told[s] \/ ~told'[s].refused ]_vars
=============================================================================
