-------------------------- MODULE RateLimiterProofs --------------------------
(***************************************************************************)
(* Proofs about RateLimiter, for any sessions, addresses, limit and window *)
(* and without the bound on the clock mattering: the window bound, that no *)
(* request is refused too early, and that Retry-After is enough.           *)
(***************************************************************************)
EXTENDS RateLimiter, LeastNumber, SequenceTheorems

W == Window * Hz

\* At time t, the queue q of a key is the end of the list a of its admitted
\* requests, what is before it has expired, and times only grow.
QueueOK(q, a, t) ==
  /\ Len(q) <= Len(a)
  /\ \A i \in 1 .. Len(q) : q[i] = a[Len(a) - Len(q) + i].at
  /\ \A i \in 1 .. Len(a) - Len(q) : t - a[i].at > W
  /\ \A i \in 1 .. Len(a) : a[i].at <= t
  /\ \A i, j \in 1 .. Len(a) : i <= j => a[i].at <= a[j].at

QueueInv == \A k \in Ips : QueueOK(queue[k], admitted[k], now)

\* WindowBound for one list of admitted requests.
BoundOK(a) == \A i \in 1 .. Len(a) :
                i + MaxRequests <= Len(a) => a[i + MaxRequests].at - a[i].at > W

\* A refusal r that still stands names a time at which the oldest of the
\* requests in a that caused it has left the window, and it was not caused by
\* more requests than there are.
ToldOK(r, a) ==
  /\ r.refused => r.seen <= Len(a)
  /\ (r.refused /\ r.seen = Len(a)) =>
        /\ Len(a) >= MaxRequests
        /\ r.until - a[Len(a) - MaxRequests + 1].at > W

ToldInv == \A s \in Sessions : ToldOK(told[s], admitted[Key(s)])

IInv == TypeOK /\ QueueInv /\ WindowBound /\ ToldInv

-----------------------------------------------------------------------------
(* The eviction loop and the arithmetic of Retry-After.                    *)

LEMMA WindowNat == W \in Nat /\ MaxRequests \in Nat \ {0} /\ Hz \in Nat \ {0}
BY LimitsAssumption DEF W

\* The loop drops expired times only, and stops at the first that is not.
LEMMA FirstFacts ==
  ASSUME now \in Nat, NEW q \in Seq(Nat)
  PROVE  /\ First(q) \in 1 .. Len(q) + 1
         /\ \A n \in 1 .. First(q) - 1 : Expired(q[n])
         /\ First(q) <= Len(q) => ~Expired(q[First(q)])
<1>1. Len(q) \in Nat
  BY LenProperties
<1>2. Kept(q) \in SUBSET Nat /\ Len(q) + 1 \in Kept(q)
  BY <1>1 DEF Kept
<1>3. \E n \in Kept(q) : \A m \in Kept(q) : n <= m
  BY <1>2, LeastNat
<1>4. First(q) \in Kept(q) /\ \A m \in Kept(q) : First(q) <= m
  BY <1>3 DEF First
<1> HIDE DEF First
<1>5. First(q) \in 1 .. Len(q) + 1
  BY <1>4 DEF Kept
<1>6. ASSUME NEW n \in 1 .. First(q) - 1
      PROVE  Expired(q[n])
  <2>1. n \in 1 .. Len(q) + 1 /\ n < First(q) /\ n # Len(q) + 1
    BY <1>1, <1>5
  <2>2. n \notin Kept(q)
    BY <1>4, <1>5, <2>1
  <2> QED BY <2>1, <2>2 DEF Kept
<1>7. First(q) <= Len(q) => ~Expired(q[First(q)])
  BY <1>1, <1>4, <1>5 DEF Kept
<1> QED BY <1>5, <1>6, <1>7

LEMMA EvictedFacts ==
  ASSUME now \in Nat, NEW q \in Seq(Nat)
  PROVE  LET e == Evicted(q)
             d == Len(q) - Len(Evicted(q))
         IN  /\ e \in Seq(Nat)
             /\ Len(e) \in Nat /\ d \in 0 .. Len(q)
             /\ \A i \in 1 .. Len(e) : e[i] = q[d + i]
             /\ \A i \in 1 .. d : now - q[i] > W
             /\ Len(e) > 0 => now - e[1] <= W
<1> DEFINE f == First(q)
           e == Evicted(q)
<1>1. /\ f \in 1 .. Len(q) + 1 /\ Len(q) \in Nat
      /\ \A n \in 1 .. f - 1 : Expired(q[n])
      /\ f <= Len(q) => ~Expired(q[f])
  BY FirstFacts, LenProperties
<1>2. e = SubSeq(q, f, Len(q))
  BY DEF Evicted
<1> HIDE DEF f, e
<1>3. \A i \in f .. Len(q) : q[i] \in Nat
  BY <1>1, ElementOfSeq
<1>4. /\ e \in Seq(Nat)
      /\ Len(e) = IF f <= Len(q) THEN Len(q) - f + 1 ELSE 0
      /\ \A i \in 1 .. Len(q) - f + 1 : e[i] = q[f + i - 1]
  BY <1>1, <1>2, <1>3, SubSeqProperties
<1>5. Len(e) = Len(q) - f + 1 /\ Len(e) \in Nat
  BY <1>1, <1>4
<1>6. \A i \in 1 .. Len(e) : e[i] = q[Len(q) - Len(e) + i]
  <2> SUFFICES ASSUME NEW i \in 1 .. Len(e) PROVE e[i] = q[Len(q) - Len(e) + i]
    OBVIOUS
  <2>1. i \in 1 .. Len(q) - f + 1 /\ f + i - 1 = Len(q) - Len(e) + i
    BY <1>1, <1>5
  <2>2. e[i] = q[f + i - 1]
    BY <1>4, <2>1
  <2> QED BY <2>1, <2>2
<1>7. \A i \in 1 .. Len(q) - Len(e) : now - q[i] > W
  BY <1>1, <1>5 DEF Expired, W
<1>8. Len(e) > 0 => now - e[1] <= W
  <2> SUFFICES ASSUME Len(e) > 0 PROVE now - e[1] <= W
    OBVIOUS
  <2>1. f <= Len(q) /\ e[1] = q[f] /\ q[f] \in Nat
    BY <1>1, <1>3, <1>4, <1>5
  <2>2. ~(now - q[f] > W)
    BY <1>1, <2>1 DEF Expired, W
  <2> QED BY <2>1, <2>2, WindowNat
<1>9. Len(q) - Len(e) \in 0 .. Len(q)
  BY <1>1, <1>5
<1> QED BY <1>4, <1>5, <1>6, <1>7, <1>8, <1>9 DEF e

\* int(x) + 1 whole seconds are more than the x that are left.
LEMMA RetryIsEnough ==
  ASSUME NEW x \in Nat
  PROVE  (x \div Hz + 1) * Hz > x /\ (x \div Hz + 1) * Hz \in Nat
<1>1. x \div Hz \in Nat /\ Hz \in Nat \ {0}
  BY WindowNat
<1>2. (x \div Hz + 1) * Hz > x
  BY WindowNat
<1> QED BY <1>1, <1>2

-----------------------------------------------------------------------------
(* What a request does to the queue and the list of one key.               *)

LEMMA WindowBoundIs == WindowBound <=> \A k \in Ips : BoundOK(admitted[k])
BY DEF WindowBound, BoundOK, W

\* Time passes.
LEMMA TickKeeps ==
  ASSUME NEW q \in Seq(Nat), NEW a \in Seq(Admissions), NEW t \in Nat,
         NEW u \in Nat, t <= u, QueueOK(q, a, t)
  PROVE  QueueOK(q, a, u)
<1>1. \A i \in 1 .. Len(a) : a[i].at \in Nat
  <2>1. \A i \in 1 .. Len(a) : a[i] \in Admissions
    BY ElementOfSeq
  <2> QED BY <2>1 DEF Admissions, Times
<1>2. Len(a) \in Nat /\ Len(q) \in Nat
  BY LenProperties
<1>3. \A i \in 1 .. Len(a) - Len(q) : u - a[i].at > W
  BY <1>1, <1>2, WindowNat DEF QueueOK
<1>4. \A i \in 1 .. Len(a) : a[i].at <= u
  BY <1>1, <1>2 DEF QueueOK
<1>5. /\ Len(q) <= Len(a)
      /\ \A i \in 1 .. Len(q) : q[i] = a[Len(a) - Len(q) + i].at
      /\ \A i, j \in 1 .. Len(a) : i <= j => a[i].at <= a[j].at
  BY DEF QueueOK
<1> QED BY <1>3, <1>4, <1>5 DEF QueueOK

\* Expired times are dropped.
LEMMA EvictKeeps ==
  ASSUME now \in Nat, NEW q \in Seq(Nat), NEW a \in Seq(Admissions),
         QueueOK(q, a, now)
  PROVE  QueueOK(Evicted(q), a, now)
<1> DEFINE e == Evicted(q)
           d == Len(q) - Len(e)
<1>1. /\ e \in Seq(Nat)
      /\ Len(e) \in Nat /\ d \in 0 .. Len(q)
      /\ \A i \in 1 .. Len(e) : e[i] = q[d + i]
      /\ \A i \in 1 .. d : now - q[i] > W
  BY EvictedFacts
<1>2. Len(q) \in Nat /\ Len(a) \in Nat
  BY LenProperties
<1> HIDE DEF e
<1>3. Len(e) <= Len(a)
  BY <1>1, <1>2 DEF QueueOK
<1>4. ASSUME NEW i \in 1 .. Len(e)
      PROVE  e[i] = a[Len(a) - Len(e) + i].at
  <2>1. e[i] = q[d + i] /\ d + i \in 1 .. Len(q)
    BY <1>1, <1>2
  <2>2. q[d + i] = a[Len(a) - Len(q) + (d + i)].at
    BY <2>1 DEF QueueOK
  <2>3. Len(a) - Len(q) + (d + i) = Len(a) - Len(e) + i
    BY <1>1, <1>2
  <2> QED BY <2>1, <2>2, <2>3
<1>5. ASSUME NEW i \in 1 .. Len(a) - Len(e)
      PROVE  now - a[i].at > W
  <2>1. CASE i \in 1 .. Len(a) - Len(q)
    BY <2>1 DEF QueueOK
  <2>2. CASE i > Len(a) - Len(q)
    <3> DEFINE j == i - (Len(a) - Len(q))
    <3>1. j \in 1 .. d /\ j \in 1 .. Len(q) /\ Len(a) - Len(q) + j = i
      BY <1>1, <1>2, <2>2 DEF QueueOK
    <3> HIDE DEF j
    <3>2. now - q[j] > W /\ q[j] = a[Len(a) - Len(q) + j].at
      BY <1>1, <3>1 DEF QueueOK
    <3> QED BY <3>1, <3>2
  <2> QED BY <1>1, <1>2, <2>1, <2>2
<1> QED BY <1>3, <1>4, <1>5 DEF QueueOK, e

\* A request is admitted and recorded.
LEMMA AppendKeeps ==
  ASSUME now \in Nat, NEW q \in Seq(Nat), NEW a \in Seq(Admissions),
         QueueOK(q, a, now), NEW s \in Sessions
  PROVE  QueueOK(Append(q, now), Append(a, [at |-> now, by |-> s]), now)
<1> DEFINE x == [at |-> now, by |-> s]
           r == Append(q, now)
           b == Append(a, x)
<1>1. Len(q) \in Nat /\ Len(a) \in Nat /\ x \in Admissions /\ x.at = now
  BY LenProperties DEF Admissions, Times
<1>2. /\ Len(r) = Len(q) + 1 /\ Len(b) = Len(a) + 1
      /\ \A i \in 1 .. Len(q) : r[i] = q[i]
      /\ r[Len(q) + 1] = now
      /\ \A i \in 1 .. Len(a) : b[i] = a[i]
      /\ b[Len(a) + 1] = x
  BY <1>1, AppendProperties
<1> HIDE DEF x, r, b
<1>3. Len(q) <= Len(a)
  BY DEF QueueOK
<1>4. Len(r) <= Len(b) /\ Len(b) - Len(r) = Len(a) - Len(q)
  BY <1>1, <1>2, <1>3
<1>5. ASSUME NEW i \in 1 .. Len(r)
      PROVE  r[i] = b[Len(b) - Len(r) + i].at
  <2>1. CASE i \in 1 .. Len(q)
    <3>1. Len(a) - Len(q) + i \in 1 .. Len(a)
      BY <1>1, <1>3, <2>1
    <3>2. q[i] = a[Len(a) - Len(q) + i].at
      BY <2>1 DEF QueueOK
    <3> QED BY <1>2, <1>4, <2>1, <3>1, <3>2
  <2>2. CASE i = Len(q) + 1
    <3>1. Len(b) - Len(r) + i = Len(a) + 1
      BY <1>1, <1>4, <2>2
    <3> QED BY <1>1, <1>2, <2>2, <3>1
  <2> QED BY <1>1, <1>2, <2>1, <2>2
<1>6. ASSUME NEW i \in 1 .. Len(b) - Len(r)
      PROVE  now - b[i].at > W
  <2>1. i \in 1 .. Len(a) - Len(q) /\ i \in 1 .. Len(a)
    BY <1>1, <1>3, <1>4
  <2> QED BY <1>2, <2>1 DEF QueueOK
<1>7. ASSUME NEW i \in 1 .. Len(b)
      PROVE  b[i].at <= now
  <2>1. CASE i \in 1 .. Len(a)
    BY <1>2, <2>1 DEF QueueOK
  <2>2. CASE i = Len(a) + 1
    BY <1>1, <1>2, <2>2
  <2> QED BY <1>1, <1>2, <2>1, <2>2
<1>8. ASSUME NEW i \in 1 .. Len(b), NEW j \in 1 .. Len(b), i <= j
      PROVE  b[i].at <= b[j].at
  <2>1. CASE j \in 1 .. Len(a)
    <3>1. i \in 1 .. Len(a)
      BY <1>1, <1>8, <2>1
    <3> QED BY <1>2, <1>8, <2>1, <3>1 DEF QueueOK
  <2>2. CASE j = Len(a) + 1
    <3>1. b[j].at = now
      BY <1>1, <1>2, <2>2
    <3> QED BY <1>7, <3>1
  <2> QED BY <1>1, <1>2, <2>1, <2>2
<1> QED BY <1>4, <1>5, <1>6, <1>7, <1>8 DEF QueueOK, r, b, x

-----------------------------------------------------------------------------
(* Types.                                                                  *)

LEMMA InitIInv == Init => IInv
<1> SUFFICES ASSUME Init PROVE IInv
  OBVIOUS
<1>1. << >> \in Seq(Times) /\ << >> \in Seq(Admissions) /\ Len(<< >>) = 0
  BY EmptySeq
<1>2. \A k \in Ips : queue[k] = << >> /\ admitted[k] = << >>
  BY DEF Init
<1>3. \A s \in Sessions : told[s] = NotTold /\ Key(s) \in Ips
  BY SessionsAssumption DEF Init, Key
<1>4. TypeOK
  BY <1>1, WindowNat DEF Init, TypeOK, Times, Refusals, NotTold
<1>5. QueueInv
  <2>1. QueueOK(<< >>, << >>, 0)
    BY <1>1 DEF QueueOK
  <2>2. now = 0
    BY DEF Init
  <2> QED BY <1>2, <2>1, <2>2 DEF QueueInv
<1>6. WindowBound
  BY <1>1, <1>2 DEF WindowBound
<1>7. ToldInv
  BY <1>3 DEF ToldInv, ToldOK, NotTold
<1> QED BY <1>4, <1>5, <1>6, <1>7 DEF IInv

\* What an admission does to the window bound: what is not in the evicted queue
\* has expired, and the queue is not full.
LEMMA AdmitBound ==
  ASSUME now \in Nat, NEW e \in Seq(Nat), NEW a \in Seq(Admissions),
         QueueOK(e, a, now), BoundOK(a), ~Full(e), NEW s \in Sessions
  PROVE  BoundOK(Append(a, [at |-> now, by |-> s]))
<1> DEFINE x == [at |-> now, by |-> s]
           b == Append(a, x)
<1>1. /\ Len(e) \in Nat /\ Len(a) \in Nat /\ x \in Admissions /\ x.at = now
      /\ MaxRequests \in Nat \ {0} /\ Len(e) < MaxRequests
  BY LenProperties, WindowNat DEF Admissions, Times, Full
<1>2. /\ Len(b) = Len(a) + 1
      /\ \A i \in 1 .. Len(a) : b[i] = a[i]
      /\ b[Len(a) + 1] = x
  BY <1>1, AppendProperties
<1> HIDE DEF x, b
<1>3. SUFFICES ASSUME NEW i \in 1 .. Len(b), i + MaxRequests <= Len(b)
               PROVE  b[i + MaxRequests].at - b[i].at > W
  BY DEF BoundOK, x, b
<1>4. i \in 1 .. Len(a)
  BY <1>1, <1>2, <1>3
<1>5. CASE i + MaxRequests <= Len(a)
  <2>1. i + MaxRequests \in 1 .. Len(a)
    BY <1>1, <1>4, <1>5
  <2> QED BY <1>2, <1>4, <1>5, <2>1 DEF BoundOK
<1>6. CASE i + MaxRequests = Len(a) + 1
  <2>1. i \in 1 .. Len(a) - Len(e)
    BY <1>1, <1>4, <1>6
  <2>2. now - a[i].at > W
    BY <2>1 DEF QueueOK
  <2> QED BY <1>1, <1>2, <1>4, <1>6, <2>2
<1>7. i + MaxRequests <= Len(a) \/ i + MaxRequests = Len(a) + 1
  BY <1>1, <1>2, <1>3
<1> QED BY <1>5, <1>6, <1>7

\* What a full queue knows when a request is refused: exactly MaxRequests times,
\* the oldest of them still in the window.
LEMMA RefuseFacts ==
  ASSUME now \in Nat, NEW q \in Seq(Nat), NEW a \in Seq(Admissions),
         QueueOK(q, a, now), Len(q) <= MaxRequests, Full(Evicted(q))
  PROVE  LET e == Evicted(q)
             o == a[Len(a) - MaxRequests + 1].at
         IN  /\ e \in Seq(Nat) /\ Len(e) = MaxRequests
             /\ Len(a) >= MaxRequests
             /\ o = e[1] /\ o \in Nat /\ o <= now /\ now - o <= W
<1> DEFINE e == Evicted(q)
<1>1. /\ e \in Seq(Nat) /\ Len(e) \in Nat
      /\ Len(q) - Len(e) \in 0 .. Len(q)
      /\ Len(e) > 0 => now - e[1] <= W
  BY EvictedFacts
<1>2. QueueOK(e, a, now)
  BY EvictKeeps
<1>3. Len(q) \in Nat /\ Len(a) \in Nat /\ Len(e) >= MaxRequests
  BY LenProperties DEF Full
<1> HIDE DEF e
<1>4. Len(e) = MaxRequests /\ Len(e) \in Nat \ {0}
  BY <1>1, <1>3, WindowNat
<1>5. Len(e) <= Len(a)
  BY <1>2 DEF QueueOK
<1>6. 1 \in 1 .. Len(e) /\ Len(a) - Len(e) + 1 \in 1 .. Len(a)
  BY <1>3, <1>4, <1>5
<1>7. e[1] = a[Len(a) - Len(e) + 1].at /\ a[Len(a) - Len(e) + 1].at <= now
  BY <1>2, <1>6 DEF QueueOK
<1>8. e[1] \in Nat
  BY <1>1, <1>6, ElementOfSeq
<1>9. now - e[1] <= W
  BY <1>1, <1>4
<1> QED BY <1>1, <1>3, <1>4, <1>5, <1>7, <1>8, <1>9 DEF e

-----------------------------------------------------------------------------
(* One lemma per action.                                                   *)

LEMMA AdmitIInv == ASSUME IInv, NEW s \in Sessions, Admit(s) PROVE IInv'
<1> DEFINE k == Key(s)
           e == Evicted(queue[k])
           x == [at |-> now, by |-> s]
<1>1. /\ k \in Ips /\ now \in Nat /\ queue[k] \in Seq(Nat)
      /\ admitted[k] \in Seq(Admissions)
      /\ QueueOK(queue[k], admitted[k], now) /\ BoundOK(admitted[k])
  BY SessionsAssumption, WindowBoundIs DEF IInv, TypeOK, QueueInv, Key, Times
<1>2. /\ ~Full(e)
      /\ queue' = [queue EXCEPT ![k] = Append(e, now)]
      /\ admitted' = [admitted EXCEPT ![k] = Append(admitted[k], x)]
      /\ told' = [told EXCEPT ![s] = NotTold]
      /\ now' = now
  BY DEF Admit
<1>3. e \in Seq(Nat) /\ Len(e) \in Nat /\ QueueOK(e, admitted[k], now)
  BY <1>1, EvictedFacts, EvictKeeps
<1> HIDE DEF e, k
<1>4. /\ QueueOK(Append(e, now), Append(admitted[k], x), now)
      /\ BoundOK(Append(admitted[k], x))
  BY <1>1, <1>2, <1>3, AppendKeeps, AdmitBound
<1>5. /\ x \in Admissions /\ Len(admitted[k]) \in Nat
      /\ Append(e, now) \in Seq(Nat) /\ Len(Append(e, now)) = Len(e) + 1
      /\ Append(admitted[k], x) \in Seq(Admissions)
      /\ Len(Append(admitted[k], x)) = Len(admitted[k]) + 1
      /\ \A i \in 1 .. Len(admitted[k]) : Append(admitted[k], x)[i] = admitted[k][i]
  BY <1>1, <1>3, AppendProperties, LenProperties DEF Admissions, Times
<1> HIDE DEF x
<1>6. TypeOK'
  <2>1. Len(Append(e, now)) <= MaxRequests
    BY <1>2, <1>3, <1>5, WindowNat DEF Full
  <2> QED BY <1>1, <1>2, <1>5, <2>1 DEF IInv, TypeOK, Times, Refusals, NotTold
<1>7. QueueInv'
  BY <1>1, <1>2, <1>4 DEF IInv, QueueInv, TypeOK
<1>8. WindowBound'
  <2>1. \A h \in Ips : BoundOK(admitted'[h])
    BY <1>1, <1>2, <1>4, WindowBoundIs DEF IInv, TypeOK
  <2> QED BY <2>1 DEF WindowBound, BoundOK, W
<1>9. ToldInv'
  <2> SUFFICES ASSUME NEW z \in Sessions PROVE ToldOK(told'[z], admitted'[Key(z)])
    BY DEF ToldInv, Key
  <2>1. ToldOK(told[z], admitted[Key(z)]) /\ told[z] \in Refusals /\ Key(z) \in Ips
    BY SessionsAssumption DEF IInv, ToldInv, TypeOK, Key
  <2>2. CASE z = s
    BY <1>2, <2>2 DEF ToldOK, NotTold, IInv, TypeOK
  <2>3. CASE z # s /\ Key(z) # k
    BY <1>2, <2>1, <2>3 DEF IInv, TypeOK
  <2>4. CASE z # s /\ Key(z) = k
    <3>1. told'[z] = told[z] /\ admitted'[Key(z)] = Append(admitted[k], x)
      BY <1>1, <1>2, <2>4 DEF IInv, TypeOK
    <3>2. told[z].refused => told[z].seen <= Len(admitted[k])
      BY <2>1, <2>4 DEF ToldOK
    <3>3. told[z].seen \in Nat
      BY <2>1 DEF Refusals
    <3>4. told[z].refused => /\ told[z].seen <= Len(Append(admitted[k], x))
                             /\ told[z].seen # Len(Append(admitted[k], x))
      BY <1>5, <3>2, <3>3
    <3> QED BY <3>1, <3>4 DEF ToldOK
  <2> QED BY <2>2, <2>3, <2>4
<1> QED BY <1>6, <1>7, <1>8, <1>9 DEF IInv

LEMMA RefuseIInv == ASSUME IInv, NEW s \in Sessions, Refuse(s) PROVE IInv'
<1> DEFINE k == Key(s)
           e == Evicted(queue[k])
           a == admitted[k]
           x == W - (now - e[1])
           r == [refused |-> TRUE, until |-> now + RetryAfter(e) * Hz, seen |-> Len(a)]
<1>1. /\ k \in Ips /\ now \in Nat /\ queue[k] \in Seq(Nat)
      /\ a \in Seq(Admissions)
      /\ QueueOK(queue[k], a, now) /\ Len(queue[k]) <= MaxRequests
  BY SessionsAssumption DEF IInv, TypeOK, QueueInv, Key, Times
<1>2. /\ Full(e)
      /\ queue' = [queue EXCEPT ![k] = e]
      /\ admitted' = admitted
      /\ told' = [told EXCEPT ![s] = r]
      /\ now' = now
  BY DEF Refuse
<1>3. QueueOK(e, a, now)
  BY <1>1, EvictKeeps
<1>4. /\ e \in Seq(Nat) /\ Len(e) = MaxRequests
      /\ Len(a) >= MaxRequests /\ Len(a) \in Nat
      /\ a[Len(a) - MaxRequests + 1].at = e[1]
      /\ e[1] \in Nat /\ e[1] <= now /\ now - e[1] <= W
  BY <1>1, <1>2, RefuseFacts, LenProperties
<1>5. x \in Nat
  BY <1>1, <1>4, WindowNat
<1>6. RetryAfter(e) * Hz > x /\ RetryAfter(e) * Hz \in Nat
  BY <1>5, RetryIsEnough DEF RetryAfter, W
<1>7. now + RetryAfter(e) * Hz \in Nat /\ (now + RetryAfter(e) * Hz) - e[1] > W
  BY <1>1, <1>4, <1>5, <1>6, WindowNat
<1> HIDE DEF e, k, a
<1>8. r \in Refusals
  BY <1>4, <1>7 DEF Refusals, Times
<1>9. ToldOK(r, a)
  <2> DEFINE u == now + RetryAfter(e) * Hz
  <2>0. r.seen = Len(a) /\ r.until = u
    OBVIOUS
  <2>1. r.seen = Len(a) /\ r.until - a[Len(a) - MaxRequests + 1].at > W
    <3>1. u - e[1] > W
      BY <1>7
    <3>2. u - a[Len(a) - MaxRequests + 1].at > W
      BY <1>4, <3>1
    <3> HIDE DEF r, u
    <3> QED BY <2>0, <3>2
  <2>2. r.seen <= Len(a)
    BY <1>4, <2>1
  <2> HIDE DEF r
  <2> QED BY <1>4, <2>1, <2>2 DEF ToldOK
<1> HIDE DEF r
<1>10. TypeOK'
  BY <1>1, <1>2, <1>4, <1>8, WindowNat DEF IInv, TypeOK, Times
<1>11. QueueInv'
  BY <1>1, <1>2, <1>3 DEF IInv, QueueInv, TypeOK, a
<1>12. WindowBound'
  BY <1>2 DEF IInv, WindowBound
<1>13. ToldInv'
  BY <1>2, <1>9 DEF IInv, ToldInv, TypeOK, Key, a, k
<1> QED BY <1>10, <1>11, <1>12, <1>13 DEF IInv

LEMMA ResetIInv == ASSUME IInv, NEW k \in Ips, Reset(k) PROVE IInv'
<1>1. /\ queue' = [queue EXCEPT ![k] = << >>]
      /\ admitted' = [admitted EXCEPT ![k] = << >>]
      /\ told' = [s \in Sessions |-> IF Key(s) = k THEN NotTold ELSE told[s]]
      /\ now' = now /\ now \in Nat
  BY DEF Reset, IInv, TypeOK, Times
<1>2. << >> \in Seq(Times) /\ << >> \in Seq(Admissions) /\ Len(<< >>) = 0
  BY EmptySeq
<1>3. QueueOK(<< >>, << >>, now)
  BY <1>2 DEF QueueOK
<1>4. BoundOK(<< >>)
  BY <1>2 DEF BoundOK
<1>5. NotTold \in Refusals /\ ~NotTold.refused
  BY DEF NotTold, Refusals, Times
<1> HIDE DEF NotTold
<1>6. TypeOK'
  BY <1>1, <1>2, <1>5, WindowNat DEF IInv, TypeOK
<1>7. QueueInv'
  BY <1>1, <1>3 DEF IInv, QueueInv, TypeOK
<1>8. WindowBound'
  <2>1. \A h \in Ips : BoundOK(admitted'[h])
    BY <1>1, <1>4, WindowBoundIs DEF IInv, TypeOK
  <2> QED BY <2>1 DEF WindowBound, BoundOK, W
<1>9. ToldInv'
  <2> SUFFICES ASSUME NEW z \in Sessions PROVE ToldOK(told'[z], admitted'[Key(z)])
    BY DEF ToldInv, Key
  <2>1. CASE Key(z) = k
    BY <1>1, <1>5, <2>1 DEF ToldOK
  <2>2. CASE Key(z) # k
    BY <1>1, <2>2 DEF IInv, ToldInv, TypeOK
  <2> QED BY <2>1, <2>2
<1> QED BY <1>6, <1>7, <1>8, <1>9 DEF IInv

LEMMA TickIInv == ASSUME IInv, Tick PROVE IInv'
<1>1. /\ now' = now + 1 /\ now \in Nat
      /\ queue' = queue /\ admitted' = admitted /\ told' = told
  BY DEF Tick, IInv, TypeOK, Times
<1>2. TypeOK'
  BY <1>1 DEF IInv, TypeOK, Times
<1>3. QueueInv'
  <2> SUFFICES ASSUME NEW k \in Ips PROVE QueueOK(queue[k], admitted[k], now')
    BY <1>1 DEF QueueInv
  <2>1. /\ queue[k] \in Seq(Nat) /\ admitted[k] \in Seq(Admissions)
        /\ QueueOK(queue[k], admitted[k], now)
    BY DEF IInv, TypeOK, QueueInv, Times
  <2>2. now' \in Nat /\ now <= now'
    BY <1>1
  <2> QED BY <1>1, <2>1, <2>2, TickKeeps
<1>4. WindowBound' /\ ToldInv'
  BY <1>1 DEF IInv, WindowBound, ToldInv, Key
<1> QED BY <1>2, <1>3, <1>4 DEF IInv

LEMMA NextIInv == ASSUME IInv, [Next]_vars PROVE IInv'
<1>1. CASE \E s \in Sessions : Admit(s) \/ Refuse(s)
  BY <1>1, AdmitIInv, RefuseIInv
<1>2. CASE \E k \in Ips : Reset(k)
  BY <1>2, ResetIInv
<1>3. CASE Tick
  BY <1>3, TickIInv
<1>4. CASE UNCHANGED vars
  BY <1>4 DEF vars, IInv, TypeOK, QueueInv, WindowBound, ToldInv, Key
<1> QED BY <1>1, <1>2, <1>3, <1>4 DEF Next

-----------------------------------------------------------------------------
(* What the two action properties say of one step.                         *)

\* A step that refuses s is Refuse(s), and told'[s] says so.
LEMMA OnlyRefuse ==
  ASSUME IInv, [Next]_vars, NEW s \in Sessions, told'[s] # told[s], told'[s].refused
  PROVE  Refuse(s)
<1>1. told \in [Sessions -> Refusals] /\ ~NotTold.refused
  BY DEF IInv, TypeOK, NotTold
<1> HIDE DEF NotTold
<1>2. ASSUME NEW z \in Sessions, Admit(z) PROVE FALSE
  BY <1>1, <1>2 DEF Admit
<1>3. ASSUME NEW z \in Sessions, Refuse(z) PROVE z = s
  BY <1>1, <1>3 DEF Refuse
<1>4. ASSUME NEW k \in Ips, Reset(k) PROVE FALSE
  BY <1>1, <1>4 DEF Reset
<1>5. ~Tick /\ ~UNCHANGED vars
  BY DEF Tick, vars
<1> QED BY <1>2, <1>3, <1>4, <1>5 DEF Next

\* The last MaxRequests admitted requests are in the window when s is refused.
LEMMA RefuseIsSpent ==
  ASSUME IInv, NEW s \in Sessions, Refuse(s)
  PROVE  LET a == admitted[Key(s)]
         IN  /\ Len(a) >= MaxRequests
             /\ \A i \in Len(a) - MaxRequests + 1 .. Len(a) : now - a[i].at <= W
<1> DEFINE q == queue[Key(s)]
           a == admitted[Key(s)]
           o == a[Len(a) - MaxRequests + 1].at
<1>1. /\ now \in Nat /\ q \in Seq(Nat) /\ a \in Seq(Admissions)
      /\ QueueOK(q, a, now) /\ Len(q) <= MaxRequests
  BY SessionsAssumption DEF IInv, TypeOK, QueueInv, Key, Times
<1>2. Full(Evicted(q))
  BY DEF Refuse
<1> HIDE DEF q, a
<1>3. Len(a) >= MaxRequests /\ o \in Nat /\ o <= now /\ now - o <= W
  BY <1>1, <1>2, RefuseFacts
<1>4. ASSUME NEW i \in Len(a) - MaxRequests + 1 .. Len(a)
      PROVE  now - a[i].at <= W
  <2>1. Len(a) \in Nat /\ \A j \in 1 .. Len(a) : a[j] \in Admissions
    BY <1>1, LenProperties, ElementOfSeq
  <2>2. /\ i \in 1 .. Len(a) /\ Len(a) - MaxRequests + 1 \in 1 .. Len(a)
        /\ Len(a) - MaxRequests + 1 <= i
    BY <1>3, <2>1, WindowNat
  <2>3. o <= a[i].at
    BY <1>1, <2>2 DEF QueueOK
  <2>4. a[i].at \in Nat
    BY <2>1, <2>2 DEF Admissions, Times
  <2> QED BY <1>1, <1>3, <2>3, <2>4, WindowNat
<1> QED BY <1>3, <1>4 DEF a

LEMMA SpentStep ==
  ASSUME IInv, [Next]_vars
  PROVE  \A s \in Sessions :
           (told'[s] # told[s] /\ told'[s].refused) =>
             LET a == admitted[Key(s)]
             IN  /\ Len(a) >= MaxRequests
                 /\ \A i \in Len(a) - MaxRequests + 1 .. Len(a) :
                      now - a[i].at <= Window * Hz
BY OnlyRefuse, RefuseIsSpent DEF W

LEMMA RetryStep ==
  ASSUME IInv, [Next]_vars
  PROVE  \A s \in Sessions :
           (/\ told[s].refused
            /\ now >= told[s].until
            /\ told[s].seen = Len(admitted[Key(s)]))
           => told'[s] = told[s] \/ ~told'[s].refused
<1> SUFFICES ASSUME NEW s \in Sessions, told[s].refused, now >= told[s].until,
                    told[s].seen = Len(admitted[Key(s)]),
                    told'[s] # told[s], told'[s].refused
             PROVE  FALSE
  OBVIOUS
<1> DEFINE a == admitted[Key(s)]
           o == a[Len(a) - MaxRequests + 1].at
<1>1. Refuse(s)
  BY OnlyRefuse
<1>2. Len(a) >= MaxRequests /\ told[s].until - o > W
  BY DEF IInv, ToldInv, ToldOK
<1>3. /\ now \in Nat /\ queue[Key(s)] \in Seq(Nat) /\ a \in Seq(Admissions)
      /\ QueueOK(queue[Key(s)], a, now) /\ Len(queue[Key(s)]) <= MaxRequests
      /\ Full(Evicted(queue[Key(s)])) /\ told[s].until \in Nat
  BY <1>1, SessionsAssumption DEF IInv, TypeOK, QueueInv, Key, Times, Refusals, Refuse
<1> HIDE DEF a
<1>4. o \in Nat /\ now - o <= W
  BY <1>3, RefuseFacts
<1> HIDE DEF o
<1> QED BY <1>2, <1>3, <1>4, WindowNat

-----------------------------------------------------------------------------
(* The theorems.                                                           *)

LEMMA Invariant == Spec => []IInv
<1>1. Init => IInv
  BY InitIInv
<1>2. IInv /\ [Next]_vars => IInv'
  BY NextIInv
<1> QED BY <1>1, <1>2, PTL DEF Spec

\* The state of the limiter keeps its type, and no queue of rate_limit.py ever
\* holds more than max_requests times.
THEOREM TypeCorrect == Spec => []TypeOK
<1>1. IInv => TypeOK
  BY DEF IInv
<1> QED BY <1>1, Invariant, PTL

\* No window of window_seconds, wherever it begins, sees more than max_requests
\* requests of a key admitted, although check() forgets those it has evicted.
THEOREM WindowHolds == Spec => []WindowBound
<1>1. IInv => WindowBound
  BY DEF IInv
<1> QED BY <1>1, Invariant, PTL

\* check() refuses a request only when the limit is really used up.
THEOREM NeverTooStrict == Spec => RefusedOnlyWhenSpent
<1>1. IInv /\ [Next]_vars =>
        [ \A s \in Sessions :
            (told'[s] # told[s] /\ told'[s].refused) =>
              LET a == admitted[Key(s)]
              IN  /\ Len(a) >= MaxRequests
                  /\ \A i \in Len(a) - MaxRequests + 1 .. Len(a) :
                       now - a[i].at <= Window * Hz ]_vars
  BY SpentStep
<1> QED BY <1>1, Invariant, PTL DEF Spec, RefusedOnlyWhenSpent

\* Retry-After is enough: who waits for it is not refused again unless somebody
\* else's request from the same address was admitted in the meantime.
THEOREM RetryAfterHolds == Spec => RetryAfterSuffices
<1>1. IInv /\ [Next]_vars =>
        [ \A s \in Sessions :
            (/\ told[s].refused
             /\ now >= told[s].until
             /\ told[s].seen = Len(admitted[Key(s)]))
            => told'[s] = told[s] \/ ~told'[s].refused ]_vars
  BY RetryStep
<1> QED BY <1>1, Invariant, PTL DEF Spec, RetryAfterSuffices
=============================================================================
