-------------------------- MODULE RateLimiter_proofs --------------------------
EXTENDS RateLimiter, FiniteSetTheorems, TLAPS

USE DEF Decided

(***************************************************************************)
(* The clock and Retry-After                                               *)
(***************************************************************************)
(* The seconds left, cut off, and one more are longer than the time left.  *)
LEMMA SecondsLeft ==
    ASSUME NEW t \in Nat
    PROVE  t \div Second \in Nat /\ t < (t \div Second + 1) * Second
<1>1. Second \in Nat /\ Second > 0
  BY TimeAssumption
<1> QED
  BY <1>1

(***************************************************************************)
(* The critical section                                                    *)
(***************************************************************************)
(* The window a request is counted in is open at its reading.              *)
LEMMA CountedWindow ==
    ASSUME NEW window \in Window \cup {None}, NEW now \in 0 .. MaxTime
    PROVE  /\ Counted(window, now) \in Window
           /\ Counted(window, now).count >= 1
           /\ now < Counted(window, now).start + Minute
           /\ \/ Closed(window, now) /\ Counted(window, now) = [start |-> now, count |-> 1]
              \/ /\ ~Closed(window, now)
                 /\ Counted(window, now).start = window.start
                 /\ Counted(window, now).count = window.count + 1
<1>1. MaxTime \in Nat /\ Minute \in Nat /\ Minute > 0
  BY TimeAssumption
<1>2. CASE Closed(window, now)
  BY <1>1, <1>2 DEF Counted, Window
<1>3. CASE ~Closed(window, now)
  <2>1. window \in Window
    BY <1>3 DEF Closed
  <2> QED
    BY <1>1, <1>3, <2>1 DEF Counted, Closed, Window
<1> QED
  BY <1>2, <1>3

(* Forgetting takes stale windows only, and above the cap all of them.     *)
LEMMA PrunedMap ==
    ASSUME NEW map \in [Keys -> Window \cup {None}], NEW now \in 0 .. MaxTime
    PROVE  /\ Pruned(map, now) \in [Keys -> Window \cup {None}]
           /\ \A k \in Keys :
                 \/ Pruned(map, now)[k] = map[k]
                 \/ /\ map[k] # None /\ Stale(map[k], now)
                    /\ Pruned(map, now)[k] = None
           /\ Cardinality(Held(Pruned(map, now))) > Cap =>
                 \A k \in Held(Pruned(map, now)) : ~Stale(Pruned(map, now)[k], now)
<1> DEFINE P == Pruned(map, now)
<1>1. CASE Cardinality(Held(map)) > Cap
  <2>1. P = [k \in Keys |-> IF map[k] # None /\ Stale(map[k], now) THEN None ELSE map[k]]
    BY <1>1 DEF Pruned
  <2> HIDE DEF P
  <2> QED
    BY <2>1 DEF Held, P
<1>2. CASE ~(Cardinality(Held(map)) > Cap)
  <2>1. P = map
    BY <1>2 DEF Pruned
  <2> QED
    BY <1>2, <2>1
<1> QED
  BY <1>1, <1>2

(* What the critical section of r does to the map: it stores the window r  *)
(* is counted in, and forgets windows of other keys that are old.          *)
LEMMA DecideStep ==
    ASSUME TypeOK, NEW r \in Requests, WaitingInv(r), Decide(r)
    PROVE  \E w \in Window :
           /\ w = Counted(windows[req[r].key], req[r].at)
           /\ req' = [req EXCEPT ![r] =
                        [req[r] EXCEPT !.pc = "decided", !.window = w,
                                       !.allowed = Allowed(w),
                                       !.retryAfter = RetryAfter(w, req[r].at)]]
           /\ windows' \in [Keys -> Window \cup {None}]
           /\ windows'[req[r].key] = w
           /\ \A k \in Keys \ {req[r].key} :
                 \/ windows'[k] = windows[k]
                 \/ /\ windows[k] # None /\ windows'[k] = None
                    /\ windows[k].start + 2 * Minute < req[r].at
           /\ Cardinality(Held(windows')) > Cap =>
                 \A k \in Held(windows') :
                    req[r].at <= windows'[k].start + 2 * Minute
           /\ req[r].key \in Keys /\ req[r].at \in 0 .. MaxTime
           /\ clock' = clock
<1> DEFINE k == req[r].key
           now == req[r].at
           w == Counted(windows[k], now)
           map == [windows EXCEPT ![k] = w]
<1>1. /\ k \in Keys /\ now \in 0 .. MaxTime
      /\ windows \in [Keys -> Window \cup {None}]
      /\ MaxTime \in Nat /\ Minute \in Nat /\ Minute > 0
  BY TimeAssumption DEF TypeOK, Request, WaitingInv, Decide
<1>2. w \in Window /\ now < w.start + Minute
  BY <1>1, CountedWindow
<1>3. map \in [Keys -> Window \cup {None}] /\ map[k] = w
  BY <1>1, <1>2
<1>4. windows' = Pruned(map, now) /\ clock' = clock
  BY DEF Decide
<1>5. req' = [req EXCEPT ![r] =
                [req[r] EXCEPT !.pc = "decided", !.window = w, !.allowed = Allowed(w),
                               !.retryAfter = RetryAfter(w, now)]]
  BY DEF Decide, Become
<1> HIDE DEF w, map
<1>6. /\ windows' \in [Keys -> Window \cup {None}]
      /\ \A j \in Keys :
            \/ windows'[j] = map[j]
            \/ map[j] # None /\ Stale(map[j], now) /\ windows'[j] = None
      /\ Cardinality(Held(windows')) > Cap =>
            \A j \in Held(windows') : ~Stale(windows'[j], now)
  BY <1>1, <1>3, <1>4, PrunedMap
<1>7. windows'[k] = w
  <2>1. ~Stale(w, now)
    BY <1>1, <1>2 DEF Stale, Window
  <2> QED
    BY <1>1, <1>3, <1>6, <2>1
<1>8. ASSUME NEW j \in Keys \ {k}
      PROVE  \/ windows'[j] = windows[j]
             \/ /\ windows[j] # None /\ windows'[j] = None
                /\ windows[j].start + 2 * Minute < now
  <2>1. map[j] = windows[j]
    BY <1>1 DEF map
  <2>2. windows[j] \in Window \cup {None}
    BY <1>1
  <2> QED
    BY <1>1, <1>6, <2>1, <2>2 DEF Stale, Window
<1>9. ASSUME Cardinality(Held(windows')) > Cap, NEW j \in Held(windows')
      PROVE  now <= windows'[j].start + 2 * Minute
  <2>1. windows'[j] \in Window
    BY <1>6 DEF Held
  <2> QED
    BY <1>1, <1>6, <1>9, <2>1 DEF Stale, Window
<1> QED
  BY <1>1, <1>2, <1>4, <1>5, <1>6, <1>7, <1>8, <1>9 DEF w

----------------------------------------------------------------------------
(***************************************************************************)
(* The invariant, one lemma per action                                     *)
(***************************************************************************)
LEMMA InvInit == Init => IInv
<1> SUFFICES ASSUME Init PROVE IInv
  OBVIOUS
<1> USE DEF Init
<1>1. TypeOK
  BY TimeAssumption DEF TypeOK, Request, Idle
<1>2. \A r \in Requests : req[r].pc = "idle"
  BY DEF Idle
<1>3. \A r \in Requests : WaitingInv(r) /\ DecidedInv(r) /\ LatestInv(r)
  BY <1>2 DEF WaitingInv, DecidedInv, LatestInv
<1>4. CountsDiffer /\ CountsFrom1 /\ WindowsApart
  BY <1>2 DEF CountsDiffer, CountsFrom1, WindowsApart, SameWindow
<1>5. HeldInv /\ KeepsRecentOnly
  BY DEF HeldInv, KeepsRecentOnly, Held
<1> QED
  BY <1>1, <1>3, <1>4, <1>5 DEF IInv

LEMMA InvTick == IInv /\ Tick => IInv'
<1> SUFFICES ASSUME IInv, Tick PROVE IInv'
  OBVIOUS
<1>1. /\ clock \in 0 .. MaxTime /\ clock' \in 0 .. MaxTime /\ clock' = clock + 1
      /\ windows' = windows /\ req' = req
  BY TimeAssumption DEF IInv, TypeOK, Tick
<1>2. windows \in [Keys -> Window \cup {None}] /\ req \in [Requests -> Request]
  BY DEF IInv, TypeOK
<1>3. /\ MaxTime \in Nat /\ Minute \in Nat /\ Stall \in Nat
  BY TimeAssumption
<1>4. TypeOK'
  BY <1>1 DEF IInv, TypeOK
<1>5. ASSUME NEW r \in Requests PROVE WaitingInv(r)'
  <2>1. req[r].at \in 0 .. MaxTime
    BY <1>2 DEF Request
  <2> QED
    BY <1>1, <1>3, <2>1 DEF IInv, Tick, WaitingInv
<1>6. ASSUME NEW r \in Requests PROVE DecidedInv(r)'
  <2>1. req[r].at \in 0 .. MaxTime
    BY <1>2 DEF Request
  <2> QED
    BY <1>1, <1>3, <2>1 DEF IInv, DecidedInv, Window, RetryAfter
<1>7. ASSUME NEW r \in Requests PROVE LatestInv(r)'
  BY <1>1, <1>2, <1>3 DEF IInv, LatestInv, DecidedInv, Window
<1>8. HeldInv'
  BY <1>1, <1>2 DEF IInv, HeldInv, Held, Window
<1>9. (CountsDiffer /\ CountsFrom1 /\ WindowsApart /\ KeepsRecentOnly)'
  BY <1>1 DEF IInv, CountsDiffer, CountsFrom1, SameWindow, WindowsApart,
              KeepsRecentOnly, Held
<1> QED
  BY <1>4, <1>5, <1>6, <1>7, <1>8, <1>9 DEF IInv

LEMMA InvArrive ==
    ASSUME IInv, NEW r \in Requests, Arrive(r)
    PROVE  IInv'
<1>1. PICK k \in Keys :
        req' = [req EXCEPT ![r] =
                  [req[r] EXCEPT !.pc = "waiting", !.key = k, !.at = clock]]
  BY DEF Arrive, Become
<1>2. /\ clock' = clock /\ windows' = windows /\ req[r].pc = "idle"
      /\ req \in [Requests -> Request] /\ clock \in 0 .. MaxTime
      /\ Stall \in Nat /\ MaxTime \in Nat
  BY TimeAssumption DEF Arrive, IInv, TypeOK
<1>3. \A q \in Requests \ {r} : req'[q] = req[q]
  BY <1>1, <1>2
<1>4. /\ req'[r] = [req[r] EXCEPT !.pc = "waiting", !.key = k, !.at = clock]
      /\ req'[r] \in Request /\ req'[r].pc = "waiting"
      /\ req'[r].key = k /\ req'[r].at = clock
  BY <1>1, <1>2 DEF Request
<1>5. TypeOK'
  BY <1>1, <1>2, <1>4 DEF IInv, TypeOK
<1>6. \A q \in Requests : Decided(q)' <=> Decided(q)
  BY <1>2, <1>3, <1>4
<1>7. \A q \in Requests : Decided(q) => req'[q] = req[q]
  BY <1>2, <1>3
<1> HIDE DEF Decided
<1>8. ASSUME NEW q \in Requests PROVE WaitingInv(q)'
  <2>1. CASE q = r
    <3>1. clock <= clock /\ clock <= clock + Stall
      BY <1>2
    <3>2. WaitingInv(r)'
      BY <1>2, <1>4, <3>1, Zenon DEF WaitingInv
    <3> QED
      BY <2>1, <3>2
  <2>2. CASE q # r
    BY <1>2, <1>3, <2>2 DEF IInv, WaitingInv
  <2> QED
    BY <2>1, <2>2
<1>9. ASSUME NEW q \in Requests PROVE (DecidedInv(q) /\ LatestInv(q))'
  BY <1>2, <1>6, <1>7 DEF IInv, DecidedInv, LatestInv, RetryAfter
<1>10. (CountsDiffer /\ CountsFrom1 /\ WindowsApart)'
  BY <1>6, <1>7 DEF IInv, CountsDiffer, CountsFrom1, WindowsApart, SameWindow
<1>11. (HeldInv /\ KeepsRecentOnly)'
  BY <1>2, <1>6, <1>7 DEF IInv, HeldInv, KeepsRecentOnly, Held
<1> QED
  BY <1>5, <1>8, <1>9, <1>10, <1>11 DEF IInv

(* Whoever was decided before r in r's key is in an earlier window, a      *)
(* minute before, or was counted before r in the same one.                 *)
LEMMA DecidedBefore ==
    ASSUME IInv, NEW r \in Requests, Decide(r),
           NEW q \in Requests, Decided(q), req[q].key = req[r].key
    PROVE  LET w == Counted(windows[req[r].key], req[r].at)
               mine == req[q].window IN
           \/ mine.start + Minute <= w.start
           \/ mine.start = w.start /\ mine.count < w.count
<1> DEFINE k == req[r].key
           now == req[r].at
           held == windows[k]
           w == Counted(held, now)
           mine == req[q].window
<1>1. /\ k \in Keys /\ now \in 0 .. MaxTime /\ held \in Window \cup {None}
      /\ mine \in Window /\ now <= clock /\ clock <= now + Stall /\ clock \in 0 .. MaxTime
  BY DEF IInv, TypeOK, Request, WaitingInv, DecidedInv, Decide
<1>2. /\ MaxTime \in Nat /\ Minute \in Nat /\ Minute > 0 /\ Stall \in Nat
      /\ Stall <= Minute
  BY TimeAssumption
<1>3. /\ w \in Window
      /\ \/ Closed(held, now) /\ w = [start |-> now, count |-> 1]
         \/ /\ ~Closed(held, now) /\ w.start = held.start /\ w.count = held.count + 1
  BY <1>1, CountedWindow
<1>4. /\ held = None => mine.start + 2 * Minute < clock
      /\ held # None => \/ held.start = mine.start /\ mine.count <= held.count
                        \/ mine.start + Minute <= held.start
  BY DEF IInv, LatestInv
<1> HIDE DEF w, mine, held
<1>5. CASE held = None
  <2>1. w.start = now
    BY <1>3, <1>5 DEF Closed
  <2> QED
    BY <1>1, <1>2, <1>4, <1>5, <2>1 DEF Window, w, mine, held
<1>6. CASE held # None
  <2>1. held \in Window
    BY <1>1, <1>6
  <2>2. CASE Closed(held, now)
    <3>1. w.start = now /\ held.start + Minute <= now
      BY <1>2, <1>3, <1>6, <2>1, <2>2, <1>1 DEF Closed, Window
    <3> QED
      BY <1>1, <1>2, <1>4, <1>6, <2>1, <3>1 DEF Window, w, mine, held
  <2>3. CASE ~Closed(held, now)
    BY <1>1, <1>2, <1>3, <1>4, <1>6, <2>1, <2>3 DEF Window, w, mine, held
  <2> QED
    BY <2>2, <2>3
<1> QED
  BY <1>5, <1>6

LEMMA InvDecide ==
    ASSUME IInv, NEW r \in Requests, Decide(r)
    PROVE  IInv'
<1> DEFINE k == req[r].key
           now == req[r].at
<1>1. TypeOK /\ WaitingInv(r) /\ req[r].pc = "waiting"
  BY DEF IInv, Decide
<1>2. PICK w \in Window :
         /\ w = Counted(windows[k], now)
         /\ req' = [req EXCEPT ![r] =
                      [req[r] EXCEPT !.pc = "decided", !.window = w,
                                     !.allowed = Allowed(w),
                                     !.retryAfter = RetryAfter(w, now)]]
         /\ windows' \in [Keys -> Window \cup {None}]
         /\ windows'[k] = w
         /\ \A j \in Keys \ {k} :
               \/ windows'[j] = windows[j]
               \/ /\ windows[j] # None /\ windows'[j] = None
                  /\ windows[j].start + 2 * Minute < now
         /\ Cardinality(Held(windows')) > Cap =>
               \A j \in Held(windows') : now <= windows'[j].start + 2 * Minute
         /\ k \in Keys /\ now \in 0 .. MaxTime
         /\ clock' = clock
  BY <1>1, DecideStep
<1>3. /\ req \in [Requests -> Request] /\ windows \in [Keys -> Window \cup {None}]
      /\ clock \in 0 .. MaxTime
      /\ MaxTime \in Nat /\ Minute \in Nat /\ Minute > 0 /\ Stall \in Nat
  BY <1>1, TimeAssumption DEF TypeOK
<1>4. now <= clock /\ clock <= now + Stall
  BY <1>1 DEF WaitingInv
<1>5. /\ w.count >= 1 /\ now < w.start + Minute
      /\ \/ w.start = now /\ w.count = 1
         \/ /\ windows[k] \in Window
            /\ w.start = windows[k].start /\ w.count = windows[k].count + 1
  <2>1. windows[k] \in Window \cup {None}
    BY <1>2, <1>3
  <2>2. Counted(windows[k], now) = w
    BY <1>2
  <2>3. CASE Closed(windows[k], now)
    BY <1>2, <2>1, <2>2, <2>3, CountedWindow
  <2>4. CASE ~Closed(windows[k], now)
    <3>1. windows[k] \in Window
      BY <2>1, <2>4 DEF Closed
    <3> QED
      BY <1>2, <2>1, <2>2, <2>4, <3>1, CountedWindow
  <2> QED
    BY <2>3, <2>4
<1>6. /\ req'[r] = [req[r] EXCEPT !.pc = "decided", !.window = w,
                                  !.allowed = Allowed(w),
                                  !.retryAfter = RetryAfter(w, now)]
      /\ \A q \in Requests \ {r} : req'[q] = req[q]
  BY <1>2, <1>3
<1>7. /\ req'[r].pc = "decided" /\ req'[r].key = k /\ req'[r].at = now
      /\ req'[r].window = w /\ req'[r].allowed = Allowed(w)
      /\ req'[r].retryAfter = RetryAfter(w, now)
  BY <1>3, <1>6 DEF Request
<1>8. \A q \in Requests : Decided(q)' <=> Decided(q) \/ q = r
  BY <1>1, <1>6, <1>7
<1>9. \A q \in Requests : Decided(q) => q # r /\ req'[q] = req[q]
  BY <1>1, <1>6
<1>10. ASSUME NEW q \in Requests, Decided(q), req[q].key = k
       PROVE  \/ req[q].window.start + Minute <= w.start
              \/ req[q].window.start = w.start /\ req[q].window.count < w.count
  BY <1>2, <1>10, DecidedBefore
<1>11. \A q \in Requests :
          Decided(q) => req[q].key \in Keys /\ req[q].window \in Window
  BY DEF IInv, DecidedInv
<1>12. w.start \in Nat /\ w.count \in Nat /\ now \in Nat /\ w.start <= clock
  <2>1. windows[k] \in Window => windows[k].start <= clock
    BY <1>2, NoneAssumption DEF IInv, HeldInv, Held
  <2> QED
    BY <1>2, <1>3, <1>4, <1>5, <2>1 DEF Window
<1> HIDE DEF Decided, k, now
<1>13. TypeOK'
  <2>1. RetryAfter(w, now) \in Nat
    <3>1. w.start + Minute - now \in Nat
      BY <1>3, <1>5, <1>12
    <3> QED
      BY <3>1, SecondsLeft DEF RetryAfter
  <2>2. Allowed(w) \in BOOLEAN
    BY DEF Allowed
  <2>3. req'[r] \in Request
    <3>1. req'[r] = [pc |-> "decided", key |-> k, at |-> now, window |-> w,
                     allowed |-> Allowed(w), retryAfter |-> RetryAfter(w, now)]
      <4>1. req[r] \in Request
        BY <1>3
      <4> QED
        BY <1>6, <4>1 DEF Request, k, now
    <3>2. k \in Keys \cup {None} /\ now \in 0 .. MaxTime /\ w \in Window \cup {None}
      BY <1>2
    <3>3. "decided" \in {"idle", "waiting", "decided"}
      OBVIOUS
    <3> QED
      BY <2>1, <2>2, <3>1, <3>2, <3>3 DEF Request
  <2>4. req' \in [Requests -> Request]
    BY <1>2, <1>3, <1>6, <2>3
  <2> QED
    BY <1>2, <1>3, <2>4 DEF TypeOK
<1>14. ASSUME NEW q \in Requests PROVE WaitingInv(q)'
  <2>1. CASE q = r
    BY <1>7, <2>1 DEF WaitingInv
  <2>2. CASE q # r
    BY <1>2, <1>6, <2>2 DEF IInv, WaitingInv
  <2> QED
    BY <2>1, <2>2
<1>15. ASSUME NEW q \in Requests PROVE DecidedInv(q)'
  <2>1. CASE q = r
    <3>1. DecidedInv(r)'
      BY <1>2, <1>4, <1>5, <1>7, <1>12 DEF DecidedInv, Allowed, RetryAfter
    <3> QED
      BY <2>1, <3>1
  <2>2. CASE q # r
    BY <1>2, <1>6, <1>8, <2>2 DEF IInv, DecidedInv, RetryAfter
  <2> QED
    BY <2>1, <2>2
<1>16. ASSUME NEW q \in Requests, Decided(q)' PROVE LatestInv(q)'
  <2>1. CASE q = r
    <3>1. w # None
      BY <1>2, NoneAssumption
    <3>2. LatestInv(r)'
      BY <1>2, <1>7, <1>12, <3>1 DEF LatestInv
    <3> QED
      BY <2>1, <3>2
  <2>2. CASE q # r
    <3>1. /\ Decided(q) /\ req'[q] = req[q]
          /\ req[q].key \in Keys /\ req[q].window \in Window
      BY <1>6, <1>8, <1>11, <1>16, <2>2
    <3>2. CASE req[q].key = k
      <4>1. w # None
        BY <1>2, NoneAssumption
      <4>2. \/ req[q].window.start + Minute <= w.start
            \/ req[q].window.start = w.start /\ req[q].window.count <= w.count
        BY <1>10, <1>12, <3>1, <3>2 DEF Window
      <4> QED
        BY <1>2, <3>1, <3>2, <4>1, <4>2 DEF LatestInv
    <3>3. CASE req[q].key # k
      <4> DEFINE j == req[q].key
                 mine == req[q].window
                 held == windows[j]
      <4>1. j \in Keys \ {k} /\ held \in Window \cup {None} /\ mine \in Window
        BY <1>3, <3>1, <3>3
      <4>2. /\ held = None => mine.start + 2 * Minute < clock
            /\ held # None => \/ held.start = mine.start /\ mine.count <= held.count
                              \/ mine.start + Minute <= held.start
        BY <3>1 DEF IInv, LatestInv
      <4>3. CASE windows'[j] = windows[j]
        BY <1>2, <3>1, <4>2, <4>3 DEF LatestInv
      <4>4. CASE /\ held # None /\ windows'[j] = None
                 /\ held.start + 2 * Minute < now
        <5>1. held \in Window
          BY <4>1, <4>4
        <5> HIDE DEF held, mine
        <5>2. mine.start + 2 * Minute < clock
          BY <1>3, <1>4, <1>12, <4>1, <4>2, <4>4, <5>1 DEF Window
        <5> QED
          BY <1>2, <3>1, <4>4, <5>2 DEF LatestInv, mine
      <4> QED
        BY <1>2, <4>1, <4>3, <4>4
    <3> QED
      BY <3>2, <3>3
  <2> QED
    BY <2>1, <2>2
<1>17. CountsDiffer'
  <2>1. ASSUME NEW q \in Requests, Decided(q), req[q].key = k,
               req[q].window.start = w.start
        PROVE  req[q].window.count # w.count
    BY <1>3, <1>10, <1>11, <1>12, <2>1 DEF Window
  <2>2. ASSUME NEW p \in Requests, NEW q \in Requests, SameWindow(p, q)',
               (req[p].window.count = req[q].window.count)'
        PROVE  p = q
    <3>1. CASE p = r /\ q # r
      BY <1>7, <1>8, <1>9, <2>1, <2>2, <3>1 DEF SameWindow
    <3>2. CASE p # r /\ q = r
      BY <1>7, <1>8, <1>9, <2>1, <2>2, <3>2 DEF SameWindow
    <3>3. CASE p # r /\ q # r
      BY <1>8, <1>9, <2>2, <3>3 DEF IInv, CountsDiffer, SameWindow
    <3> QED
      BY <3>1, <3>2, <3>3
  <2> QED
    BY <2>2 DEF CountsDiffer
<1>18. ASSUME NEW p \in Requests, Decided(p)',
              NEW i \in 1 .. req'[p].window.count
       PROVE  \E q \in Requests : SameWindow(p, q)' /\ req'[q].window.count = i
  <2>1. ASSUME NEW a \in Requests, Decided(a), NEW c \in 1 .. req[a].window.count
        PROVE  \E q \in Requests :
                  /\ Decided(q) /\ req'[q] = req[q]
                  /\ req[q].key = req[a].key
                  /\ req[q].window.start = req[a].window.start
                  /\ req[q].window.count = c
    BY <1>9, <2>1 DEF IInv, CountsFrom1, SameWindow
  <2>2. CASE p # r
    <3>1. Decided(p) /\ req'[p] = req[p]
      BY <1>8, <1>9, <1>18, <2>2
    <3> QED
      BY <1>8, <1>18, <2>1, <3>1 DEF SameWindow
  <2>3. CASE p = r /\ i = w.count
    BY <1>7, <1>8, <2>3 DEF SameWindow
  <2>4. CASE p = r /\ i # w.count
    <3>1. i \in 1 .. (w.count - 1)
      BY <1>7, <1>12, <1>18, <2>4
    <3>2. /\ windows[k] \in Window
          /\ w.start = windows[k].start /\ w.count = windows[k].count + 1
      BY <1>5, <1>12, <3>1
    <3>3. k \in Held(windows)
      BY <1>2, <3>2, NoneAssumption DEF Held
    <3>4. PICK a \in Requests :
             Decided(a) /\ req[a].key = k /\ req[a].window = windows[k]
      BY <3>3 DEF IInv, HeldInv
    <3>5. i \in 1 .. req[a].window.count
      BY <3>1, <3>2, <3>4 DEF Window
    <3>6. PICK q \in Requests :
             /\ Decided(q) /\ req'[q] = req[q] /\ req[q].key = k
             /\ req[q].window.start = w.start /\ req[q].window.count = i
      BY <2>1, <3>2, <3>4, <3>5
    <3> QED
      BY <1>7, <1>8, <2>4, <3>6 DEF SameWindow
  <2> QED
    BY <2>2, <2>3, <2>4
<1>19. ASSUME NEW j \in Held(windows')
       PROVE  /\ windows'[j] \in Window /\ windows'[j].start <= clock
              /\ \E q \in Requests :
                    (Decided(q) /\ req[q].key = j /\ req[q].window = windows[j])'
  <2>1. j \in Keys /\ windows'[j] \in Window
    BY <1>2 DEF Held
  <2>2. CASE j = k
    BY <1>2, <1>7, <1>8, <1>12, <2>2
  <2>3. CASE j # k
    <3>1. windows'[j] = windows[j] /\ j \in Held(windows)
      BY <1>2, <1>19, <2>1, <2>3 DEF Held
    <3>2. PICK q \in Requests :
             Decided(q) /\ req[q].key = j /\ req[q].window = windows[j]
      BY <3>1 DEF IInv, HeldInv
    <3>3. windows[j].start <= clock
      BY <3>1 DEF IInv, HeldInv
    <3> QED
      BY <1>8, <1>9, <2>1, <3>1, <3>2, <3>3
  <2> QED
    BY <2>2, <2>3
<1>20. WindowsApart'
  <2>1. ASSUME NEW p \in Requests, NEW q \in Requests,
               Decided(p)', Decided(q)', (req[p].key = req[q].key)',
               (req[p].window.start < req[q].window.start)'
        PROVE  (req[p].window.start + Minute <= req[q].window.start)'
    <3>1. CASE p = r
      <4>1. q # r
        BY <1>7, <1>12, <2>1, <3>1
      <4>2. /\ Decided(q) /\ req'[q] = req[q] /\ req[q].key = k
            /\ w.start < req[q].window.start /\ req[q].window \in Window
        BY <1>7, <1>8, <1>9, <1>11, <2>1, <3>1, <4>1
      <4> QED
        BY <1>3, <1>10, <1>12, <4>2 DEF Window
    <3>2. CASE p # r /\ q = r
      <4>1. /\ Decided(p) /\ req'[p] = req[p] /\ req[p].key = k
            /\ req[p].window.start < w.start /\ req[p].window \in Window
        BY <1>7, <1>8, <1>9, <1>11, <2>1, <3>2
      <4>2. req[p].window.start + Minute <= w.start
        BY <1>10, <1>12, <4>1 DEF Window
      <4> QED
        BY <1>7, <3>2, <4>1, <4>2
    <3>3. CASE p # r /\ q # r
      BY <1>8, <1>9, <2>1, <3>3 DEF IInv, WindowsApart
    <3> QED
      BY <3>1, <3>2, <3>3
  <2> QED
    BY <2>1 DEF WindowsApart
<1>21. KeepsRecentOnly'
  <2>1. ASSUME Cardinality(Held(windows')) > Cap,
               NEW j \in Held(windows'), NEW l \in Held(windows')
        PROVE  windows'[j].start <= windows'[l].start + 2 * Minute + Stall
    <3>1. now <= windows'[l].start + 2 * Minute
      BY <1>2, <2>1
    <3>2. /\ windows'[j].start \in Nat /\ windows'[l].start \in Nat
          /\ windows'[j].start <= clock
      BY <1>3, <1>19 DEF Window
    <3> QED
      BY <1>3, <1>4, <1>12, <3>1, <3>2
  <2> QED
    BY <2>1 DEF KeepsRecentOnly
<1>22. ASSUME NEW q \in Requests PROVE LatestInv(q)'
  BY <1>16 DEF LatestInv
<1>23. CountsFrom1'
  BY <1>18 DEF CountsFrom1
<1>24. HeldInv'
  BY <1>2, <1>19 DEF HeldInv
<1> QED
  BY <1>13, <1>14, <1>15, <1>17, <1>20, <1>21, <1>22, <1>23, <1>24 DEF IInv

LEMMA InvStutter == IInv /\ UNCHANGED vars => IInv'
<1> SUFFICES ASSUME IInv, UNCHANGED vars PROVE IInv'
  OBVIOUS
<1>1. clock' = clock /\ windows' = windows /\ req' = req
  BY DEF vars
<1>2. TypeOK' /\ \A r \in Requests : (WaitingInv(r) /\ DecidedInv(r) /\ LatestInv(r))'
  BY <1>1 DEF IInv, TypeOK, WaitingInv, DecidedInv, LatestInv, RetryAfter
<1>3. (CountsDiffer /\ CountsFrom1 /\ HeldInv /\ WindowsApart /\ KeepsRecentOnly)'
  BY <1>1 DEF IInv, CountsDiffer, CountsFrom1, HeldInv, Held, SameWindow,
              WindowsApart, KeepsRecentOnly
<1> QED
  BY <1>2, <1>3 DEF IInv

----------------------------------------------------------------------------
(***************************************************************************)
(* The theorems                                                            *)
(***************************************************************************)
(* The inductive invariant holds in every state the limiter reaches.       *)
THEOREM Invariance == Spec => []IInv
<1>1. Init => IInv
  BY InvInit
<1>2. IInv /\ [Next]_vars => IInv'
  BY InvTick, InvArrive, InvDecide, InvStutter DEF Next
<1> QED
  BY <1>1, <1>2, PTL DEF Spec

(* For every Limit, cap and number of requests: the clock, the map and the *)
(* handlers of the limiter are well formed.                                *)
THEOREM TypeCorrect == Spec => []TypeOK
<1>1. IInv => TypeOK
  BY DEF IInv
<1> QED
  BY <1>1, Invariance, PTL

(* Forgetting windows never opens the next one early: two windows of a key *)
(* start a minute apart, as long as no request is held up for longer.      *)
THEOREM WindowsStartApart == Spec => []WindowsApart
<1>1. IInv => WindowsApart
  BY DEF IInv
<1> QED
  BY <1>1, Invariance, PTL

(* Above the cap the map keeps windows of the last two minutes only.       *)
THEOREM OldWindowsForgotten == Spec => []KeepsRecentOnly
<1>1. IInv => KeepsRecentOnly
  BY DEF IInv
<1> QED
  BY <1>1, Invariance, PTL

(* Retry-After and one second more outlast the window that refused.        *)
THEOREM WaitingIsEnough == Spec => []WaitingHelps
<1>1. ASSUME IInv, NEW r \in Requests, NEW q \in Requests,
             Decided(r), Decided(q),
             req[q].at >= req[r].at + (req[r].retryAfter + 1) * Second
      PROVE  req[q].window.start # req[r].window.start
  <2>1. /\ req[r].window \in Window /\ req[q].window \in Window
        /\ req[r].at < req[r].window.start + Minute
        /\ req[q].at < req[q].window.start + Minute
        /\ req[r].retryAfter = (req[r].window.start + Minute - req[r].at) \div Second
    BY <1>1 DEF IInv, DecidedInv, RetryAfter
  <2>2. /\ req[r].at \in Nat /\ req[q].at \in Nat
        /\ req[r].window.start \in Nat /\ req[q].window.start \in Nat
        /\ Minute \in Nat /\ Second \in Nat
    BY <1>1, <2>1, TimeAssumption DEF IInv, TypeOK, Request, Window
  <2> DEFINE left == req[r].window.start + Minute - req[r].at
  <2>3. left \in Nat
    BY <2>1, <2>2
  <2>4. req[r].retryAfter = left \div Second
    BY <2>1
  <2> HIDE DEF left
  <2>5. /\ req[r].retryAfter \in Nat
        /\ left < (req[r].retryAfter + 1) * Second
    BY <2>3, <2>4, SecondsLeft
  <2> DEFINE wait == (req[r].retryAfter + 1) * Second
  <2>6. wait \in Nat
    BY <2>2, <2>5
  <2>7. left < wait /\ req[q].at >= req[r].at + wait
    BY <1>1, <2>5
  <2> HIDE DEF wait
  <2>8. req[q].at > req[r].window.start + Minute
    BY <2>2, <2>3, <2>6, <2>7 DEF left
  <2> QED
    BY <2>1, <2>2, <2>8
<1>2. IInv => WaitingHelps
  BY <1>1 DEF WaitingHelps
<1> QED
  BY <1>2, Invariance, PTL

(* The count tells the admitted requests of a window apart, and is at most *)
(* Limit.                                                                  *)
LEMMA AdmittedAtMostLimit ==
    ASSUME IInv, NEW k \in Keys, NEW s \in 0 .. MaxTime
    PROVE  /\ IsFiniteSet(Admitted(k, s))
           /\ Cardinality(Admitted(k, s)) <= Limit
<1> DEFINE A == Admitted(k, s)
           f == [r \in A |-> req[r].window.count]
<1>1. Limit \in Nat
  BY TimeAssumption
<1>2. ASSUME NEW r \in A PROVE f[r] \in 1 .. Limit
  BY <1>1, <1>2 DEF Admitted, IInv, DecidedInv, Window
<1>3. ASSUME NEW r \in A, NEW q \in A, f[r] = f[q] PROVE r = q
  BY <1>3 DEF Admitted, IInv, CountsDiffer, SameWindow
<1>4. f \in Injection(A, 1 .. Limit)
  BY <1>2, <1>3 DEF Injection, IsInjective
<1>5. IsFiniteSet(1 .. Limit) /\ Cardinality(1 .. Limit) = Limit
  BY <1>1, FS_Interval
<1>6. IsFiniteSet(A) /\ Cardinality(A) <= Cardinality(1 .. Limit)
  BY <1>4, <1>5, FS_Injection
<1> QED
  BY <1>5, <1>6

(* Before a request is refused, each of the counts 1 .. Limit was given to *)
(* an admitted request of the same window.                                 *)
LEMMA RefusedAfterLimit ==
    ASSUME IInv, NEW k \in Keys, NEW s \in 0 .. MaxTime,
           NEW r \in Requests, Decided(r), ~req[r].allowed,
           req[r].key = k, req[r].window.start = s
    PROVE  Cardinality(Admitted(k, s)) = Limit
<1> DEFINE A == Admitted(k, s)
           f == [q \in A |-> req[q].window.count]
<1>1. Limit \in Nat /\ req[r].window \in Window /\ req[r].window.count > Limit
  BY TimeAssumption DEF IInv, DecidedInv, Window
<1>2. \A q \in A : f[q] \in 1 .. Limit
  BY <1>1 DEF Admitted, IInv, DecidedInv, Window
<1>3. \A q, p \in A : f[q] = f[p] => q = p
  BY DEF Admitted, IInv, CountsDiffer, SameWindow
<1>4. ASSUME NEW i \in 1 .. Limit PROVE \E q \in A : f[q] = i
  <2>1. i \in 1 .. req[r].window.count
    BY <1>1 DEF Window
  <2>2. PICK q \in Requests : SameWindow(r, q) /\ req[q].window.count = i
    BY <2>1 DEF IInv, CountsFrom1
  <2>3. req[q].allowed
    BY <1>1, <2>2 DEF SameWindow, IInv, DecidedInv
  <2>4. q \in A
    BY <2>2, <2>3 DEF SameWindow, Admitted
  <2> QED
    BY <2>2, <2>4
<1>5. f \in Injection(A, 1 .. Limit) /\ f \in Surjection(A, 1 .. Limit)
  BY <1>2, <1>3, <1>4 DEF Injection, Surjection, IsInjective
<1>6. IsFiniteSet(1 .. Limit) /\ Cardinality(1 .. Limit) = Limit
  BY <1>1, FS_Interval
<1> HIDE DEF f
<1>7. Cardinality(A) = Cardinality(1 .. Limit)
  BY <1>5, <1>6, FS_Injection
<1> QED
  BY <1>6, <1>7

(* Exactly Limit requests of a key are admitted in a window before one is  *)
(* refused, for every Limit, cap, delay at the mutex and number of         *)
(* requests.                                                               *)
THEOREM LimitExact == Spec => []LimitIsExact
<1>1. IInv => LimitIsExact
  BY AdmittedAtMostLimit, RefusedAfterLimit DEF LimitIsExact
<1> QED
  BY <1>1, Invariance, PTL
=============================================================================
