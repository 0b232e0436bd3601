----------------------------- MODULE RateLimiter -----------------------------
(***************************************************************************)
(* middleware/auth.go, RateLimiter: one limiter, shared by the routes that *)
(* name a scope.  A request reads the clock, then waits for the mutex; the *)
(* rest is one critical section.  Another request may therefore have the   *)
(* mutex with a later reading first.                                       *)
(*                                                                         *)
(* Windows are counted from the request that opens them, and are forgotten *)
(* only while the map has more than Cap keys.                              *)
(***************************************************************************)
EXTENDS Naturals, FiniteSets

CONSTANTS
    Requests,  \* HTTP requests; each is made once
    Scopes,    \* what the routes pass to Middleware
    Callers,   \* user names; client addresses before the login
    Second,    \* the unit of Retry-After, in ticks of the clock
    Minute,    \* length of a window
    Limit,     \* requests admitted per window
    Cap,       \* keys above which old windows are forgotten
    Stall,     \* longest time from reading the clock to having the mutex
    MaxTime,   \* bound of the clock
    None       \* absent

ASSUME TimeAssumption ==
    /\ Second \in Nat \ {0} /\ Minute \in Nat \ {0}
    /\ Limit \in Nat /\ Cap \in Nat /\ MaxTime \in Nat
    /\ Stall \in 0 .. Minute

VARIABLES
    clock,
    windows,   \* the map, with None for an absent key
    req        \* what each handler goroutine holds

vars == <<clock, windows, req>>

Keys == Scopes \X Callers

Window == [start : 0 .. MaxTime, count : Nat]

ASSUME NoneAssumption == None \notin Keys /\ None \notin Window

ASSUME FiniteAssumption == IsFiniteSet(Requests) /\ IsFiniteSet(Keys)

Idle == [pc |-> "idle", key |-> None, at |-> 0, window |-> None,
         allowed |-> FALSE, retryAfter |-> 0]

Init ==
    /\ clock = 0
    /\ windows = [k \in Keys |-> None]
    /\ req = [r \in Requests |-> Idle]

Become(r, handler) == req' = [req EXCEPT ![r] = handler]

\* Nobody waits for the mutex for longer than Stall.
Tick ==
    /\ clock < MaxTime
    /\ \A r \in Requests : req[r].pc = "waiting" => clock < req[r].at + Stall
    /\ clock' = clock + 1
    /\ UNCHANGED <<windows, req>>

Arrive(r) ==
    /\ req[r].pc = "idle"
    /\ \E k \in Keys :
          Become(r, [req[r] EXCEPT !.pc = "waiting", !.key = k, !.at = clock])
    /\ UNCHANGED <<clock, windows>>

Closed(window, now) == window = None \/ now >= window.start + Minute

\* Mutant: the count is not carried over.
Uncounted(window, now) ==
    IF Closed(window, now) THEN [start |-> now, count |-> 1]
    ELSE [window EXCEPT !.count = 1]
Counted(window, now) ==
    IF Closed(window, now) THEN [start |-> now, count |-> 1]
    ELSE [window EXCEPT !.count = @ + 1]

\* Mutant: windows are forgotten as soon as they close.
StaleOnceClosed(window, now) == now >= window.start + Minute
Stale(window, now) == now > window.start + 2 * Minute

Held(map) == {k \in Keys : map[k] # None}

\* Mutant: nothing is ever forgotten.
NeverPruned(map, now) == map
Pruned(map, now) ==
    IF Cardinality(Held(map)) > Cap
    THEN [k \in Keys |-> IF map[k] # None /\ Stale(map[k], now) THEN None ELSE map[k]]
    ELSE map

Allowed(window) == window.count <= Limit

\* Mutant: the time that has passed.
SecondsSinceStart(window, now) == (now - window.start) \div Second
RetryAfter(window, now) == (window.start + Minute - now) \div Second

\* The critical section; the local variable window survives the map's.
Decide(r) ==
    /\ req[r].pc = "waiting"
    /\ LET k == req[r].key
           now == req[r].at
           window == Counted(windows[k], now) IN
          /\ windows' = Pruned([windows EXCEPT ![k] = window], now)
          /\ Become(r, [req[r] EXCEPT !.pc = "decided", !.window = window,
                                      !.allowed = Allowed(window),
                                      !.retryAfter = RetryAfter(window, now)])
    /\ UNCHANGED clock

Next == Tick \/ \E r \in Requests : Arrive(r) \/ Decide(r)

Spec == Init /\ [][Next]_vars

----------------------------------------------------------------------------
(***************************************************************************)
(* Properties                                                              *)
(***************************************************************************)
Request == [pc : {"idle", "waiting", "decided"}, key : Keys \cup {None},
            at : 0 .. MaxTime, window : Window \cup {None},
            allowed : BOOLEAN, retryAfter : Nat]

(* The clock, the map and the handlers are well formed.                    *)
TypeOK ==
    /\ clock \in 0 .. MaxTime
    /\ windows \in [Keys -> Window \cup {None}]
    /\ req \in [Requests -> Request]

Decided(r) == req[r].pc = "decided"

\* The requests of k admitted in the window that started at s.
Admitted(k, s) ==
    {r \in Requests :
        Decided(r) /\ req[r].key = k /\ req[r].window.start = s /\ req[r].allowed}

(* At most Limit requests of a key are admitted in one window, in whatever *)
(* order they get the mutex and although windows are forgotten; and nobody *)
(* is refused early or for another's requests: a refused request comes     *)
(* after Limit admitted ones of its key and window.                        *)
LimitIsExact ==
    \A k \in Keys : \A s \in 0 .. MaxTime :
        /\ Cardinality(Admitted(k, s)) <= Limit
        /\ \A r \in Requests :
              /\ Decided(r) /\ ~req[r].allowed
              /\ req[r].key = k /\ req[r].window.start = s
              => Cardinality(Admitted(k, s)) = Limit

(* Two windows of a key start a minute apart at least.  Forgetting a window*)
(* does not open the next one early, though a request that read the clock  *)
(* before the one that forgot it may be the next to get the mutex: this is *)
(* what the second minute in the age (line 121) is for.                    *)
WindowsApart ==
    \A r, q \in Requests :
        /\ Decided(r) /\ Decided(q) /\ req[r].key = req[q].key
        /\ req[r].window.start < req[q].window.start
        => req[r].window.start + Minute <= req[q].window.start

(* Above the cap only recent windows are kept: none is more than two       *)
(* minutes, and the time a request may be held up, older than another.     *)
KeepsRecentOnly ==
    Cardinality(Held(windows)) > Cap =>
        \A k, j \in Held(windows) :
            windows[j].start <= windows[k].start + 2 * Minute + Stall

(* A refused request that is repeated after the seconds of its Retry-After *)
(* and one more is not refused by the same window.  (After just those      *)
(* seconds it may be: the fraction is cut off.)                            *)
WaitingHelps ==
    \A r, q \in Requests :
        /\ Decided(r) /\ Decided(q) /\ req[r].key = req[q].key /\ ~req[r].allowed
        /\ req[q].at >= req[r].at + (req[r].retryAfter + 1) * Second
        => req[q].window.start # req[r].window.start

----------------------------------------------------------------------------
(***************************************************************************)
(* The inductive invariant                                                 *)
(***************************************************************************)
\* What a handler at the mutex knows of the time.
WaitingInv(r) ==
    req[r].pc = "waiting" =>
        /\ req[r].key \in Keys
        /\ req[r].at <= clock /\ clock <= req[r].at + Stall

\* What a decided request was told.
DecidedInv(r) ==
    Decided(r) =>
        /\ req[r].key \in Keys /\ req[r].window \in Window
        /\ req[r].window.count >= 1
        /\ req[r].window.start <= clock /\ req[r].at <= clock
        /\ req[r].at < req[r].window.start + Minute
        /\ req[r].allowed <=> req[r].window.count <= Limit
        /\ req[r].retryAfter = RetryAfter(req[r].window, req[r].at)

\* The map's window is the latest of its key; a forgotten one is old.
LatestInv(r) ==
    Decided(r) =>
        LET mine == req[r].window
            held == windows[req[r].key] IN
        /\ held = None => mine.start + 2 * Minute < clock
        /\ held # None =>
              \/ held.start = mine.start /\ mine.count <= held.count
              \/ mine.start + Minute <= held.start

SameWindow(r, q) ==
    /\ Decided(r) /\ Decided(q)
    /\ req[r].key = req[q].key /\ req[r].window.start = req[q].window.start

\* The counts of one window are 1, 2, 3, ..., each once.
CountsDiffer ==
    \A r, q \in Requests :
        SameWindow(r, q) /\ req[r].window.count = req[q].window.count => r = q
CountsFrom1 ==
    \A r \in Requests : Decided(r) =>
        \A i \in 1 .. req[r].window.count :
            \E q \in Requests : SameWindow(r, q) /\ req[q].window.count = i

\* The last request counted in a window of the map.
HeldInv ==
    \A k \in Held(windows) :
        /\ windows[k].start <= clock
        /\ \E q \in Requests :
              Decided(q) /\ req[q].key = k /\ req[q].window = windows[k]

IInv ==
    /\ TypeOK
    /\ \A r \in Requests : WaitingInv(r) /\ DecidedInv(r) /\ LatestInv(r)
    /\ CountsDiffer /\ CountsFrom1 /\ HeldInv
    /\ WindowsApart /\ KeepsRecentOnly
=============================================================================
