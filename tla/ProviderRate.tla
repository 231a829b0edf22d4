----------------------------- MODULE ProviderRate -----------------------------
(* The provider rate window of a Run (solaris-agent, resource_manager.rs):   *)
(* requests and tokens per minute are reserved, started, committed, rolled   *)
(* back or released by permits that may outlive the window they were         *)
(* reserved in, or the process.  Every operation holds the checkpoint mutex  *)
(* and is persisted; when that fails the window is as before and the         *)
(* operation returns an error.                                               *)
EXTENDS Integers, FiniteSets, FiniteSetsExt

CONSTANTS Permits,       \* ProviderRatePermits
          Estimates,     \* estimated and actual numbers of tokens of a request
          Rpm, Tpm,      \* requests_per_minute and tokens_per_minute
          Minute,        \* the 60_000 ms of the window
          MaxClock, MaxRestarts  \* bounds

VARIABLES clock,
          window,   \* ProviderRateWindow; start 0 is no window yet
          permits,  \* a permit's state, tokens and the window it counts in
          failed,   \* an append has failed in this Run
          restarts  \* number of restarts so far

vars == <<clock, window, permits, failed, restarts>>

NoPermit == [state |-> "completed", tokens |-> 0, start |-> 0]

NewWindow(start) ==
  [start |-> start, requests |-> 0, reserved |-> 0, tokens |-> 0, reserved_tokens |-> 0,
   unstarted |-> 0]

Init ==
  /\ clock = 1
  /\ window = NewWindow(0)
  /\ permits = [p \in Permits |-> NoPermit]
  /\ failed = FALSE /\ restarts = 0

-----------------------------------------------------------------------------
\* saturating_sub
Minus(a, b) == IF a >= b THEN a - b ELSE 0

\* The window an operation works on: a new one when the last is a minute old.
current ==
  IF window.start = 0 \/ clock - window.start >= Minute THEN NewWindow(clock) ELSE window

exhausted(w, tokens) == w.requests + w.reserved >= Rpm \/ w.tokens + tokens > Tpm

\* with_state_update: the new window is persisted, or nothing has happened and
\* the permit becomes otherwise.
Persist(p, w, then, otherwise) ==
  /\ \/ /\ window' = w
        /\ permits' = [permits EXCEPT ![p] = then]
        /\ UNCHANGED failed
     \/ /\ w # window
        /\ failed' = TRUE
        /\ permits' = [permits EXCEPT ![p] = otherwise]
        /\ UNCHANGED window
  /\ UNCHANGED <<clock, restarts>>

-----------------------------------------------------------------------------
\* Mutant: a place is compared with the started requests only.
acquire_beyond_reserved(p, tokens) ==
  /\ permits[p] = NoPermit
  /\ current.requests < Rpm /\ current.tokens + tokens <= Tpm
  /\ Persist(p, [current EXCEPT !.reserved = @ + 1, !.tokens = @ + tokens,
                                !.reserved_tokens = @ + tokens, !.unstarted = @ + tokens],
             [state |-> "reserved", tokens |-> tokens, start |-> current.start], NoPermit)

\* A refused request may still have begun the new window.
acquire_provider_request(p, tokens) ==
  /\ permits[p] = NoPermit
  /\ IF exhausted(current, tokens)
     THEN Persist(p, current, NoPermit, NoPermit)
     ELSE Persist(p, [current EXCEPT !.reserved = @ + 1, !.tokens = @ + tokens,
                                     !.reserved_tokens = @ + tokens, !.unstarted = @ + tokens],
                  [state |-> "reserved", tokens |-> tokens, start |-> current.start], NoPermit)

\* Mutant: a reservation of an earlier window is started as one of this window.
start_any_window(p) ==
  LET r == permits[p]
  IN [current EXCEPT !.reserved = Minus(@, 1), !.requests = @ + 1,
                     !.unstarted = Minus(@, r.tokens)]

\* A reservation of an earlier window is made again in the current one.
started_window(p) ==
  LET r == permits[p]
  IN IF current.start # r.start
     THEN [current EXCEPT !.requests = @ + 1, !.tokens = @ + r.tokens,
                          !.reserved_tokens = @ + r.tokens]
     ELSE [current EXCEPT !.reserved = @ - 1, !.requests = @ + 1, !.unstarted = @ - r.tokens]

may_start(p) ==
  LET r == permits[p]
  IN IF current.start # r.start THEN ~exhausted(current, r.tokens)
     ELSE current.reserved > 0 /\ current.unstarted >= r.tokens

mark_started(p) ==
  LET r == permits[p]
  IN /\ r.state = "reserved"
     /\ IF may_start(p)
        THEN Persist(p, started_window(p), [r EXCEPT !.state = "started", !.start = current.start], r)
        ELSE Persist(p, current, r, r)

\* Nothing to take back when the window is over; the permit is reserved again.
rollback_start(p) ==
  LET r == permits[p]
  IN /\ r.state = "started"
     /\ window.start = r.start => window.requests > 0
     /\ Persist(p, IF window.start # r.start THEN window
                   ELSE [window EXCEPT !.requests = @ - 1, !.reserved = @ + 1,
                                       !.unstarted = @ + r.tokens],
                [r EXCEPT !.state = "reserved"], r)

release_window(p) ==
  LET r == permits[p]
  IN CASE window.start # r.start -> window
       [] r.state = "reserved" ->
            [window EXCEPT !.reserved = Minus(@, 1), !.tokens = Minus(@, r.tokens),
                           !.reserved_tokens = Minus(@, r.tokens),
                           !.unstarted = Minus(@, r.tokens)]
       [] OTHER ->
            [window EXCEPT !.tokens = Minus(@, r.tokens),
                           !.reserved_tokens = Minus(@, r.tokens)]

\* ProviderRatePermit::drop; a failed append leaves the reservation behind.
drop(p) ==
  /\ permits[p].state \in {"reserved", "started"}
  /\ Persist(p, release_window(p), NoPermit, NoPermit)

committed_window(p, actual) ==
  LET r == permits[p]
  IN IF window.start # r.start THEN window
     ELSE [window EXCEPT !.tokens = Minus(@, r.tokens) + actual,
                         !.reserved_tokens = Minus(@, r.tokens)]

\* commit of a started permit (mark_started comes first); when it fails the
\* permit is dropped as started, which may fail as well.
commit(p, actual) ==
  /\ permits[p].state = "started"
  /\ \/ window' = committed_window(p, actual) /\ UNCHANGED failed
     \/ /\ committed_window(p, actual) # window
        /\ failed' = TRUE
        /\ window' \in {window, release_window(p)}
  /\ permits' = [permits EXCEPT ![p] = NoPermit]
  /\ UNCHANGED <<clock, restarts>>

-----------------------------------------------------------------------------
\* Mutant: the reservations of the last process stay in the window.
normalize_keeping(w) == IF clock - w.start >= Minute THEN NewWindow(0) ELSE w

\* normalize_recovered_state
normalize(w) ==
  IF clock - w.start >= Minute THEN NewWindow(0)
  ELSE [w EXCEPT !.tokens = Minus(@, w.unstarted), !.reserved_tokens = Minus(@, w.unstarted),
                 !.reserved = 0, !.unstarted = 0]

Restart ==
  /\ restarts < MaxRestarts
  /\ window' = normalize(window)
  /\ permits' = [p \in Permits |-> NoPermit]
  /\ failed' = FALSE
  /\ restarts' = restarts + 1
  /\ UNCHANGED clock

AdvanceClock ==
  /\ clock < MaxClock
  /\ clock' = clock + 1
  /\ UNCHANGED <<window, permits, failed, restarts>>

RollBackClock ==
  /\ clock > 1
  /\ clock' = clock - 1
  /\ UNCHANGED <<window, permits, failed, restarts>>

Next ==
  \/ \E p \in Permits :
       \/ \E t \in Estimates : acquire_provider_request(p, t) \/ commit(p, t)
       \/ mark_started(p) \/ rollback_start(p) \/ drop(p)
  \/ Restart \/ AdvanceClock \/ RollBackClock

Spec == Init /\ [][Next]_vars

-----------------------------------------------------------------------------
TypeOK ==
  /\ clock \in 1..MaxClock
  /\ window \in [start : 0..MaxClock, requests : Nat, reserved : Nat, tokens : Nat,
                 reserved_tokens : Nat, unstarted : Nat]
  /\ permits \in [Permits -> [state : {"reserved", "started", "completed"},
                              tokens : Estimates \cup {0}, start : 0..MaxClock]]

Here(state) == {p \in Permits : permits[p].state = state /\ permits[p].start = window.start}
Tokens(S) == MapThenSumSet(LAMBDA p : permits[p].tokens, S)

\* The window knows every live permit that counts in it, across windows that end,
\* starts taken back, restarts and clocks set back: so no reservation "is no
\* longer active" when it is started, and no saturating subtraction hides a loss.
WindowKnowsPermits ==
  /\ window.reserved >= Cardinality(Here("reserved"))
  /\ window.requests >= Cardinality(Here("started"))
  /\ window.unstarted >= Tokens(Here("reserved"))
  /\ window.reserved_tokens >= Tokens(Here("reserved")) + Tokens(Here("started"))
  /\ window.tokens >= window.reserved_tokens

\* As long as appends succeed, what counts as reserved is a live permit's: a
\* restart or a new window leaves nothing reserved for ever.
NothingLeaks ==
  ~failed => /\ window.reserved = Cardinality(Here("reserved"))
             /\ window.unstarted = Tokens(Here("reserved"))

\* requests_per_minute bounds the requests that started or may start in the
\* window, and tokens_per_minute what is reserved in it.
WithinRate ==
  /\ window.requests + window.reserved <= Rpm
  /\ window.reserved_tokens <= Tpm
=============================================================================
