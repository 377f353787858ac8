---------------------------- MODULE RateLimiter ----------------------------
(***************************************************************************)
(* The throttle of the PC's accept loop (RateLimiter::allow and serve in   *)
(* apps/windows/src/server.rs): per source address a tumbling window with  *)
(* a counter, and a ban once the counter passes the limit.                 *)
(***************************************************************************)
EXTENDS Integers, Sequences

CONSTANTS
  Addrs,    \* source addresses
  Limit,    \* RATE_LIMIT_PER_MIN
  Window,   \* the 60 000 ms of allow
  Ban,      \* RATE_LIMIT_BAN_MS
  MaxNow    \* bound: the clock

ASSUME LimiterAssumption ==
  /\ Limit \in Nat \ {0} /\ Window \in Nat \ {0}
  /\ Ban \in Nat /\ Ban >= Window
  /\ MaxNow \in Nat

VARIABLES
  now,     \* the wall clock, taken to be monotonic
  start,   \* window_start_ms, None where there is no entry
  count,   \* counts
  until,   \* banned_until_ms, None where there is no entry
  log      \* log[a]: when connections from a were admitted

limiterVars == <<now, start, count, until, log>>

None == -1

LimiterTypeOK ==
  /\ now \in 0..MaxNow
  /\ start \in [Addrs -> Nat \cup {None}]
  /\ count \in [Addrs -> 0..(Limit + 1)]
  /\ until \in [Addrs -> Nat \cup {None}]
  /\ log \in [Addrs -> Seq(Nat)]

LimiterInit ==
  /\ now = 0
  /\ start = [a \in Addrs |-> None]
  /\ count = [a \in Addrs |-> 0]
  /\ until = [a \in Addrs |-> None]
  /\ log = [a \in Addrs |-> <<>>]

Banned(a) == until[a] # None /\ now < until[a]

(* Whether allow starts a new window for a. *)
Rolls(a) == start[a] = None \/ now - start[a] >= Window

CountAfter_Kept(a) == IF start[a] = None THEN 1 ELSE count[a] + 1  \* mutant: never reset
CountAfter(a) == IF Rolls(a) THEN 1 ELSE count[a] + 1

Counted(a) ==
  /\ start' = [start EXCEPT ![a] = IF Rolls(a) THEN now ELSE @]
  /\ count' = [count EXCEPT ![a] = CountAfter(a)]
  /\ UNCHANGED now

(* A connection from a banned address is dropped; nothing is counted. *)
Drop(a) ==
  /\ Banned(a)
  /\ UNCHANGED limiterVars

Admit_OffByOne(a) ==  \* mutant: the limit is passed by one before the ban
  /\ ~Banned(a)
  /\ CountAfter(a) <= Limit + 1
  /\ Counted(a)
  /\ until' = [until EXCEPT ![a] = None]
  /\ log' = [log EXCEPT ![a] = Append(@, now)]

(* A ban that has run out is removed, the connection counted and served. *)
Admit(a) ==
  /\ ~Banned(a)
  /\ CountAfter(a) <= Limit
  /\ Counted(a)
  /\ until' = [until EXCEPT ![a] = None]
  /\ log' = [log EXCEPT ![a] = Append(@, now)]

StartBan_NoBan(a) ==  \* mutant: refused, but not banned
  /\ ~Banned(a)
  /\ CountAfter(a) > Limit
  /\ Counted(a)
  /\ UNCHANGED <<until, log>>

StartBan(a) ==
  /\ ~Banned(a)
  /\ CountAfter(a) > Limit
  /\ Counted(a)
  /\ until' = [until EXCEPT ![a] = now + Ban]
  /\ UNCHANGED log

Tick ==
  /\ now < MaxNow
  /\ now' = now + 1
  /\ UNCHANGED <<start, count, until, log>>

LimiterNext == Tick \/ \E a \in Addrs : Drop(a) \/ Admit(a) \/ StartBan(a)

LimiterSpec == LimiterInit /\ [][LimiterNext]_limiterVars

-----------------------------------------------------------------------------
(* Properties. *)

(* A ban that was waited out is over: the next connection is admitted and  *)
(* not banned again on the strength of the old count, because the ban is   *)
(* no shorter than the window.                                             *)
BanEnds ==
  [][\A a \in Addrs :
       until[a] # None /\ until'[a] # until[a]
         => log'[a] = Append(log[a], now) /\ until'[a] = None]_limiterVars

(* However connections are spread over two adjoining windows, no span as   *)
(* long as a window admits more than twice the limit.                      *)
SpanAtMostTwice ==
  \A a \in Addrs : \A i \in 1..Len(log[a]) :
    LET j == i + 2 * Limit IN
      j \in 1..Len(log[a]) => log[a][j] - log[a][i] >= Window

(* docs/PROTOCOL.md:225 drops an address that connects 20 or more times a  *)
(* minute: no minute admits more than the limit.  allow counts in windows  *)
(* that begin with a connection, so the minute across the edge of two of   *)
(* them admits more.                                                       *)
SpanAtMostLimit ==
  \A a \in Addrs : \A i \in 1..Len(log[a]) :
    LET j == i + Limit IN
      j \in 1..Len(log[a]) => log[a][j] - log[a][i] >= Window

=============================================================================
