------------------------- MODULE RateLimiterProofs -------------------------
(***************************************************************************)
(* Proofs about RateLimiter, for every limit, window and ban with          *)
(* Ban >= Window > 0 and Limit > 0, and any addresses.                     *)
(***************************************************************************)
EXTENDS RateLimiter, TLAPS

(* A ban ends no earlier than the window in which it began, and only a     *)
(* banned address has a count above the limit.                             *)
BanOutlivesWindow ==
  \A a \in Addrs :
    /\ start[a] # None => start[a] <= now
    /\ until[a] # None => start[a] # None /\ until[a] >= start[a] + Window
    /\ count[a] > Limit => until[a] # None

IInv == LimiterTypeOK /\ BanOutlivesWindow

(* The maps of a fresh limiter are empty. *)
LEMMA InitIInv == LimiterInit => IInv
BY LimiterAssumption DEF LimiterInit, IInv, LimiterTypeOK, BanOutlivesWindow, None

(* An address whose ban has run out starts a new window with its next      *)
(* connection, so that connection is within the limit.                     *)
LEMMA ExpiredBanRolls ==
  ASSUME IInv, NEW a \in Addrs, ~Banned(a), until[a] # None
  PROVE  Rolls(a) /\ CountAfter(a) = 1
BY LimiterAssumption DEF IInv, LimiterTypeOK, BanOutlivesWindow, Banned, Rolls, CountAfter, None

(* Counting a connection keeps the counter at most one above the limit,    *)
(* since a counter already above it belongs to a ban.                      *)
LEMMA CountBounded ==
  ASSUME IInv, NEW a \in Addrs, ~Banned(a)
  PROVE  CountAfter(a) \in 1..(Limit + 1)
<1>1. CASE until[a] # None
  BY <1>1, ExpiredBanRolls, LimiterAssumption
<1>2. CASE until[a] = None
  <2>1. count[a] \in 0..Limit
    BY <1>2, LimiterAssumption DEF IInv, LimiterTypeOK, BanOutlivesWindow
  <2> QED
    BY <2>1, LimiterAssumption DEF CountAfter
<1> QED
  BY <1>1, <1>2

(* Admitting a connection keeps the invariant. *)
LEMMA AdmitKeepsIInv ==
  ASSUME IInv, NEW a \in Addrs, Admit(a)
  PROVE  IInv'
<1>1. CountAfter(a) \in 1..(Limit + 1)
  BY CountBounded DEF Admit
<1>2. LimiterTypeOK'
  BY <1>1, LimiterAssumption DEF IInv, LimiterTypeOK, Admit, Counted, None
<1>3. BanOutlivesWindow'
  <2> SUFFICES ASSUME NEW b \in Addrs
               PROVE  /\ start'[b] # None => start'[b] <= now'
                      /\ until'[b] # None => start'[b] # None /\ until'[b] >= start'[b] + Window
                      /\ count'[b] > Limit => until'[b] # None
    BY DEF BanOutlivesWindow
  <2>1. CASE b = a
    BY <1>1, <2>1, LimiterAssumption DEF IInv, LimiterTypeOK, BanOutlivesWindow, Admit, Counted, None
  <2>2. CASE b # a
    BY <2>2 DEF IInv, LimiterTypeOK, BanOutlivesWindow, Admit, Counted
  <2> QED
    BY <2>1, <2>2
<1> QED
  BY <1>2, <1>3 DEF IInv

(* Starting a ban keeps the invariant: it ends Ban after a moment that is  *)
(* no earlier than the start of the window.                                *)
LEMMA StartBanKeepsIInv ==
  ASSUME IInv, NEW a \in Addrs, StartBan(a)
  PROVE  IInv'
<1>1. CountAfter(a) \in 1..(Limit + 1)
  BY CountBounded DEF StartBan
<1>2. now + Ban \in Nat /\ now \in Nat
  BY LimiterAssumption DEF IInv, LimiterTypeOK
<1>3. LimiterTypeOK'
  BY <1>1, <1>2, LimiterAssumption DEF IInv, LimiterTypeOK, StartBan, Counted, None
<1>4. BanOutlivesWindow'
  <2> SUFFICES ASSUME NEW b \in Addrs
               PROVE  /\ start'[b] # None => start'[b] <= now'
                      /\ until'[b] # None => start'[b] # None /\ until'[b] >= start'[b] + Window
                      /\ count'[b] > Limit => until'[b] # None
    BY DEF BanOutlivesWindow
  <2>1. CASE b = a
    <3>1. /\ start'[a] = (IF Rolls(a) THEN now ELSE start[a])
          /\ until'[a] = now + Ban
          /\ now' = now
      BY DEF IInv, LimiterTypeOK, StartBan, Counted
    <3>2. start'[a] \in Nat /\ start'[a] <= now
      BY <1>2, <3>1 DEF IInv, LimiterTypeOK, BanOutlivesWindow, Rolls
    <3> QED
      BY <1>2, <2>1, <3>1, <3>2, LimiterAssumption DEF None
  <2>2. CASE b # a
    BY <2>2 DEF IInv, LimiterTypeOK, BanOutlivesWindow, StartBan, Counted
  <2> QED
    BY <2>1, <2>2
<1> QED
  BY <1>3, <1>4 DEF IInv

(* Time passing keeps the invariant. *)
LEMMA TickKeepsIInv == IInv /\ Tick => IInv'
BY LimiterAssumption DEF IInv, LimiterTypeOK, BanOutlivesWindow, Tick, None

(* The limiter always satisfies its type invariant, in which the counter   *)
(* never exceeds the limit by more than one, and BanOutlivesWindow.        *)
THEOREM LimiterInvariant == LimiterSpec => []IInv
<1>1. IInv /\ [LimiterNext]_limiterVars => IInv'
  <2> SUFFICES ASSUME IInv, [LimiterNext]_limiterVars
               PROVE  IInv'
    OBVIOUS
  <2>1. CASE Tick
    BY <2>1, TickKeepsIInv
  <2>2. CASE \E a \in Addrs : Drop(a) \/ Admit(a) \/ StartBan(a)
    <3> PICK a \in Addrs : Drop(a) \/ Admit(a) \/ StartBan(a)
      BY <2>2
    <3>1. CASE Drop(a)
      BY <3>1 DEF Drop, IInv, LimiterTypeOK, BanOutlivesWindow, limiterVars
    <3> QED
      BY <3>1, AdmitKeepsIInv, StartBanKeepsIInv
  <2>3. CASE UNCHANGED limiterVars
    BY <2>3 DEF IInv, LimiterTypeOK, BanOutlivesWindow, limiterVars
  <2> QED
    BY <2>1, <2>2, <2>3 DEF LimiterNext
<1> QED
  BY InitIInv, <1>1, PTL DEF LimiterSpec

(* The type invariant of RateLimiter: counters stay within limit + 1. *)
THEOREM TypeCorrect == LimiterSpec => []LimiterTypeOK
<1>1. IInv => LimiterTypeOK
  BY DEF IInv
<1> QED
  BY <1>1, LimiterInvariant, PTL

(* A ban that was waited out ends with the next connection being admitted: *)
(* allow never turns one ban into the next without an admission between.   *)
THEOREM BansEnd == LimiterSpec => BanEnds
<1> DEFINE Ends == \A a \in Addrs :
                     until[a] # None /\ until'[a] # until[a]
                       => log'[a] = Append(log[a], now) /\ until'[a] = None
<1>1. IInv /\ [LimiterNext]_limiterVars => [Ends]_limiterVars
  <2> SUFFICES ASSUME IInv, LimiterNext, NEW a \in Addrs,
                      until[a] # None, until'[a] # until[a]
               PROVE  log'[a] = Append(log[a], now) /\ until'[a] = None
    OBVIOUS
  <2>1. PICK b \in Addrs : Admit(b) \/ StartBan(b)
    BY DEF LimiterNext, Tick, Drop, limiterVars
  <2>2. b = a
    BY <2>1 DEF IInv, LimiterTypeOK, Admit, StartBan
  <2>3. CASE Admit(a)
    BY <2>3 DEF IInv, LimiterTypeOK, Admit
  <2>4. CASE StartBan(a)
    <3>1. CountAfter(a) = 1
      BY <2>4, ExpiredBanRolls DEF StartBan
    <3> QED
      BY <2>4, <3>1, LimiterAssumption DEF StartBan
  <2> QED
    BY <2>1, <2>2, <2>3, <2>4
<1> QED
  BY <1>1, LimiterInvariant, PTL DEF LimiterSpec, BanEnds

-----------------------------------------------------------------------------
(* How much a span admits. *)

(* The connections of a's current window that were admitted: the one that  *)
(* began the ban is counted and not admitted.                              *)
Served(a) == IF count[a] > Limit THEN Limit ELSE count[a]

(* What was admitted before the current window is no younger than its      *)
(* start, and what was admitted before the window before it is a whole     *)
(* window older.                                                           *)
OlderThanWindow ==
  \A a \in Addrs : \A i \in 1..Len(log[a]) :
    /\ log[a][i] <= now
    /\ start[a] # None
    /\ i <= Len(log[a]) - Served(a) => log[a][i] <= start[a]
    /\ i <= Len(log[a]) - Served(a) - Limit => log[a][i] + Window <= start[a]

(* What an admission does to the log and the window of its address. *)
LEMMA AdmitEffect ==
  ASSUME IInv, NEW a \in Addrs, Admit(a)
  PROVE  /\ now' = now /\ now \in Nat
         /\ log[a] \in Seq(Nat) /\ Len(log[a]) \in Nat
         /\ log'[a] = Append(log[a], now)
         /\ Len(log'[a]) = Len(log[a]) + 1
         /\ log'[a][Len(log[a]) + 1] = now
         /\ \A i \in 1..Len(log[a]) : log'[a][i] = log[a][i] /\ log[a][i] \in Nat
         /\ start'[a] = (IF Rolls(a) THEN now ELSE start[a])
         /\ start'[a] \in Nat
         /\ count'[a] = CountAfter(a) /\ count'[a] \in 1..Limit
         /\ \A b \in Addrs \ {a} : log'[b] = log[b] /\ start'[b] = start[b] /\ count'[b] = count[b]
<1>1. CountAfter(a) \in 1..Limit
  BY CountBounded, LimiterAssumption DEF Admit
<1>2. now' = now /\ now \in Nat /\ log[a] \in Seq(Nat) /\ log'[a] = Append(log[a], now)
  BY LimiterAssumption DEF IInv, LimiterTypeOK, Admit, Counted
<1>3. /\ Len(log[a]) \in Nat /\ Len(log'[a]) = Len(log[a]) + 1
      /\ log'[a][Len(log[a]) + 1] = now
      /\ \A i \in 1..Len(log[a]) : log'[a][i] = log[a][i] /\ log[a][i] \in Nat
  BY <1>2
<1>4. start'[a] = (IF Rolls(a) THEN now ELSE start[a]) /\ count'[a] = CountAfter(a)
  BY DEF IInv, LimiterTypeOK, Admit, Counted
<1>5. start'[a] \in Nat
  BY <1>2, <1>4 DEF IInv, LimiterTypeOK, Rolls
<1>6. \A b \in Addrs \ {a} : log'[b] = log[b] /\ start'[b] = start[b] /\ count'[b] = count[b]
  BY DEF IInv, LimiterTypeOK, Admit, Counted
<1> QED
  BY <1>1, <1>2, <1>3, <1>4, <1>5, <1>6

(* In a window that goes on, the admission is one more of that window; in  *)
(* a new one, everything before it is of an earlier window.                *)
LEMMA AdmitServed ==
  ASSUME IInv, NEW a \in Addrs, Admit(a)
  PROVE  /\ Served(a) \in 0..Limit
         /\ Served(a)' = (IF Rolls(a) THEN 1 ELSE Served(a) + 1)
<1>1. count[a] \in 0..(Limit + 1) /\ count'[a] = CountAfter(a) /\ count'[a] \in 1..Limit
  BY AdmitEffect DEF IInv, LimiterTypeOK
<1> QED
  BY <1>1, LimiterAssumption DEF Served, CountAfter

(* Admitting a connection keeps OlderThanWindow. *)
LEMMA AdmitKeepsOlder ==
  ASSUME IInv, OlderThanWindow, NEW a \in Addrs, Admit(a)
  PROVE  OlderThanWindow'
<1> SUFFICES ASSUME NEW b \in Addrs, NEW i \in 1..Len(log'[b])
             PROVE  /\ log'[b][i] <= now'
                    /\ start'[b] # None
                    /\ i <= Len(log'[b]) - Served(b)' => log'[b][i] <= start'[b]
                    /\ i <= Len(log'[b]) - Served(b)' - Limit => log'[b][i] + Window <= start'[b]
  BY DEF OlderThanWindow
<1>1. CASE b # a
  BY <1>1, AdmitEffect DEF OlderThanWindow, Served
<1>2. CASE b = a
  <2> DEFINE n == Len(log[a])
  <2> HIDE DEF n
  <2>1. /\ n \in Nat /\ Len(log'[a]) = n + 1 /\ log'[a][n + 1] = now
        /\ now' = now /\ now \in Nat /\ start'[a] \in Nat
        /\ start'[a] = (IF Rolls(a) THEN now ELSE start[a])
        /\ \A k \in 1..n : log'[a][k] = log[a][k] /\ log[a][k] \in Nat
    BY AdmitEffect DEF n
  <2>2. \A k \in 1..n :
          /\ log[a][k] <= now
          /\ start[a] # None
          /\ k <= n - Served(a) => log[a][k] <= start[a]
          /\ k <= n - Served(a) - Limit => log[a][k] + Window <= start[a]
    BY DEF OlderThanWindow, n
  <2>3. Served(a) \in 0..Limit /\ Served(a)' = (IF Rolls(a) THEN 1 ELSE Served(a) + 1)
    BY AdmitServed
  <2>4. start'[a] # None
    BY <2>1 DEF None
  <2> SUFFICES /\ log'[a][i] <= now'
               /\ i <= (n + 1) - Served(a)' => log'[a][i] <= start'[a]
               /\ i <= (n + 1) - Served(a)' - Limit => log'[a][i] + Window <= start'[a]
    BY <1>2, <2>1, <2>4 DEF Served
  <2>5. CASE i = n + 1
    BY <1>2, <2>1, <2>3, <2>4, <2>5, LimiterAssumption
  <2>6. CASE i \in 1..n /\ Rolls(a)
    <3>1. start[a] \in Nat /\ start[a] + Window <= now
      BY <2>1, <2>2, <2>6, LimiterAssumption DEF IInv, LimiterTypeOK, Rolls
    <3>2. /\ log'[a][i] = log[a][i] /\ log[a][i] \in Nat /\ log[a][i] <= now
          /\ i <= n - Served(a) => log[a][i] <= start[a]
      BY <2>1, <2>2, <2>6
    <3>3. start'[a] = now /\ Served(a)' = 1
      BY <2>1, <2>3, <2>6
    <3>4. i <= n - Limit => i <= n - Served(a)
      BY <2>1, <2>3, <2>6, LimiterAssumption
    <3> QED
      BY <2>1, <2>6, <3>1, <3>2, <3>3, <3>4, LimiterAssumption
  <2>7. CASE i \in 1..n /\ ~Rolls(a)
    <3>1. /\ log'[a][i] = log[a][i] /\ log[a][i] \in Nat /\ log[a][i] <= now
          /\ i <= n - Served(a) => log[a][i] <= start[a]
          /\ i <= n - Served(a) - Limit => log[a][i] + Window <= start[a]
      BY <2>1, <2>2, <2>7
    <3>2. start'[a] = start[a] /\ Served(a)' = Served(a) + 1
      BY <2>1, <2>3, <2>7
    <3>3. /\ (n + 1) - Served(a)' = n - Served(a)
          /\ (n + 1) - Served(a)' - Limit = n - Served(a) - Limit
      <4>1. \A x, y, z \in Int : (x + 1) - (y + 1) = x - y /\ (x + 1) - (y + 1) - z = x - y - z
        OBVIOUS
      <4>2. n \in Int /\ Served(a) \in Int /\ Limit \in Int
        BY <2>1, <2>3, LimiterAssumption
      <4>3. (n + 1) - (Served(a) + 1) = n - Served(a) /\ (n + 1) - (Served(a) + 1) - Limit = n - Served(a) - Limit
        BY <4>1, <4>2
      <4>4. Served(a)' = Served(a) + 1
        BY <3>2
      <4>5. (n + 1) - Served(a)' = (n + 1) - (Served(a) + 1)
        BY <4>4
      <4> QED
        BY <4>3, <4>4, <4>5
    <3> QED
      BY <2>1, <3>1, <3>2, <3>3
  <2>8. i \in 1..(n + 1)
    BY <1>2, <2>1
  <2> QED
    BY <2>1, <2>5, <2>6, <2>7, <2>8
<1> QED
  BY <1>1, <1>2

(* A ban starts in a window that goes on and admits nothing. *)
LEMMA StartBanKeepsOlder ==
  ASSUME IInv, OlderThanWindow, NEW a \in Addrs, StartBan(a)
  PROVE  OlderThanWindow'
<1>1. ~Rolls(a) /\ start[a] \in Nat
  BY LimiterAssumption DEF StartBan, CountAfter, Rolls, IInv, LimiterTypeOK
<1>2. count[a] \in 0..(Limit + 1) /\ count[a] + 1 > Limit
  BY <1>1 DEF StartBan, CountAfter, IInv, LimiterTypeOK
<1>3. now' = now /\ log' = log /\ start' = start /\ count' = [count EXCEPT ![a] = count[a] + 1]
  BY <1>1 DEF StartBan, Counted, CountAfter, IInv, LimiterTypeOK
<1>4. \A b \in Addrs : Served(b)' = Served(b)
  BY <1>2, <1>3, LimiterAssumption DEF Served, IInv, LimiterTypeOK
<1> QED
  BY <1>3, <1>4 DEF OlderThanWindow

(* Time passing keeps OlderThanWindow. *)
LEMMA TickKeepsOlder == IInv /\ OlderThanWindow /\ Tick => OlderThanWindow'
<1> SUFFICES ASSUME IInv, OlderThanWindow, Tick
             PROVE  OlderThanWindow'
  OBVIOUS
<1>1. \A a \in Addrs : \A i \in 1..Len(log[a]) : log[a][i] \in Nat
  BY DEF IInv, LimiterTypeOK
<1>2. /\ now \in Nat /\ now' = now + 1 /\ log' = log /\ start' = start
      /\ \A a \in Addrs : Served(a)' = Served(a)
  BY LimiterAssumption DEF IInv, LimiterTypeOK, Tick, Served
<1> QED
  BY <1>1, <1>2 DEF OlderThanWindow

(* The spans of an admission: the one 2 * Limit before it is of the window *)
(* before the previous one, or older.                                      *)
LEMMA AdmitKeepsSpan ==
  ASSUME IInv, OlderThanWindow, SpanAtMostTwice, NEW a \in Addrs, Admit(a)
  PROVE  SpanAtMostTwice'
<1> SUFFICES ASSUME NEW b \in Addrs, NEW i \in 1..Len(log'[b]),
                    i + 2 * Limit \in 1..Len(log'[b])
             PROVE  log'[b][i + 2 * Limit] - log'[b][i] >= Window
  BY DEF SpanAtMostTwice
<1>1. CASE b # a
  BY <1>1, AdmitEffect DEF SpanAtMostTwice
<1>2. CASE b = a
  <2> DEFINE n == Len(log[a])
             j == i + 2 * Limit
  <2> HIDE DEF n, j
  <2>1. /\ n \in Nat /\ Len(log'[a]) = n + 1 /\ log'[a][n + 1] = now /\ now \in Nat
        /\ start'[a] = (IF Rolls(a) THEN now ELSE start[a]) /\ start'[a] \in Nat
        /\ \A k \in 1..n : log'[a][k] = log[a][k] /\ log[a][k] \in Nat
    BY AdmitEffect DEF n
  <2>2. i \in 1..n /\ j \in 1..(n + 1) /\ i = j - 2 * Limit
    BY <1>2, <2>1, LimiterAssumption DEF j
  <2>3. CASE j \in 1..n
    <3>1. log[a][j] - log[a][i] >= Window
      BY <2>2, <2>3 DEF SpanAtMostTwice, n, j
    <3> QED
      BY <1>2, <2>1, <2>2, <2>3, <3>1 DEF j
  <2>4. CASE j = n + 1
    <3>1. OlderThanWindow' /\ IInv'
      BY AdmitKeepsOlder, AdmitKeepsIInv
    <3>2. Served(a)' \in 1..Limit
      <4>1. count'[a] \in 1..Limit
        BY AdmitEffect
      <4> QED
        BY <4>1, LimiterAssumption DEF Served
    <3>3. i <= Len(log'[a]) - Served(a)' - Limit => log'[a][i] + Window <= start'[a]
      BY <1>2, <3>1 DEF OlderThanWindow
    <3>4. i <= (n + 1) - Served(a)' - Limit
      BY <2>1, <2>2, <2>4, <3>2, LimiterAssumption
    <3>5. start'[a] <= now
      <4>1. now' = now
        BY AdmitEffect
      <4> QED
        BY <2>1, <3>1, <4>1 DEF IInv, BanOutlivesWindow, None
    <3>6. log'[a][i] + Window <= start'[a]
      BY <2>1, <3>3, <3>4
    <3>7. log'[a][i] \in Nat /\ log'[a][j] = now
      BY <2>1, <2>2, <2>4
    <3>8. log'[a][j] - log'[a][i] >= Window
      BY <2>1, <3>5, <3>6, <3>7, LimiterAssumption
    <3> QED
      BY <1>2, <3>8 DEF j
  <2> QED
    BY <2>1, <2>2, <2>3, <2>4
<1> QED
  BY <1>1, <1>2

(* However connections are spread over adjoining windows, allow lets no    *)
(* span as long as a window have more than twice the limit.                *)
THEOREM SpanBounded == LimiterSpec => []SpanAtMostTwice
<1> DEFINE Inv == IInv /\ OlderThanWindow /\ SpanAtMostTwice
<1>1. LimiterInit => Inv
  <2> SUFFICES ASSUME LimiterInit
               PROVE  Inv
    OBVIOUS
  <2>1. \A a \in Addrs : log[a] = <<>> /\ Len(log[a]) = 0
    BY DEF LimiterInit
  <2> QED
    BY <2>1, InitIInv DEF OlderThanWindow, SpanAtMostTwice
<1>2. Inv /\ [LimiterNext]_limiterVars => Inv'
  <2> SUFFICES ASSUME Inv, [LimiterNext]_limiterVars
               PROVE  OlderThanWindow' /\ SpanAtMostTwice' /\ IInv'
    OBVIOUS
  <2>1. CASE Tick
    <3>1. SpanAtMostTwice'
      BY <2>1 DEF Tick, SpanAtMostTwice
    <3> QED
      BY <2>1, <3>1, TickKeepsIInv, TickKeepsOlder
  <2>2. CASE \E a \in Addrs : Admit(a) \/ StartBan(a)
    <3> PICK a \in Addrs : Admit(a) \/ StartBan(a)
      BY <2>2
    <3>1. CASE Admit(a)
      BY <3>1, AdmitKeepsIInv, AdmitKeepsOlder, AdmitKeepsSpan
    <3>2. CASE StartBan(a)
      <4>1. SpanAtMostTwice'
        BY <3>2 DEF StartBan, SpanAtMostTwice
      <4> QED
        BY <3>2, <4>1, StartBanKeepsIInv, StartBanKeepsOlder
    <3> QED
      BY <3>1, <3>2
  <2>3. CASE UNCHANGED limiterVars
    BY <2>3 DEF IInv, LimiterTypeOK, BanOutlivesWindow, OlderThanWindow, Served, SpanAtMostTwice, limiterVars
  <2> QED
    BY <2>1, <2>2, <2>3 DEF LimiterNext, Drop
<1>3. Inv => SpanAtMostTwice
  OBVIOUS
<1> QED
  BY <1>1, <1>2, <1>3, PTL DEF LimiterSpec

=============================================================================
