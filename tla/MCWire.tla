------------------------------- MODULE MCWire -------------------------------
(* An instance of Wire: bytes of two bits, a magic of two bytes, a length  *)
(* field of two bytes, of which the largest frame needs both; of Formats,  *)
(* whose inputs are the initial states in which nothing is sent; and of    *)
(* RateLimiter, which runs from an initial state of its own: limit 2 for   *)
(* 20, window 2 for a minute, ban 3 for five minutes.                      *)
EXTENDS Wire, Formats, RateLimiter

MCMagic == <<2, 3>>
MCTypes == {1, 2}
(* Payloads: none, one that looks like the start of a frame, the largest,  *)
(* and one byte more.                                                      *)
MCFrames == {[ty |-> 1, payload |-> <<>>], [ty |-> 2, payload |-> <<2, 3, 1>>],
             [ty |-> 1, payload |-> <<0, 1, 0, 1, 0>>],
             [ty |-> 2, payload |-> <<0, 1, 0, 1, 0, 1>>]}
(* A wrong magic, an unknown type, a length above the largest (with and    *)
(* without that much of a body), a frame, and the start of one.            *)
MCForeign == {<<3, 2, 1, 0, 0>>, <<2, 3, 0, 0, 0>>, <<2, 3, 1, 2, 1>>,
              <<2, 3, 1, 2, 1, 0, 0, 0, 0, 0, 0>>, <<2, 3, 1, 1, 0, 3>>, <<2, 3, 2>>}

(* Names of up to two of: a letter, each byte a URL gives a meaning to, a  *)
(* high byte; and one that looks percent-encoded.                          *)
MCNames ==
  SeqOf({97, Space, Hash, Percent, Amp, Plus, Comma, Slash, Colon, Equals, Question, 195}, 2)
  \cup {<<Percent, 50, 67>>}

MCNoXml == {"\f"}

MCInputs ==
  {[of |-> "name", name |-> n] : n \in SeqOf(1..4, 4)}
  \cup {[of |-> "txt", id |-> i, name |-> n, extra |-> e, order |-> o, addrs |-> a] :
          i \in {"id1", "short"}, n \in {<<>>, <<3, 2, 1>>},
          e \in {<<"new", "x">>, <<"id", "not hex">>},
          o \in {p \in [1..4 -> 1..4] : \A x \in 1..4 : \E y \in 1..4 : p[y] = x},
          a \in {<<>>, <<"addr">>}}
  \cup {[of |-> "qr", pk |-> p, name |-> n, ifaces |-> f] :
          p \in {Word.pk1, Word.pk2}, n \in MCNames,
          f \in {SetToSeq(s) : s \in SUBSET {[ip |-> <<One, Colon, Colon>>, kind |-> "v6"],
                                [ip |-> <<One, 46>>, kind |-> "v4"],
                                [ip |-> <<One, One>>, kind |-> "loopback"],
                                [ip |-> <<46, One>>, kind |-> "v4 link-local"]}}}
  \cup {[of |-> "map", pairs |-> s] : s \in SeqOf({NotAnInteger, 1, 2} \X {"x", "y"}, 3)}
  \cup {[of |-> "digest", digest |-> d] : d \in Digests}
  \cup {[of |-> "text", text |-> t] : t \in SeqOf({"a", "\n", "<", "&", "amp;", "\f"}, 4)}

(* The initial states: of the wire, of an input each, and of the limiter.  *)
LimiterRun == [of |-> "limiter"]
MCInit == Init /\ LimiterInit /\ (FormatsInit \/ in = LimiterRun)

WireNext == in = NoInput /\ Next /\ UNCHANGED <<in, limiterVars>>
MCNext ==
  \/ WireNext
  \/ in = LimiterRun /\ LimiterNext /\ UNCHANGED <<in, vars>>
MCSpec ==
  /\ MCInit /\ [][MCNext]_<<vars, in, limiterVars>>
  /\ WF_<<vars, in, limiterVars>>(in = NoInput /\ Receives /\ UNCHANGED <<in, limiterVars>>)
=============================================================================
