----------------------------- MODULE ServiceCall -----------------------------
(***************************************************************************)
(* What the creator of a call relies on: the request goes out at most      *)
(* twice, then exactly one of onSucceeded and onFailed is called, and one  *)
(* of them is called in the end.                                           *)
(***************************************************************************)
EXTENDS Naturals

CONSTANT Calls

VARIABLES started,   \* the calls that were started
          notified,  \* onSucceeded and onFailed, as called
          sends      \* how often the request went out

contractVars == <<started, notified, sends>>

Init ==
  /\ started = {}
  /\ notified = [c \in Calls |-> << >>]
  /\ sends = [c \in Calls |-> 0]

Start(c) ==
  /\ c \notin started
  /\ started' = started \cup {c}
  /\ UNCHANGED <<notified, sends>>

Pending(c) == c \in started /\ notified[c] = << >>

Transmit(c) ==
  /\ Pending(c)
  /\ sends[c] < 2
  /\ sends' = [sends EXCEPT ![c] = @ + 1]
  /\ UNCHANGED <<started, notified>>

\* Success needs an answer, hence a request; failure may come before any.
End(c) ==
  /\ Pending(c)
  /\ \E what \in {"onSucceeded", "onFailed"} :
       /\ what = "onSucceeded" => sends[c] > 0
       /\ notified' = [notified EXCEPT ![c] = << what >>]
  /\ UNCHANGED <<started, sends>>

Next == \E c \in Calls : Start(c) \/ Transmit(c) \/ End(c)

SafeSpec == Init /\ [][Next]_contractVars

Spec == SafeSpec /\ \A c \in Calls : WF_contractVars(End(c))

=============================================================================
