-------------------------- MODULE CallContractProofs --------------------------
(***************************************************************************)
(* The calls of the ATL client library, for any number of them and any     *)
(* faults: they implement the safe part of their contract (module          *)
(* ServiceCall); what onFailed concludes from the state of a call is       *)
(* right; what a call remembers is never older than what its request       *)
(* carried; and the types of all of it.                                    *)
(***************************************************************************)
EXTENDS CallbackoAuthProofs

Opening == {"loading", "authorizing", "opened"}
Underway == {"sent", "answered"}
Rejected == {"rejected", "locked", "renewing", "unlocking", "queued"}

\* How far a call is: what was sent, by its state and its place, and that it
\* is notified when it is done, not before.
Stage(c) ==
  /\ pc[c] = "new" => m_eState[c] = "InitialRequest" /\ sends[c] = 0
  /\ pc[c] \in Opening => \/ m_eState[c] = "InitialRequest" /\ sends[c] = 0
                          \/ m_eState[c] = "RetryOnce" /\ sends[c] = 1
  /\ pc[c] \in Underway => \/ m_eState[c] = "InitialRequest" /\ sends[c] = 1
                           \/ m_eState[c] = "RetryOnce" /\ sends[c] = 2
  /\ pc[c] \in Rejected => m_eState[c] = "InitialRequest" /\ sends[c] = 1
  /\ pc[c] # "done" => notified[c] = << >>

StageInv ==
  /\ pc \in [Calls -> Places]
  /\ m_eState \in [Calls -> {"InitialRequest", "RetryOnce", "Finish"}]
  /\ notified \in [Calls -> Seq({"onSucceeded", "onFailed"})]
  /\ sends \in [Calls -> Nat]
  /\ \A c \in Calls : Stage(c)

\* What the creators see of a step: nothing, or a step of the contract.
Seen == Contract!Next \/ UNCHANGED Contract!contractVars

OthersStay(c) ==
  \A d \in Calls : d # c => /\ pc'[d] = pc[d] /\ m_eState'[d] = m_eState[d]
                            /\ notified'[d] = notified[d] /\ sends'[d] = sends[d]

-----------------------------------------------------------------------------
LEMMA StartedMeans ==
  ASSUME NEW c \in Calls
  PROVE  c \in started <=> pc[c] # "new"
  BY DEF started

\* One call has moved, and its new stage is as it should be.
LEMMA StageKeeps ==
  ASSUME StageInv, NEW c \in Calls, NEW p \in Places, Goto(c, p),
         m_eState' \in [Calls -> {"InitialRequest", "RetryOnce", "Finish"}],
         notified' \in [Calls -> Seq({"onSucceeded", "onFailed"})],
         sends' \in [Calls -> Nat],
         OthersStay(c), Stage(c)'
  PROVE  StageInv'
  <1>1. pc' \in [Calls -> Places]
    BY Moved DEF StageInv
  <1>2. ASSUME NEW d \in Calls, d # c
        PROVE  Stage(d)'
    BY <1>2 DEF StageInv, Stage, OthersStay
  <1> QED BY <1>1, <1>2 DEF StageInv

LEMMA StartedKeeps ==
  ASSUME StageInv, NEW c \in Calls, NEW p \in Places \ {"new"}, Goto(c, p), pc[c] # "new"
  PROVE  UNCHANGED started
  <1>1. ASSUME NEW d \in Calls
        PROVE  pc'[d] # "new" <=> pc[d] # "new"
    BY Moved DEF StageInv
  <1> QED BY <1>1 DEF started

\* From one place to another, without a new state, request or notification.
LEMMA PlaceKeeps ==
  ASSUME StageInv, NEW c \in Calls, NEW p \in Places, Goto(c, p),
         UNCHANGED <<m_eState, notified, sends>>,
         \/ pc[c] \in Opening /\ p \in Opening
         \/ pc[c] \in Underway /\ p \in Underway
         \/ pc[c] = "answered" /\ m_eState[c] = "InitialRequest" /\ p = "rejected"
         \/ pc[c] \in Rejected /\ p \in Rejected
         \/ pc[c] \notin {"new", "done"} /\ p = "dead"
  PROVE  StageInv' /\ Seen
  <1>1. pc'[c] = p /\ \A d \in Calls : d # c => pc'[d] = pc[d]
    BY Moved DEF StageInv
  <1>2. Stage(c)'
    BY <1>1 DEF StageInv, Stage, Opening, Underway, Rejected
  <1>3. OthersStay(c)
    BY <1>1 DEF OthersStay
  <1>4. StageInv'
    BY <1>2, <1>3, StageKeeps DEF StageInv
  <1>5. UNCHANGED started
    BY StartedKeeps DEF Opening, Underway, Rejected
  <1> QED BY <1>4, <1>5 DEF Seen, Contract!contractVars

LEMMA ContinueKeeps ==
  ASSUME StageInv, NEW c \in Calls, Continue(c),
         pc[c] \in Rejected \cup {"answered"}, m_eState[c] = "InitialRequest"
  PROVE  StageInv' /\ Seen
  <1>1. /\ Goto(c, "loading")
        /\ m_eState' = [m_eState EXCEPT ![c] = "RetryOnce"]
        /\ UNCHANGED <<notified, sends>>
    BY DEF Continue
  <1>2. pc'[c] = "loading" /\ \A d \in Calls : d # c => pc'[d] = pc[d]
    BY <1>1, Moved DEF StageInv, Places
  <1>3. Stage(c)' /\ OthersStay(c)
    BY <1>1, <1>2 DEF StageInv, Stage, Opening, Underway, Rejected, OthersStay
  <1>4. StageInv'
    BY <1>1, <1>3, StageKeeps DEF StageInv, Places
  <1>5. UNCHANGED started
    BY <1>1, StartedKeeps DEF Rejected, Places
  <1> QED BY <1>1, <1>4, <1>5 DEF Seen, Contract!contractVars

\* The notification of a call that has none yet.
LEMMA NotifyKeeps ==
  ASSUME StageInv, NEW c \in Calls, NEW what \in {"onSucceeded", "onFailed"},
         Notify(c, what), Goto(c, "done"), pc[c] \notin {"new", "done"},
         what = "onSucceeded" => sends[c] > 0,
         m_eState' \in [Calls -> {"InitialRequest", "RetryOnce", "Finish"}],
         \A d \in Calls : d # c => m_eState'[d] = m_eState[d],
         UNCHANGED sends
  PROVE  StageInv' /\ Seen
  <1>1. pc'[c] = "done" /\ \A d \in Calls : d # c => pc'[d] = pc[d]
    BY Moved DEF StageInv, Places
  <1>2. notified[c] = << >>
    BY DEF StageInv, Stage
  <1>3. notified' = [notified EXCEPT ![c] = << what >>]
    BY <1>2 DEF Notify
  <1>4. /\ notified' \in [Calls -> Seq({"onSucceeded", "onFailed"})]
        /\ \A d \in Calls : d # c => notified'[d] = notified[d]
    BY <1>3 DEF StageInv
  <1>5. Stage(c)' /\ OthersStay(c)
    BY <1>1, <1>4 DEF Stage, Opening, Underway, Rejected, OthersStay
  <1>6. StageInv'
    BY <1>4, <1>5, StageKeeps DEF StageInv, Places
  <1>7. UNCHANGED started
    BY StartedKeeps DEF Places
  <1>8. Contract!End(c)
    BY <1>2, <1>3, <1>7, StartedMeans DEF Contract!End, Contract!Pending
  <1> QED BY <1>6, <1>8 DEF Seen, Contract!Next

LEMMA TerminateKeeps ==
  ASSUME StageInv, NEW c \in Calls, Terminate(c), pc[c] \in Rejected \cup {"refused"}
  PROVE  StageInv' /\ Seen
  BY NotifyKeeps DEF Terminate, StageInv, Rejected

-----------------------------------------------------------------------------
(* The steps *)

LEMMA InitRequestSeen ==
  ASSUME StageInv, NEW c \in Calls, InitRequest(c)
  PROVE  StageInv' /\ Seen
  <1>1. /\ pc[c] = "new"
        /\ Goto(c, "loading")
        /\ UNCHANGED <<m_eState, notified, sends>>
    BY DEF InitRequest
  <1>2. pc'[c] = "loading" /\ \A d \in Calls : d # c => pc'[d] = pc[d]
    BY <1>1, Moved DEF StageInv, Places
  <1>3. Stage(c)' /\ OthersStay(c)
    BY <1>1, <1>2 DEF StageInv, Stage, Opening, Underway, Rejected, OthersStay
  <1>4. StageInv'
    BY <1>1, <1>3, StageKeeps DEF StageInv, Places
  <1>5. started' = started \cup {c}
    BY <1>2 DEF started
  <1>6. Contract!Start(c)
    BY <1>1, <1>5, StartedMeans DEF Contract!Start
  <1> QED BY <1>4, <1>6 DEF Seen, Contract!Next

LEMMA SendSeen ==
  ASSUME StageInv, NEW c \in Calls, Send(c)
  PROVE  StageInv' /\ Seen
  <1>1. pc[c] = "opened" /\ UNCHANGED m_eState
    BY DEF Send
  <1>2. CASE Goto(c, "sent") /\ sends' = [sends EXCEPT ![c] = @ + 1] /\ UNCHANGED notified
    <2>1. pc'[c] = "sent" /\ \A d \in Calls : d # c => pc'[d] = pc[d]
      BY <1>2, Moved DEF StageInv, Places
    <2>2. /\ sends' \in [Calls -> Nat]
          /\ sends'[c] = sends[c] + 1
          /\ \A d \in Calls : d # c => sends'[d] = sends[d]
      BY <1>2 DEF StageInv
    <2>3. sends[c] < 2 /\ notified[c] = << >>
      BY <1>1 DEF StageInv, Stage, Opening
    <2>4. Stage(c)' /\ OthersStay(c)
      BY <1>1, <1>2, <2>1, <2>2 DEF StageInv, Stage, Opening, Underway, Rejected, OthersStay
    <2>5. StageInv'
      BY <1>1, <1>2, <2>2, <2>4, StageKeeps DEF StageInv, Places
    <2>6. UNCHANGED started
      BY <1>1, <1>2, StartedKeeps DEF Places
    <2>7. Contract!Transmit(c)
      BY <1>1, <1>2, <2>3, <2>6, StartedMeans DEF Contract!Transmit, Contract!Pending
    <2> QED BY <2>5, <2>7 DEF Seen, Contract!Next
  <1>3. CASE Goto(c, "done") /\ Notify(c, "onFailed") /\ UNCHANGED sends
    BY <1>1, <1>3, NotifyKeeps DEF StageInv
  <1> QED BY <1>2, <1>3 DEF Send

LEMMA OnCompleteSeen ==
  ASSUME StageInv, NEW c \in Calls, OnComplete(c)
  PROVE  StageInv' /\ Seen
  <1>1. pc[c] = "answered"
    BY DEF OnComplete
  <1>2. CASE OnFinish(c)
    <2>1. /\ Goto(c, "done")
          /\ m_eState' = [m_eState EXCEPT ![c] = "Finish"]
          /\ UNCHANGED sends
          /\ \E what \in {"onSucceeded", "onFailed"} : Notify(c, what)
      BY <1>2 DEF OnFinish
    <2>2. sends[c] > 0
      BY <1>1 DEF StageInv, Stage, Underway
    <2>3. /\ m_eState' \in [Calls -> {"InitialRequest", "RetryOnce", "Finish"}]
          /\ \A d \in Calls : d # c => m_eState'[d] = m_eState[d]
      BY <2>1 DEF StageInv
    <2> QED BY <1>1, <2>1, <2>2, <2>3, NotifyKeeps
  <1>3. CASE OnRejected(c)
    <2>1. CASE Continue(c)
      BY <1>1, <1>3, <2>1, ContinueKeeps DEF OnRejected
    <2>2. CASE Goto(c, "rejected") /\ UNCHANGED <<m_eState, notified, sends>>
      BY <1>1, <1>3, <2>2, PlaceKeeps DEF OnRejected, Places
    <2> QED BY <1>3, <2>1, <2>2 DEF OnRejected
  <1> QED BY <1>2, <1>3 DEF OnComplete

LEMMA RenewerSeen ==
  ASSUME StageInv, NEW c \in Calls,
         RenewInit(c) \/ RenewSend(c) \/ RenewComplete(c) \/ Refused(c)
  PROVE  StageInv' /\ Seen
  <1>1. pc[c] \in Rejected \/ (pc[c] = "refused" /\ Terminate(c))
    BY DEF RenewInit, RenewSend, RenewComplete, Refused, Rejected
  <1>2. \/ Terminate(c)
        \/ \E p \in {"locked", "queued", "renewing", "unlocking"} :
             Goto(c, p) /\ UNCHANGED <<m_eState, notified, sends>>
    BY DEF RenewInit, RenewSend, RenewComplete, Refused
  <1> QED BY <1>1, <1>2, TerminateKeeps, PlaceKeeps DEF Rejected, Places

LEMMA DrainSeen ==
  ASSUME CallInv, StageInv, NEW c \in Calls, Drain(c) \/ RenewReturn(c)
  PROVE  StageInv' /\ Seen
  <1>1. CASE UNCHANGED <<pc, m_eState, notified, sends>>
    BY <1>1 DEF StageInv, Stage, Seen, Contract!contractVars, started
  <1>2. CASE \E d \in Calls : pc[d] \in Rejected /\ (Continue(d) \/ Terminate(d))
    <2>1. PICK d \in Calls : pc[d] \in Rejected /\ (Continue(d) \/ Terminate(d))
      BY <1>2
    <2>2. CASE Continue(d)
      <3>1. pc[d] \in Rejected \cup {"answered"} /\ m_eState[d] = "InitialRequest"
        BY <2>1 DEF StageInv, Stage
      <3> QED BY <2>2, <3>1, ContinueKeeps
    <2>3. CASE Terminate(d)
      BY <2>1, <2>3, TerminateKeeps
    <2> QED BY <2>1, <2>2, <2>3
  <1>3. CASE RenewReturn(c)
    <2>1. CASE pc[c] = "unlocking"
      <3>1. Continue(c) \/ Terminate(c)
        BY <1>3, <2>1 DEF RenewReturn
      <3> QED BY <1>2, <2>1, <3>1 DEF Rejected
    <2>2. CASE pc[c] # "unlocking"
      BY <1>1, <1>3, <2>2 DEF RenewReturn
    <2> QED BY <2>1, <2>2
  <1>4. CASE Drain(c)
    <2> DEFINE callee == Head(m_lstRetryRequest)
    <2>1. callee \in Calls /\ pc[callee] \in {"queued", "dead"}
      <3>1. m_lstRetryRequest # << >>
        BY <1>4 DEF Drain
      <3>2. callee \in Calls /\ callee = m_lstRetryRequest[1] /\ 1 \in 1..Len(m_lstRetryRequest)
        BY <3>1, Pop DEF CallInv, TFInv, TFTypeOK
      <3> QED BY <3>2 DEF CallInv, QueueLink
    <2>2. CASE pc[callee] = "dead"
      BY <1>1, <1>2, <1>4, <2>2 DEF Drain, Rejected
    <2>3. CASE pc[callee] = "queued"
      <3>1. Continue(callee) \/ Terminate(callee)
        BY <1>4, <2>3 DEF Drain
      <3> QED BY <1>2, <2>1, <2>3, <3>1 DEF Rejected
    <2> QED BY <2>1, <2>2, <2>3
  <1> QED BY <1>3, <1>4

\* The other steps move a call at most from one place to the next.
LEMMA QuietSeen ==
  ASSUME StageInv, NEW c \in Calls,
         \/ OnLoading(c) \/ Authorized(c) \/ DropServer(c) \/ ServiceAnswers(c)
         \/ Crash(c) \/ InitThrows(c)
  PROVE  StageInv' /\ Seen
  <1>1. UNCHANGED <<m_eState, notified, sends>>
    BY DEF OnLoading, Authorized, DropServer, ServiceAnswers, Crash, InitThrows, Die, callVars
  <1>2. CASE UNCHANGED pc
    BY <1>1, <1>2 DEF StageInv, Stage, Seen, Contract!contractVars, started
  <1>3. CASE OnLoading(c)
    <2>1. pc[c] = "loading" /\ \E p \in {"authorizing", "opened"} : Goto(c, p)
      BY <1>3 DEF OnLoading
    <2> QED BY <1>1, <2>1, PlaceKeeps DEF Opening, Places
  <1>4. CASE Authorized(c) /\ pc[c] = "authorizing"
    <2>1. Goto(c, "opened")
      BY <1>4 DEF Authorized
    <2> QED BY <1>1, <1>4, <2>1, PlaceKeeps DEF Opening, Places
  <1>5. CASE ServiceAnswers(c)
    <2>1. pc[c] = "sent" /\ Goto(c, "answered")
      BY <1>5 DEF ServiceAnswers
    <2> QED BY <1>1, <2>1, PlaceKeeps DEF Underway, Places
  <1>6. CASE Crash(c) \/ InitThrows(c)
    <2>1. pc[c] \notin {"new", "done"} /\ Goto(c, "dead")
      BY <1>6 DEF Crash, InitThrows, Die
    <2> QED BY <1>1, <2>1, PlaceKeeps DEF Places
  <1>7. (Authorized(c) /\ pc[c] # "authorizing") \/ DropServer(c) => UNCHANGED pc
    BY DEF Authorized, DropServer, callVars
  <1> QED BY <1>2, <1>3, <1>4, <1>5, <1>6, <1>7

\* The end of the surrogate notifies nobody; it may end a call, or make it retry.
LEMMA SurrogateEndsSeen ==
  ASSUME CallInv, StageInv, SurrogateEnds
  PROVE  StageInv' /\ Seen
  <1>1. pc' \in [Calls -> Places] /\ UNCHANGED <<notified, sends>>
    BY SurrogateEndsStep DEF SurrogateEnds
  <1>2. PICK swallowed \in BOOLEAN, asking \in SUBSET {c \in Calls :
               pc[c] = "answered" /\ status[c] = "401" /\ m_eState[c] = "InitialRequest"} :
          /\ pc' = [c \in Calls |-> IF c \in asking THEN "loading" ELSE PlaceAfter(c, swallowed)]
          /\ m_eState' = [c \in Calls |-> IF c \in asking THEN "RetryOnce" ELSE m_eState[c]]
    BY DEF SurrogateEnds
  <1>3. m_eState' \in [Calls -> {"InitialRequest", "RetryOnce", "Finish"}]
    BY <1>2 DEF StageInv
  <1>4. ASSUME NEW c \in Calls
        PROVE  Stage(c)' /\ (pc'[c] # "new" <=> pc[c] # "new")
    <2>1. Stage(c) /\ pc[c] \in Places
      BY DEF StageInv
    <2>2. CASE c \in asking
      <3>1. pc'[c] = "loading" /\ m_eState'[c] = "RetryOnce" /\ pc[c] = "answered"
        BY <1>2, <2>2
      <3>2. sends[c] = 1 /\ notified[c] = << >>
        BY <1>2, <2>1, <2>2 DEF Stage, Underway
      <3> QED BY <1>1, <3>1, <3>2 DEF Stage, Opening, Underway, Rejected
    <2>3. CASE c \notin asking
      <3>1. pc'[c] = PlaceAfter(c, swallowed) /\ m_eState'[c] = m_eState[c]
        BY <1>2, <2>3
      <3>2. \/ pc'[c] = pc[c]
            \/ pc[c] = "authorizing" /\ pc'[c] \in {"opened", "dead", "refused"}
            \/ pc[c] \in Rejected /\ pc'[c] \in {"refused", "stranded"}
        BY <2>1, <3>1 DEF PlaceAfter, Rejected
      <3> QED BY <1>1, <2>1, <3>1, <3>2 DEF Stage, Opening, Underway, Rejected
    <2> QED BY <2>2, <2>3
  <1>5. StageInv'
    BY <1>1, <1>3, <1>4 DEF StageInv
  <1>6. UNCHANGED started
    BY <1>4 DEF started
  <1> QED BY <1>1, <1>5, <1>6 DEF Seen, Contract!contractVars

-----------------------------------------------------------------------------
(* The refinement *)

LEMMA InitSeen ==
  ASSUME Init
  PROVE  StageInv /\ Contract!Init
  <1>1. StageInv
    BY DEF Init, StageInv, Stage, Places, Opening, Underway, Rejected
  <1>2. Contract!Init
    BY DEF Init, Contract!Init, started
  <1> QED BY <1>1, <1>2

LEMMA NextSeen ==
  ASSUME CallInv, StageInv, [Next]_vars
  PROVE  StageInv' /\ [Contract!Next]_Contract!contractVars
  <1>1. ASSUME NEW c \in Calls, InitRequest(c) \/ Step(c) \/ Crash(c) \/ InitThrows(c)
        PROVE  StageInv' /\ Seen
    BY <1>1, InitRequestSeen, SendSeen, OnCompleteSeen, RenewerSeen, DrainSeen, QuietSeen DEF Step
  <1>2. CASE SurrogateEnds
    BY <1>2, SurrogateEndsSeen DEF Seen
  <1>3. CASE UNCHANGED callVars
    BY <1>3 DEF callVars, StageInv, Stage, Seen, Contract!contractVars, started
  <1>4. TokenEndpoint \/ Expire \/ Revoke \/ Terminating \/ UNCHANGED vars => UNCHANGED callVars
    BY DEF TokenEndpoint, Expire, ExpireToken, Revoke, RevokeConsent, Terminating, vars, callVars
  <1> QED BY <1>1, <1>2, <1>3, <1>4 DEF Next, Seen

\* A call is sent at most twice and notified once, with onSucceeded only after
\* it was sent: whatever fails, and whoever crashes.
THEOREM KeepsContract ==
  ASSUME Generation = Nat \ {0}
  PROVE  Spec => ContractSafe
  <1>1. Init => StageInv /\ Contract!Init
    BY InitSeen
  <1>2. CallInv /\ StageInv /\ [Next]_vars => StageInv' /\ [Contract!Next]_Contract!contractVars
    BY NextSeen
  <1> QED BY <1>1, <1>2, CallInvariance, PTL DEF Spec, ContractSafe, Contract!SafeSpec

-----------------------------------------------------------------------------
(* What the state of a call tells onFailed *)

\* The conclusion (CSimulatorPing::onFailed).
Explanation(c) ==
  /\ m_eState[c] = "InitialRequest" => sends[c] = 0 /\ status[c] = "none"
  /\ m_eState[c] = "RetryOnce" => sends[c] = 1 /\ status[c] = "401"
  /\ m_eState[c] = "Finish" => sends[c] > 0 /\ status[c] \in {"401", "other"}

\* What there is to it while the call is under way.
Explained(c) ==
  /\ pc[c] = "new" => status[c] = "none"
  /\ pc[c] \in Opening => \/ m_eState[c] = "InitialRequest" /\ status[c] = "none"
                          \/ m_eState[c] = "RetryOnce" /\ status[c] = "401"
  /\ pc[c] = "answered" => status[c] # "none"
  /\ pc[c] \in Rejected \cup {"refused"} => status[c] = "401" /\ sends[c] = 1
  /\ notified[c] = <<"onFailed">> => Explanation(c)

FailInv ==
  /\ status \in [Calls -> {"none", "200", "401", "other"}]
  /\ \A c \in Calls : Explained(c)

-----------------------------------------------------------------------------
\* One call has moved.
LEMMA ExplainedKeeps ==
  ASSUME StageInv, FailInv, NEW c \in Calls, OthersStay(c),
         status' \in [Calls -> {"none", "200", "401", "other"}],
         \A d \in Calls : d # c => status'[d] = status[d],
         Explained(c)'
  PROVE  FailInv'
  <1>1. ASSUME NEW d \in Calls, d # c
        PROVE  Explained(d)'
    BY <1>1 DEF FailInv, Explained, Explanation, OthersStay
  <1> QED BY <1>1 DEF FailInv

LEMMA SilentKeeps ==
  ASSUME FailInv, UNCHANGED <<pc, m_eState, status, notified, sends>>
  PROVE  FailInv'
  BY DEF FailInv, Explained, Explanation

\* Nobody is notified as long as the call is not done.
LEMMA PlaceExplained ==
  ASSUME StageInv, FailInv, NEW c \in Calls, NEW p \in Places \ {"new"}, Goto(c, p),
         UNCHANGED <<m_eState, status, notified, sends>>, pc[c] # "done",
         \/ pc[c] \in Opening /\ p \in Opening \cup {"sent"}
         \/ pc[c] = "answered" /\ status[c] = "401" /\ sends[c] = 1 /\ p = "rejected"
         \/ pc[c] \in Rejected /\ p \in Rejected
         \/ p = "dead"
  PROVE  FailInv'
  <1>1. pc'[c] = p /\ \A d \in Calls : d # c => pc'[d] = pc[d]
    BY Moved DEF StageInv
  <1>2. notified[c] = << >>
    BY DEF StageInv, Stage
  <1>3. Explained(c)'
    BY <1>1, <1>2 DEF FailInv, Explained, Opening, Rejected
  <1>4. OthersStay(c)
    BY <1>1 DEF OthersStay
  <1> QED BY <1>3, <1>4, ExplainedKeeps DEF FailInv

LEMMA ContinueExplained ==
  ASSUME StageInv, FailInv, NEW c \in Calls, Continue(c), status[c] = "401", pc[c] # "done"
  PROVE  FailInv'
  <1>1. pc'[c] = "loading" /\ \A d \in Calls : d # c => pc'[d] = pc[d]
    BY Moved DEF Continue, StageInv, Places
  <1>2. notified[c] = << >>
    BY DEF StageInv, Stage
  <1>3. Explained(c)' /\ OthersStay(c)
    BY <1>1, <1>2 DEF Continue, StageInv, Explained, Opening, Rejected, OthersStay
  <1> QED BY <1>3, ExplainedKeeps DEF Continue, FailInv

LEMMA NotifyExplained ==
  ASSUME StageInv, FailInv, NEW c \in Calls, NEW what \in {"onSucceeded", "onFailed"},
         Notify(c, what), Goto(c, "done"), pc[c] # "done",
         m_eState' \in [Calls -> {"InitialRequest", "RetryOnce", "Finish"}],
         \A d \in Calls : d # c => m_eState'[d] = m_eState[d],
         UNCHANGED <<sends, status>>,
         what = "onFailed" => Explanation(c)'
  PROVE  FailInv'
  <1>1. pc'[c] = "done" /\ \A d \in Calls : d # c => pc'[d] = pc[d]
    BY Moved DEF StageInv, Places
  <1>2. notified[c] = << >>
    BY DEF StageInv, Stage
  <1>. DEFINE first == Append(<< >>, what)
  <1>a. first = << what >>
    OBVIOUS
  <1>b. notified' = [notified EXCEPT ![c] = first]
    BY <1>2 DEF Notify
  <1>. HIDE DEF first
  <1>3. notified'[c] = << what >> /\ \A d \in Calls : d # c => notified'[d] = notified[d]
    BY <1>a, <1>b DEF StageInv
  <1>4. Explained(c)' /\ OthersStay(c)
    BY <1>1, <1>3 DEF Explained, Opening, Rejected, OthersStay
  <1> QED BY <1>4, ExplainedKeeps DEF FailInv

LEMMA TerminateExplained ==
  ASSUME StageInv, FailInv, NEW c \in Calls, Terminate(c), pc[c] \in Rejected \cup {"refused"}
  PROVE  FailInv'
  <1>1. /\ m_eState' = [m_eState EXCEPT ![c] = "RetryOnce"]
        /\ UNCHANGED <<sends, status>>
        /\ Goto(c, "done") /\ Notify(c, "onFailed")
    BY DEF Terminate
  <1>2. status[c] = "401" /\ sends[c] = 1 /\ pc[c] # "done"
    BY DEF FailInv, Explained, Rejected
  <1>3. Explanation(c)'
    BY <1>1, <1>2 DEF StageInv, Explanation
  <1> QED BY <1>1, <1>2, <1>3, NotifyExplained DEF StageInv

-----------------------------------------------------------------------------
LEMMA SendExplained ==
  ASSUME StageInv, FailInv, NEW c \in Calls, Send(c)
  PROVE  FailInv'
  <1>1. pc[c] = "opened" /\ UNCHANGED <<m_eState, status>>
    BY DEF Send
  <1>2. CASE Goto(c, "sent") /\ sends' = [sends EXCEPT ![c] = @ + 1] /\ UNCHANGED notified
    <2>1. pc'[c] = "sent" /\ \A d \in Calls : d # c => pc'[d] = pc[d]
      BY <1>2, Moved DEF StageInv, Places
    <2>2. notified[c] = << >>
      BY <1>1 DEF StageInv, Stage
    <2>3. Explained(c)' /\ OthersStay(c)
      BY <1>1, <1>2, <2>1, <2>2 DEF StageInv, Explained, Opening, Rejected, OthersStay
    <2> QED BY <1>1, <2>3, ExplainedKeeps DEF FailInv
  <1>3. CASE Goto(c, "done") /\ Notify(c, "onFailed") /\ UNCHANGED sends
    <2>1. Explanation(c)'
      BY <1>1, <1>3 DEF StageInv, Stage, FailInv, Explained, Explanation, Opening
    <2> QED BY <1>1, <1>3, <2>1, NotifyExplained DEF StageInv
  <1> QED BY <1>2, <1>3 DEF Send

LEMMA OnCompleteExplained ==
  ASSUME StageInv, FailInv, NEW c \in Calls, OnComplete(c)
  PROVE  FailInv'
  <1>1. pc[c] = "answered" /\ status[c] \in {"200", "401", "other"}
    BY DEF OnComplete, FailInv, Explained
  <1>2. CASE OnFinish(c)
    <2>1. PICK what \in {"onSucceeded", "onFailed"} :
            Notify(c, what) /\ (what = "onFailed" => status[c] # "200")
      BY <1>2 DEF OnFinish
    <2>2. /\ Goto(c, "done")
          /\ m_eState' = [m_eState EXCEPT ![c] = "Finish"]
          /\ UNCHANGED <<sends, status>>
      BY <1>2 DEF OnFinish
    <2>3. m_eState'[c] = "Finish" /\ sends'[c] > 0 /\ status'[c] = status[c]
      <3>1. m_eState'[c] = "Finish"
        BY <2>2 DEF StageInv
      <3>2. sends[c] \in {1, 2}
        BY <1>1 DEF StageInv, Stage, Underway
      <3> QED BY <2>2, <3>1, <3>2
    <2>4. what = "onFailed" => Explanation(c)'
      BY <1>1, <2>1, <2>3 DEF Explanation
    <2> QED BY <1>1, <2>1, <2>2, <2>4, NotifyExplained DEF StageInv
  <1>3. CASE OnRejected(c)
    <2>1. status[c] = "401" /\ sends[c] = 1
      BY <1>1, <1>3 DEF OnRejected, StageInv, Stage, Underway
    <2>2. CASE Continue(c)
      BY <1>1, <2>1, <2>2, ContinueExplained
    <2>3. CASE Goto(c, "rejected") /\ UNCHANGED <<m_eState, status, notified, sends>>
      BY <1>1, <2>1, <2>3, PlaceExplained DEF Places
    <2> QED BY <1>3, <2>2, <2>3 DEF OnRejected
  <1> QED BY <1>2, <1>3 DEF OnComplete

LEMMA RenewerExplained ==
  ASSUME StageInv, FailInv, NEW c \in Calls,
         RenewInit(c) \/ RenewSend(c) \/ RenewComplete(c) \/ Refused(c)
  PROVE  FailInv'
  <1>1. pc[c] \in Rejected \/ (pc[c] = "refused" /\ Terminate(c))
    BY DEF RenewInit, RenewSend, RenewComplete, Refused, Rejected
  <1>2. \/ Terminate(c)
        \/ \E p \in {"locked", "queued", "renewing", "unlocking"} :
             Goto(c, p) /\ UNCHANGED <<m_eState, status, notified, sends>>
    BY DEF RenewInit, RenewSend, RenewComplete, Refused
  <1> QED BY <1>1, <1>2, TerminateExplained, PlaceExplained DEF Rejected, Places

LEMMA DrainExplained ==
  ASSUME CallInv, StageInv, FailInv, NEW c \in Calls, Drain(c) \/ RenewReturn(c)
  PROVE  FailInv'
  <1>1. CASE UNCHANGED <<pc, m_eState, status, notified, sends>>
    BY <1>1, SilentKeeps
  <1>2. CASE \E d \in Calls : pc[d] \in Rejected /\ (Continue(d) \/ Terminate(d))
    <2>1. PICK d \in Calls : pc[d] \in Rejected /\ (Continue(d) \/ Terminate(d))
      BY <1>2
    <2>2. status[d] = "401" /\ pc[d] # "done"
      BY <2>1 DEF FailInv, Explained, Rejected
    <2> QED BY <2>1, <2>2, ContinueExplained, TerminateExplained
  <1>3. CASE RenewReturn(c)
    <2>1. CASE pc[c] = "unlocking"
      <3>1. Continue(c) \/ Terminate(c)
        BY <1>3, <2>1 DEF RenewReturn
      <3> QED BY <1>2, <2>1, <3>1 DEF Rejected
    <2>2. CASE pc[c] # "unlocking"
      BY <1>1, <1>3, <2>2 DEF RenewReturn
    <2> QED BY <2>1, <2>2
  <1>4. CASE Drain(c)
    <2> DEFINE callee == Head(m_lstRetryRequest)
    <2>1. callee \in Calls /\ pc[callee] \in {"queued", "dead"}
      <3>1. m_lstRetryRequest # << >>
        BY <1>4 DEF Drain
      <3>2. callee \in Calls /\ callee = m_lstRetryRequest[1] /\ 1 \in 1..Len(m_lstRetryRequest)
        BY <3>1, Pop DEF CallInv, TFInv, TFTypeOK
      <3> QED BY <3>2 DEF CallInv, QueueLink
    <2>2. CASE pc[callee] = "dead"
      BY <1>1, <1>2, <1>4, <2>2 DEF Drain, Rejected
    <2>3. CASE pc[callee] = "queued"
      <3>1. Continue(callee) \/ Terminate(callee)
        BY <1>4, <2>3 DEF Drain
      <3> QED BY <1>2, <2>1, <2>3, <3>1 DEF Rejected
    <2> QED BY <2>1, <2>2, <2>3
  <1> QED BY <1>3, <1>4

LEMMA QuietExplained ==
  ASSUME StageInv, FailInv, NEW c \in Calls,
         \/ InitRequest(c) \/ OnLoading(c) \/ Authorized(c) \/ DropServer(c)
         \/ ServiceAnswers(c) \/ Crash(c) \/ InitThrows(c)
  PROVE  FailInv'
  <1>1. UNCHANGED <<m_eState, notified, sends>>
    BY DEF InitRequest, OnLoading, Authorized, DropServer, ServiceAnswers, Crash, InitThrows, Die,
           callVars
  <1>2. CASE InitRequest(c)
    <2>1. pc'[c] = "loading" /\ \A d \in Calls : d # c => pc'[d] = pc[d]
      BY <1>2, Moved DEF InitRequest, StageInv, Places
    <2>2. pc[c] = "new" /\ UNCHANGED status /\ notified[c] = << >>
      BY <1>2 DEF InitRequest, StageInv, Stage
    <2>3. Explained(c)' /\ OthersStay(c)
      BY <1>1, <2>1, <2>2 DEF StageInv, Stage, FailInv, Explained, Opening, Rejected, OthersStay
    <2> QED BY <2>2, <2>3, ExplainedKeeps DEF FailInv
  <1>3. CASE OnLoading(c)
    <2>1. pc[c] = "loading" /\ UNCHANGED status /\ \E p \in {"authorizing", "opened"} : Goto(c, p)
      BY <1>3 DEF OnLoading
    <2> QED BY <1>1, <2>1, PlaceExplained DEF Opening, Places
  <1>4. CASE Authorized(c)
    <2>1. UNCHANGED status
      BY <1>4 DEF Authorized
    <2>2. CASE pc[c] = "authorizing"
      <3>1. Goto(c, "opened")
        BY <1>4, <2>2 DEF Authorized
      <3> QED BY <1>1, <2>1, <2>2, <3>1, PlaceExplained DEF Opening, Places
    <2>3. CASE pc[c] # "authorizing"
      BY <1>1, <1>4, <2>1, <2>3, SilentKeeps DEF Authorized
    <2> QED BY <2>2, <2>3
  <1>5. CASE DropServer(c)
    BY <1>5, SilentKeeps DEF DropServer, callVars
  <1>6. CASE ServiceAnswers(c)
    <2>1. PICK answer \in {"200", "401", "other"} : status' = [status EXCEPT ![c] = answer]
      BY <1>6 DEF ServiceAnswers
    <2>2. pc'[c] = "answered" /\ \A d \in Calls : d # c => pc'[d] = pc[d]
      BY <1>6, Moved DEF ServiceAnswers, StageInv, Places
    <2>3. notified[c] = << >>
      BY <1>6 DEF ServiceAnswers, StageInv, Stage
    <2>4. Explained(c)' /\ OthersStay(c)
      BY <1>1, <2>1, <2>2, <2>3 DEF FailInv, Explained, Opening, Rejected, OthersStay
    <2> QED BY <2>1, <2>4, ExplainedKeeps DEF FailInv
  <1>7. CASE Crash(c) \/ InitThrows(c)
    <2>1. pc[c] # "done" /\ Goto(c, "dead") /\ UNCHANGED status
      BY <1>7 DEF Crash, InitThrows, Die
    <2> QED BY <1>1, <2>1, PlaceExplained DEF Places
  <1> QED BY <1>2, <1>3, <1>4, <1>5, <1>6, <1>7

LEMMA SurrogateEndsExplained ==
  ASSUME CallInv, StageInv, FailInv, SurrogateEnds
  PROVE  FailInv'
  <1>1. UNCHANGED <<status, notified, sends>>
    BY DEF SurrogateEnds
  <1>2. PICK swallowed \in BOOLEAN, asking \in SUBSET {c \in Calls :
               pc[c] = "answered" /\ status[c] = "401" /\ m_eState[c] = "InitialRequest"} :
          /\ pc' = [c \in Calls |-> IF c \in asking THEN "loading" ELSE PlaceAfter(c, swallowed)]
          /\ m_eState' = [c \in Calls |-> IF c \in asking THEN "RetryOnce" ELSE m_eState[c]]
    BY DEF SurrogateEnds
  <1>3. ASSUME NEW c \in Calls
        PROVE  Explained(c)'
    <2>1. Stage(c) /\ Explained(c) /\ pc[c] \in Places
      BY DEF StageInv, FailInv
    <2>2. CASE c \in asking
      <3>1. pc'[c] = "loading" /\ m_eState'[c] = "RetryOnce" /\ status[c] = "401"
        BY <1>2, <2>2
      <3>2. notified[c] = << >>
        BY <1>2, <2>1, <2>2 DEF Stage
      <3> QED BY <1>1, <3>1, <3>2 DEF Explained, Opening, Rejected
    <2>3. CASE c \notin asking
      <3>1. pc'[c] = PlaceAfter(c, swallowed) /\ m_eState'[c] = m_eState[c]
        BY <1>2, <2>3
      <3>2. CASE pc'[c] = pc[c]
        BY <1>1, <2>1, <3>1, <3>2 DEF Explained, Explanation
      <3>3. CASE pc'[c] # pc[c]
        <4>1. \/ pc[c] = "authorizing" /\ pc'[c] \in {"opened", "dead"}
              \/ pc[c] = "authorizing" /\ pc'[c] = "refused" /\ m_eState[c] # "InitialRequest"
              \/ pc[c] \in Rejected /\ pc'[c] \in {"refused", "stranded"}
          BY <2>1, <3>1, <3>3 DEF PlaceAfter, Rejected
        <4>2. notified[c] = << >>
          BY <2>1, <4>1 DEF Stage, Rejected
        <4> QED BY <1>1, <2>1, <3>1, <4>1, <4>2 DEF Stage, Explained, Opening, Rejected
      <3> QED BY <3>2, <3>3
    <2> QED BY <2>2, <2>3
  <1> QED BY <1>1, <1>3 DEF FailInv

LEMMA NextExplained ==
  ASSUME CallInv, StageInv, FailInv, [Next]_vars
  PROVE  FailInv'
  <1>1. ASSUME NEW c \in Calls, InitRequest(c) \/ Step(c) \/ Crash(c) \/ InitThrows(c)
        PROVE  FailInv'
    BY <1>1, SendExplained, OnCompleteExplained, RenewerExplained, DrainExplained,
       QuietExplained DEF Step
  <1>2. CASE SurrogateEnds
    BY <1>2, SurrogateEndsExplained
  <1>3. CASE UNCHANGED callVars
    BY <1>3, SilentKeeps DEF callVars
  <1>4. TokenEndpoint \/ Expire \/ Revoke \/ Terminating \/ UNCHANGED vars => UNCHANGED callVars
    BY DEF TokenEndpoint, Expire, ExpireToken, Revoke, RevokeConsent, Terminating, vars, callVars
  <1> QED BY <1>1, <1>2, <1>3, <1>4 DEF Next

\* onFailed can tell from the state of the call what went wrong, whatever fails
\* and whoever crashes (Terminate, Continue, the COMPLETE handler).
THEOREM FailureTells ==
  ASSUME Generation = Nat \ {0}
  PROVE  Spec => []FailureExplained
  <1>1. Init => StageInv /\ FailInv
    BY InitSeen DEF Init, FailInv, Explained, Opening, Rejected
  <1>2. CallInv /\ StageInv /\ FailInv /\ [Next]_vars => StageInv' /\ FailInv'
    BY NextSeen, NextExplained
  <1>3. StageInv /\ FailInv => FailureExplained
    BY DEF StageInv, FailInv, Explained, Explanation, FailureExplained
  <1> QED BY <1>1, <1>2, <1>3, CallInvariance, PTL DEF Spec

-----------------------------------------------------------------------------
(* What calls remember *)

\* What server, file and answer hold has been issued, and an answer does not
\* carry an older token than the one it replaces.
Tokens ==
  /\ m_strAccessToken \in Nat /\ m_strAccessToken <= issued
  /\ tokenFile.access \in Nat /\ tokenFile.access <= issued
  /\ m_spLockForRenew # NULL /\ m_spLockForRenew.status = "200" =>
       /\ m_spLockForRenew.pair.access \in Nat
       /\ m_strAccessToken <= m_spLockForRenew.pair.access
       /\ m_spLockForRenew.pair.access <= issued

Remembers(c) ==
  /\ pc[c] \in {"new", "loading"} => header[c] = 0
  /\ pc[c] = "authorizing" => <<c, "loading">> \in extConn /\ header[c] <= m_strAccessToken
  /\ pc[c] \in {"opened", "sent", "answered"} =>
       m_bstrAccessToken[c] = 0 \/ header[c] <= m_bstrAccessToken[c]

RememberInv ==
  /\ Tokens
  /\ header \in [Calls -> Nat]
  /\ m_bstrAccessToken \in [Calls -> Nat]
  /\ \A c \in Calls : Remembers(c)

\* While somebody holds the object it takes no older token, and a call in
\* AuthorizeRequest is one who does.
Grows ==
  /\ extConn # {} /\ extConn' # {} => m_strAccessToken <= m_strAccessToken'
  /\ \A d \in Calls : pc'[d] = "authorizing" /\ <<d, "loading">> \in extConn
                        => <<d, "loading">> \in extConn'

-----------------------------------------------------------------------------
(* The server *)

LEMMA SameTokens ==
  ASSUME Tokens, UNCHANGED <<issued, tokenFile, m_strAccessToken>>,
         \/ m_spLockForRenew' = NULL
         \/ m_spLockForRenew'.status # "200"
         \/ /\ m_spLockForRenew # NULL
            /\ m_spLockForRenew'.status = m_spLockForRenew.status
            /\ m_spLockForRenew'.pair = m_spLockForRenew.pair
  PROVE  Tokens'
  BY DEF Tokens

LEMMA BindTokens ==
  ASSUME Tokens, NEW c \in Calls, NEW role, GetTokenServer(c, role), TokensIffRunning,
         UNCHANGED <<issued, tokenFile, m_spLockForRenew>>
  PROVE  Tokens' /\ Grows
  <1>1. extConn' = extConn \cup {<<c, role>>}
    BY DEF GetTokenServer
  <1>2. CASE Running
    <2>1. UNCHANGED m_strAccessToken
      BY <1>2 DEF GetTokenServer, memory
    <2> QED BY <1>1, <2>1 DEF Tokens, Grows
  <1>3. CASE ~Running
    <2>1. m_strAccessToken' = tokenFile.access /\ m_spLockForRenew = NULL
      BY <1>3 DEF GetTokenServer, Load, TokensIffRunning
    <2> QED BY <1>1, <1>3, <2>1 DEF Tokens, Grows, Running
  <1> QED BY <1>2, <1>3

LEMMA ReleaseTokens ==
  ASSUME Tokens, issued \in Nat, NEW c \in Calls, NEW role, ReleaseConnection(c, role),
         role = "loading" => pc'[c] # "authorizing",
         UNCHANGED <<issued, tokenFile>>
  PROVE  Tokens' /\ Grows
  <1>1. extConn' = extConn \ {<<c, role>>}
    BY DEF ReleaseConnection
  <1>2. \/ extConn' = {} /\ m_strAccessToken' = 0 /\ m_spLockForRenew' = NULL
        \/ UNCHANGED <<m_strAccessToken, m_spLockForRenew>>
    BY DEF ReleaseConnection, memory, NoToken
  <1>3. Tokens'
    BY <1>2 DEF Tokens
  <1>4. Grows
    BY <1>1, <1>2 DEF Tokens, Grows
  <1> QED BY <1>3, <1>4

LEMMA UnLockTokens ==
  ASSUME Tokens, issued \in Nat, NEW c \in Calls, UnLockFromRenew(c), m_spLockForRenew # NULL,
         m_spLockForRenew \in Request, UNCHANGED issued
  PROVE  Tokens' /\ Grows
  <1>1. PICK sink \in {c, NULL} :
          /\ UNCHANGED extConn
          /\ m_spLockForRenew' \in {m_spLockForRenew, [m_spLockForRenew EXCEPT !.sink = sink]}
    BY DEF UnLockFromRenew
  <1>2. /\ m_spLockForRenew'.status = m_spLockForRenew.status
        /\ m_spLockForRenew'.pair = m_spLockForRenew.pair
    BY <1>1 DEF Request
  <1>3. CASE m_spLockForRenew.status = "200"
    <2>1. m_strAccessToken' \in {m_strAccessToken, m_spLockForRenew.pair.access}
      BY <1>3 DEF UnLockFromRenew, UpdateAccessRefreshToken
    <2>2. tokenFile' \in {tokenFile, NoTokens,
                          [access |-> m_strAccessToken', refresh |-> m_strRefreshToken']}
      BY <1>3 DEF UnLockFromRenew, UpdateAccessRefreshToken, Save
    <2>3. tokenFile'.access \in {tokenFile.access, 0, m_strAccessToken'}
      BY <2>2 DEF NoTokens, NoToken
    <2> QED BY <1>1, <1>2, <1>3, <2>1, <2>3 DEF Tokens, Grows
  <1>4. CASE m_spLockForRenew.status # "200"
    <2>1. UNCHANGED <<tokenFile, m_strAccessToken>>
      BY <1>4 DEF UnLockFromRenew, memory
    <2> QED BY <1>1, <1>2, <1>4, <2>1 DEF Tokens, Grows
  <1> QED BY <1>3, <1>4

LEMMA AnswerTokens ==
  ASSUME Tokens, issued \in Nat, m_spLockForRenew \in Request \cup {NULL}, Exchange
  PROVE  Tokens' /\ Grows
  <1> DEFINE pair == [access |-> issued + 1, refresh |-> issued + 1]
  <1>1. /\ m_spLockForRenew # NULL
        /\ m_spLockForRenew \in Request
        /\ issued' \in Nat /\ issued <= issued'
    BY DEF Exchange
  <1>2. PICK answer \in {"200", "400", "other"}, p \in {pair, NoTokens}, parsed \in 0..3 :
          /\ RenewAnswered(answer, p, parsed)
          /\ answer = "200" => p = pair /\ issued' = issued + 1
    BY DEF Exchange
  <1>3. /\ m_spLockForRenew' = [m_spLockForRenew EXCEPT
                                  !.status = answer, !.pair = p, !.parsed = parsed]
        /\ UNCHANGED <<tokenFile, m_strAccessToken, extConn>>
    BY <1>2 DEF RenewAnswered, memory
  <1>4. m_spLockForRenew'.status = answer /\ m_spLockForRenew'.pair = p
    BY <1>1, <1>3 DEF Request
  <1> QED BY <1>1, <1>2, <1>3, <1>4 DEF Tokens, Grows

-----------------------------------------------------------------------------
(* The calls *)

LEMMA OthersRemember ==
  ASSUME RememberInv, NEW c, Tokens', Grows, m_strAccessToken' \in Nat,
         header' \in [Calls -> Nat], m_bstrAccessToken' \in [Calls -> Nat],
         \A d \in Calls : d # c => /\ pc'[d] = pc[d]
                                   /\ header'[d] = header[d]
                                   /\ m_bstrAccessToken'[d] = m_bstrAccessToken[d],
         c \in Calls => Remembers(c)'
  PROVE  RememberInv'
  <1>1. ASSUME NEW d \in Calls, d # c
        PROVE  Remembers(d)'
    <2>1. header[d] \in Nat /\ m_strAccessToken \in Nat /\ Remembers(d)
      BY DEF RememberInv, Tokens
    <2>2. /\ pc'[d] = pc[d]
          /\ header'[d] = header[d]
          /\ m_bstrAccessToken'[d] = m_bstrAccessToken[d]
      BY <1>1
    <2>3. pc[d] = "authorizing" =>
            <<d, "loading">> \in extConn' /\ m_strAccessToken <= m_strAccessToken'
      BY <2>1, <2>2 DEF Remembers, Grows
    <2> QED BY <2>1, <2>2, <2>3 DEF Remembers
  <1> QED BY <1>1 DEF RememberInv

\* The places where nothing has to be remembered.
Elsewhere == Places \ {"new", "loading", "authorizing", "opened", "sent", "answered"}

LEMMA MoveRemembers ==
  ASSUME RememberInv, pc \in [Calls -> Places], NEW c \in Calls, NEW p \in Places, Goto(c, p),
         Tokens', Grows,
         header' = header \/ header' = [header EXCEPT ![c] = NoToken],
         \/ m_bstrAccessToken' = m_bstrAccessToken
         \/ m_bstrAccessToken' = [m_bstrAccessToken EXCEPT ![c] = NoToken],
         \/ p \in Elsewhere
         \/ p = "loading" /\ (pc[c] = "new" \/ header' = [header EXCEPT ![c] = NoToken])
         \/ /\ header' = header /\ m_bstrAccessToken' = m_bstrAccessToken
            /\ \/ p = "opened" /\ pc[c] = "loading"
               \/ p \in {"sent", "answered"} /\ pc[c] \in {"opened", "sent"}
  PROVE  RememberInv'
  <1>1. pc'[c] = p /\ \A d \in Calls : d # c => pc'[d] = pc[d]
    BY Moved
  <1>2. header \in [Calls -> Nat] /\ m_bstrAccessToken \in [Calls -> Nat]
    BY DEF RememberInv
  <1>3. /\ header' \in [Calls -> Nat]
        /\ header'[c] \in {header[c], 0}
        /\ header' = [header EXCEPT ![c] = NoToken] => header'[c] = 0
        /\ \A d \in Calls : d # c => header'[d] = header[d]
    BY <1>2 DEF NoToken
  <1>4. /\ m_bstrAccessToken' \in [Calls -> Nat]
        /\ \A d \in Calls : d # c => m_bstrAccessToken'[d] = m_bstrAccessToken[d]
    BY <1>2 DEF NoToken
  <1>5. Remembers(c) /\ m_strAccessToken' \in Nat
    BY DEF RememberInv, Tokens
  <1>6. Remembers(c)'
    BY <1>1, <1>2, <1>3, <1>5 DEF Remembers, Elsewhere
  <1> QED BY <1>1, <1>3, <1>4, <1>5, <1>6, OthersRemember

LEMMA StillRemembers ==
  ASSUME RememberInv, Tokens', Grows, UNCHANGED <<pc, header, m_bstrAccessToken>>
  PROVE  RememberInv'
  <1>1. m_strAccessToken' \in Nat
    BY DEF Tokens
  <1>2. ASSUME NEW c \in Calls
        PROVE  Remembers(c)'
    <2>1. header[c] \in Nat /\ m_strAccessToken \in Nat /\ Remembers(c)
      BY DEF RememberInv, Tokens
    <2>2. pc[c] = "authorizing" =>
            <<c, "loading">> \in extConn' /\ m_strAccessToken <= m_strAccessToken'
      BY <2>1 DEF Remembers, Grows
    <2> QED BY <1>1, <2>1, <2>2 DEF Remembers
  <1> QED BY <1>2 DEF RememberInv

-----------------------------------------------------------------------------
(* The steps *)

LEMMA KeptGrows ==
  ASSUME Tokens, UNCHANGED m_strAccessToken, extConn \subseteq extConn'
  PROVE  Grows
  BY DEF Tokens, Grows

\* A step that leaves the server alone.
LEMMA ServerAside ==
  ASSUME Tokens, UNCHANGED <<tfVars, issued>>
  PROVE  Tokens' /\ Grows
  BY SameTokens, KeptGrows DEF tfVars, memory

\* Continue and Terminate, of a call that has its answer.
LEMMA BackRemembers ==
  ASSUME RememberInv, pc \in [Calls -> Places], NEW c \in Calls, Continue(c) \/ Terminate(c),
         UNCHANGED m_bstrAccessToken, Tokens', Grows
  PROVE  RememberInv'
  <1>1. CASE Continue(c)
    <2>1. Goto(c, "loading") /\ header' = [header EXCEPT ![c] = NoToken]
      BY <1>1 DEF Continue
    <2> QED BY <2>1, MoveRemembers DEF Places
  <1>2. CASE Terminate(c)
    <2>1. Goto(c, "done") /\ header' = header
      BY <1>2 DEF Terminate
    <2> QED BY <2>1, MoveRemembers DEF Places, Elsewhere
  <1> QED BY <1>1, <1>2

LEMMA OnLoadingRemembers ==
  ASSUME CallInv, RememberInv, NEW c \in Calls, OnLoading(c)
  PROVE  RememberInv'
  <1>1. /\ UNCHANGED <<issued, m_bstrAccessToken>>
        /\ pc[c] = "loading"
        /\ pc \in [Calls -> Places]
        /\ Tokens
        /\ Remembers(c)
        /\ header \in [Calls -> Nat]
    BY DEF OnLoading, serviceVars, CallInv, RememberInv
  <1>2. CASE UNCHANGED <<tfVars, header>> /\ Goto(c, "opened")
    <2>1. Tokens' /\ Grows
      BY <1>1, <1>2, ServerAside
    <2> QED BY <1>1, <1>2, <2>1, MoveRemembers DEF Places
  <1>3. CASE /\ AuthorizeRequest(c)
             /\ header' = [header EXCEPT ![c] = m_strAccessToken']
             /\ Goto(c, "authorizing")
    <2>1. GetTokenServer(c, "loading") /\ UNCHANGED <<tokenFile, m_spLockForRenew>>
      BY <1>3 DEF AuthorizeRequest
    <2>2. Tokens' /\ Grows
      BY <1>1, <2>1, BindTokens DEF CallInv, TFInv
    <2>3. m_strAccessToken' \in Nat
      BY <2>2 DEF Tokens
    <2>4. /\ header' \in [Calls -> Nat]
          /\ header'[c] = m_strAccessToken'
          /\ \A d \in Calls : d # c => header'[d] = header[d]
      BY <1>1, <1>3, <2>3
    <2>5. pc'[c] = "authorizing" /\ \A d \in Calls : d # c => pc'[d] = pc[d]
      BY <1>1, <1>3, Moved DEF Places
    <2>6. Remembers(c)'
      BY <2>1, <2>3, <2>4, <2>5 DEF Remembers, GetTokenServer
    <2> QED BY <1>1, <2>2, <2>3, <2>4, <2>5, <2>6, OthersRemember DEF RememberInv
  <1> QED BY <1>2, <1>3 DEF OnLoading

LEMMA AuthorizedRemembers ==
  ASSUME CallInv, RememberInv, NEW c \in Calls, Authorized(c)
  PROVE  RememberInv'
  <1>1. /\ UNCHANGED <<issued, tokenFile, header>>
        /\ ReleaseConnection(c, "loading")
        /\ pc \in [Calls -> Places]
        /\ Tokens
        /\ issued \in Nat
        /\ Remembers(c)
        /\ header[c] \in Nat
        /\ m_strAccessToken \in Nat
    BY DEF Authorized, AuthorizeRequestReturn, serviceVars, CallInv, RememberInv, Tokens
  <1>2. CASE pc[c] = "authorizing"
    <2>1. Goto(c, "opened")
          /\ m_bstrAccessToken' = [m_bstrAccessToken EXCEPT ![c] = m_strAccessToken]
      BY <1>2 DEF Authorized
    <2>2. pc'[c] = "opened" /\ \A d \in Calls : d # c => pc'[d] = pc[d]
      BY <1>1, <2>1, Moved DEF Places
    <2>3. Tokens' /\ Grows
      BY <1>1, <2>2, ReleaseTokens
    <2>4. /\ m_bstrAccessToken' \in [Calls -> Nat]
          /\ m_bstrAccessToken'[c] = m_strAccessToken
          /\ \A d \in Calls : d # c => m_bstrAccessToken'[d] = m_bstrAccessToken[d]
      BY <1>1, <2>1 DEF RememberInv
    <2>5. Remembers(c)'
      BY <1>1, <1>2, <2>2, <2>4 DEF Remembers
    <2>6. m_strAccessToken' \in Nat /\ header' \in [Calls -> Nat]
      BY <1>1, <2>3 DEF Tokens, RememberInv
    <2> QED BY <1>1, <2>2, <2>3, <2>4, <2>5, <2>6, OthersRemember
  <1>3. CASE pc[c] # "authorizing"
    <2>1. UNCHANGED <<pc, m_bstrAccessToken>>
      BY <1>3 DEF Authorized
    <2>2. Tokens' /\ Grows
      BY <1>1, <1>3, <2>1, ReleaseTokens
    <2> QED BY <1>1, <2>1, <2>2, StillRemembers
  <1> QED BY <1>2, <1>3

LEMMA OnCompleteRemembers ==
  ASSUME CallInv, RememberInv, NEW c \in Calls, OnComplete(c)
  PROVE  RememberInv'
  <1>1. UNCHANGED issued /\ pc \in [Calls -> Places] /\ Tokens /\ TokensIffRunning
    BY DEF OnComplete, serviceVars, CallInv, TFInv, RememberInv
  <1>2. CASE OnFinish(c)
    <2>1. Goto(c, "done") /\ UNCHANGED <<tfVars, header, m_bstrAccessToken>>
      BY <1>2 DEF OnFinish
    <2>2. Tokens' /\ Grows
      BY <1>1, <2>1, ServerAside
    <2> QED BY <1>1, <2>1, <2>2, MoveRemembers DEF Places, Elsewhere
  <1>3. CASE OnRejected(c)
    <2>1. GetTokenServer(c, "complete") /\ UNCHANGED <<tokenFile, m_spLockForRenew>>
      BY <1>3 DEF OnRejected, CanRetryImmediately
    <2>2. Tokens' /\ Grows
      BY <1>1, <2>1, BindTokens
    <2>3. CASE Goto(c, "rejected") /\ UNCHANGED <<header, m_bstrAccessToken>>
      BY <1>1, <2>2, <2>3, MoveRemembers DEF Places, Elsewhere
    <2>4. CASE /\ m_bstrAccessToken' = [m_bstrAccessToken EXCEPT ![c] = NoToken]
               /\ Continue(c)
      <3>1. Goto(c, "loading") /\ header' = [header EXCEPT ![c] = NoToken]
        BY <2>4 DEF Continue
      <3> QED BY <1>1, <2>2, <2>4, <3>1, MoveRemembers DEF Places
    <2> QED BY <1>3, <2>3, <2>4 DEF OnRejected
  <1> QED BY <1>2, <1>3 DEF OnComplete

\* Start, send, answer and death of a call.
LEMMA QuietRemembers ==
  ASSUME CallInv, RememberInv, NEW c \in Calls,
         InitRequest(c) \/ Send(c) \/ Refused(c) \/ ServiceAnswers(c) \/ Crash(c) \/ InitThrows(c)
  PROVE  RememberInv'
  <1>1. /\ UNCHANGED <<tfVars, serviceVars, m_bstrAccessToken, header>>
        /\ pc \in [Calls -> Places]
        /\ Tokens
    BY DEF InitRequest, Send, Refused, Terminate, ServiceAnswers, Crash, InitThrows, Die,
           CallInv, RememberInv
  <1>2. Tokens' /\ Grows
    BY <1>1, ServerAside DEF serviceVars
  <1>3. \/ pc[c] = "new" /\ Goto(c, "loading")
        \/ pc[c] = "opened" /\ Goto(c, "sent")
        \/ pc[c] = "sent" /\ Goto(c, "answered")
        \/ Goto(c, "done")
        \/ Goto(c, "dead")
    BY DEF InitRequest, Send, Refused, Terminate, ServiceAnswers, Crash, InitThrows, Die
  <1> QED BY <1>1, <1>2, <1>3, MoveRemembers DEF Places, Elsewhere

LEMMA RenewInitRemembers ==
  ASSUME CallInv, RememberInv, NEW c \in Calls, RenewInit(c)
  PROVE  RememberInv'
  <1>1. /\ UNCHANGED <<issued, tokenFile, m_strAccessToken, m_bstrAccessToken>>
        /\ pc \in [Calls -> Places]
        /\ Tokens
    BY DEF RenewInit, LockForRenew, LockForRenewThrows, memory, serviceVars, CallInv, RememberInv
  <1>2. \/ UNCHANGED m_spLockForRenew
        \/ m_spLockForRenew'.status # "200"
    BY DEF RenewInit, LockForRenew, LockForRenewThrows, NewRequest
  <1>3. Tokens'
    BY <1>1, <1>2 DEF Tokens
  <1>4. extConn \subseteq extConn'
    BY DEF RenewInit, LockForRenew, LockForRenewThrows
  <1>5. Grows
    BY <1>1, <1>4, KeptGrows
  <1>6. CASE Terminate(c)
    BY <1>1, <1>3, <1>5, <1>6, BackRemembers
  <1>7. CASE UNCHANGED header /\ \E p \in {"locked", "queued"} : Goto(c, p)
    BY <1>1, <1>3, <1>5, <1>7, MoveRemembers DEF Places, Elsewhere
  <1> QED BY <1>6, <1>7 DEF RenewInit

LEMMA RenewSendRemembers ==
  ASSUME CallInv, RememberInv, NEW c \in Calls, RenewSend(c)
  PROVE  RememberInv'
  <1>1. /\ UNCHANGED <<issued, m_bstrAccessToken>>
        /\ pc \in [Calls -> Places]
        /\ Tokens
        /\ m_spLockForRenew # NULL /\ m_spLockForRenew \in Request
    BY DEF RenewSend, serviceVars, CallInv, TFInv, TFTypeOK, RenewLink, Renewer, RememberInv
  <1>2. CASE SendRenew /\ Goto(c, "renewing") /\ UNCHANGED header
    <2>1. /\ UNCHANGED <<tokenFile, m_strAccessToken, extConn>>
          /\ m_spLockForRenew' = [m_spLockForRenew EXCEPT !.status = "sent"]
      BY <1>2 DEF SendRenew, memory
    <2>2. m_spLockForRenew'.status = "sent"
      BY <1>1, <2>1 DEF Request
    <2>3. Tokens' /\ Grows
      BY <1>1, <2>1, <2>2, SameTokens, KeptGrows
    <2> QED BY <1>1, <1>2, <2>3, MoveRemembers DEF Places, Elsewhere
  <1>3. CASE Terminate(c) /\ UNCHANGED tfVars
    <2>1. Tokens' /\ Grows
      BY <1>1, <1>3, ServerAside
    <2> QED BY <1>1, <1>3, <2>1, BackRemembers
  <1> QED BY <1>2, <1>3 DEF RenewSend

LEMMA RenewCompleteRemembers ==
  ASSUME CallInv, RememberInv, NEW c \in Calls, RenewComplete(c)
  PROVE  RememberInv'
  <1>1. /\ UNCHANGED <<issued, m_bstrAccessToken>>
        /\ issued \in Nat
        /\ UnLockFromRenew(c)
        /\ pc \in [Calls -> Places]
        /\ Tokens
        /\ m_spLockForRenew # NULL /\ m_spLockForRenew \in Request
    BY DEF RenewComplete, serviceVars, CallInv, TFInv, TFTypeOK, RenewLink, Renewer, RememberInv
  <1>2. Tokens' /\ Grows
    BY <1>1, UnLockTokens
  <1>3. CASE Terminate(c)
    BY <1>1, <1>2, <1>3, BackRemembers
  <1>4. CASE Goto(c, "unlocking") /\ UNCHANGED header
    BY <1>1, <1>2, <1>4, MoveRemembers DEF Places, Elsewhere
  <1> QED BY <1>3, <1>4 DEF RenewComplete

\* The loop of UnLockFromRenew moves one call at most: the callee, or the renewer.
LEMMA DrainRemembers ==
  ASSUME CallInv, RememberInv, NEW c \in Calls, Drain(c) \/ RenewReturn(c)
  PROVE  RememberInv'
  <1>1. /\ UNCHANGED <<issued, m_bstrAccessToken, tokenFile, m_strAccessToken, extConn>>
        /\ pc \in [Calls -> Places]
        /\ Tokens
    BY DEF Drain, CallBack, CallBackFault, RenewReturn, UnLockReturn, memory, serviceVars,
           CallInv, RememberInv
  <1>2. Draining(c)
    BY DEF Drain, CallBack, CallBackFault, RenewReturn, UnLockReturn
  <1>3. m_spLockForRenew # NULL /\ m_spLockForRenew \in Request
    BY <1>2, DrainerRenews DEF Renewer, CallInv, TFInv, TFTypeOK
  <1>4. m_spLockForRenew' \in {NULL, m_spLockForRenew, [m_spLockForRenew EXCEPT !.sink = NULL]}
    BY DEF Drain, CallBack, CallBackFault, RenewReturn, UnLockReturn
  <1>5. \/ m_spLockForRenew' = NULL
        \/ /\ m_spLockForRenew'.status = m_spLockForRenew.status
           /\ m_spLockForRenew'.pair = m_spLockForRenew.pair
    BY <1>3, <1>4 DEF Request
  <1>6. Tokens' /\ Grows
    BY <1>1, <1>3, <1>5, SameTokens, KeptGrows
  <1>7. CASE UNCHANGED <<pc, header>>
    BY <1>1, <1>6, <1>7, StillRemembers
  <1>8. CASE \E d \in Calls : Continue(d) \/ Terminate(d)
    BY <1>1, <1>6, <1>8, BackRemembers
  <1>9. CASE RenewReturn(c)
    BY <1>7, <1>8, <1>9 DEF RenewReturn
  <1>10. CASE Drain(c)
    <2> DEFINE callee == Head(m_lstRetryRequest)
    <2>1. m_lstRetryRequest # << >>
      BY <1>10 DEF Drain
    <2>2. callee \in Calls
      BY <2>1, Pop DEF CallInv, TFInv, TFTypeOK
    <2>3. CASE pc[callee] = "dead"
      BY <1>7, <1>8, <1>10, <2>3 DEF Drain
    <2>4. CASE pc[callee] # "dead"
      <3>1. Continue(callee) \/ Terminate(callee)
        BY <1>10, <2>4 DEF Drain
      <3> QED BY <1>8, <2>2, <3>1
    <2> QED BY <2>3, <2>4
  <1> QED BY <1>9, <1>10

LEMMA DropServerRemembers ==
  ASSUME CallInv, RememberInv, NEW c \in Calls, DropServer(c)
  PROVE  RememberInv'
  <1>1. /\ UNCHANGED <<issued, pc, header, m_bstrAccessToken>>
        /\ issued \in Nat
        /\ Tokens
    BY DEF DropServer, callVars, serviceVars, CallInv, RememberInv
  <1>2. PICK role \in {"complete", "renewer"} : Release(c, role)
    BY DEF DropServer
  <1>3. ReleaseConnection(c, role) /\ UNCHANGED tokenFile /\ role # "loading"
    BY <1>2 DEF Release
  <1>4. Tokens' /\ Grows
    BY <1>1, <1>3, ReleaseTokens
  <1> QED BY <1>1, <1>4, StillRemembers

LEMMA SurrogateEndsRemembers ==
  ASSUME CallInv, RememberInv, SurrogateEnds
  PROVE  RememberInv'
  <1>1. /\ UNCHANGED issued
        /\ m_strAccessToken' = 0
        /\ m_spLockForRenew' = NULL
        /\ extConn' = {}
        /\ tokenFile' \in {tokenFile, NoTokens}
    BY DEF SurrogateEnds, SurrogateDies, NoToken, serviceVars
  <1>2. tokenFile'.access \in {tokenFile.access, 0}
    BY <1>1 DEF NoTokens, NoToken
  <1>3. issued \in Nat /\ pc \in [Calls -> Places]
    BY DEF CallInv
  <1>4. Tokens'
    BY <1>1, <1>2, <1>3 DEF RememberInv, Tokens
  <1>5. PICK swallowed \in BOOLEAN, asking \in SUBSET {c \in Calls :
               pc[c] = "answered" /\ status[c] = "401" /\ m_eState[c] = "InitialRequest"} :
          /\ pc' = [c \in Calls |-> IF c \in asking THEN "loading" ELSE PlaceAfter(c, swallowed)]
          /\ header' = [c \in Calls |-> IF c \in asking THEN NoToken ELSE header[c]]
          /\ m_bstrAccessToken' = [c \in Calls |-> IF c \in asking \/ pc[c] = "authorizing"
                                                   THEN NoToken ELSE m_bstrAccessToken[c]]
    BY DEF SurrogateEnds
  <1>6. header' \in [Calls -> Nat] /\ m_bstrAccessToken' \in [Calls -> Nat]
    BY <1>5 DEF RememberInv, NoToken
  <1>7. ASSUME NEW c \in Calls
        PROVE  Remembers(c)'
    <2>1. Remembers(c) /\ pc[c] \in Places
      BY <1>3 DEF RememberInv
    <2>2. CASE c \in asking
      <3>1. pc'[c] = "loading" /\ header'[c] = 0
        BY <1>5, <2>2 DEF NoToken
      <3> QED BY <3>1 DEF Remembers
    <2>3. CASE c \notin asking /\ pc[c] = "authorizing"
      <3>1. pc'[c] \in {"opened", "dead", "refused"} /\ m_bstrAccessToken'[c] = 0
        BY <1>5, <2>3 DEF PlaceAfter, NoToken
      <3> QED BY <3>1 DEF Remembers
    <2>4. CASE c \notin asking /\ pc[c] # "authorizing"
      <3>1. /\ pc'[c] \in {pc[c], "refused", "stranded"}
            /\ header'[c] = header[c]
            /\ m_bstrAccessToken'[c] = m_bstrAccessToken[c]
        BY <1>5, <2>4 DEF PlaceAfter
      <3> QED BY <2>1, <2>4, <3>1 DEF Remembers
    <2> QED BY <2>2, <2>3, <2>4
  <1> QED BY <1>4, <1>6, <1>7 DEF RememberInv

LEMMA TokenEndpointRemembers ==
  ASSUME CallInv, RememberInv, TokenEndpoint
  PROVE  RememberInv'
  <1>1. /\ Exchange
        /\ UNCHANGED <<pc, header, m_bstrAccessToken>>
        /\ m_spLockForRenew \in Request \cup {NULL}
        /\ issued \in Nat
        /\ Tokens
    BY DEF TokenEndpoint, callVars, CallInv, TFInv, TFTypeOK, RememberInv
  <1>2. Tokens' /\ Grows
    BY <1>1, AnswerTokens
  <1> QED BY <1>1, <1>2, StillRemembers

LEMMA NextRemembers ==
  ASSUME CallInv, RememberInv, [Next]_vars
  PROVE  RememberInv'
  <1>1. ASSUME NEW c \in Calls, InitRequest(c) \/ Step(c) \/ Crash(c) \/ InitThrows(c)
        PROVE  RememberInv'
    BY <1>1, OnLoadingRemembers, AuthorizedRemembers, OnCompleteRemembers, QuietRemembers,
       RenewInitRemembers, RenewSendRemembers, RenewCompleteRemembers, DrainRemembers,
       DropServerRemembers DEF Step
  <1>2. CASE SurrogateEnds
    BY <1>2, SurrogateEndsRemembers
  <1>3. CASE TokenEndpoint
    BY <1>3, TokenEndpointRemembers
  <1>4. CASE UNCHANGED <<tfVars, issued, callVars>>
    <2>1. Tokens' /\ Grows
      BY <1>4, ServerAside DEF RememberInv
    <2> QED BY <1>4, <2>1, StillRemembers DEF callVars
  <1>5. Expire \/ Revoke \/ Terminating \/ UNCHANGED vars => UNCHANGED <<tfVars, issued, callVars>>
    BY DEF Expire, ExpireToken, Revoke, RevokeConsent, Terminating, vars, serviceVars
  <1> QED BY <1>1, <1>2, <1>3, <1>4, <1>5 DEF Next

LEMMA InitRemembers ==
  ASSUME Init
  PROVE  RememberInv
  BY DEF Init, TFInit, ServiceInit, RememberInv, Tokens, Remembers, NoToken

-----------------------------------------------------------------------------
\* What a call remembers, and compares with the server's token after a 401, is
\* never older than what its request carried (AuthorizeRequest returns the
\* member as it is after the outgoing call, which other calls overtake).
THEOREM NeverOlder ==
  ASSUME Generation = Nat \ {0}
  PROVE  Spec => []RememberedNotOlder
  <1>1. Init => RememberInv
    BY InitRemembers
  <1>2. CallInv /\ RememberInv /\ [Next]_vars => RememberInv'
    BY NextRemembers
  <1>3. RememberInv => RememberedNotOlder
    BY DEF RememberInv, Remembers, RememberedNotOlder, NoToken
  <1> QED BY <1>1, <1>2, <1>3, CallInvariance, PTL DEF Spec

LEMMA SendsCounted ==
  ASSUME StageInv, sends \in [Calls -> 0..2], [Next]_vars
  PROVE  sends' \in [Calls -> 0..2]
  <1>1. CASE UNCHANGED sends
    BY <1>1
  <1>2. CASE \E c \in Calls : Send(c)
    <2>1. PICK c \in Calls : Send(c)
      BY <1>2
    <2>2. pc[c] = "opened"
      BY <2>1 DEF Send
    <2>3. sends[c] \in {0, 1}
      BY <2>2 DEF StageInv, Stage, Opening
    <2>4. UNCHANGED sends \/ sends' = [sends EXCEPT ![c] = @ + 1]
      BY <2>1 DEF Send
    <2> QED BY <2>3, <2>4
  <1>3. (\A c \in Calls : ~Send(c)) => UNCHANGED sends
    BY DEF Next, Step, InitRequest, OnLoading, Authorized, OnComplete, OnFinish, OnRejected,
           RenewInit, RenewSend, RenewComplete, Drain, RenewReturn, DropServer, Refused,
           ServiceAnswers, Crash, InitThrows, Die, Continue, Terminate, SurrogateEnds,
           TokenEndpoint,
           Expire, Revoke, Terminating, callVars, vars
  <1> QED BY <1>1, <1>2, <1>3

LEMMA BoundsKept ==
  ASSUME issued \in Nat, expired \in 0..MaxExpired, revoked \in BOOLEAN, [Next]_vars
  PROVE  expired' \in 0..MaxExpired /\ revoked' \in BOOLEAN
  <1>1. CASE Expire
    BY <1>1, MaxExpiredAssumption DEF Expire, ExpireToken
  <1>2. CASE Revoke
    BY <1>2 DEF Revoke, RevokeConsent
  <1>3. ~Expire /\ ~Revoke => UNCHANGED <<expired, revoked>>
    BY DEF Next, Step, InitRequest, OnLoading, Authorized, Send, OnComplete, RenewInit,
           RenewSend, RenewComplete, Drain, RenewReturn, DropServer, Refused, ServiceAnswers,
           Crash, InitThrows, Die, SurrogateEnds, TokenEndpoint, Exchange, Terminating,
           serviceVars, vars
  <1> QED BY <1>1, <1>2, <1>3

\* Server, calls and service stay within their types, and no request is sent
\* more than twice.
THEOREM CallsTyped ==
  ASSUME Generation = Nat \ {0}
  PROVE  Spec => []TypeOK
  <1> DEFINE Rest == /\ sends \in [Calls -> 0..2]
                     /\ expired \in 0..MaxExpired
                     /\ revoked \in BOOLEAN
  <1>1. Init => StageInv /\ FailInv /\ RememberInv /\ Rest
    <2>1. Init => StageInv /\ FailInv
      BY InitSeen DEF Init, FailInv, Explained, Opening, Rejected
    <2>2. Init => Rest
      <3>1. Init => expired = 0 /\ revoked = FALSE
        BY DEF Init, ServiceInit
      <3>2. Init => sends \in [Calls -> 0..2]
        BY DEF Init
      <3>3. revoked = FALSE => revoked \in BOOLEAN
        OBVIOUS
      <3>4. expired = 0 => expired \in 0..MaxExpired
        BY MaxExpiredAssumption
      <3> QED BY <3>1, <3>2, <3>3, <3>4
    <2> QED BY <2>1, <2>2, InitRemembers
  <1>2. CallInv /\ StageInv /\ FailInv /\ RememberInv /\ Rest /\ [Next]_vars
          => StageInv' /\ FailInv' /\ RememberInv' /\ Rest'
    <2> SUFFICES ASSUME CallInv, StageInv, FailInv, RememberInv, Rest, [Next]_vars
                 PROVE  StageInv' /\ FailInv' /\ RememberInv' /\ Rest'
      OBVIOUS
    <2>1. StageInv' /\ FailInv' /\ RememberInv'
      BY NextSeen, NextExplained, NextRemembers
    <2>2. Rest'
      BY SendsCounted, BoundsKept DEF CallInv
    <2> QED BY <2>1, <2>2
  <1>3. CallInv /\ StageInv /\ FailInv /\ RememberInv /\ Rest => TypeOK
    BY DEF CallInv, TFInv, StageInv, FailInv, RememberInv, TypeOK, ServiceTypeOK, NoToken
  <1> QED BY <1>1, <1>2, <1>3, CallInvariance, PTL DEF Spec

=============================================================================
