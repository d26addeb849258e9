---------------------------- MODULE CallbackoAuth ----------------------------
(***************************************************************************)
(* The clients (CCallbackoAuthImpl and its helper CRenewTokenAsync), each  *)
(* call in a process of its own, composed with the token server of module  *)
(* TokenFile and with the web service of module Service.                   *)
(*                                                                         *)
(* A call sends its request; if the service rejects the access token (401) *)
(* it renews the token, or waits for the renew of another call, and sends  *)
(* the request once more.                                                  *)
(***************************************************************************)
EXTENDS Service

VARIABLES pc,                 \* where the call is, see Places
          m_eState,
          m_bstrAccessToken,  \* the access token the call remembers
          header,             \* the one in the Authorization header of its request
          status,             \* HTTP status of its latest answer
          notified,           \* onSucceeded and onFailed, as called
          sends               \* requests sent so far

callVars == <<pc, m_eState, m_bstrAccessToken, header, status, notified, sends>>
vars == <<tfVars, callVars, serviceVars>>

Places == {"new",           \* not started
           "loading",       \* in open(), in the synchronous LOADING callback
           "authorizing",   \* in IAuthorize::AuthorizeRequest
           "opened",        \* back from open()
           "sent",          \* waiting for the service
           "answered",      \* READYSTATE_COMPLETE
           "rejected",      \* 401, and S_FALSE from CanRetryImmediately
           "locked",        \* E_PENDING from LockForRenew
           "renewing",      \* POST sent
           "unlocking",     \* in IAuthorize::UnLockFromRenew
           "queued",        \* NOERROR from LockForRenew
           "refused",       \* a method of the server failed, its surrogate is gone
           "stranded",      \* waits for an event or a call of a surrogate that is gone
           "done",          \* sink removed, object gone
           "dead"}          \* process gone

TypeOK ==
  /\ TFTypeOK
  /\ pc \in [Calls -> Places]
  /\ m_eState \in [Calls -> {"InitialRequest", "RetryOnce", "Finish"}]
  /\ m_bstrAccessToken \in [Calls -> Generation \cup {NoToken}]
  /\ header \in [Calls -> Generation \cup {NoToken}]
  /\ status \in [Calls -> {"none", "200", "401", "other"}]
  /\ notified \in [Calls -> Seq({"onSucceeded", "onFailed"})]
  /\ sends \in [Calls -> 0..2]
  /\ ServiceTypeOK

Init ==
  /\ TFInit
  /\ tokenFile = [access |-> 1, refresh |-> 1]
  /\ pc = [c \in Calls |-> "new"]
  /\ m_eState = [c \in Calls |-> "InitialRequest"]
  /\ m_bstrAccessToken = [c \in Calls |-> NoToken]
  /\ header = [c \in Calls |-> NoToken]
  /\ status = [c \in Calls |-> "none"]
  /\ notified = [c \in Calls |-> << >>]
  /\ sends = [c \in Calls |-> 0]
  /\ ServiceInit

Goto(c, place) == pc' = [pc EXCEPT ![c] = place]
Notify(c, what) == notified' = [notified EXCEPT ![c] = Append(@, what)]

-----------------------------------------------------------------------------
(* IRenewCallback *)

\* Continue() opens the request again, which drops its header and runs the
\* LOADING callback; OnLoading, Authorized and Send are the rest of it.
Continue(c) ==
  /\ Goto(c, "loading")
  /\ m_eState' = [m_eState EXCEPT ![c] = "RetryOnce"]
  /\ header' = [header EXCEPT ![c] = NoToken]
  /\ UNCHANGED <<status, notified, sends>>

\* Mutant of Terminate: the call is still in its initial state.
TerminateUnmarked(c) ==
  /\ Goto(c, "done")
  /\ Notify(c, "onFailed")
  /\ UNCHANGED <<m_eState, header, status, sends>>

Terminate(c) ==
  /\ Goto(c, "done")
  /\ m_eState' = [m_eState EXCEPT ![c] = "RetryOnce"]
  /\ Notify(c, "onFailed")
  /\ UNCHANGED <<header, status, sends>>

\* A Continue() that was called back has returned to the server.
ContinueReturned(c) == pc[c] \notin {"loading", "authorizing", "opened"}

-----------------------------------------------------------------------------
(* CCallbackoAuthImpl *)

InitRequest(c) ==
  /\ pc[c] = "new"
  /\ Goto(c, "loading")
  /\ UNCHANGED <<tfVars, m_eState, m_bstrAccessToken, header, status, notified, sends,
                 serviceVars>>

OnLoading(c) ==
  /\ pc[c] = "loading"
  /\ \/ /\ AuthorizeRequest(c)
        /\ header' = [header EXCEPT ![c] = m_strAccessToken']
        /\ Goto(c, "authorizing")
     \/ /\ GetTokenServerFails
        /\ Goto(c, "opened")
        /\ UNCHANGED <<tfVars, header>>
  /\ UNCHANGED <<m_eState, m_bstrAccessToken, status, notified, sends, serviceVars>>

\* Mutant of Authorized: only the first access token is remembered.
AuthorizedOnce(c) ==
  /\ AuthorizeRequestReturn(c)
  /\ IF pc[c] = "authorizing"
       THEN /\ Goto(c, "opened")
            /\ IF m_bstrAccessToken[c] = NoToken
                 THEN m_bstrAccessToken' = [m_bstrAccessToken EXCEPT ![c] = m_strAccessToken]
                 ELSE UNCHANGED m_bstrAccessToken
       ELSE UNCHANGED <<pc, m_bstrAccessToken>>
  /\ UNCHANGED <<m_eState, header, status, notified, sends, serviceVars>>

\* Also for a call whose process is gone: nobody takes the token then.
Authorized(c) ==
  /\ AuthorizeRequestReturn(c)
  /\ IF pc[c] = "authorizing"
       THEN /\ Goto(c, "opened")
            /\ m_bstrAccessToken' = [m_bstrAccessToken EXCEPT ![c] = m_strAccessToken]
       ELSE UNCHANGED <<pc, m_bstrAccessToken>>
  /\ UNCHANGED <<m_eState, header, status, notified, sends, serviceVars>>

\* The first send needs a token, the second is tried with or without one; an
\* exception in the second (open or send) ends the call.
Send(c) ==
  /\ pc[c] = "opened"
  /\ \/ /\ m_eState[c] = "InitialRequest" => m_bstrAccessToken[c] # NoToken
        /\ Goto(c, "sent")
        /\ sends' = [sends EXCEPT ![c] = @ + 1]
        /\ UNCHANGED notified
     \/ /\ \/ m_eState[c] = "InitialRequest" /\ m_bstrAccessToken[c] = NoToken
           \/ m_eState[c] = "RetryOnce" /\ "retry" \in Faults
        /\ Goto(c, "done")
        /\ Notify(c, "onFailed")
        /\ UNCHANGED sends
  /\ UNCHANGED <<tfVars, m_eState, m_bstrAccessToken, header, status, serviceVars>>

\* READYSTATE_COMPLETE, any answer that ends the call.
OnFinish(c) ==
  /\ status[c] # "401" \/ m_eState[c] # "InitialRequest" \/ GetTokenServerFails
  /\ Goto(c, "done")
  /\ m_eState' = [m_eState EXCEPT ![c] = "Finish"]
  /\ Notify(c, IF status[c] = "200" THEN "onSucceeded" ELSE "onFailed")
  /\ UNCHANGED <<tfVars, m_bstrAccessToken, header, status, sends>>

\* Mutants of OnRejected: any success code, hence S_FALSE too, means retry;
\* a 401 is handled in every state.
OnRejectedRetries(c) ==
  /\ status[c] = "401"
  /\ m_eState[c] = "InitialRequest"
  /\ CanRetryImmediately(c)
  /\ m_bstrAccessToken' = [m_bstrAccessToken EXCEPT ![c] = NoToken]
  /\ Continue(c)

OnRejectedInAnyState(c) ==
  /\ status[c] = "401"
  /\ CanRetryImmediately(c)
  /\ IF m_strAccessToken' = m_bstrAccessToken[c]
       THEN /\ Goto(c, "rejected")
            /\ UNCHANGED <<m_eState, m_bstrAccessToken, header, status, notified, sends>>
       ELSE /\ m_bstrAccessToken' = [m_bstrAccessToken EXCEPT ![c] = NoToken]
            /\ Continue(c)

\* READYSTATE_COMPLETE, the first 401: ask whether there is a newer token.
OnRejected(c) ==
  /\ status[c] = "401"
  /\ m_eState[c] = "InitialRequest"
  /\ CanRetryImmediately(c)
  /\ IF m_strAccessToken' = m_bstrAccessToken[c]
       THEN /\ Goto(c, "rejected")
            /\ UNCHANGED <<m_eState, m_bstrAccessToken, header, status, notified, sends>>
       ELSE /\ m_bstrAccessToken' = [m_bstrAccessToken EXCEPT ![c] = NoToken]
            /\ Continue(c)

OnComplete(c) ==
  /\ pc[c] = "answered"
  /\ OnFinish(c) \/ OnRejected(c)
  /\ UNCHANGED serviceVars

-----------------------------------------------------------------------------
(* CRenewTokenAsync *)

\* E_PENDING, NOERROR, or any other result, which ends the call.
RenewInit(c) ==
  /\ pc[c] = "rejected"
  /\ \/ /\ LockForRenew(c)
        /\ Goto(c, IF m_spLockForRenew = NULL THEN "locked" ELSE "queued")
        /\ UNCHANGED <<m_eState, header, status, notified, sends>>
     \/ /\ "open" \in Faults
        /\ LockForRenewThrows
        /\ Terminate(c)
  /\ UNCHANGED <<m_bstrAccessToken, serviceVars>>

\* An exception in send() ends the call, but leaves the sink on the POST.
RenewSend(c) ==
  /\ pc[c] = "locked"
  /\ \/ /\ SendRenew
        /\ Goto(c, "renewing")
        /\ UNCHANGED <<m_eState, header, status, notified, sends>>
     \/ /\ "send" \in Faults
        /\ Terminate(c)
        /\ UNCHANGED tfVars
  /\ UNCHANGED <<m_bstrAccessToken, serviceVars>>

\* Mutant of RenewComplete: acts on any ready state, not on COMPLETE only.
RenewReadyStateChange(c) ==
  /\ pc[c] = "renewing"
  /\ UnLockFromRenew(c)
  /\ IF Throws(m_spLockForRenew)
       THEN m_spLockForRenew'.sink = NULL /\ Terminate(c)
       ELSE /\ Goto(c, "unlocking")
            /\ UNCHANGED <<m_eState, header, status, notified, sends>>
  /\ UNCHANGED <<m_bstrAccessToken, serviceVars>>

\* The sink goes in any case, the failed UnLockFromRenew included.
RenewComplete(c) ==
  /\ pc[c] = "renewing"
  /\ m_spLockForRenew.status \in Answered
  /\ UnLockFromRenew(c)
  /\ IF Throws(m_spLockForRenew)
       THEN m_spLockForRenew'.sink = NULL /\ Terminate(c)
       ELSE /\ Goto(c, "unlocking")
            /\ UNCHANGED <<m_eState, header, status, notified, sends>>
  /\ UNCHANGED <<m_bstrAccessToken, serviceVars>>

\* One turn of the server's loop, seen from both ends: the previous callback
\* has returned, the head of the queue is called or found to be gone.
Drain(c) ==
  /\ Draining(c)
  /\ Head(stack).callee # NULL => ContinueReturned(Head(stack).callee)
  /\ m_lstRetryRequest # << >>
  /\ LET callee == Head(m_lstRetryRequest) IN
       IF pc[callee] = "dead"
         THEN /\ CallBackFault(c)
              /\ IF pc[c] = "unlocking"
                   THEN Terminate(c)
                   ELSE UNCHANGED <<pc, m_eState, header, status, notified, sends>>
         ELSE /\ CallBack(c)
              /\ IF Head(stack).succeeded THEN Continue(callee) ELSE Terminate(callee)
  /\ UNCHANGED <<m_bstrAccessToken, serviceVars>>

\* The renewer comes last.
RenewReturn(c) ==
  /\ UnLockReturn(c)
  /\ Head(stack).callee # NULL => ContinueReturned(Head(stack).callee)
  /\ IF pc[c] = "unlocking"
       THEN IF Head(stack).succeeded THEN Continue(c) ELSE Terminate(c)
       ELSE UNCHANGED <<pc, m_eState, header, status, notified, sends>>
  /\ UNCHANGED <<m_bstrAccessToken, serviceVars>>

\* Mutant of MayDrop: m_spAuthorize is released with the process only.
MayDropHandlersOnly(c, role) ==
  \/ pc[c] = "dead" /\ ~Unlocking(c)
  \/ role = "complete" /\ ContinueReturned(c) /\ pc[c] \notin {"rejected", "locked"}

\* The pointer of the COMPLETE handler goes when the handler returns, the one
\* of CRenewTokenAsync with the object: when its own handler has returned,
\* and never while the POST still holds the sink.  A dead process lets go of both.
MayDrop(c, role) ==
  \/ pc[c] = "dead" /\ ~Unlocking(c)
  \/ role = "complete" /\ ContinueReturned(c) /\ pc[c] \notin {"rejected", "locked"}
  \/ /\ role = "renewer" /\ ContinueReturned(c) /\ ~Renewer(c)
     /\ pc[c] \notin {"locked", "renewing", "unlocking"}

DropServer(c) ==
  /\ \E role \in {"complete", "renewer"} : MayDrop(c, role) /\ Release(c, role)
  /\ UNCHANGED <<callVars, serviceVars>>

-----------------------------------------------------------------------------
(* The end of the surrogate *)

\* Who is in a method of the server, or about to use a pointer to it, gets an
\* error; who waits for the POST or for IRenewCallback waits on.  An error of
\* AuthorizeRequest is an exception under open(): either that ends it, and with
\* it the process if it is the first one, or open() returns without a token.
PlaceAfter(c, swallowed) ==
  IF pc[c] \in {"rejected", "locked", "unlocking"} THEN "refused"
  ELSE IF pc[c] \in {"renewing", "queued"} THEN "stranded"
  ELSE IF pc[c] # "authorizing" THEN pc[c]
  ELSE IF swallowed THEN "opened"
  ELSE IF m_eState[c] = "InitialRequest" THEN "dead" ELSE "refused"

\* Any result of CanRetryImmediately but S_FALSE means retry, an error too.
SurrogateEnds ==
  /\ Running
  /\ SurrogateDies
  /\ \E swallowed \in BOOLEAN, asking \in SUBSET {c \in Calls :
            pc[c] = "answered" /\ status[c] = "401" /\ m_eState[c] = "InitialRequest"} :
       /\ pc' = [c \in Calls |-> IF c \in asking THEN "loading" ELSE PlaceAfter(c, swallowed)]
       /\ m_eState' = [c \in Calls |-> IF c \in asking THEN "RetryOnce" ELSE m_eState[c]]
       /\ header' = [c \in Calls |-> IF c \in asking THEN NoToken ELSE header[c]]
       /\ m_bstrAccessToken' = [c \in Calls |-> IF c \in asking \/ pc[c] = "authorizing"
                                                THEN NoToken ELSE m_bstrAccessToken[c]]
  /\ UNCHANGED <<status, notified, sends, serviceVars>>

Refused(c) ==
  /\ pc[c] = "refused"
  /\ Terminate(c)
  /\ UNCHANGED <<tfVars, m_bstrAccessToken, serviceVars>>

-----------------------------------------------------------------------------
(* The service and the environment *)

ServiceAnswers(c) ==
  /\ pc[c] = "sent"
  /\ \/ status' = [status EXCEPT ![c] = IF Accepts(header[c]) THEN "200" ELSE "401"]
     \/ "api" \in Faults /\ status' = [status EXCEPT ![c] = "other"]
  /\ Goto(c, "answered")
  /\ UNCHANGED <<tfVars, m_eState, m_bstrAccessToken, header, notified, sends, serviceVars>>

TokenEndpoint == Exchange /\ UNCHANGED callVars
Expire == ExpireToken /\ UNCHANGED callVars
Revoke == RevokeConsent /\ UNCHANGED callVars

\* The process of a call that is under way ends.
Die(c) ==
  /\ pc[c] \notin {"new", "done", "dead"}
  /\ Goto(c, "dead")
  /\ UNCHANGED <<tfVars, m_eState, m_bstrAccessToken, header, status, notified, sends,
                 serviceVars>>

Crash(c) == "crash" \in Faults /\ Die(c)

\* An exception of the first open() or send() leaves Init without a call of
\* onFailed, and nobody catches it.
InitThrows(c) ==
  /\ "init" \in Faults
  /\ pc[c] \in {"loading", "opened"}
  /\ m_eState[c] = "InitialRequest"
  /\ Die(c)

Terminating ==
  /\ \A c \in Calls : pc[c] \in {"stranded", "done", "dead"}
  /\ UNCHANGED vars

-----------------------------------------------------------------------------
Step(c) ==
  \/ OnLoading(c)
  \/ Authorized(c)
  \/ Send(c)
  \/ OnComplete(c)
  \/ RenewInit(c)
  \/ RenewSend(c)
  \/ RenewComplete(c)
  \/ Drain(c)
  \/ RenewReturn(c)
  \/ DropServer(c)
  \/ Refused(c)
  \/ ServiceAnswers(c)

Next ==
  \/ \E c \in Calls : InitRequest(c) \/ Step(c) \/ InitThrows(c) \/ Crash(c)
  \/ SurrogateEnds
  \/ TokenEndpoint
  \/ Expire
  \/ Revoke
  \/ Terminating

\* Handlers run to their end, messages are delivered and the service answers;
\* nobody has to start a call, and no token has to expire.
Fairness == (\A c \in Calls : WF_vars(Step(c))) /\ WF_vars(TokenEndpoint)

Spec == Init /\ [][Next]_vars /\ Fairness

-----------------------------------------------------------------------------
(* Properties *)

\* Only one CRenewTokenAsync is effective: whoever was told to send the POST
\* is the one the server is locked for, until UnLockFromRenew has returned.
SingleRenew == \A c \in Calls : pc[c] \in {"locked", "renewing", "unlocking"} => Renewer(c)

\* A deferred call is not lost: it is in the queue of the running server,
\* once, until the server calls it back, and nobody else is in there.
DeferredNotLost ==
  \A c \in Calls :
    LET positions == {i \in 1..Len(m_lstRetryRequest) : m_lstRetryRequest[i] = c} IN
      IF pc[c] = "queued" THEN \E i \in positions : positions = {i} ELSE positions = {}

\* The renew is transparent: as long as only the token the calls started
\* with has expired, no call fails.
TransparentRenew ==
  expired <= 1 => \A c \in Calls : "onFailed" \notin {notified[c][i] : i \in 1..Len(notified[c])}

\* The token a call compares with the server's after a 401 is never older
\* than the one its request carried, so a retry is never skipped for good.
RememberedNotOlder ==
  \A c \in Calls : pc[c] \in {"sent", "answered"} =>
    m_bstrAccessToken[c] >= header[c] \/ m_bstrAccessToken[c] = NoToken

\* A call that retries at once does so because the server has a newer token
\* than the one that was rejected.
DirectRetryNewer ==
  [][\A c \in Calls :
       pc[c] = "answered" /\ pc'[c] = "loading" => m_strAccessToken' > header[c]]_vars

\* The token that clients get never goes back to an older one, not even when
\* the server is destroyed and another one loads the file.
Served == IF Running THEN m_strAccessToken ELSE tokenFile.access
NeverRollsBack == [][Served' >= Served]_vars

\* The server is not destroyed while it is locked or has clients waiting.
QuietTeardown ==
  [][Running /\ ~Running' => m_spLockForRenew = NULL /\ m_lstRetryRequest = << >>]_vars

\* onFailed can tell from the state what went wrong: the request never went out
\* (InitialRequest), it was not repeated (RetryOnce), or its latest answer says
\* it (Finish).
FailureExplained ==
  \A c \in Calls : notified[c] = <<"onFailed">> =>
    CASE m_eState[c] = "InitialRequest" -> sends[c] = 0 /\ status[c] = "none"
      [] m_eState[c] = "RetryOnce" -> sends[c] = 1 /\ status[c] = "401"
      [] m_eState[c] = "Finish" -> sends[c] > 0 /\ status[c] \in {"401", "other"}

\* The renew has been given up: nobody is left to send the POST or to read its
\* answer, but the server stays locked.
RenewAbandoned ==
  /\ m_spLockForRenew # NULL
  /\ \A c \in Calls : Renewer(c) => pc[c] \in {"done", "dead"} /\ ~Unlocking(c)

\* Whatever fails, a call stays without an answer only if its own process dies,
\* as it does when its first request throws, if the surrogate dies under its renew or while it is deferred, or if it is
\* deferred behind a renew that was given up.
EveryCallEndsUnlessAbandoned ==
  \A c \in Calls :
    pc[c] = "loading" ~> \/ notified[c] # << >>
                        \/ pc[c] \in {"dead", "stranded"}
                        \/ (pc[c] = "queued" /\ RenewAbandoned)

\* The server does not outlive its clients (OnReleaseConnection): when no call
\* is left it goes, unless a POST that could not be sent still holds a sink.
NobodyCalls == \A c \in Calls : pc[c] \in {"new", "done", "dead"}
ServerGoes == NobodyCalls ~> (~Running \/ ~NobodyCalls \/ \E c \in Calls : Renewer(c))

\* Every step of the composition is a step the server specification allows.
ServerSpec == TFSpec

\* What a call promises its creator (module ServiceCall).
started == {c \in Calls : pc[c] # "new"}

Contract == INSTANCE ServiceCall
ContractSafe == Contract!SafeSpec
ContractSpec == Contract!Spec

=============================================================================
