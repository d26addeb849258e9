-------------------------- MODULE CoAuthServiceCall --------------------------
(***************************************************************************)
(* The calls of the MFC client library (CoAuthServiceCall and its helper   *)
(* CoAuthRenewTokenAsync) on the token server of module TokenFile and the  *)
(* web service of module Service.                                          *)
(*                                                                         *)
(* The protocol is that of the ATL library.  What differs: a request is    *)
(* sent with or without a token, Terminate() notifies nobody, a Continue() *)
(* that fails leaves the call as it is, and neither sinks nor the renewer  *)
(* go before the creator calls Dispose().  Module MFCApplicationDlg is     *)
(* such a creator.                                                         *)
(***************************************************************************)
EXTENDS Service

VARIABLES pc,                  \* where the call is, see Places
          m_eState,
          m_bstrAccessToken,   \* the access token the call remembers
          m_pRenewTokenAsync,  \* its renewer, without or with the POST in m_spRequest
          header,              \* access token in the Authorization header
          status,              \* HTTP status of the latest answer
          notified,            \* onSucceeded and onFailed, as called
          sends                \* requests sent so far

requestVars == <<header, status, notified, sends>>
callVars == <<pc, m_eState, m_bstrAccessToken, m_pRenewTokenAsync, requestVars>>

Places == {"new", "loading", "authorizing", "opened", "sent", "answered", "rejected",
           "locked", "renewing", "unlocking", "queued",  \* as in CallbackoAuth
           "ended",      \* nothing will happen to the call any more
           "collected",  \* disposed of and released by its creator
           "dead"}       \* process gone

\* Inside a handler, or in open(), which runs one.
Handling == {"loading", "authorizing", "opened", "rejected", "locked", "unlocking"}

CallTypeOK ==
  /\ pc \in [Calls -> Places]
  /\ m_eState \in [Calls -> {"InitialRequest", "RetryOnce", "Finish"}]
  /\ m_bstrAccessToken \in [Calls -> Generation \cup {NoToken}]
  /\ m_pRenewTokenAsync \in [Calls -> {"NULL", "without", "with"}]
  /\ header \in [Calls -> Generation \cup {NoToken}]
  /\ status \in [Calls -> {"none", "200", "401", "other"}]
  /\ notified \in [Calls -> Seq({"onSucceeded", "onFailed"})]
  /\ sends \in [Calls -> 0..2]

CallInit ==
  /\ pc = [c \in Calls |-> "new"]
  /\ m_eState = [c \in Calls |-> "InitialRequest"]
  /\ m_bstrAccessToken = [c \in Calls |-> NoToken]
  /\ m_pRenewTokenAsync = [c \in Calls |-> "NULL"]
  /\ header = [c \in Calls |-> NoToken]
  /\ status = [c \in Calls |-> "none"]
  /\ notified = [c \in Calls |-> << >>]
  /\ sends = [c \in Calls |-> 0]

Goto(c, place) == pc' = [pc EXCEPT ![c] = place]
Renewing(c, what) == m_pRenewTokenAsync' = [m_pRenewTokenAsync EXCEPT ![c] = what]

-----------------------------------------------------------------------------
(* IRenewCallback *)

\* Continue() up to the LOADING callback in open(); it returns E_PENDING,
\* which its callers in the library take for an exception and ignore.
Continue(c) ==
  /\ Goto(c, "loading")
  /\ m_eState' = [m_eState EXCEPT ![c] = "RetryOnce"]
  /\ header' = [header EXCEPT ![c] = NoToken]
  /\ UNCHANGED <<status, notified, sends>>

\* Mutant of Terminate: the creator never sees that the call is over.
TerminateUnfinished(c) ==
  /\ Goto(c, "ended")
  /\ UNCHANGED <<m_eState, requestVars>>

Terminate(c) ==
  /\ Goto(c, "ended")
  /\ m_eState' = [m_eState EXCEPT ![c] = "Finish"]
  /\ UNCHANGED requestVars

ContinueReturned(c) == pc[c] \notin {"loading", "authorizing", "opened"}

-----------------------------------------------------------------------------
(* CoAuthServiceCall *)

InitRequest(c) ==
  /\ pc[c] = "new"
  /\ Goto(c, "loading")
  /\ UNCHANGED <<tfVars, m_eState, m_bstrAccessToken, m_pRenewTokenAsync, requestVars,
                 serviceVars>>

OnLoading(c) ==
  /\ pc[c] = "loading"
  /\ \/ /\ AuthorizeRequest(c)
        /\ header' = [header EXCEPT ![c] = m_strAccessToken']
        /\ Goto(c, "authorizing")
     \/ /\ GetTokenServerFails
        /\ Goto(c, "opened")
        /\ UNCHANGED <<tfVars, header>>
  /\ UNCHANGED <<m_eState, m_bstrAccessToken, m_pRenewTokenAsync, status, notified, sends,
                 serviceVars>>

Authorized(c) ==
  /\ AuthorizeRequestReturn(c)
  /\ IF pc[c] = "authorizing"
       THEN /\ Goto(c, "opened")
            /\ m_bstrAccessToken' = [m_bstrAccessToken EXCEPT ![c] = m_strAccessToken]
       ELSE UNCHANGED <<pc, m_bstrAccessToken>>
  /\ UNCHANGED <<m_eState, m_pRenewTokenAsync, requestVars, serviceVars>>

\* The request goes out, with or without a token.  An exception in Continue()
\* (open or send) leaves the call in RetryOnce.
Send(c) ==
  /\ pc[c] = "opened"
  /\ \/ /\ Goto(c, "sent")
        /\ sends' = [sends EXCEPT ![c] = @ + 1]
     \/ /\ m_eState[c] = "RetryOnce"
        /\ "retry" \in Faults
        /\ Goto(c, "ended")
        /\ UNCHANGED sends
  /\ UNCHANGED <<tfVars, m_eState, m_bstrAccessToken, m_pRenewTokenAsync, header, status,
                 notified, serviceVars>>

\* READYSTATE_COMPLETE, any answer that ends the call.
OnFinish(c) ==
  /\ status[c] # "401" \/ m_eState[c] # "InitialRequest" \/ GetTokenServerFails
  /\ Goto(c, "ended")
  /\ m_eState' = [m_eState EXCEPT ![c] = "Finish"]
  /\ notified' = [notified EXCEPT ![c] =
                    Append(@, IF status[c] = "200" THEN "onSucceeded" ELSE "onFailed")]
  /\ UNCHANGED <<tfVars, m_bstrAccessToken, m_pRenewTokenAsync, header, status, sends>>

\* Mutant of OnRejected: a 401 is handled in every state.
OnRejectedInAnyState(c) ==
  /\ status[c] = "401"
  /\ CanRetryImmediately(c)
  /\ IF m_strAccessToken' = m_bstrAccessToken[c]
       THEN /\ Goto(c, "rejected")
            /\ Renewing(c, "without")
            /\ UNCHANGED <<m_eState, m_bstrAccessToken, requestVars>>
       ELSE /\ m_bstrAccessToken' = [m_bstrAccessToken EXCEPT ![c] = NoToken]
            /\ UNCHANGED m_pRenewTokenAsync
            /\ Continue(c)

\* READYSTATE_COMPLETE, the first 401: create a renewer or retry at once.
OnRejected(c) ==
  /\ status[c] = "401"
  /\ m_eState[c] = "InitialRequest"
  /\ CanRetryImmediately(c)
  /\ IF m_strAccessToken' = m_bstrAccessToken[c]
       THEN /\ Goto(c, "rejected")
            /\ Renewing(c, "without")
            /\ UNCHANGED <<m_eState, m_bstrAccessToken, requestVars>>
       ELSE /\ m_bstrAccessToken' = [m_bstrAccessToken EXCEPT ![c] = NoToken]
            /\ UNCHANGED m_pRenewTokenAsync
            /\ Continue(c)

OnComplete(c) ==
  /\ pc[c] = "answered"
  /\ OnFinish(c) \/ OnRejected(c)
  /\ UNCHANGED serviceVars

\* Dispose() takes the sinks off and releases the renewer, whose member
\* m_spRequest is null unless LockForRenew has returned E_PENDING: its use
\* throws, and nothing has been released then.
DisposeThrows(c) == m_pRenewTokenAsync[c] = "without"

\* Mutant of Dispose: the sink stays on the POST.
DisposeKeepsSink(c) ==
  /\ ~DisposeThrows(c)
  /\ Renewing(c, "NULL")
  /\ Goto(c, "collected")
  /\ UNCHANGED <<tfVars, m_eState, m_bstrAccessToken, requestVars, serviceVars>>

Dispose(c) ==
  /\ ~DisposeThrows(c)
  /\ IF Renewer(c) THEN RemoveSink ELSE UNCHANGED tfVars
  /\ Renewing(c, "NULL")
  /\ Goto(c, "collected")
  /\ UNCHANGED <<m_eState, m_bstrAccessToken, requestVars, serviceVars>>

-----------------------------------------------------------------------------
(* CoAuthRenewTokenAsync *)

RenewInit(c) ==
  /\ pc[c] = "rejected"
  /\ \/ /\ LockForRenew(c)
        /\ IF m_spLockForRenew = NULL
             THEN Goto(c, "locked") /\ Renewing(c, "with")
             ELSE Goto(c, "queued") /\ UNCHANGED m_pRenewTokenAsync
        /\ UNCHANGED <<m_eState, requestVars>>
     \/ /\ "open" \in Faults
        /\ LockForRenewThrows
        /\ Terminate(c)
        /\ UNCHANGED m_pRenewTokenAsync
  /\ UNCHANGED <<m_bstrAccessToken, serviceVars>>

RenewSend(c) ==
  /\ pc[c] = "locked"
  /\ \/ /\ SendRenew
        /\ Goto(c, "renewing")
        /\ UNCHANGED <<m_eState, requestVars>>
     \/ /\ "send" \in Faults
        /\ Terminate(c)
        /\ UNCHANGED tfVars
  /\ UNCHANGED <<m_bstrAccessToken, m_pRenewTokenAsync, serviceVars>>

\* Mutant of RenewComplete: acts on any ready state, not on COMPLETE only.
RenewReadyStateChange(c) ==
  /\ pc[c] = "renewing"
  /\ UnLockFromRenew(c)
  /\ IF Throws(m_spLockForRenew)
       THEN UNCHANGED m_spLockForRenew /\ Terminate(c)
       ELSE Goto(c, "unlocking") /\ UNCHANGED <<m_eState, requestVars>>
  /\ UNCHANGED <<m_bstrAccessToken, m_pRenewTokenAsync, serviceVars>>

\* The sink stays on the POST, after a failed UnLockFromRenew, too.
RenewComplete(c) ==
  /\ pc[c] = "renewing"
  /\ m_spLockForRenew.status \in Answered
  /\ UnLockFromRenew(c)
  /\ IF Throws(m_spLockForRenew)
       THEN UNCHANGED m_spLockForRenew /\ Terminate(c)
       ELSE Goto(c, "unlocking") /\ UNCHANGED <<m_eState, requestVars>>
  /\ UNCHANGED <<m_bstrAccessToken, m_pRenewTokenAsync, serviceVars>>

\* One turn of the server's loop, as in CallbackoAuth.
Drain(c) ==
  /\ Draining(c)
  /\ Head(stack).callee # NULL => ContinueReturned(Head(stack).callee)
  /\ m_lstRetryRequest # << >>
  /\ LET callee == Head(m_lstRetryRequest) IN
       IF pc[callee] = "dead"
         THEN /\ CallBackFault(c)
              /\ IF pc[c] = "unlocking"
                   THEN Terminate(c)
                   ELSE UNCHANGED <<pc, m_eState, requestVars>>
         ELSE /\ CallBack(c)
              /\ IF Head(stack).succeeded THEN Continue(callee) ELSE Terminate(callee)
  /\ UNCHANGED <<m_bstrAccessToken, m_pRenewTokenAsync, serviceVars>>

RenewReturn(c) ==
  /\ UnLockReturn(c)
  /\ Head(stack).callee # NULL => ContinueReturned(Head(stack).callee)
  /\ IF pc[c] = "unlocking"
       THEN IF Head(stack).succeeded THEN Continue(c) ELSE Terminate(c)
       ELSE UNCHANGED <<pc, m_eState, requestVars>>
  /\ UNCHANGED <<m_bstrAccessToken, m_pRenewTokenAsync, serviceVars>>

\* The renewer keeps the pointer it was given, also when the call was only
\* deferred: the pointer of the COMPLETE handler stands for that copy.
MayDrop(c, role) ==
  \/ pc[c] = "dead" /\ ~Unlocking(c)
  \/ pc[c] = "collected"
  \/ /\ role = "complete"
     /\ ContinueReturned(c) /\ pc[c] \notin {"rejected", "locked"}
     /\ m_pRenewTokenAsync[c] # "without"

DropServer(c) ==
  /\ \E role \in {"complete", "renewer"} : MayDrop(c, role) /\ Release(c, role)
  /\ UNCHANGED <<callVars, serviceVars>>

ServiceAnswers(c) ==
  /\ pc[c] = "sent"
  /\ \/ status' = [status EXCEPT ![c] = IF Accepts(header[c]) THEN "200" ELSE "401"]
     \/ "api" \in Faults /\ status' = [status EXCEPT ![c] = "other"]
  /\ Goto(c, "answered")
  /\ UNCHANGED <<tfVars, m_eState, m_bstrAccessToken, m_pRenewTokenAsync, header, notified,
                 sends, serviceVars>>

=============================================================================
