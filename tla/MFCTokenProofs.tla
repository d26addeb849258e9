----------------------------- MODULE MFCTokenProofs -----------------------------
(***************************************************************************)
(* What any number of calls of the MFC library achieve together: their     *)
(* types, no refresh token is used twice, and a renew that nobody notices. *)
(* A process that is gone does not matter to either: it takes all calls    *)
(* with it, and nobody starts another one.                                 *)
(***************************************************************************)
EXTENDS MFCApplicationDlgProofs

-----------------------------------------------------------------------------
(* Types *)

\* What neither the links nor the contract need to know of.
DataOK ==
  /\ header \in [Calls -> Nat]
  /\ m_bstrAccessToken \in [Calls -> Nat]
  /\ m_pRenewTokenAsync \in [Calls -> {"NULL", "without", "with"}]
  /\ status \in [Calls -> {"none", "200", "401", "other"}]
  /\ expired \in 0..MaxExpired
  /\ revoked \in BOOLEAN

Known == MFCInv /\ DataOK

LEMMA TokenTyped ==
  ASSUME TFInv
  PROVE  m_strAccessToken \in Nat
  BY GenerationAssumption DEF TFInv, TFTypeOK, NoToken

LEMMA LibraryData ==
  ASSUME TFInv, TFInv', DataOK, NEW c \in Calls, InitRequest(c) \/ Step(c)
  PROVE  DataOK'
  <1>1. m_strAccessToken \in Nat /\ m_strAccessToken' \in Nat
    BY GenerationAssumption DEF TFInv, TFTypeOK, NoToken
  <1>2. UNCHANGED <<expired, revoked>>
    BY DEF Step, SendRequest, InitRequest, OnLoading, Authorized, Send, OnComplete, RenewInit,
           RenewSend, RenewComplete, Drain, RenewReturn, DropServer, ServiceAnswers, serviceVars
  <1>3. CASE OnLoading(c)
    <2>1. /\ UNCHANGED <<m_bstrAccessToken, m_pRenewTokenAsync, status>>
          /\ UNCHANGED header \/ header' = [header EXCEPT ![c] = m_strAccessToken']
      BY <1>3 DEF OnLoading
    <2> QED BY <1>1, <1>2, <2>1 DEF DataOK
  <1>4. CASE Authorized(c)
    <2>1. /\ UNCHANGED <<header, m_pRenewTokenAsync, status>>
          /\ \/ UNCHANGED m_bstrAccessToken
             \/ m_bstrAccessToken' = [m_bstrAccessToken EXCEPT ![c] = m_strAccessToken]
      BY <1>4 DEF Authorized, requestVars
    <2> QED BY <1>1, <1>2, <2>1 DEF DataOK
  <1>5. CASE ServiceAnswers(c)
    <2>1. /\ UNCHANGED <<header, m_bstrAccessToken, m_pRenewTokenAsync>>
          /\ \E answer \in {"200", "401", "other"} : status' = [status EXCEPT ![c] = answer]
      BY <1>5 DEF ServiceAnswers
    <2> QED BY <1>2, <2>1 DEF DataOK
  <1>6. CASE OnComplete(c)
    <2>1. /\ UNCHANGED status
          /\ UNCHANGED header \/ header' = [header EXCEPT ![c] = NoToken]
          /\ \/ UNCHANGED m_bstrAccessToken
             \/ m_bstrAccessToken' = [m_bstrAccessToken EXCEPT ![c] = NoToken]
          /\ UNCHANGED m_pRenewTokenAsync \/ Renewing(c, "without")
      BY <1>6 DEF OnComplete, OnFinish, OnRejected, Continue, requestVars
    <2> QED BY <1>2, <2>1 DEF DataOK, NoToken, Renewing
  <1>7. CASE RenewInit(c) \/ RenewSend(c) \/ RenewComplete(c)
    <2>1. /\ UNCHANGED <<header, m_bstrAccessToken, status>>
          /\ UNCHANGED m_pRenewTokenAsync \/ Renewing(c, "with")
      BY <1>7 DEF RenewInit, RenewSend, RenewComplete, Terminate, requestVars
    <2> QED BY <1>2, <2>1 DEF DataOK, Renewing
  <1>8. CASE Drain(c) \/ RenewReturn(c)
    <2>1. /\ UNCHANGED <<m_bstrAccessToken, m_pRenewTokenAsync, status>>
          /\ UNCHANGED header \/ \E d : header' = [header EXCEPT ![d] = NoToken]
      BY <1>8 DEF Drain, RenewReturn, Continue, Terminate, requestVars
    <2> QED BY <1>2, <2>1 DEF DataOK, NoToken
  <1>9. CASE InitRequest(c) \/ SendRequest(c) \/ DropServer(c)
    <2>1. UNCHANGED <<header, m_bstrAccessToken, m_pRenewTokenAsync, status>>
      BY <1>9 DEF InitRequest, SendRequest, Send, DropServer, requestVars, callVars
    <2> QED BY <1>2, <2>1 DEF DataOK
  <1> QED BY <1>3, <1>4, <1>5, <1>6, <1>7, <1>8, <1>9 DEF Step

LEMMA NextData ==
  ASSUME MFCInv, MFCInv', DataOK, [Next]_vars
  PROVE  DataOK'
  <1>1. ASSUME NEW c \in Calls, OnBnClickedRunping(c) \/ Step(c)
        PROVE  DataOK'
    BY <1>1, LibraryData DEF OnBnClickedRunping, MFCInv, CallInv
  <1>2. CASE UNCHANGED <<requestVars, m_bstrAccessToken, m_pRenewTokenAsync, expired, revoked>>
    BY <1>2 DEF requestVars, DataOK
  <1>3. CASE OnTimer
    <2>1. CASE Die
      BY <1>2, <2>1 DEF Die, serviceVars
    <2>2. CASE \E c : Dispose(c)
      <3>1. PICK c : Dispose(c)
        BY <2>2
      <3>2. /\ UNCHANGED <<requestVars, m_bstrAccessToken, expired, revoked>>
            /\ m_pRenewTokenAsync' = [m_pRenewTokenAsync EXCEPT ![c] = "NULL"]
        BY <3>1 DEF Dispose, Renewing, serviceVars
      <3> QED BY <3>2 DEF requestVars, DataOK
    <2> QED BY <1>3, <2>1, <2>2 DEF OnTimer
  <1>4. CASE Expire
    <2>1. UNCHANGED <<callVars, revoked>> /\ expired < MaxExpired /\ expired' = expired + 1
      BY <1>4 DEF Expire, ExpireToken
    <2> QED BY <2>1, MaxExpiredAssumption DEF DataOK, callVars, requestVars
  <1>5. CASE Revoke
    <2>1. UNCHANGED <<callVars, expired>> /\ revoked' = TRUE
      BY <1>5 DEF Revoke, RevokeConsent
    <2> QED BY <2>1 DEF DataOK, callVars, requestVars
  <1>6. Die \/ OnSysCommand \/ TokenEndpoint \/ Terminating \/ UNCHANGED vars
          => UNCHANGED <<requestVars, m_bstrAccessToken, m_pRenewTokenAsync, expired, revoked>>
    BY DEF Die, OnSysCommand, TokenEndpoint, Exchange, Terminating, vars, callVars,
           serviceVars
  <1> QED BY <1>1, <1>2, <1>3, <1>4, <1>5, <1>6 DEF Next, OnCancel, InitThrows, Crash

LEMMA InitData ==
  ASSUME Init
  PROVE  DataOK
  <1>1. expired = 0 /\ revoked = FALSE
    BY DEF Init, ServiceInit
  <1>2. revoked \in BOOLEAN
    BY <1>1
  <1>3. expired \in 0..MaxExpired
    BY <1>1, MaxExpiredAssumption
  <1> QED BY <1>2, <1>3 DEF Init, CallInit, DataOK, NoToken

LEMMA KnownInvariance ==
  ASSUME Generation = Nat \ {0}
  PROVE  Spec => []Known
  <1>1. Init => DataOK
    BY InitData
  <1>2. MFCInv /\ MFCInv' /\ DataOK /\ [Next]_vars => DataOK'
    BY NextData
  <1> QED BY <1>1, <1>2, MFCInvariance, PTL DEF Spec, Known

\* Dialog, calls, server and service stay within their types, and no request
\* is sent more than twice.
THEOREM MFCTyped ==
  ASSUME Generation = Nat \ {0}
  PROVE  Spec => []TypeOK
  <1>1. Known => TypeOK
    BY DEF Known, MFCInv, CallInv, TFInv, StageInv, DialogInv, DataOK, TypeOK, ServiceTypeOK,
           CallTypeOK, NoToken
  <1> QED BY <1>1, KnownInvariance, PTL

-----------------------------------------------------------------------------
(* Tokens *)

Calm == Faults \cap {"lost", "garbled", "save"} = {}

\* The token that clients get.
Served == IF Running THEN m_strAccessToken ELSE tokenFile.access

\* The latest pair is in the file and in the running server, but for the time
\* between the answer to a POST and UnLockFromRenew, when it is in that answer.
Latest == [access |-> issued, refresh |-> issued]
Fresh ==
  /\ tokenFile = Latest
  /\ Running => m_strAccessToken = issued /\ m_strRefreshToken = issued
Exchanging == \E c \in Calls : pc[c] = "renewing"
AnswerPending == m_spLockForRenew # NULL /\ m_spLockForRenew.status = "200" /\ Exchanging

LiveInv ==
  /\ RefreshTokenUnspent
  /\ ~AnswerPending => Fresh
  /\ AnswerPending => /\ m_spLockForRenew.pair = Latest
                      /\ m_spLockForRenew.parsed = 3
                      /\ m_strAccessToken <= issued
  /\ m_spLockForRenew # NULL /\ m_spLockForRenew.status = "sent" => Exchanging

\* Of a process that is gone no call is left, and the POST it may have left
\* behind is the last one.
Ended == dialog = "gone"
UnspentInv ==
  /\ RefreshTokenUnspent
  /\ Ended => \A c \in Calls : pc[c] \in {"new", "collected", "dead"}
  /\ ~Ended => LiveInv

\* What every step of a living process does.
KeepsTokens == LiveInv' /\ Served' >= Served

\* Whoever renews holds the server.
LEMMA PendingRuns ==
  ASSUME MFCInv, AnswerPending
  PROVE  Running
  BY DEF MFCInv, CallInv, RenewLink, AnswerPending, Exchanging, Running

LEMMA FreshServes ==
  ASSUME Fresh
  PROVE  Served = issued
  BY DEF Fresh, Latest, Served

\* A running server whose members stay the same.
LEMMA FreshKeeps ==
  ASSUME MFCInv, Fresh, UNCHANGED <<issued, tokenFile, memory>>,
         Running \/ UNCHANGED extConn
  PROVE  Fresh' /\ Served' >= Served
  <1>1. issued \in Nat
    BY DEF MFCInv, CallInv
  <1>2. Fresh'
    BY DEF Fresh, Latest, Running, memory
  <1>3. Served = issued
    BY FreshServes
  <1>4. Served' = issued
    BY <1>2 DEF Fresh, Latest, Served
  <1> QED BY <1>1, <1>2, <1>3, <1>4

\* Steps that neither begin nor end a renew.
SameExchanging == Exchanging' <=> Exchanging

LEMMA MovedExchanging ==
  ASSUME pc \in [Calls -> Places], NEW c \in Calls, NEW p \in Places \ {"renewing"}, Goto(c, p),
         pc[c] # "renewing"
  PROVE  SameExchanging
  <1>1. pc'[c] = p /\ \A d \in Calls : d # c => pc'[d] = pc[d]
    BY Moved
  <1> QED BY <1>1 DEF SameExchanging, Exchanging

\* The POST may lose its sink.
SamePost ==
  \/ UNCHANGED m_spLockForRenew
  \/ /\ m_spLockForRenew # NULL /\ m_spLockForRenew' # NULL
     /\ m_spLockForRenew'.status = m_spLockForRenew.status
     /\ m_spLockForRenew'.body = m_spLockForRenew.body
     /\ m_spLockForRenew'.pair = m_spLockForRenew.pair
     /\ m_spLockForRenew'.parsed = m_spLockForRenew.parsed

\* Nothing of the server but its connections changes, and its tokens with them:
\* it may be activated, or go.
LEMMA UnspentKeeps ==
  ASSUME MFCInv, LiveInv, MFCInv', SameExchanging, UNCHANGED <<issued, tokenFile>>,
         \/ Running /\ UNCHANGED memory /\ SamePost
         \/ /\ ~Running /\ UNCHANGED m_spLockForRenew
            /\ m_strAccessToken' = tokenFile.access /\ m_strRefreshToken' = tokenFile.refresh
         \/ UNCHANGED <<extConn, memory>> /\ SamePost
         \/ ~Running'
  PROVE  KeepsTokens
  <1>1. issued \in Nat
    BY DEF MFCInv, CallInv
  <1>2. CASE ~Running'
    <2>1. m_spLockForRenew' = NULL
      BY <1>2 DEF MFCInv, CallInv, TFInv, TokensIffRunning
    <2>2. ~Exchanging'
      BY <1>2 DEF MFCInv, CallInv, RenewLink, Running, Exchanging
    <2>3. ~AnswerPending /\ ~AnswerPending'
      BY <2>1, <2>2 DEF AnswerPending, SameExchanging
    <2>4. Fresh /\ Fresh'
      BY <1>2, <2>3 DEF LiveInv, Fresh, Latest
    <2>5. LiveInv'
      BY <2>1, <2>3, <2>4 DEF LiveInv, RefreshTokenUnspent
    <2>6. Served = issued /\ Served' = issued
      BY <2>4, FreshServes DEF Fresh, Latest, Served
    <2> QED BY <1>1, <2>5, <2>6 DEF KeepsTokens
  <1>3. CASE Running' /\ SamePost
    <2>1. AnswerPending' <=> AnswerPending
      BY <1>3 DEF AnswerPending, SameExchanging, SamePost
    <2>2. /\ RefreshTokenUnspent'
          /\ m_spLockForRenew' # NULL /\ m_spLockForRenew'.status = "sent" => Exchanging'
      BY <1>3 DEF LiveInv, RefreshTokenUnspent, SamePost, SameExchanging
    <2>3. CASE AnswerPending
      <3>1. Running
        BY <2>3, PendingRuns
      <3>2. UNCHANGED m_strAccessToken
        BY <1>3, <3>1 DEF memory
      <3>3. LiveInv'
        BY <1>3, <2>1, <2>2, <2>3, <3>2 DEF LiveInv, Latest, SamePost
      <3>4. Served = m_strAccessToken /\ Served' = m_strAccessToken
        BY <1>3, <3>1, <3>2 DEF Served
      <3>5. m_strAccessToken \in Nat
        BY TokenTyped DEF MFCInv, CallInv
      <3> QED BY <3>3, <3>4, <3>5 DEF KeepsTokens
    <2>4. CASE ~AnswerPending
      <3>1. Fresh
        BY <2>4 DEF LiveInv
      <3>2. tokenFile.access = issued /\ tokenFile.refresh = issued
        BY <3>1 DEF Fresh, Latest
      <3>3. m_strAccessToken' = issued /\ m_strRefreshToken' = issued
        BY <1>3, <3>1, <3>2 DEF Fresh, Running, memory
      <3>4. Fresh'
        BY <3>1, <3>3 DEF Fresh, Latest
      <3>5. LiveInv'
        BY <2>1, <2>2, <2>4, <3>4 DEF LiveInv
      <3>6. Served = issued /\ Served' = issued
        BY <1>3, <3>1, <3>3, FreshServes DEF Served
      <3> QED BY <1>1, <3>5, <3>6 DEF KeepsTokens
    <2> QED BY <2>3, <2>4
  <1> QED BY <1>2, <1>3 DEF SamePost

\* Binding, and releasing, a pointer.
LEMMA BindUnspent ==
  ASSUME MFCInv, LiveInv, MFCInv', SameExchanging,
         UNCHANGED <<issued, tokenFile, m_spLockForRenew>>, NEW c \in Calls, NEW role,
         GetTokenServer(c, role)
  PROVE  KeepsTokens
  <1>1. \/ Running /\ UNCHANGED memory
        \/ /\ ~Running
           /\ m_strAccessToken' = tokenFile.access /\ m_strRefreshToken' = tokenFile.refresh
    BY DEF GetTokenServer, Load
  <1> QED BY <1>1, UnspentKeeps DEF SamePost

LEMMA ReleaseUnspent ==
  ASSUME MFCInv, LiveInv, MFCInv', SameExchanging,
         UNCHANGED <<issued, tokenFile>>, NEW c \in Calls, NEW role,
         ReleaseConnection(c, role), <<c, role>> \in extConn
  PROVE  KeepsTokens
  <1>1. \/ ~Running'
        \/ Running /\ UNCHANGED <<memory, m_spLockForRenew>>
    BY DEF ReleaseConnection, Running
  <1> QED BY <1>1, UnspentKeeps DEF SamePost

-----------------------------------------------------------------------------
(* The steps *)

\* One call moves, not into or out of a renew, and the server stays as it is.
LEMMA AsideUnspent ==
  ASSUME MFCInv, LiveInv, MFCInv', NEW c \in Calls, NEW p \in Places \ {"renewing"},
         Goto(c, p), pc[c] # "renewing", UNCHANGED <<tfVars, issued>>
  PROVE  KeepsTokens
  <1>1. SameExchanging
    BY MovedExchanging DEF MFCInv, CallInv
  <1> QED BY <1>1, UnspentKeeps DEF tfVars, SamePost

LEMMA OnLoadingUnspent ==
  ASSUME MFCInv, LiveInv, MFCInv', NEW c \in Calls, OnLoading(c)
  PROVE  KeepsTokens
  <1>1. UNCHANGED issued /\ pc[c] = "loading"
    BY DEF OnLoading, serviceVars
  <1>2. CASE UNCHANGED tfVars /\ Goto(c, "opened")
    BY <1>1, <1>2, AsideUnspent DEF Places
  <1>3. CASE AuthorizeRequest(c) /\ Goto(c, "authorizing")
    <2>1. GetTokenServer(c, "loading") /\ UNCHANGED <<tokenFile, m_spLockForRenew>>
      BY <1>3 DEF AuthorizeRequest
    <2>2. SameExchanging
      BY <1>1, <1>3, MovedExchanging DEF MFCInv, CallInv, Places
    <2> QED BY <1>1, <2>1, <2>2, BindUnspent
  <1> QED BY <1>2, <1>3 DEF OnLoading

LEMMA AuthorizedUnspent ==
  ASSUME MFCInv, LiveInv, MFCInv', NEW c \in Calls, Authorized(c)
  PROVE  KeepsTokens
  <1>1. /\ UNCHANGED <<issued, tokenFile>>
        /\ ReleaseConnection(c, "loading")
        /\ stack # << >> /\ Head(stack).method = "AuthorizeRequest" /\ Head(stack).caller = c
    BY DEF Authorized, AuthorizeRequestReturn, serviceVars
  <1>2. <<c, "loading">> \in extConn
    <2>1. 1 \in 1..Len(stack) /\ stack[1] = Head(stack)
      BY <1>1, Pop DEF MFCInv, CallInv, TFInv, TFTypeOK
    <2> QED BY <1>1, <2>1 DEF MFCInv, CallInv, TFInv, ActivationsConnected
  <1>3. SameExchanging
    <2>1. CASE pc[c] = "authorizing"
      <3>1. Goto(c, "opened")
        BY <2>1 DEF Authorized
      <3> QED BY <2>1, <3>1, MovedExchanging DEF MFCInv, CallInv, Places
    <2>2. CASE pc[c] # "authorizing"
      BY <2>2 DEF Authorized, SameExchanging, Exchanging
    <2> QED BY <2>1, <2>2
  <1> QED BY <1>1, <1>2, <1>3, ReleaseUnspent

LEMMA OnCompleteUnspent ==
  ASSUME MFCInv, LiveInv, MFCInv', NEW c \in Calls, OnComplete(c)
  PROVE  KeepsTokens
  <1>1. UNCHANGED issued /\ pc[c] = "answered"
    BY DEF OnComplete, serviceVars
  <1>2. CASE OnFinish(c)
    BY <1>1, <1>2, AsideUnspent DEF OnFinish, Places
  <1>3. CASE OnRejected(c)
    <2>1. GetTokenServer(c, "complete") /\ UNCHANGED <<tokenFile, m_spLockForRenew>>
      BY <1>3 DEF OnRejected, CanRetryImmediately
    <2>2. PICK p \in {"rejected", "loading"} : Goto(c, p)
      BY <1>3 DEF OnRejected, Continue
    <2>3. SameExchanging
      BY <1>1, <2>2, MovedExchanging DEF MFCInv, CallInv, Places
    <2> QED BY <1>1, <2>1, <2>3, BindUnspent
  <1> QED BY <1>2, <1>3 DEF OnComplete

LEMMA QuietUnspent ==
  ASSUME MFCInv, LiveInv, MFCInv', NEW c \in Calls,
         InitRequest(c) \/ Send(c) \/ ServiceAnswers(c)
  PROVE  KeepsTokens
  <1>1. UNCHANGED <<tfVars, issued>> /\ pc[c] \in {"new", "opened", "sent"}
    BY DEF InitRequest, Send, ServiceAnswers, serviceVars
  <1>2. PICK p \in {"loading", "sent", "ended", "answered"} : Goto(c, p)
    BY DEF InitRequest, Send, ServiceAnswers
  <1> QED BY <1>1, <1>2, AsideUnspent DEF Places

\* The POST is made from the latest refresh token: the caller holds the server,
\* and no answer is pending.
LEMMA RenewInitUnspent ==
  ASSUME MFCInv, LiveInv, MFCInv', NEW c \in Calls, RenewInit(c)
  PROVE  KeepsTokens
  <1>1. /\ UNCHANGED <<issued, tokenFile, memory>>
        /\ pc[c] = "rejected"
        /\ Running
        /\ extConn \subseteq extConn'
    BY DEF RenewInit, LockForRenew, LockForRenewThrows, serviceVars, MFCInv, CallInv,
           RejectedLink, Running
  <1>2. SameExchanging
    <2>1. PICK p \in {"locked", "queued", "ended"} : Goto(c, p)
      BY DEF RenewInit, Terminate
    <2> QED BY <1>1, <2>1, MovedExchanging DEF MFCInv, CallInv, Places
  <1>3. CASE UNCHANGED m_spLockForRenew
    BY <1>1, <1>2, <1>3, UnspentKeeps DEF SamePost
  <1>4. CASE m_spLockForRenew = NULL /\ \E sink : m_spLockForRenew' = NewRequest(sink)
    <2>1. ~AnswerPending /\ Fresh /\ m_strRefreshToken = issued
      BY <1>1, <1>4 DEF LiveInv, AnswerPending, Fresh
    <2>2. m_spLockForRenew'.status = "open" /\ m_spLockForRenew'.body = issued
      BY <1>4, <2>1 DEF NewRequest
    <2>3. ~AnswerPending'
      BY <2>2 DEF AnswerPending
    <2>4. Fresh' /\ Served' >= Served
      BY <1>1, <2>1, FreshKeeps
    <2>5. LiveInv'
      BY <1>1, <2>2, <2>3, <2>4 DEF LiveInv, RefreshTokenUnspent
    <2> QED BY <2>4, <2>5 DEF KeepsTokens
  <1> QED BY <1>3, <1>4 DEF RenewInit, LockForRenew, LockForRenewThrows

LEMMA RenewSendUnspent ==
  ASSUME MFCInv, LiveInv, MFCInv', NEW c \in Calls, RenewSend(c)
  PROVE  KeepsTokens
  <1>1. UNCHANGED issued /\ pc[c] = "locked" /\ pc \in [Calls -> Places]
    BY DEF RenewSend, serviceVars, MFCInv, CallInv
  <1>2. CASE Terminate(c) /\ UNCHANGED tfVars
    <2>1. Goto(c, "ended")
      BY <1>2 DEF Terminate
    <2> QED BY <1>1, <1>2, <2>1, AsideUnspent DEF Places
  <1>3. CASE SendRenew /\ Goto(c, "renewing")
    <2>1. /\ UNCHANGED <<tokenFile, memory, extConn>>
          /\ m_spLockForRenew' = [m_spLockForRenew EXCEPT !.status = "sent"]
      BY <1>3 DEF SendRenew
    <2>2. /\ m_spLockForRenew # NULL
          /\ m_spLockForRenew \in Request
          /\ m_spLockForRenew.status = "open"
      BY <1>1 DEF MFCInv, CallInv, TFInv, TFTypeOK, RenewLink, Renewer
    <2>3. m_spLockForRenew'.status = "sent" /\ m_spLockForRenew'.body = m_spLockForRenew.body
      BY <2>1, <2>2 DEF Request
    <2>4. m_spLockForRenew.body = issued /\ Fresh
      BY <2>2 DEF LiveInv, AnswerPending, RefreshTokenUnspent
    <2>5. ~AnswerPending'
      BY <2>3 DEF AnswerPending
    <2>6. Exchanging'
      <3>1. pc'[c] = "renewing"
        BY <1>1, <1>3, Moved DEF Places
      <3> QED BY <3>1 DEF Exchanging
    <2>7. Fresh' /\ Served' >= Served
      BY <1>1, <2>1, <2>4, FreshKeeps
    <2>8. LiveInv'
      BY <1>1, <2>3, <2>4, <2>5, <2>6, <2>7 DEF LiveInv, RefreshTokenUnspent
    <2> QED BY <2>7, <2>8 DEF KeepsTokens
  <1> QED BY <1>2, <1>3 DEF RenewSend

\* Whoever renews takes the pending answer to memory and file.
LEMMA RenewCompleteUnspent ==
  ASSUME MFCInv, LiveInv, MFCInv', Calm, NEW c \in Calls, RenewComplete(c)
  PROVE  KeepsTokens
  <1>1. /\ UNCHANGED issued
        /\ UnLockFromRenew(c)
        /\ m_spLockForRenew.status \in Answered
        /\ pc[c] = "renewing"
        /\ pc \in [Calls -> Places]
        /\ UNCHANGED extConn
    BY DEF RenewComplete, UnLockFromRenew, serviceVars, MFCInv, CallInv
  <1>2. Renewer(c) /\ Exchanging
    BY <1>1 DEF MFCInv, CallInv, RenewLink, Exchanging
  <1>3. m_spLockForRenew # NULL /\ m_spLockForRenew \in Request
    BY <1>2 DEF Renewer, MFCInv, CallInv, TFInv, TFTypeOK
  <1>4. AnswerPending <=> m_spLockForRenew.status = "200"
    BY <1>2, <1>3 DEF AnswerPending
  <1>5. ~Throws(m_spLockForRenew)
    BY <1>4 DEF Throws, LiveInv
  <1>6. UNCHANGED m_spLockForRenew /\ Goto(c, "unlocking")
    BY <1>1, <1>5 DEF UnLockFromRenew, RenewComplete
  <1>7. pc'[c] = "unlocking" /\ \A d \in Calls : d # c => pc'[d] = pc[d]
    BY <1>1, <1>6, Moved DEF Places
  <1>8. ~Exchanging'
    <2>1. ASSUME NEW d \in Calls, pc[d] = "renewing"
          PROVE  d = c
      BY <1>2, <2>1, OneRenewer DEF MFCInv, CallInv, RenewLink
    <2> QED BY <1>7, <2>1 DEF Exchanging
  <1>9. Fresh' /\ Served' >= Served
    <2>1. CASE m_spLockForRenew.status = "200"
      <3>1. /\ m_spLockForRenew.pair.access = issued
            /\ m_spLockForRenew.pair.refresh = issued
            /\ m_spLockForRenew.parsed = 3
        BY <1>4, <2>1 DEF LiveInv, Latest
      <3>2. UpdateAccessRefreshToken(m_spLockForRenew)
        BY <1>1, <2>1 DEF UnLockFromRenew
      <3>3. m_strAccessToken' = issued /\ m_strRefreshToken' = issued
        BY <3>1, <3>2 DEF UpdateAccessRefreshToken
      <3>4. tokenFile' = [access |-> m_strAccessToken', refresh |-> m_strRefreshToken']
        BY <3>1, <3>2 DEF UpdateAccessRefreshToken, Save, Calm
      <3>5. Fresh'
        BY <1>1, <3>3, <3>4 DEF Fresh, Latest
      <3>6. Served' = issued
        BY <1>1, <3>5 DEF Fresh, Latest, Served
      <3>7. Served = m_strAccessToken /\ m_strAccessToken <= issued
        BY <1>4, <2>1, PendingRuns DEF LiveInv, Served
      <3>8. m_strAccessToken \in Nat /\ issued \in Nat
        BY TokenTyped DEF MFCInv, CallInv
      <3> QED BY <3>5, <3>6, <3>7, <3>8
    <2>2. CASE m_spLockForRenew.status # "200"
      <3>1. UNCHANGED <<tokenFile, memory>>
        BY <1>1, <2>2 DEF UnLockFromRenew
      <3>2. Fresh
        BY <1>4, <2>2 DEF LiveInv
      <3> QED BY <1>1, <3>1, <3>2, FreshKeeps
    <2> QED BY <2>1, <2>2
  <1>10. m_spLockForRenew.status \notin {"open", "sent"}
    BY <1>1 DEF Answered
  <1>11. LiveInv'
    BY <1>6, <1>8, <1>9, <1>10 DEF LiveInv, AnswerPending, RefreshTokenUnspent
  <1> QED BY <1>9, <1>11 DEF KeepsTokens

\* The process is there, and so are its calls.
NoneDead == \A c \in Calls : pc[c] # "dead"

LEMMA AliveCalls ==
  ASSUME MFCInv, ~Ended
  PROVE  NoneDead
  BY DEF MFCInv, DialogInv, Ended, NoneDead

\* Who is called back waits in the queue.
LEMMA CalledBack ==
  ASSUME MFCInv, NoneDead, NEW c \in Calls, Drain(c)
  PROVE  /\ CallBack(c)
         /\ \E callee \in Calls :
              /\ callee = Head(m_lstRetryRequest) /\ pc[callee] = "queued"
              /\ IF Head(stack).succeeded THEN Continue(callee) ELSE Terminate(callee)
  <1>1. /\ Head(m_lstRetryRequest) \in Calls
        /\ pc[Head(m_lstRetryRequest)] = "queued"
    BY DrainedWaits DEF Drain, MFCInv, NoneDead
  <1> QED BY <1>1 DEF Drain

\* The loop of UnLockFromRenew, and the unlock at its end: nobody renews then.
LEMMA DrainUnspent ==
  ASSUME MFCInv, LiveInv, MFCInv', NoneDead, NEW c \in Calls, Drain(c) \/ RenewReturn(c)
  PROVE  KeepsTokens
  <1>1. /\ UNCHANGED <<issued, tokenFile, memory, extConn>>
        /\ Draining(c)
        /\ pc \in [Calls -> Places]
    BY DEF Drain, CallBack, CallBackFault, RenewReturn, UnLockReturn, serviceVars, MFCInv, CallInv
  <1>2. Renewer(c) /\ pc[c] = "unlocking"
    BY <1>1, DrainerRenews DEF MFCInv, NoneDead
  <1>3. ~Exchanging
    <2>1. ASSUME NEW d \in Calls, pc[d] = "renewing"
          PROVE  d = c
      BY <1>2, <2>1, OneRenewer DEF MFCInv, CallInv, RenewLink
    <2> QED BY <1>2, <2>1 DEF Exchanging
  <1>4. PICK d \in Calls : pc[d] # "renewing" /\ (Continue(d) \/ Terminate(d))
    <2>1. CASE RenewReturn(c)
      BY <1>2, <2>1 DEF RenewReturn
    <2>2. CASE Drain(c)
      BY <2>2, CalledBack
    <2> QED BY <2>1, <2>2
  <1>5. PICK p \in {"loading", "ended"} : Goto(d, p)
    BY <1>4 DEF Continue, Terminate
  <1>6. SameExchanging
    BY <1>1, <1>4, <1>5, MovedExchanging DEF Places
  <1>7. CASE UNCHANGED m_spLockForRenew
    BY <1>1, <1>6, <1>7, UnspentKeeps DEF SamePost
  <1>8. CASE m_spLockForRenew' = NULL
    <2>1. Fresh
      BY <1>3 DEF LiveInv, AnswerPending
    <2>2. Fresh' /\ Served' >= Served
      BY <1>1, <2>1, FreshKeeps
    <2>3. LiveInv'
      BY <1>8, <2>2 DEF LiveInv, AnswerPending, RefreshTokenUnspent
    <2> QED BY <2>2, <2>3 DEF KeepsTokens
  <1>9. CASE RenewReturn(c)
    BY <1>8, <1>9 DEF RenewReturn, UnLockReturn
  <1>10. CASE Drain(c)
    BY <1>7, <1>10, CalledBack DEF CallBack
  <1> QED BY <1>9, <1>10

LEMMA DropServerUnspent ==
  ASSUME MFCInv, LiveInv, MFCInv', NEW c \in Calls, DropServer(c)
  PROVE  KeepsTokens
  <1>1. UNCHANGED <<issued, pc>>
    BY DEF DropServer, callVars, serviceVars
  <1>2. PICK role : Release(c, role)
    BY DEF DropServer
  <1>3. <<c, role>> \in extConn /\ ReleaseConnection(c, role) /\ UNCHANGED tokenFile
    BY <1>2 DEF Release
  <1>4. SameExchanging
    BY <1>1 DEF SameExchanging, Exchanging
  <1> QED BY <1>1, <1>3, <1>4, ReleaseUnspent

\* The token endpoint spends the refresh token, and its answer is not lost.
LEMMA TokenEndpointUnspent ==
  ASSUME MFCInv, LiveInv, MFCInv', Calm, TokenEndpoint
  PROVE  KeepsTokens
  <1> DEFINE pair == [access |-> issued + 1, refresh |-> issued + 1]
  <1>1. /\ Exchange
        /\ UNCHANGED pc
        /\ m_spLockForRenew # NULL /\ m_spLockForRenew \in Request
        /\ m_spLockForRenew.status = "sent"
    BY DEF TokenEndpoint, Exchange, callVars, MFCInv, CallInv, TFInv, TFTypeOK
  <1>2. Exchanging /\ ~AnswerPending /\ Fresh
    BY <1>1 DEF LiveInv, AnswerPending
  <1>3. Exchanging' <=> Exchanging
    BY <1>1 DEF Exchanging
  <1>4. CASE issued' = issued + 1 /\ RenewAnswered("200", pair, 3)
    <2>1. m_spLockForRenew' =
            [m_spLockForRenew EXCEPT !.status = "200", !.pair = pair, !.parsed = 3]
      BY <1>4 DEF RenewAnswered
    <2>2. /\ m_spLockForRenew'.status = "200"
          /\ m_spLockForRenew'.pair = pair
          /\ m_spLockForRenew'.parsed = 3
      BY <1>1, <2>1 DEF Request
    <2>3. m_spLockForRenew' # NULL
      BY <1>2, <1>3 DEF Exchanging, MFCInv, CallInv, RenewLink, Renewer
    <2>4. AnswerPending'
      BY <1>2, <1>3, <2>2, <2>3 DEF AnswerPending
    <2>5. issued \in Nat /\ Running
      BY <1>2 DEF MFCInv, CallInv, RenewLink, Exchanging, Running
    <2>6. UNCHANGED <<memory, extConn>> /\ m_strAccessToken = issued
      BY <1>2, <1>4, <2>5 DEF RenewAnswered, Fresh
    <2>7. m_strAccessToken' <= issued'
      BY <1>4, <2>5, <2>6 DEF memory
    <2>8. LiveInv'
      BY <1>4, <2>2, <2>4, <2>7 DEF LiveInv, Latest, RefreshTokenUnspent
    <2>9. Served = issued /\ Served' = issued
      BY <2>5, <2>6 DEF Served, Running, memory
    <2> QED BY <2>5, <2>8, <2>9 DEF KeepsTokens
  <1>5. CASE issued' = issued /\ RenewAnswered("400", NoTokens, 3)
    <2>1. /\ m_spLockForRenew' =
               [m_spLockForRenew EXCEPT !.status = "400", !.pair = NoTokens, !.parsed = 3]
          /\ UNCHANGED <<tokenFile, memory, extConn>>
      BY <1>5 DEF RenewAnswered
    <2>2. m_spLockForRenew'.status = "400"
      BY <1>1, <2>1 DEF Request
    <2>3. Fresh' /\ Served' >= Served
      BY <1>2, <1>5, <2>1, FreshKeeps
    <2>4. LiveInv'
      BY <2>2, <2>3 DEF LiveInv, AnswerPending, RefreshTokenUnspent
    <2> QED BY <2>3, <2>4 DEF KeepsTokens
  <1>6. \/ issued' = issued + 1 /\ RenewAnswered("200", pair, 3)
        \/ issued' = issued /\ RenewAnswered("400", NoTokens, 3)
    <2>1. "garbled" \notin Faults /\ "lost" \notin Faults
      BY DEF Calm
    <2> QED BY <1>1, <2>1 DEF Exchange
  <1> QED BY <1>4, <1>5, <1>6

\* A call that is collected takes at most its sink off a POST.
LEMMA Collects ==
  ASSUME MFCInv, OnTimer, ~Die
  PROVE  /\ \E c \in Calls : Goto(c, "collected") /\ pc[c] # "renewing"
         /\ UNCHANGED <<serviceVars, tokenFile, memory, extConn, stack, m_eState,
                        m_bstrAccessToken, requestVars>>
         /\ SamePost
  <1>1. PICK c \in Calls : c = Head(m_lstCmd)
    BY Pop DEF OnTimer, MFCInv, DialogInv
  <1>2. Dispose(c)
    BY <1>1 DEF OnTimer
  <1>3. Goto(c, "collected") /\ pc[c] # "renewing"
    BY <1>1, <1>2 DEF OnTimer, Dispose, MFCInv, StageInv, Stage, Over
  <1>4. UNCHANGED <<serviceVars, tokenFile, memory, extConn, stack, m_eState,
                    m_bstrAccessToken, requestVars>>
    BY <1>2 DEF Dispose, RemoveSink, tfVars
  <1>5. CASE Renewer(c)
    <2>1. /\ m_spLockForRenew # NULL /\ m_spLockForRenew \in Request
          /\ m_spLockForRenew' = [m_spLockForRenew EXCEPT !.sink = NULL]
      BY <1>2, <1>5 DEF Dispose, RemoveSink, Renewer, MFCInv, CallInv, TFInv, TFTypeOK
    <2>2. /\ m_spLockForRenew'.status = m_spLockForRenew.status
          /\ m_spLockForRenew'.body = m_spLockForRenew.body
          /\ m_spLockForRenew'.pair = m_spLockForRenew.pair
          /\ m_spLockForRenew'.parsed = m_spLockForRenew.parsed
          /\ m_spLockForRenew' \in Request
      BY <2>1 DEF Request
    <2>3. SamePost
      BY <2>1, <2>2, NullAssumption DEF SamePost
    <2> QED BY <1>3, <1>4, <2>3
  <1>6. CASE ~Renewer(c)
    BY <1>2, <1>3, <1>4, <1>6 DEF Dispose, tfVars, SamePost
  <1> QED BY <1>5, <1>6

LEMMA CollectUnspent ==
  ASSUME MFCInv, LiveInv, MFCInv', OnTimer, ~Die
  PROVE  KeepsTokens
  <1>1. PICK c \in Calls : Goto(c, "collected") /\ pc[c] # "renewing"
    BY Collects
  <1>2. UNCHANGED <<issued, tokenFile, memory, extConn>> /\ SamePost
    BY Collects DEF serviceVars
  <1>3. SameExchanging
    BY <1>1, MovedExchanging DEF MFCInv, CallInv, Places
  <1> QED BY <1>2, <1>3, UnspentKeeps

LEMMA NextLive ==
  ASSUME MFCInv, LiveInv, MFCInv', Calm, ~Ended, ~Ended', [Next]_vars
  PROVE  KeepsTokens
  <1>1. NoneDead
    BY AliveCalls
  <1>2. ~Die
    BY DEF Die, Ended
  <1>3. ASSUME NEW c \in Calls, OnBnClickedRunping(c) \/ Step(c)
        PROVE  KeepsTokens
    BY <1>1, <1>3, OnLoadingUnspent, AuthorizedUnspent, OnCompleteUnspent, QuietUnspent,
       RenewInitUnspent, RenewSendUnspent, RenewCompleteUnspent, DrainUnspent,
       DropServerUnspent DEF Step, OnBnClickedRunping, SendRequest
  <1>4. CASE TokenEndpoint
    BY <1>4, TokenEndpointUnspent
  <1>5. CASE OnTimer
    BY <1>2, <1>5, CollectUnspent
  <1>6. CASE UNCHANGED <<tfVars, issued, pc>>
    <2>1. SameExchanging
      BY <1>6 DEF SameExchanging, Exchanging
    <2> QED BY <1>6, <2>1, UnspentKeeps DEF tfVars, SamePost
  <1>7. OnSysCommand \/ Expire \/ Revoke \/ Terminating \/ UNCHANGED vars
          => UNCHANGED <<tfVars, issued, pc>>
    BY DEF OnSysCommand, Expire, ExpireToken, Revoke, RevokeConsent, Terminating, vars, callVars,
           serviceVars
  <1> QED BY <1>2, <1>3, <1>4, <1>5, <1>6, <1>7 DEF Next, OnCancel, InitThrows, Crash

\* The process goes, and its calls with it.
Gone == Ended /\ \A c \in Calls : pc[c] \in {"new", "collected", "dead"}

LEMMA NextEnds ==
  ASSUME MFCInv, ~Ended, Ended', [Next]_vars
  PROVE  Die /\ Gone'
  <1>1. dialog' # dialog
    BY DEF Ended
  <1>2. ASSUME NEW c \in Calls
        PROVE  ~OnBnClickedRunping(c) /\ ~Step(c)
    BY <1>1 DEF OnBnClickedRunping, Step, SendRequest
  <1>3. OnTimer => Die
    BY <1>1 DEF OnTimer
  <1>4. OnSysCommand => dialog' = "closed"
    BY DEF OnSysCommand
  <1>5. OnCancel \/ Crash \/ (\E c \in Calls : InitThrows(c)) => Die
    BY DEF OnCancel, InitThrows, Crash
  <1>6. ~(TokenEndpoint \/ Expire \/ Revoke \/ Terminating \/ UNCHANGED vars)
    BY <1>1 DEF TokenEndpoint, Expire, Revoke, Terminating, vars
  <1>7. Die
    BY <1>2, <1>3, <1>4, <1>5, <1>6 DEF Next, Ended
  <1>8. \A c \in Calls : pc'[c] \in {"new", "collected", "dead"}
    BY <1>7 DEF Die
  <1> QED BY <1>7, <1>8 DEF Gone

\* What is left behind runs out: activations return, the POST is answered.
LEMMA NextGone ==
  ASSUME MFCInv, Gone, RefreshTokenUnspent, [Next]_vars
  PROVE  /\ UNCHANGED <<callVars, dialog>>
         /\ RefreshTokenUnspent'
  <1>1. dialog = "gone" /\ \A c \in Calls : pc[c] \in {"new", "collected", "dead"}
    BY DEF Gone, Ended
  <1>2. /\ ~(\E c \in Calls : OnBnClickedRunping(c) \/ InitThrows(c))
        /\ ~OnTimer /\ ~OnSysCommand /\ ~OnCancel /\ ~Crash
    BY <1>1 DEF OnBnClickedRunping, OnTimer, OnSysCommand, OnCancel, InitThrows, Crash, Idle
  <1>3. ASSUME NEW c \in Calls, Step(c)
        PROVE  Authorized(c) \/ Drain(c) \/ RenewReturn(c) \/ DropServer(c)
    <2>1. pc[c] \in {"new", "collected", "dead"}
      BY <1>1
    <2>2. ~SendRequest(c) /\ ~OnLoading(c) /\ ~OnComplete(c) /\ ~ServiceAnswers(c)
      BY <2>1 DEF SendRequest, Send, OnLoading, OnComplete, ServiceAnswers
    <2>3. ~RenewInit(c) /\ ~RenewSend(c) /\ ~RenewComplete(c)
      BY <2>1 DEF RenewInit, RenewSend, RenewComplete
    <2> QED BY <1>3, <2>2, <2>3 DEF Step
  <1>4. CASE UNCHANGED <<callVars, dialog, issued, m_spLockForRenew>>
    BY <1>4 DEF RefreshTokenUnspent
  <1>5. CASE UNCHANGED <<callVars, dialog>> /\ m_spLockForRenew' = NULL
    BY <1>5 DEF RefreshTokenUnspent
  <1>6. ASSUME NEW c \in Calls, Authorized(c), UNCHANGED <<m_lstCmd, dialog>>
        PROVE  /\ UNCHANGED <<callVars, dialog>>
               /\ RefreshTokenUnspent'
    <2>1. UNCHANGED <<callVars, issued>>
      BY <1>1, <1>6 DEF Authorized, callVars, serviceVars
    <2>2. m_spLockForRenew' = NULL \/ UNCHANGED m_spLockForRenew
      BY <1>6 DEF Authorized, AuthorizeRequestReturn, ReleaseConnection
    <2> QED BY <1>4, <1>5, <1>6, <2>1, <2>2
  <1>7. ASSUME NEW c \in Calls, Drain(c), UNCHANGED <<m_lstCmd, dialog>>
        PROVE  /\ UNCHANGED <<callVars, dialog>>
               /\ RefreshTokenUnspent'
    <2>1. pc[Head(m_lstRetryRequest)] = "dead"
      BY <1>1, <1>7, DrainedWaits DEF Drain, MFCInv
    <2>2. /\ CallBackFault(c)
          /\ UNCHANGED <<callVars, issued>>
      BY <1>1, <1>7, <2>1 DEF Drain, callVars, serviceVars
    <2>3. m_spLockForRenew # NULL /\ m_spLockForRenew \in Request
      BY <2>2, DrainerRenews DEF CallBackFault, Renewer, MFCInv, CallInv, TFInv, TFTypeOK
    <2>4. m_spLockForRenew' = [m_spLockForRenew EXCEPT !.sink = NULL]
      BY <2>2 DEF CallBackFault
    <2>5. /\ m_spLockForRenew'.status = m_spLockForRenew.status
          /\ m_spLockForRenew'.body = m_spLockForRenew.body
      BY <2>3, <2>4 DEF Request
    <2> QED BY <1>7, <2>2, <2>3, <2>5 DEF RefreshTokenUnspent
  <1>8. ASSUME NEW c \in Calls, RenewReturn(c), UNCHANGED <<m_lstCmd, dialog>>
        PROVE  /\ UNCHANGED <<callVars, dialog>>
               /\ RefreshTokenUnspent'
    BY <1>1, <1>5, <1>8 DEF RenewReturn, UnLockReturn, callVars
  <1>9. ASSUME NEW c \in Calls, DropServer(c), UNCHANGED <<m_lstCmd, dialog>>
        PROVE  /\ UNCHANGED <<callVars, dialog>>
               /\ RefreshTokenUnspent'
    <2>1. UNCHANGED <<callVars, issued>>
      BY <1>9 DEF DropServer, serviceVars
    <2>2. m_spLockForRenew' = NULL \/ UNCHANGED m_spLockForRenew
      BY <1>9 DEF DropServer, Release, ReleaseConnection
    <2> QED BY <1>4, <1>5, <1>9, <2>1, <2>2
  <1>10. CASE TokenEndpoint
    <2>1. UNCHANGED <<callVars, dialog>> /\ m_spLockForRenew \in Request
      BY <1>10 DEF TokenEndpoint, Exchange, MFCInv, CallInv, TFInv, TFTypeOK
    <2>2. \E answer \in Answered : \E pair, parsed :
            m_spLockForRenew' = [m_spLockForRenew EXCEPT
              !.status = answer, !.pair = pair, !.parsed = parsed]
      BY <1>10 DEF TokenEndpoint, Exchange, RenewAnswered, Answered
    <2>3. m_spLockForRenew'.status \in Answered
      BY <2>1, <2>2 DEF Request
    <2> QED BY <2>1, <2>3 DEF RefreshTokenUnspent, Answered
  <1>11. Expire \/ Revoke \/ Terminating \/ UNCHANGED vars
           => UNCHANGED <<callVars, dialog, issued, m_spLockForRenew>>
    BY DEF Expire, ExpireToken, Revoke, RevokeConsent, Terminating, vars, tfVars, serviceVars
  <1>12. ASSUME NEW c \in Calls, Step(c)
         PROVE  /\ UNCHANGED <<callVars, dialog>>
                /\ RefreshTokenUnspent'
    <2>1. UNCHANGED <<m_lstCmd, dialog>>
      BY <1>1, <1>12 DEF Step, SendRequest, Send
    <2> QED BY <1>3, <1>6, <1>7, <1>8, <1>9, <1>12, <2>1
  <1> QED BY <1>2, <1>4, <1>10, <1>11, <1>12 DEF Next

LEMMA NextUnspent ==
  ASSUME MFCInv, UnspentInv, MFCInv', Calm, [Next]_vars
  PROVE  UnspentInv' /\ (~Ended' => Served' >= Served)
  <1>1. CASE Ended
    <2>1. Gone
      BY <1>1 DEF UnspentInv, Gone
    <2>2. UNCHANGED <<callVars, dialog>> /\ RefreshTokenUnspent'
      BY <2>1, NextGone DEF UnspentInv
    <2> QED BY <1>1, <2>1, <2>2 DEF UnspentInv, Gone, Ended, callVars
  <1>2. CASE ~Ended /\ Ended'
    <2>1. Die /\ Gone'
      BY <1>2, NextEnds
    <2>2. UNCHANGED <<m_spLockForRenew, issued>>
      BY <2>1 DEF Die, tfVars, serviceVars
    <2> QED BY <1>2, <2>1, <2>2 DEF UnspentInv, Gone, RefreshTokenUnspent
  <1>3. CASE ~Ended /\ ~Ended'
    BY <1>3, NextLive DEF UnspentInv, KeepsTokens, LiveInv
  <1> QED BY <1>1, <1>2, <1>3

LEMMA InitUnspent ==
  ASSUME Init
  PROVE  UnspentInv
  BY DEF Init, TFInit, ServiceInit, UnspentInv, LiveInv, AnswerPending, Fresh, Latest, Running,
         RefreshTokenUnspent, Ended

\* No POST carries a refresh token that the service has exchanged already, as
\* long as its answers arrive complete and the file can be written: not even
\* the one that a process leaves behind, whatever ends it.
THEOREM MFCUsedOnce ==
  ASSUME Generation = Nat \ {0}, Calm
  PROVE  Spec => []RefreshTokenUnspent
  <1>1. Init => UnspentInv
    BY InitUnspent
  <1>2. MFCInv /\ MFCInv' /\ UnspentInv /\ [Next]_vars => UnspentInv'
    BY NextUnspent
  <1>3. UnspentInv => RefreshTokenUnspent
    BY DEF UnspentInv
  <1> QED BY <1>1, <1>2, <1>3, MFCInvariance, PTL DEF Spec

-----------------------------------------------------------------------------
(* What calls remember of the tokens *)

\* No call remembers a token that is newer than the one it would get now, and
\* who sends its first request remembers one.
Sending == {"opened", "sent", "answered"}
RecallInv ==
  \A c \in Calls :
    /\ m_bstrAccessToken[c] <= Served
    /\ pc[c] \in Sending /\ m_eState[c] = "InitialRequest" => m_bstrAccessToken[c] # NoToken

\* What is known of a living process so far, and of its steps.
Alive == MFCInv /\ DataOK /\ LiveInv /\ ~Ended
ServesOn == Served \in Nat /\ Served' \in Nat /\ Served' >= Served

LEMMA PairTyped ==
  ASSUME NEW pair \in TokenPair \cup {NoTokens}
  PROVE  pair.access \in Nat
  <1>1. CASE pair \in TokenPair
    BY <1>1, GenerationAssumption DEF TokenPair
  <1>2. CASE pair = NoTokens
    BY <1>2 DEF NoTokens, NoToken
  <1> QED BY <1>1, <1>2

LEMMA ServedTyped ==
  ASSUME TFInv
  PROVE  Served \in Nat
  <1>1. m_strAccessToken \in Nat
    BY TokenTyped
  <1>2. tokenFile.access \in Nat
    BY PairTyped DEF TFInv, TFTypeOK
  <1> QED BY <1>1, <1>2 DEF Served

LEMMA NextServes ==
  ASSUME Alive, MFCInv', Calm, ~Ended', [Next]_vars
  PROVE  ServesOn
  <1>1. Served \in Nat
    BY ServedTyped DEF Alive, MFCInv, CallInv
  <1>2. m_strAccessToken' \in Nat
    BY GenerationAssumption DEF MFCInv, CallInv, TFInv, TFTypeOK, NoToken
  <1>3. tokenFile'.access \in Nat
    BY PairTyped DEF MFCInv, CallInv, TFInv, TFTypeOK
  <1>4. Served' >= Served
    BY NextLive DEF Alive, KeepsTokens
  <1> QED BY <1>1, <1>2, <1>3, <1>4 DEF Served, ServesOn

\* A binding never fails: the file holds the latest pair while nobody runs.
LEMMA BindingSucceeds ==
  ASSUME Alive, Faults = {}
  PROVE  ~GetTokenServerFails
  <1>1. CASE AnswerPending
    BY <1>1, PendingRuns DEF Alive, GetTokenServerFails
  <1>2. CASE ~AnswerPending
    <2>1. tokenFile.access = issued /\ issued # 0
      BY <1>2 DEF Alive, LiveInv, Fresh, Latest, MFCInv, CallInv
    <2>2. NoTokens.access = 0
      BY DEF NoTokens, NoToken
    <2> QED BY <2>1, <2>2 DEF GetTokenServerFails, LoadFails
  <1> QED BY <1>1, <1>2

\* One call moves.
LEMMA RecallKeeps ==
  ASSUME Alive, RecallInv, ServesOn, NEW c \in Calls,
         m_bstrAccessToken'[c] <= Served',
         pc'[c] \in Sending /\ m_eState'[c] = "InitialRequest" => m_bstrAccessToken'[c] # NoToken,
         \A d \in Calls : d # c => /\ m_bstrAccessToken'[d] = m_bstrAccessToken[d]
                                   /\ pc'[d] = pc[d]
                                   /\ m_eState'[d] = m_eState[d]
  PROVE  RecallInv'
  <1>1. ASSUME NEW d \in Calls, d # c
        PROVE  m_bstrAccessToken'[d] <= Served'
    <2>1. m_bstrAccessToken[d] \in Nat /\ m_bstrAccessToken[d] <= Served
      BY DEF Alive, DataOK, RecallInv
    <2> QED BY <1>1, <2>1 DEF ServesOn
  <1> QED BY <1>1 DEF RecallInv

\* It goes where it sends nothing, and forgets at most its token.
LEMMA MovedRecall ==
  ASSUME Alive, RecallInv, ServesOn, NEW c \in Calls, NEW p \in Places \ Sending, Goto(c, p),
         \/ UNCHANGED m_bstrAccessToken
         \/ m_bstrAccessToken' = [m_bstrAccessToken EXCEPT ![c] = NoToken],
         \A d \in Calls : d # c => m_eState'[d] = m_eState[d]
  PROVE  RecallInv'
  <1>1. pc'[c] = p /\ \A d \in Calls : d # c => pc'[d] = pc[d]
    BY Moved DEF Alive, MFCInv, CallInv
  <1>2. m_bstrAccessToken \in [Calls -> Nat] /\ m_bstrAccessToken[c] <= Served
    BY DEF Alive, DataOK, RecallInv
  <1>3. m_bstrAccessToken'[c] \in {m_bstrAccessToken[c], 0}
        /\ \A d \in Calls : d # c => m_bstrAccessToken'[d] = m_bstrAccessToken[d]
    BY <1>2 DEF NoToken
  <1>4. m_bstrAccessToken'[c] <= Served'
    <2>1. m_bstrAccessToken[c] \in Nat
      BY <1>2
    <2> QED BY <1>2, <1>3, <2>1 DEF ServesOn
  <1> QED BY <1>1, <1>3, <1>4, RecallKeeps

\* Whose activation returns is told the token of the running server.
LEMMA ReturnsToken ==
  ASSUME Alive, NEW c \in Calls, Authorized(c)
  PROVE  /\ pc[c] = "authorizing" /\ Goto(c, "opened")
         /\ m_strAccessToken = Served /\ Served # NoToken
         /\ m_bstrAccessToken' = [m_bstrAccessToken EXCEPT ![c] = Served]
  <1>1. stack # << >> /\ Head(stack).method = "AuthorizeRequest" /\ Head(stack).caller = c
    BY DEF Authorized, AuthorizeRequestReturn
  <1>2. 1 \in 1..Len(stack) /\ stack[1] = Head(stack)
    BY <1>1, Pop DEF Alive, MFCInv, CallInv, TFInv, TFTypeOK
  <1>3. pc[c] = "authorizing"
    BY <1>1, <1>2, AliveCalls DEF Alive, MFCInv, CallInv, StackLink, PlaceOf, NoneDead
  <1>4. Running /\ m_strAccessToken # NoToken
    BY <1>1, <1>2 DEF Alive, MFCInv, CallInv, TFInv, ActivationsConnected, TokensIffRunning,
                      Running
  <1> QED BY <1>3, <1>4 DEF Authorized, Served

LEMMA AuthorizedRecall ==
  ASSUME Alive, RecallInv, ServesOn, NEW c \in Calls, Authorized(c)
  PROVE  RecallInv'
  <1>1. /\ pc \in [Calls -> Places] /\ m_bstrAccessToken \in [Calls -> Nat]
        /\ UNCHANGED m_eState
    BY DEF Alive, MFCInv, CallInv, DataOK, Authorized
  <1>2. Goto(c, "opened") /\ m_bstrAccessToken' = [m_bstrAccessToken EXCEPT ![c] = Served]
        /\ Served # NoToken
    BY ReturnsToken
  <1>3. /\ m_bstrAccessToken'[c] = Served
        /\ \A d \in Calls : d # c => m_bstrAccessToken'[d] = m_bstrAccessToken[d]
                                     /\ pc'[d] = pc[d]
    BY <1>1, <1>2 DEF Goto
  <1>4. m_bstrAccessToken'[c] <= Served'
    BY <1>3 DEF ServesOn
  <1> QED BY <1>1, <1>2, <1>3, <1>4, RecallKeeps

LEMMA OnCompleteRecall ==
  ASSUME Alive, RecallInv, ServesOn, NEW c \in Calls, OnComplete(c)
  PROVE  RecallInv'
  <1>1. m_eState \in [Calls -> {"InitialRequest", "RetryOnce", "Finish"}]
    BY DEF Alive, MFCInv, StageInv
  <1>2. PICK p \in {"ended", "rejected", "loading"} : Goto(c, p)
    BY DEF OnComplete, OnFinish, OnRejected, Continue
  <1>3. \/ UNCHANGED m_bstrAccessToken
        \/ m_bstrAccessToken' = [m_bstrAccessToken EXCEPT ![c] = NoToken]
    BY DEF OnComplete, OnFinish, OnRejected
  <1>4. \A d \in Calls : d # c => m_eState'[d] = m_eState[d]
    BY <1>1 DEF OnComplete, OnFinish, OnRejected, Continue
  <1>5. p \in Places \ Sending
    BY DEF Places, Sending
  <1> QED BY <1>2, <1>3, <1>4, <1>5, MovedRecall

\* The request that goes out, and the answer to it, change no token.
LEMMA SendRecall ==
  ASSUME Alive, RecallInv, ServesOn, NEW c \in Calls, Send(c) \/ ServiceAnswers(c)
  PROVE  RecallInv'
  <1>1. /\ pc \in [Calls -> Places]
        /\ UNCHANGED <<m_bstrAccessToken, m_eState>>
        /\ pc[c] \in Sending
        /\ \E p : Goto(c, p)
    BY DEF Alive, MFCInv, CallInv, Send, ServiceAnswers, Sending
  <1>2. \A d \in Calls : d # c => pc'[d] = pc[d]
    BY <1>1 DEF Goto
  <1>3. /\ m_bstrAccessToken[c] \in Nat /\ m_bstrAccessToken[c] <= Served
        /\ m_eState[c] = "InitialRequest" => m_bstrAccessToken[c] # NoToken
    BY <1>1 DEF RecallInv, Alive, DataOK
  <1>4. m_bstrAccessToken'[c] <= Served'
    BY <1>1, <1>3 DEF ServesOn
  <1> QED BY <1>1, <1>2, <1>3, <1>4, RecallKeeps

LEMMA RenewRecall ==
  ASSUME Alive, Faults = {}, RecallInv, ServesOn, NEW c \in Calls,
         InitRequest(c) \/ OnLoading(c) \/ RenewInit(c) \/ RenewSend(c) \/ RenewComplete(c)
           \/ Drain(c) \/ RenewReturn(c)
  PROVE  RecallInv'
  <1>1. /\ m_eState \in [Calls -> {"InitialRequest", "RetryOnce", "Finish"}]
        /\ UNCHANGED m_bstrAccessToken
        /\ NoneDead /\ MFCInv
    BY AliveCalls DEF Alive, MFCInv, StageInv, InitRequest, OnLoading, RenewInit, RenewSend, RenewComplete,
           Drain, RenewReturn
  <1> DEFINE There == {"loading", "authorizing", "locked", "queued", "renewing", "unlocking",
                       "ended"}
  <1>2. There \subseteq Places \ Sending
    BY DEF Places, Sending
  <1>3. ASSUME NEW d \in Calls, NEW p \in There, Goto(d, p),
               UNCHANGED m_eState \/ Continue(d) \/ Terminate(d)
        PROVE  RecallInv'
    <2>1. \A e \in Calls : e # d => m_eState'[e] = m_eState[e]
      BY <1>1, <1>3 DEF Continue, Terminate
    <2> QED BY <1>1, <1>2, <1>3, <2>1, MovedRecall
  <1>4. CASE InitRequest(c)
    BY <1>3, <1>4 DEF InitRequest
  <1>5. CASE OnLoading(c)
    BY <1>3, <1>5, BindingSucceeds DEF OnLoading
  <1>6. CASE RenewInit(c)
    BY <1>3, <1>6 DEF RenewInit, Terminate
  <1>7. CASE RenewSend(c)
    BY <1>3, <1>7 DEF RenewSend, Terminate
  <1>8. CASE RenewComplete(c)
    BY <1>3, <1>8 DEF RenewComplete, Terminate
  <1>9. ASSUME NEW d \in Calls, Continue(d) \/ Terminate(d)
        PROVE  RecallInv'
    BY <1>3, <1>9 DEF Continue, Terminate
  <1>10. CASE Drain(c)
    BY <1>1, <1>9, <1>10, CalledBack
  <1>11. CASE RenewReturn(c)
    <2>1. pc[c] = "unlocking"
      BY <1>1, <1>11, DrainerRenews DEF RenewReturn, UnLockReturn, MFCInv, NoneDead
    <2> QED BY <1>9, <1>11, <2>1 DEF RenewReturn
  <1> QED BY <1>4, <1>5, <1>6, <1>7, <1>8, <1>10, <1>11

LEMMA CollectRecall ==
  ASSUME Alive, RecallInv, ServesOn, OnTimer, ~Die
  PROVE  RecallInv'
  <1>1. PICK c \in Calls : Goto(c, "collected")
    BY Collects DEF Alive
  <1>2. UNCHANGED <<m_eState, m_bstrAccessToken>>
    BY Collects DEF Alive
  <1> QED BY <1>1, <1>2, MovedRecall DEF Places, Sending

LEMMA NextRecall ==
  ASSUME Alive, MFCInv', Calm, Faults = {}, ~Ended', RecallInv, [Next]_vars
  PROVE  RecallInv'
  <1>1. ServesOn
    BY NextServes
  <1>2. ~Die
    BY DEF Die, Ended
  <1>3. CASE UNCHANGED callVars
    <2>1. ASSUME NEW d \in Calls
          PROVE  m_bstrAccessToken'[d] <= Served'
      <3>1. m_bstrAccessToken[d] \in Nat /\ m_bstrAccessToken[d] <= Served
        BY DEF Alive, DataOK, RecallInv
      <3> QED BY <1>1, <1>3, <3>1 DEF ServesOn, callVars
    <2> QED BY <1>3, <2>1 DEF RecallInv, callVars
  <1>4. ASSUME NEW c \in Calls, OnBnClickedRunping(c) \/ Step(c)
        PROVE  RecallInv'
    BY <1>1, <1>3, <1>4, AuthorizedRecall, OnCompleteRecall, SendRecall, RenewRecall
       DEF OnBnClickedRunping, Step, SendRequest, DropServer
  <1>5. CASE OnTimer
    BY <1>1, <1>2, <1>5, CollectRecall
  <1>6. TokenEndpoint \/ OnSysCommand \/ Expire \/ Revoke \/ Terminating \/ UNCHANGED vars
          => UNCHANGED callVars
    BY DEF TokenEndpoint, OnSysCommand, Expire, Revoke, Terminating, vars
  <1> QED BY <1>2, <1>3, <1>4, <1>5, <1>6 DEF Next, OnCancel, InitThrows, Crash

LEMMA InitRecall ==
  ASSUME Init
  PROVE  RecallInv
  <1>1. extConn = {} /\ tokenFile = [access |-> 1, refresh |-> 1]
    BY DEF Init, TFInit
  <1>2. Served = 1
    BY <1>1 DEF Served, Running
  <1>3. \A c \in Calls : pc[c] = "new" /\ m_bstrAccessToken[c] = 0
    BY DEF Init, CallInit, NoToken
  <1>4. ASSUME NEW c \in Calls
        PROVE  m_bstrAccessToken[c] <= Served
    <2>1. m_bstrAccessToken[c] \in Int /\ Served \in Int /\ m_bstrAccessToken[c] = 0
      BY <1>2, <1>3
    <2> QED BY <1>2, <2>1
  <1>5. \A c \in Calls : pc[c] \notin Sending
    BY <1>3 DEF Sending
  <1> QED BY <1>4, <1>5 DEF RecallInv

-----------------------------------------------------------------------------
(* A renew that nobody notices *)

\* Every POST is granted, and who unlocks the server has a newer token than the
\* first.
GrantedInv ==
  /\ ~revoked
  /\ m_spLockForRenew # NULL => m_spLockForRenew.status \in {"open", "sent", "200"}
  /\ m_spLockForRenew # NULL /\ m_spLockForRenew.status = "200" => issued > 1
  /\ \A i \in 1..Len(stack) :
       stack[i].method = "UnLockFromRenew" => stack[i].succeeded /\ Served > 1

\* A renew is begun, goes on or ends; an activation ends, or one of another
\* method begins.
LEMMA GrantedKeeps ==
  ASSUME GrantedInv, ServesOn, UNCHANGED <<revoked, issued>>,
         \/ m_spLockForRenew' = NULL
         \/ SamePost
         \/ m_spLockForRenew'.status \in {"open", "sent"},
         \A i \in 1..Len(stack') : stack'[i].method = "UnLockFromRenew" =>
           \E j \in 1..Len(stack) : /\ stack[j].method = "UnLockFromRenew"
                                    /\ stack[j].succeeded = stack'[i].succeeded
  PROVE  GrantedInv'
  <1>1. \A i \in 1..Len(stack') :
          stack'[i].method = "UnLockFromRenew" => stack'[i].succeeded /\ Served' > 1
    BY DEF GrantedInv, ServesOn
  <1>2. CASE m_spLockForRenew' = NULL
    BY <1>1, <1>2 DEF GrantedInv
  <1>3. CASE SamePost
    BY <1>1, <1>3 DEF GrantedInv, SamePost
  <1>4. CASE m_spLockForRenew'.status \in {"open", "sent"}
    BY <1>1, <1>4 DEF GrantedInv
  <1> QED BY <1>2, <1>3, <1>4

\* The steps of the server and of those who call it.
LEMMA CallsGranted ==
  ASSUME Alive, GrantedInv, ServesOn, Faults = {}, NEW c \in Calls,
         OnLoading(c) \/ Authorized(c) \/ OnComplete(c) \/ RenewInit(c) \/ RenewSend(c)
           \/ Drain(c) \/ RenewReturn(c) \/ DropServer(c)
  PROVE  GrantedInv'
  <1>1. /\ stack \in Seq(Activation)
        /\ UNCHANGED <<revoked, issued>>
        /\ MFCInv /\ NoneDead
    BY AliveCalls DEF Alive, MFCInv, CallInv, TFInv, TFTypeOK, OnLoading, Authorized, OnComplete, RenewInit,
       RenewSend, Drain, RenewReturn, DropServer, serviceVars
  <1>2. \/ m_spLockForRenew' = NULL
        \/ UNCHANGED m_spLockForRenew
        \/ m_spLockForRenew'.status \in {"open", "sent"}
    <2>1. CASE RenewSend(c)
      <3>1. m_spLockForRenew \in Request
        BY <2>1 DEF RenewSend, Alive, MFCInv, CallInv, TFInv, TFTypeOK, RenewLink, Renewer
      <3>2. m_spLockForRenew' = [m_spLockForRenew EXCEPT !.status = "sent"]
        BY <2>1 DEF RenewSend, SendRenew
      <3> QED BY <3>1, <3>2 DEF Request
    <2>2. CASE RenewInit(c)
      <3>1. UNCHANGED m_spLockForRenew \/ m_spLockForRenew' = NewRequest(c)
        BY <2>2 DEF RenewInit, LockForRenew
      <3> QED BY <3>1 DEF NewRequest
    <2>3. CASE Drain(c)
      BY <1>1, <2>3, CalledBack DEF CallBack
    <2>4. CASE OnLoading(c) \/ Authorized(c) \/ OnComplete(c) \/ RenewReturn(c) \/ DropServer(c)
      BY <2>4 DEF OnLoading, AuthorizeRequest, Authorized, AuthorizeRequestReturn,
         ReleaseConnection, OnComplete, OnFinish, OnRejected, CanRetryImmediately, RenewReturn,
         UnLockReturn, DropServer, Release, tfVars
    <2> QED BY <2>1, <2>2, <2>3, <2>4
  <1>3. ASSUME NEW i \in 1..Len(stack'), stack'[i].method = "UnLockFromRenew"
        PROVE  \E j \in 1..Len(stack) : /\ stack[j].method = "UnLockFromRenew"
                                        /\ stack[j].succeeded = stack'[i].succeeded
    <2>1. CASE UNCHANGED stack
      BY <1>3, <2>1
    <2>2. CASE stack # << >> /\ \/ stack' = Tail(stack)
                                \/ \E callee : stack' =
                                     << [Head(stack) EXCEPT !.callee = callee] >> \o Tail(stack)
      BY <1>1, <1>3, <2>2, StackShrinks
    <2>3. CASE OnLoading(c) /\ AuthorizeRequest(c)
      <3> DEFINE f == [method |-> "AuthorizeRequest", caller |-> c,
                       succeeded |-> TRUE, callee |-> c]
      <3>1. stack' = << f >> \o stack
        BY <2>3 DEF AuthorizeRequest
      <3>2. f.method # "UnLockFromRenew"
        OBVIOUS
      <3> HIDE DEF f
      <3>3. (i = 1 => stack'[i] = f)
            /\ (i # 1 => i - 1 \in 1..Len(stack) /\ stack'[i] = stack[i - 1])
        BY <1>1, <3>1
      <3> QED BY <1>3, <3>2, <3>3
    <2>4. CASE OnLoading(c) /\ ~AuthorizeRequest(c)
      BY <2>1, <2>4 DEF OnLoading, tfVars
    <2>5. CASE Authorized(c) \/ Drain(c) \/ RenewReturn(c)
      BY <2>2, <2>5 DEF Authorized, AuthorizeRequestReturn, Drain, CallBack, CallBackFault,
         RenewReturn, UnLockReturn, Draining
    <2>6. CASE OnComplete(c) \/ RenewInit(c) \/ RenewSend(c) \/ DropServer(c)
      BY <2>1, <2>6 DEF OnComplete, OnFinish, OnRejected, CanRetryImmediately, RenewInit,
         LockForRenew, LockForRenewThrows, RenewSend, SendRenew, DropServer, Release, tfVars
    <2> QED BY <2>3, <2>4, <2>5, <2>6
  <1> QED BY <1>1, <1>2, <1>3, GrantedKeeps DEF SamePost

\* The answer that is read is good, and newer than the first token.
LEMMA RenewCompleteGranted ==
  ASSUME Alive, LiveInv', GrantedInv, Faults = {}, NEW c \in Calls, RenewComplete(c)
  PROVE  GrantedInv' /\ Goto(c, "unlocking") /\ UNCHANGED <<m_eState, header, status, notified>>
  <1>1. /\ UnLockFromRenew(c) /\ UNCHANGED <<revoked, issued>>
        /\ pc[c] = "renewing" /\ Renewer(c)
        /\ pc \in [Calls -> Places] /\ issued \in Nat
        /\ stack \in Seq(Activation)
    BY DEF RenewComplete, serviceVars, Alive, MFCInv, CallInv, RenewLink, TFInv, TFTypeOK
  <1>2. m_spLockForRenew # NULL /\ m_spLockForRenew.status = "200"
    BY <1>1 DEF Renewer, GrantedInv, RenewComplete, Answered
  <1>3. ~Throws(m_spLockForRenew) /\ issued > 1
    BY <1>1, <1>2 DEF Throws, Alive, LiveInv, AnswerPending, Exchanging, GrantedInv
  <1>4. /\ Goto(c, "unlocking") /\ UNCHANGED <<m_eState, header, status, notified>>
        /\ UNCHANGED <<m_spLockForRenew, extConn>>
    BY <1>1, <1>3 DEF RenewComplete, UnLockFromRenew, requestVars
  <1>5. ~Exchanging'
    <2>1. ASSUME NEW d \in Calls, pc[d] = "renewing"
          PROVE  d = c
      BY <1>1, <2>1, OneRenewer DEF Alive, MFCInv, CallInv, RenewLink
    <2>2. pc'[c] = "unlocking" /\ \A d \in Calls : d # c => pc'[d] = pc[d]
      BY <1>1, <1>4, Moved DEF Places
    <2> QED BY <2>1, <2>2 DEF Exchanging
  <1>6. Served' = issued'
    BY <1>5 DEF LiveInv, AnswerPending, Fresh, Latest, Served
  <1> DEFINE f == [method |-> "UnLockFromRenew", caller |-> c, succeeded |-> TRUE,
                   callee |-> NULL]
  <1>7. stack' = << f >> \o stack
    BY <1>1, <1>2, <1>3 DEF UnLockFromRenew
  <1>8. f.succeeded
    OBVIOUS
  <1> HIDE DEF f
  <1>9. ASSUME NEW i \in 1..Len(stack'), stack'[i].method = "UnLockFromRenew"
        PROVE  stack'[i].succeeded
    <2>1. /\ i = 1 => stack'[i] = f
          /\ i # 1 => i - 1 \in 1..Len(stack) /\ stack'[i] = stack[i - 1]
      BY <1>1, <1>7
    <2> QED BY <1>8, <1>9, <2>1 DEF GrantedInv
  <1>10. GrantedInv'
    BY <1>1, <1>3, <1>4, <1>6, <1>9 DEF GrantedInv
  <1> QED BY <1>4, <1>10

\* The refresh token is not spent, and the consent is not withdrawn.
LEMMA TokenEndpointGranted ==
  ASSUME Alive, GrantedInv, ServesOn, Faults = {}, TokenEndpoint
  PROVE  GrantedInv'
  <1>1. /\ Exchange
        /\ m_spLockForRenew # NULL /\ m_spLockForRenew \in Request
        /\ m_spLockForRenew.status = "sent"
        /\ issued \in Nat /\ issued > 0
    BY DEF TokenEndpoint, Exchange, Alive, MFCInv, CallInv, TFInv, TFTypeOK
  <1>2. Unspent(m_spLockForRenew.body)
    BY <1>1 DEF Unspent, Alive, LiveInv, RefreshTokenUnspent, GrantedInv
  <1>3. /\ issued' = issued + 1 /\ UNCHANGED <<revoked, stack>>
        /\ \E pair : RenewAnswered("200", pair, 3)
    BY <1>1, <1>2 DEF Exchange, RenewAnswered
  <1>4. m_spLockForRenew'.status = "200" /\ issued' > 1
    BY <1>1, <1>3 DEF RenewAnswered, Request
  <1> QED BY <1>3, <1>4 DEF GrantedInv, ServesOn

\* A sink that is taken off changes nothing about the POST.
LEMMA CollectGranted ==
  ASSUME Alive, GrantedInv, ServesOn, OnTimer, ~Die
  PROVE  GrantedInv'
  <1>1. UNCHANGED <<stack, revoked, issued>> /\ SamePost
    BY Collects DEF Alive, serviceVars
  <1> QED BY <1>1, GrantedKeeps

\* A call fails in no place: its second request carries a newer token than the
\* first, which is all that has expired.
Untroubled(c) ==
  /\ m_eState[c] = "Finish" => notified[c] = <<"onSucceeded">>
  /\ m_eState[c] = "RetryOnce" => Served > 1
  /\ pc[c] \in {"authorizing"} \cup Sending /\ m_eState[c] = "RetryOnce" => header[c] > 1
  /\ pc[c] = "answered" => \/ status[c] = "200"
                           \/ status[c] = "401" /\ m_eState[c] = "InitialRequest"
NoTrouble == \A c \in Calls : Untroubled(c)

\* One call moves.
LEMMA UntroubledKeeps ==
  ASSUME NoTrouble, ServesOn, NEW c \in Calls,
         \A d \in Calls : d # c =>
           /\ pc'[d] = pc[d] /\ m_eState'[d] = m_eState[d] /\ header'[d] = header[d]
           /\ status'[d] = status[d] /\ notified'[d] = notified[d],
         Untroubled(c)'
  PROVE  NoTrouble'
  <1>1. ASSUME NEW d \in Calls, d # c
        PROVE  Untroubled(d)'
    BY <1>1 DEF NoTrouble, Untroubled, ServesOn
  <1> QED BY <1>1 DEF NoTrouble

CallTypes ==
  /\ pc \in [Calls -> Places]
  /\ m_eState \in [Calls -> {"InitialRequest", "RetryOnce", "Finish"}]
  /\ notified \in [Calls -> Seq({"onSucceeded", "onFailed"})]
  /\ status \in [Calls -> {"none", "200", "401", "other"}]
  /\ header \in [Calls -> Nat]
  /\ m_bstrAccessToken \in [Calls -> Nat]
  /\ expired \in Nat

LEMMA KnownTypes ==
  ASSUME Alive
  PROVE  CallTypes
  BY MaxExpiredAssumption DEF Alive, MFCInv, CallInv, StageInv, DataOK, CallTypes

\* A call that is called back, or retries at once, with a newer token.
LEMMA ContinueUntroubled ==
  ASSUME CallTypes, NoTrouble, ServesOn, Served' > 1, NEW c \in Calls, Continue(c)
  PROVE  NoTrouble'
  <1>1. /\ pc'[c] = "loading" /\ m_eState'[c] = "RetryOnce" /\ notified'[c] = notified[c]
        /\ \A d \in Calls : d # c =>
             /\ pc'[d] = pc[d] /\ m_eState'[d] = m_eState[d] /\ header'[d] = header[d]
             /\ status'[d] = status[d] /\ notified'[d] = notified[d]
    BY DEF Continue, Goto, CallTypes
  <1>2. Untroubled(c)'
    BY <1>1 DEF Untroubled, Sending
  <1> QED BY <1>1, <1>2, UntroubledKeeps

\* A call that only moves, to a place where nothing is asked of it.
LEMMA MovedUntroubled ==
  ASSUME CallTypes, NoTrouble, ServesOn, NEW c \in Calls,
         NEW p \in Places \ ({"authorizing"} \cup Sending), Goto(c, p),
         UNCHANGED <<m_eState, header, status, notified>>
  PROVE  NoTrouble'
  <1>1. pc'[c] = p /\ \A d \in Calls : d # c => pc'[d] = pc[d]
    BY DEF Goto, CallTypes
  <1>2. Untroubled(c)'
    BY <1>1 DEF NoTrouble, Untroubled, Sending, ServesOn
  <1> QED BY <1>1, <1>2, UntroubledKeeps

LEMMA OnLoadingUntroubled ==
  ASSUME Alive, Faults = {}, NoTrouble, ServesOn, NEW c \in Calls, OnLoading(c)
  PROVE  NoTrouble'
  <1>1. /\ AuthorizeRequest(c) /\ Goto(c, "authorizing")
        /\ header' = [header EXCEPT ![c] = m_strAccessToken']
        /\ UNCHANGED <<m_eState, status, notified>>
    BY BindingSucceeds DEF OnLoading
  <1>2. Served' = m_strAccessToken'
    BY <1>1 DEF AuthorizeRequest, GetTokenServer, Served, Running
  <1>3. /\ pc'[c] = "authorizing" /\ header'[c] = Served'
        /\ \A d \in Calls : d # c => pc'[d] = pc[d] /\ header'[d] = header[d]
    BY <1>1, <1>2, KnownTypes DEF CallTypes, Goto
  <1>4. Untroubled(c)'
    BY <1>1, <1>3 DEF NoTrouble, Untroubled, ServesOn
  <1> QED BY <1>1, <1>3, <1>4, UntroubledKeeps

LEMMA AuthorizedUntroubled ==
  ASSUME Alive, NoTrouble, ServesOn, NEW c \in Calls, Authorized(c)
  PROVE  NoTrouble'
  <1>1. pc[c] = "authorizing" /\ Goto(c, "opened")
        /\ UNCHANGED <<m_eState, header, status, notified>>
    BY ReturnsToken DEF Authorized, requestVars
  <1>2. pc'[c] = "opened" /\ \A d \in Calls : d # c => pc'[d] = pc[d]
    BY <1>1, KnownTypes DEF CallTypes, Goto
  <1>3. Untroubled(c)'
    BY <1>1, <1>2 DEF NoTrouble, Untroubled, Sending, ServesOn
  <1> QED BY <1>1, <1>2, <1>3, UntroubledKeeps

LEMMA SendUntroubled ==
  ASSUME Alive, NoTrouble, ServesOn, Faults = {}, NEW c \in Calls, Send(c)
  PROVE  NoTrouble'
  <1>1. /\ pc[c] = "opened" /\ Goto(c, "sent")
        /\ UNCHANGED <<m_eState, header, status, notified>>
    BY DEF Send
  <1>2. pc'[c] = "sent" /\ \A d \in Calls : d # c => pc'[d] = pc[d]
    BY <1>1, KnownTypes DEF CallTypes, Goto
  <1>3. Untroubled(c)'
    BY <1>1, <1>2 DEF NoTrouble, Untroubled, Sending, ServesOn
  <1> QED BY <1>1, <1>2, <1>3, UntroubledKeeps

LEMMA ServiceAnswersUntroubled ==
  ASSUME Alive, GrantedInv, NoTrouble, ServesOn, Faults = {}, expired <= 1,
         NEW c \in Calls, ServiceAnswers(c)
  PROVE  NoTrouble'
  <1>1. /\ pc[c] = "sent" /\ Goto(c, "answered")
        /\ status' = [status EXCEPT ![c] = IF Accepts(header[c]) THEN "200" ELSE "401"]
        /\ UNCHANGED <<m_eState, header, notified>>
    BY DEF ServiceAnswers
  <1>2. /\ pc'[c] = "answered"
        /\ status'[c] = IF Accepts(header[c]) THEN "200" ELSE "401"
        /\ \A d \in Calls : d # c => pc'[d] = pc[d] /\ status'[d] = status[d]
    BY <1>1, KnownTypes DEF CallTypes, Goto
  <1>3. m_eState[c] = "InitialRequest" \/ Accepts(header[c])
    <2>1. m_eState[c] \in {"InitialRequest", "RetryOnce"}
      BY <1>1 DEF Alive, MFCInv, StageInv, Stage, Underway
    <2>2. m_eState[c] = "RetryOnce" => header[c] > 1
      BY <1>1 DEF NoTrouble, Untroubled, Sending
    <2>3. header[c] \in Nat /\ expired \in Nat
      BY KnownTypes DEF CallTypes
    <2> QED BY <2>1, <2>2, <2>3 DEF Accepts, GrantedInv
  <1>4. Untroubled(c)'
    BY <1>1, <1>2, <1>3 DEF NoTrouble, Untroubled, Sending, ServesOn
  <1> QED BY <1>1, <1>2, <1>4, UntroubledKeeps

\* The COMPLETE handler: a good answer, or the first 401.
LEMMA OnCompleteUntroubled ==
  ASSUME Alive, Faults = {}, RecallInv, NoTrouble, ServesOn, NEW c \in Calls, OnComplete(c)
  PROVE  NoTrouble'
  <1>1. pc[c] = "answered" /\ CallTypes
    BY KnownTypes DEF OnComplete
  <1>2. CASE OnFinish(c)
    <2>1. status[c] = "200"
      BY <1>1, <1>2, BindingSucceeds DEF OnFinish, NoTrouble, Untroubled
    <2>2. notified[c] = << >>
      BY <1>1 DEF Alive, MFCInv, StageInv, Stage, Underway
    <2>3. /\ pc'[c] = "ended" /\ m_eState'[c] = "Finish"
          /\ notified'[c] = Append(notified[c], "onSucceeded")
          /\ UNCHANGED <<header, status>>
          /\ \A d \in Calls : d # c => /\ pc'[d] = pc[d] /\ m_eState'[d] = m_eState[d]
                                       /\ notified'[d] = notified[d]
      BY <1>1, <1>2, <2>1 DEF OnFinish, Goto, CallTypes
    <2>4. notified'[c] = <<"onSucceeded">>
      BY <2>2, <2>3
    <2>5. Untroubled(c)'
      BY <2>3, <2>4 DEF Untroubled, Sending
    <2> QED BY <2>3, <2>5, UntroubledKeeps
  <1>3. CASE OnRejected(c) /\ m_strAccessToken' = m_bstrAccessToken[c]
    <2>1. Goto(c, "rejected") /\ UNCHANGED <<m_eState, header, status, notified>>
      BY <1>3 DEF OnRejected, requestVars
    <2> QED BY <1>1, <2>1, MovedUntroubled DEF Places, Sending
  <1>4. CASE OnRejected(c) /\ m_strAccessToken' # m_bstrAccessToken[c]
    <2>1. /\ Continue(c) /\ m_eState[c] = "InitialRequest"
          /\ extConn' = extConn \cup {<<c, "complete">>}
      BY <1>4 DEF OnRejected, CanRetryImmediately, GetTokenServer
    <2>2. Served' = m_strAccessToken'
      BY <2>1 DEF Served, Running
    <2>3. /\ m_bstrAccessToken[c] <= Served /\ m_bstrAccessToken[c] # 0
          /\ m_bstrAccessToken[c] \in Nat
      BY <1>1, <2>1 DEF RecallInv, Sending, NoToken, CallTypes
    <2>4. Served' > 1
      BY <1>4, <2>2, <2>3 DEF ServesOn
    <2> QED BY <1>1, <2>1, <2>4, ContinueUntroubled
  <1> QED BY <1>2, <1>3, <1>4 DEF OnComplete

\* The renew, and the loop of UnLockFromRenew: whoever is called back continues.
LEMMA RenewUntroubled ==
  ASSUME Alive, LiveInv', GrantedInv, NoTrouble, ServesOn, Faults = {}, NEW c \in Calls,
         InitRequest(c) \/ RenewInit(c) \/ RenewSend(c) \/ RenewComplete(c) \/ Drain(c)
           \/ RenewReturn(c)
  PROVE  NoTrouble'
  <1>1. CallTypes /\ MFCInv /\ NoneDead
    BY KnownTypes, AliveCalls DEF Alive
  <1>2. CASE InitRequest(c)
    <2>1. Goto(c, "loading") /\ UNCHANGED <<m_eState, header, status, notified>>
      BY <1>2 DEF InitRequest, requestVars
    <2> QED BY <1>1, <2>1, MovedUntroubled DEF Places, Sending
  <1>3. CASE RenewInit(c)
    <2>1. PICK p \in {"locked", "queued"} : Goto(c, p)
      BY <1>3 DEF RenewInit
    <2>2. UNCHANGED <<m_eState, header, status, notified>>
      BY <1>3 DEF RenewInit, requestVars
    <2> QED BY <1>1, <2>1, <2>2, MovedUntroubled DEF Places, Sending
  <1>4. CASE RenewSend(c)
    <2>1. Goto(c, "renewing") /\ UNCHANGED <<m_eState, header, status, notified>>
      BY <1>4 DEF RenewSend, requestVars
    <2> QED BY <1>1, <2>1, MovedUntroubled DEF Places, Sending
  <1>5. CASE RenewComplete(c)
    <2>1. Goto(c, "unlocking") /\ UNCHANGED <<m_eState, header, status, notified>>
      BY <1>5, RenewCompleteGranted
    <2> QED BY <1>1, <2>1, MovedUntroubled DEF Places, Sending
  <1>6. CASE Drain(c) \/ RenewReturn(c)
    <2>1. Draining(c)
      BY <1>6 DEF Drain, RenewReturn, UnLockReturn
    <2>2. /\ stack # << >> /\ Head(stack).method = "UnLockFromRenew"
          /\ pc[c] = "unlocking"
      BY <1>1, <2>1, DrainerRenews DEF MFCInv, NoneDead
    <2>3. 1 \in 1..Len(stack) /\ stack[1] = Head(stack)
      BY <1>1, <2>2, Pop DEF MFCInv, CallInv, TFInv, TFTypeOK
    <2>4. Head(stack).succeeded /\ Served > 1
      BY <2>2, <2>3 DEF GrantedInv
    <2>5. Served' > 1
      BY <2>4 DEF ServesOn
    <2>6. PICK d \in Calls : Continue(d)
      BY <1>1, <1>6, <2>2, <2>4, CalledBack DEF RenewReturn
    <2> QED BY <1>1, <2>5, <2>6, ContinueUntroubled
  <1> QED BY <1>2, <1>3, <1>4, <1>5, <1>6

LEMMA CollectUntroubled ==
  ASSUME Alive, NoTrouble, ServesOn, OnTimer, ~Die
  PROVE  NoTrouble'
  <1>1. PICK c \in Calls : Goto(c, "collected")
    BY Collects DEF Alive
  <1>2. UNCHANGED <<m_eState, header, status, notified>>
    BY Collects DEF Alive, requestVars
  <1> QED BY <1>1, <1>2, KnownTypes, MovedUntroubled DEF Places, Sending
LEMMA NextGranted ==
  ASSUME Alive, MFCInv', LiveInv', ~Ended', Faults = {}, GrantedInv, [Next]_vars
  PROVE  GrantedInv'
  <1>1. ServesOn /\ Calm
    BY NextServes DEF Calm
  <1>2. ~Die /\ ~Revoke
    BY DEF Die, Ended, Revoke, RevokeConsent
  <1>3. CASE UNCHANGED <<stack, m_spLockForRenew, revoked, issued>>
    BY <1>1, <1>3, GrantedKeeps DEF SamePost
  <1>4. ASSUME NEW c \in Calls, OnBnClickedRunping(c) \/ Step(c)
        PROVE  GrantedInv'
    <2>1. CASE InitRequest(c) \/ Send(c) \/ ServiceAnswers(c)
      <3>1. UNCHANGED <<stack, m_spLockForRenew, revoked, issued>>
        BY <2>1 DEF InitRequest, Send, ServiceAnswers, serviceVars, tfVars
      <3> QED BY <1>3, <3>1
    <2>2. CASE RenewComplete(c)
      BY <2>2, RenewCompleteGranted
    <2>3. CASE OnLoading(c) \/ Authorized(c) \/ OnComplete(c) \/ RenewInit(c) \/ RenewSend(c)
                 \/ Drain(c) \/ RenewReturn(c) \/ DropServer(c)
      BY <1>1, <2>3, CallsGranted
    <2> QED BY <1>4, <2>1, <2>2, <2>3 DEF OnBnClickedRunping, Step, SendRequest
  <1>5. CASE OnTimer
    BY <1>1, <1>2, <1>5, CollectGranted
  <1>6. CASE TokenEndpoint
    BY <1>1, <1>6, TokenEndpointGranted
  <1>7. OnSysCommand \/ Expire \/ Terminating \/ UNCHANGED vars
          => UNCHANGED <<stack, m_spLockForRenew, revoked, issued>>
    BY DEF OnSysCommand, Expire, ExpireToken, Terminating, vars, tfVars, serviceVars
  <1> QED BY <1>2, <1>3, <1>4, <1>5, <1>6, <1>7 DEF Next, OnCancel, InitThrows, Crash

\* The access tokens that have expired stay so.
LEMMA NextExpired ==
  ASSUME Next \/ UNCHANGED vars, expired \in Nat
  PROVE  expired' \in Nat /\ expired' >= expired
  <1>1. CASE Expire
    BY <1>1 DEF Expire, ExpireToken
  <1>2. ASSUME NEW c \in Calls, OnBnClickedRunping(c) \/ Step(c)
        PROVE  UNCHANGED expired
    BY <1>2 DEF OnBnClickedRunping, InitRequest, Step, SendRequest, OnLoading, Authorized, Send,
       OnComplete, RenewInit, RenewSend, RenewComplete, Drain, RenewReturn, DropServer,
       ServiceAnswers, serviceVars
  <1>3. OnTimer \/ Die \/ OnSysCommand \/ TokenEndpoint \/ Revoke \/ Terminating
          \/ UNCHANGED vars => UNCHANGED expired
    BY DEF OnTimer, Dispose, Die, OnSysCommand, TokenEndpoint, Exchange, Revoke,
       RevokeConsent, Terminating, vars, serviceVars
  <1> QED BY <1>1, <1>2, <1>3 DEF Next, OnCancel, InitThrows, Crash

LEMMA NextUntroubled ==
  ASSUME Alive, MFCInv', LiveInv', ~Ended', Faults = {}, RecallInv, GrantedInv, NoTrouble,
         expired <= 1, [Next]_vars
  PROVE  NoTrouble'
  <1>1. ServesOn /\ Calm
    BY NextServes DEF Calm
  <1>2. ~Die
    BY DEF Die, Ended
  <1>3. CASE UNCHANGED callVars
    BY <1>1, <1>3 DEF NoTrouble, Untroubled, ServesOn, callVars, requestVars
  <1>4. ASSUME NEW c \in Calls, OnBnClickedRunping(c) \/ Step(c)
        PROVE  NoTrouble'
    <2>1. CASE OnLoading(c) \/ Authorized(c) \/ OnComplete(c)
      BY <1>1, <2>1, OnLoadingUntroubled, AuthorizedUntroubled, OnCompleteUntroubled
    <2>2. CASE Send(c) \/ ServiceAnswers(c)
      BY <1>1, <2>2, SendUntroubled, ServiceAnswersUntroubled
    <2>3. CASE InitRequest(c) \/ RenewInit(c) \/ RenewSend(c) \/ RenewComplete(c) \/ Drain(c)
                 \/ RenewReturn(c)
      BY <1>1, <2>3, RenewUntroubled
    <2>4. CASE DropServer(c)
      BY <1>3, <2>4 DEF DropServer
    <2> QED BY <1>4, <2>1, <2>2, <2>3, <2>4 DEF OnBnClickedRunping, Step, SendRequest
  <1>5. CASE OnTimer
    BY <1>1, <1>2, <1>5, CollectUntroubled
  <1>6. TokenEndpoint \/ OnSysCommand \/ Expire \/ Revoke \/ Terminating \/ UNCHANGED vars
          => UNCHANGED callVars
    BY DEF TokenEndpoint, OnSysCommand, Expire, Revoke, Terminating, vars
  <1> QED BY <1>2, <1>3, <1>4, <1>5, <1>6 DEF Next, OnCancel, InitThrows, Crash

\* A process that is gone leaves its calls as they were.
SmoothInv ==
  /\ TransparentRenew
  /\ ~Ended => RecallInv /\ GrantedInv /\ (expired <= 1 => NoTrouble)

LEMMA NoTroubleTransparent ==
  ASSUME expired <= 1 => NoTrouble
  PROVE  TransparentRenew
  BY DEF NoTrouble, Untroubled, TransparentRenew

LEMMA NextSmooth ==
  ASSUME Known, UnspentInv, MFCInv', Faults = {}, SmoothInv, [Next]_vars
  PROVE  SmoothInv'
  <1>1. Calm
    BY DEF Calm
  <1>2. UnspentInv' /\ MFCInv /\ DataOK
    BY <1>1, NextUnspent DEF Known
  <1>3. expired \in Nat /\ expired' \in Nat /\ expired' >= expired
    BY <1>2, MaxExpiredAssumption, NextExpired DEF DataOK
  <1>4. CASE ~Ended'
    <2>1. ~Ended
      <3>1. Ended => Gone
        BY DEF UnspentInv, Gone
      <3>2. Ended => UNCHANGED dialog
        BY <1>2, <3>1, NextGone DEF UnspentInv
      <3> QED BY <1>4, <3>2 DEF Ended
    <2>2. Alive /\ LiveInv'
      BY <1>2, <1>4, <2>1 DEF Alive, UnspentInv
    <2>3. RecallInv'
      BY <1>1, <1>4, <2>1, <2>2, NextRecall DEF SmoothInv
    <2>4. GrantedInv'
      BY <1>4, <2>1, <2>2, NextGranted DEF SmoothInv
    <2>5. expired <= 1 => NoTrouble'
      BY <1>4, <2>1, <2>2, NextUntroubled DEF SmoothInv
    <2>6. expired' <= 1 => NoTrouble'
      BY <1>3, <2>5
    <2>7. TransparentRenew'
      BY <2>6 DEF NoTrouble, Untroubled, TransparentRenew
    <2> QED BY <2>3, <2>4, <2>6, <2>7 DEF SmoothInv
  <1>5. CASE Ended'
    <2>1. UNCHANGED <<m_eState, notified>>
      <3>1. CASE Ended
        <4>1. Gone
          BY <3>1 DEF UnspentInv, Gone
        <4> QED BY <1>2, <4>1, NextGone DEF UnspentInv, callVars, requestVars
      <3>2. CASE ~Ended
        BY <1>2, <1>5, <3>2, NextEnds DEF Die, requestVars
      <3> QED BY <3>1, <3>2
    <2>2. TransparentRenew'
      BY <1>3, <2>1 DEF SmoothInv, TransparentRenew
    <2> QED BY <1>5, <2>2 DEF SmoothInv
  <1> QED BY <1>4, <1>5

LEMMA InitSmooth ==
  ASSUME Init
  PROVE  SmoothInv
  <1>1. /\ ~revoked /\ m_spLockForRenew = NULL /\ stack = << >>
        /\ \A c \in Calls : pc[c] = "new" /\ m_eState[c] = "InitialRequest"
    BY DEF Init, TFInit, ServiceInit, CallInit
  <1>2. RecallInv
    BY InitRecall
  <1>3. GrantedInv /\ NoTrouble
    BY <1>1 DEF GrantedInv, NoTrouble, Untroubled, Sending
  <1> QED BY <1>2, <1>3, NoTroubleTransparent DEF SmoothInv

\* The renew is transparent: if nothing fails and only the first token has
\* expired, every call that finishes has succeeded (CanRetryImmediately,
\* LockForRenew, Continue).
THEOREM MFCNobodyNotices ==
  ASSUME Generation = Nat \ {0}, Faults = {}
  PROVE  Spec => []TransparentRenew
  <1>1. Calm
    BY DEF Calm
  <1>2. Init => UnspentInv /\ SmoothInv
    BY InitUnspent, InitSmooth
  <1>3. Known /\ MFCInv' /\ (UnspentInv /\ SmoothInv) /\ [Next]_vars
          => (UnspentInv /\ SmoothInv)'
    BY <1>1, NextUnspent, NextSmooth DEF Known
  <1>4. SmoothInv => TransparentRenew
    BY DEF SmoothInv
  <1> QED BY <1>1, <1>2, <1>3, <1>4, KnownInvariance, MFCInvariance, PTL DEF Spec


=============================================================================
