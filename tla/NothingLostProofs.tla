--------------------------- MODULE NothingLostProofs ---------------------------
(***************************************************************************)
(* What any number of calls achieve together: no token is lost, as long as *)
(* the answers of the token endpoint arrive complete, the file can be      *)
(* written and no process ends, so that who retries at once has a newer    *)
(* one; no deferred call is lost, as long as the answers can be read, the  *)
(* POST can be sent and no process ends; and if nothing fails at all, no   *)
(* call notices that the first token has expired.                          *)
(***************************************************************************)
EXTENDS CallContractProofs

-----------------------------------------------------------------------------
(* Tokens *)

Calm == Faults \cap {"lost", "garbled", "save", "init", "crash", "dies"} = {}

\* The latest pair is in the file and in the running server, but for the time
\* between the answer to a POST and UnLockFromRenew, when it is in that answer.
Latest == [access |-> issued, refresh |-> issued]
Fresh ==
  /\ tokenFile = Latest
  /\ Running => m_strAccessToken = issued /\ m_strRefreshToken = issued
Renewing == \E c \in Calls : pc[c] = "renewing"
AnswerPending == m_spLockForRenew # NULL /\ m_spLockForRenew.status = "200" /\ Renewing

UnspentInv ==
  /\ \A c \in Calls : pc[c] # "dead"
  /\ ~AnswerPending => Fresh
  /\ AnswerPending => /\ m_spLockForRenew.pair = Latest
                      /\ m_spLockForRenew.parsed = 3
                      /\ m_strAccessToken <= issued
  /\ m_spLockForRenew # NULL /\ m_spLockForRenew.status \in {"open", "sent"}
       => m_spLockForRenew.body = issued
  /\ m_spLockForRenew # NULL /\ m_spLockForRenew.status = "sent" => Renewing

\* What every step does.
KeepsTokens == UnspentInv' /\ Served' >= Served

\* Whoever renews holds the server.
LEMMA PendingRuns ==
  ASSUME CallInv, AnswerPending
  PROVE  Running
  BY DEF CallInv, RenewLink, AnswerPending, Renewing, Running

LEMMA FreshServes ==
  ASSUME Fresh
  PROVE  Served = issued
  BY DEF Fresh, Latest, Served

\* A running server whose members stay the same.
LEMMA FreshKeeps ==
  ASSUME CallInv, Fresh, UNCHANGED <<issued, tokenFile, memory>>,
         Running \/ UNCHANGED extConn
  PROVE  Fresh' /\ Served' >= Served
  <1>1. issued \in Nat
    BY DEF CallInv
  <1>2. Fresh'
    BY DEF Fresh, Latest, Running, memory
  <1>3. Served = issued
    BY FreshServes
  <1>4. Served' = issued
    BY <1>2 DEF Fresh, Latest, Served
  <1> QED BY <1>1, <1>2, <1>3, <1>4

-----------------------------------------------------------------------------
(* Steps that neither begin nor end a renew *)

SameRenewing == Renewing' <=> Renewing

LEMMA MovedRenewing ==
  ASSUME pc \in [Calls -> Places], NEW c \in Calls, NEW p \in Places \ {"renewing"}, Goto(c, p),
         pc[c] # "renewing"
  PROVE  SameRenewing
  <1>1. pc'[c] = p /\ \A d \in Calls : d # c => pc'[d] = pc[d]
    BY Moved
  <1> QED BY <1>1 DEF SameRenewing, Renewing

\* Nothing of the server but its connections changes, and its tokens with them:
\* it may be activated, or go.
LEMMA UnspentKeeps ==
  ASSUME CallInv, UnspentInv, CallInv', SameRenewing, \A c \in Calls : pc'[c] # "dead",
         UNCHANGED <<issued, tokenFile>>,
         \/ Running /\ UNCHANGED <<memory, m_spLockForRenew>>
         \/ /\ ~Running /\ UNCHANGED m_spLockForRenew
            /\ m_strAccessToken' = tokenFile.access /\ m_strRefreshToken' = tokenFile.refresh
         \/ UNCHANGED <<extConn, memory, m_spLockForRenew>>
         \/ ~Running'
  PROVE  KeepsTokens
  <1>1. issued \in Nat
    BY DEF CallInv
  <1>2. CASE ~Running'
    <2>1. m_spLockForRenew' = NULL
      BY <1>2 DEF CallInv, TFInv, TokensIffRunning
    <2>2. ~Renewing'
      BY <1>2 DEF CallInv, RenewLink, Running, Renewing
    <2>3. ~AnswerPending /\ ~AnswerPending'
      BY <2>1, <2>2 DEF AnswerPending, SameRenewing
    <2>4. Fresh /\ Fresh'
      BY <1>2, <2>3 DEF UnspentInv, Fresh, Latest
    <2>5. UnspentInv'
      BY <2>1, <2>3, <2>4 DEF UnspentInv
    <2>6. Served = issued /\ Served' = issued
      BY <2>4, FreshServes DEF Fresh, Latest, Served
    <2> QED BY <1>1, <2>5, <2>6 DEF KeepsTokens
  <1>3. CASE Running' /\ UNCHANGED m_spLockForRenew
    <2>1. AnswerPending' <=> AnswerPending
      BY <1>3 DEF AnswerPending, SameRenewing
    <2>2. CASE AnswerPending
      <3>1. Running
        BY <2>2, PendingRuns
      <3>2. UNCHANGED m_strAccessToken
        BY <1>3, <3>1 DEF memory
      <3>3. UnspentInv'
        BY <1>3, <2>1, <2>2, <3>2 DEF UnspentInv, Latest, SameRenewing
      <3>4. Served = m_strAccessToken /\ Served' = m_strAccessToken
        BY <1>3, <3>1, <3>2 DEF Served
      <3>5. m_strAccessToken \in Nat
        BY GenerationAssumption DEF CallInv, TFInv, TFTypeOK, NoToken
      <3> QED BY <3>3, <3>4, <3>5 DEF KeepsTokens
    <2>3. CASE ~AnswerPending
      <3>1. Fresh
        BY <2>3 DEF UnspentInv
      <3>2. tokenFile.access = issued /\ tokenFile.refresh = issued
        BY <3>1 DEF Fresh, Latest
      <3>3. m_strAccessToken' = issued /\ m_strRefreshToken' = issued
        BY <1>3, <3>1, <3>2 DEF Fresh, Running, memory
      <3>4. Fresh'
        BY <3>1, <3>3 DEF Fresh, Latest
      <3>5. UnspentInv'
        BY <1>3, <2>1, <2>3, <3>4 DEF UnspentInv, SameRenewing
      <3>6. Served = issued /\ Served' = issued
        BY <1>3, <3>1, <3>3, FreshServes DEF Served
      <3> QED BY <1>1, <3>5, <3>6 DEF KeepsTokens
    <2> QED BY <2>2, <2>3
  <1> QED BY <1>2, <1>3

\* Binding, and releasing, a pointer.
LEMMA BindUnspent ==
  ASSUME CallInv, UnspentInv, CallInv', SameRenewing, \A c \in Calls : pc'[c] # "dead",
         UNCHANGED <<issued, tokenFile, m_spLockForRenew>>, NEW c \in Calls, NEW role,
         GetTokenServer(c, role)
  PROVE  KeepsTokens
  <1>1. \/ Running /\ UNCHANGED memory
        \/ /\ ~Running
           /\ m_strAccessToken' = tokenFile.access /\ m_strRefreshToken' = tokenFile.refresh
    BY DEF GetTokenServer, Load
  <1> QED BY <1>1, UnspentKeeps

LEMMA ReleaseUnspent ==
  ASSUME CallInv, UnspentInv, CallInv', SameRenewing, \A c \in Calls : pc'[c] # "dead",
         UNCHANGED <<issued, tokenFile>>, NEW c \in Calls, NEW role,
         ReleaseConnection(c, role), <<c, role>> \in extConn
  PROVE  KeepsTokens
  <1>1. \/ ~Running'
        \/ Running /\ UNCHANGED <<memory, m_spLockForRenew>>
    BY DEF ReleaseConnection, Running
  <1> QED BY <1>1, UnspentKeeps

-----------------------------------------------------------------------------
(* The steps *)

\* One call moves, not into or out of a renew, and the server stays as it is.
LEMMA AsideUnspent ==
  ASSUME CallInv, UnspentInv, CallInv', NEW c \in Calls, NEW p \in Places \ {"renewing", "dead"},
         Goto(c, p), pc[c] # "renewing", UNCHANGED <<tfVars, issued>>
  PROVE  KeepsTokens
  <1>1. SameRenewing /\ \A d \in Calls : pc'[d] # "dead"
    BY Moved, MovedRenewing DEF CallInv, UnspentInv
  <1> QED BY <1>1, UnspentKeeps DEF tfVars

LEMMA OnLoadingUnspent ==
  ASSUME CallInv, UnspentInv, CallInv', NEW c \in Calls, OnLoading(c)
  PROVE  KeepsTokens
  <1>1. UNCHANGED issued /\ pc[c] = "loading"
    BY DEF OnLoading, serviceVars
  <1>2. CASE UNCHANGED tfVars /\ Goto(c, "opened")
    BY <1>1, <1>2, AsideUnspent DEF Places
  <1>3. CASE AuthorizeRequest(c) /\ Goto(c, "authorizing")
    <2>1. GetTokenServer(c, "loading") /\ UNCHANGED <<tokenFile, m_spLockForRenew>>
      BY <1>3 DEF AuthorizeRequest
    <2>2. SameRenewing /\ \A d \in Calls : pc'[d] # "dead"
      BY <1>1, <1>3, Moved, MovedRenewing DEF CallInv, UnspentInv, Places
    <2> QED BY <1>1, <2>1, <2>2, BindUnspent
  <1> QED BY <1>2, <1>3 DEF OnLoading

LEMMA AuthorizedUnspent ==
  ASSUME CallInv, UnspentInv, CallInv', NEW c \in Calls, Authorized(c)
  PROVE  KeepsTokens
  <1>1. /\ UNCHANGED <<issued, tokenFile>>
        /\ ReleaseConnection(c, "loading")
        /\ stack # << >> /\ Head(stack).method = "AuthorizeRequest" /\ Head(stack).caller = c
    BY DEF Authorized, AuthorizeRequestReturn, serviceVars
  <1>2. <<c, "loading">> \in extConn
    <2>1. 1 \in 1..Len(stack) /\ stack[1] = Head(stack)
      BY <1>1 DEF CallInv, TFInv, TFTypeOK
    <2> QED BY <1>1, <2>1 DEF CallInv, TFInv, ActivationsConnected
  <1>3. SameRenewing /\ \A d \in Calls : pc'[d] # "dead"
    <2>1. CASE pc[c] = "authorizing"
      <3>1. Goto(c, "opened")
        BY <2>1 DEF Authorized
      <3> QED BY <2>1, <3>1, Moved, MovedRenewing DEF CallInv, UnspentInv, Places
    <2>2. CASE pc[c] # "authorizing"
      BY <2>2 DEF Authorized, UnspentInv, SameRenewing, Renewing
    <2> QED BY <2>1, <2>2
  <1> QED BY <1>1, <1>2, <1>3, ReleaseUnspent

LEMMA OnCompleteUnspent ==
  ASSUME CallInv, UnspentInv, CallInv', NEW c \in Calls, OnComplete(c)
  PROVE  KeepsTokens
  <1>1. UNCHANGED issued /\ pc[c] = "answered"
    BY DEF OnComplete, serviceVars
  <1>2. CASE OnFinish(c)
    BY <1>1, <1>2, AsideUnspent DEF OnFinish, Places
  <1>3. CASE OnRejected(c)
    <2>1. GetTokenServer(c, "complete") /\ UNCHANGED <<tokenFile, m_spLockForRenew>>
      BY <1>3 DEF OnRejected, CanRetryImmediately
    <2>2. PICK p \in {"rejected", "loading"} : Goto(c, p)
      BY <1>3 DEF OnRejected, Continue
    <2>3. SameRenewing /\ \A d \in Calls : pc'[d] # "dead"
      BY <1>1, <2>2, Moved, MovedRenewing DEF CallInv, UnspentInv, Places
    <2> QED BY <1>1, <2>1, <2>3, BindUnspent
  <1> QED BY <1>2, <1>3 DEF OnComplete

LEMMA QuietUnspent ==
  ASSUME CallInv, UnspentInv, CallInv', NEW c \in Calls,
         InitRequest(c) \/ Send(c) \/ Refused(c) \/ ServiceAnswers(c)
  PROVE  KeepsTokens
  <1>1. UNCHANGED <<tfVars, issued>> /\ pc[c] \in {"new", "opened", "refused", "sent"}
    BY DEF InitRequest, Send, Refused, ServiceAnswers, serviceVars
  <1>2. PICK p \in {"loading", "sent", "done", "answered"} : Goto(c, p)
    BY DEF InitRequest, Send, Refused, Terminate, ServiceAnswers
  <1> QED BY <1>1, <1>2, AsideUnspent DEF Places

\* The POST is made from the latest refresh token: the caller holds the server,
\* and no answer is pending.
LEMMA RenewInitUnspent ==
  ASSUME CallInv, UnspentInv, CallInv', NEW c \in Calls, RenewInit(c)
  PROVE  KeepsTokens
  <1>1. /\ UNCHANGED <<issued, tokenFile, memory>>
        /\ pc[c] = "rejected"
        /\ Running
        /\ extConn \subseteq extConn'
    BY DEF RenewInit, LockForRenew, LockForRenewThrows, serviceVars, CallInv,
           RejectedLink, Running
  <1>2. SameRenewing /\ \A d \in Calls : pc'[d] # "dead"
    <2>1. PICK p \in {"locked", "queued", "done"} : Goto(c, p)
      BY DEF RenewInit, Terminate
    <2> QED BY <1>1, <2>1, Moved, MovedRenewing DEF CallInv, UnspentInv, Places
  <1>3. CASE UNCHANGED m_spLockForRenew
    BY <1>1, <1>2, <1>3, UnspentKeeps
  <1>4. CASE m_spLockForRenew = NULL /\ \E sink : m_spLockForRenew' = NewRequest(sink)
    <2>1. ~AnswerPending /\ Fresh /\ m_strRefreshToken = issued
      BY <1>1, <1>4 DEF UnspentInv, AnswerPending, Fresh
    <2>2. m_spLockForRenew'.status = "open" /\ m_spLockForRenew'.body = issued
      BY <1>4, <2>1 DEF NewRequest
    <2>3. ~AnswerPending'
      BY <2>2 DEF AnswerPending
    <2>4. Fresh' /\ Served' >= Served
      BY <1>1, <2>1, FreshKeeps
    <2>5. UnspentInv'
      BY <1>1, <1>2, <2>2, <2>3, <2>4 DEF UnspentInv
    <2> QED BY <2>4, <2>5 DEF KeepsTokens
  <1> QED BY <1>3, <1>4 DEF RenewInit, LockForRenew, LockForRenewThrows

LEMMA RenewSendUnspent ==
  ASSUME CallInv, UnspentInv, CallInv', NEW c \in Calls, RenewSend(c)
  PROVE  KeepsTokens
  <1>1. UNCHANGED issued /\ pc[c] = "locked" /\ pc \in [Calls -> Places]
    BY DEF RenewSend, serviceVars, CallInv
  <1>2. CASE Terminate(c) /\ UNCHANGED tfVars
    <2>1. Goto(c, "done")
      BY <1>2 DEF Terminate
    <2> QED BY <1>1, <1>2, <2>1, AsideUnspent DEF Places
  <1>3. CASE SendRenew /\ Goto(c, "renewing")
    <2>1. /\ UNCHANGED <<tokenFile, memory, extConn>>
          /\ m_spLockForRenew' = [m_spLockForRenew EXCEPT !.status = "sent"]
      BY <1>3 DEF SendRenew
    <2>2. /\ m_spLockForRenew # NULL
          /\ m_spLockForRenew \in Request
          /\ m_spLockForRenew.status = "open"
      BY <1>1 DEF CallInv, TFInv, TFTypeOK, RenewLink, Renewer
    <2>3. m_spLockForRenew'.status = "sent" /\ m_spLockForRenew'.body = m_spLockForRenew.body
      BY <2>1, <2>2 DEF Request
    <2>4. m_spLockForRenew.body = issued /\ Fresh
      BY <2>2 DEF UnspentInv, AnswerPending
    <2>5. ~AnswerPending'
      BY <2>3 DEF AnswerPending
    <2>6. pc'[c] = "renewing" /\ \A d \in Calls : d # c => pc'[d] = pc[d]
      BY <1>1, <1>3, Moved DEF Places
    <2>7. Renewing' /\ \A d \in Calls : pc'[d] # "dead"
      BY <2>6 DEF Renewing, UnspentInv
    <2>8. Fresh' /\ Served' >= Served
      BY <1>1, <2>1, <2>4, FreshKeeps
    <2>9. UnspentInv'
      BY <1>1, <2>3, <2>4, <2>5, <2>7, <2>8 DEF UnspentInv
    <2> QED BY <2>8, <2>9 DEF KeepsTokens
  <1> QED BY <1>2, <1>3 DEF RenewSend

\* Whoever renews takes the pending answer to memory and file.
LEMMA RenewCompleteUnspent ==
  ASSUME CallInv, UnspentInv, CallInv', Calm, NEW c \in Calls, RenewComplete(c)
  PROVE  KeepsTokens
  <1>1. /\ UNCHANGED issued
        /\ UnLockFromRenew(c)
        /\ m_spLockForRenew.status \in Answered
        /\ pc[c] = "renewing"
        /\ pc \in [Calls -> Places]
        /\ UNCHANGED extConn
    BY DEF RenewComplete, UnLockFromRenew, serviceVars, CallInv
  <1>2. Renewer(c) /\ Renewing
    BY <1>1 DEF CallInv, RenewLink, Renewing
  <1>3. m_spLockForRenew # NULL /\ m_spLockForRenew \in Request
    BY <1>2 DEF Renewer, CallInv, TFInv, TFTypeOK
  <1>4. AnswerPending <=> m_spLockForRenew.status = "200"
    BY <1>2, <1>3 DEF AnswerPending
  <1>5. ~Throws(m_spLockForRenew)
    BY <1>4 DEF Throws, UnspentInv
  <1>6. UNCHANGED m_spLockForRenew /\ Goto(c, "unlocking")
    BY <1>1, <1>5 DEF UnLockFromRenew, RenewComplete
  <1>7. pc'[c] = "unlocking" /\ \A d \in Calls : d # c => pc'[d] = pc[d]
    BY <1>1, <1>6, Moved DEF Places
  <1>8. ~Renewing' /\ \A d \in Calls : pc'[d] # "dead"
    <2>1. ASSUME NEW d \in Calls, pc[d] = "renewing"
          PROVE  d = c
      BY <1>2, <2>1, OneRenewer DEF CallInv, RenewLink
    <2> QED BY <1>7, <2>1 DEF Renewing, UnspentInv
  <1>9. Fresh' /\ Served' >= Served
    <2>1. CASE m_spLockForRenew.status = "200"
      <3>1. /\ m_spLockForRenew.pair.access = issued
            /\ m_spLockForRenew.pair.refresh = issued
            /\ m_spLockForRenew.parsed = 3
        BY <1>4, <2>1 DEF UnspentInv, Latest
      <3>2. UpdateAccessRefreshToken(m_spLockForRenew)
        BY <1>1, <2>1 DEF UnLockFromRenew
      <3>3. m_strAccessToken' = issued /\ m_strRefreshToken' = issued
        BY <3>1, <3>2 DEF UpdateAccessRefreshToken
      <3>4. tokenFile' = [access |-> m_strAccessToken', refresh |-> m_strRefreshToken']
        BY <3>1, <3>2 DEF UpdateAccessRefreshToken, Save, Calm
      <3>5. Fresh'
        BY <1>1, <3>3, <3>4 DEF Fresh, Latest
      <3>6. Served' = issued
        BY <1>1, <3>5 DEF Fresh, Latest, Served
      <3>7. Served = m_strAccessToken /\ m_strAccessToken <= issued
        BY <1>4, <2>1, PendingRuns DEF Served, UnspentInv
      <3>8. m_strAccessToken \in Nat /\ issued \in Nat
        BY GenerationAssumption DEF CallInv, TFInv, TFTypeOK, NoToken
      <3> QED BY <3>5, <3>6, <3>7, <3>8
    <2>2. CASE m_spLockForRenew.status # "200"
      <3>1. UNCHANGED <<tokenFile, memory>>
        BY <1>1, <2>2 DEF UnLockFromRenew
      <3>2. Fresh
        BY <1>4, <2>2 DEF UnspentInv
      <3> QED BY <1>1, <3>1, <3>2, FreshKeeps
    <2> QED BY <2>1, <2>2
  <1>10. m_spLockForRenew.status \notin {"open", "sent"}
    BY <1>1 DEF Answered
  <1>11. UnspentInv'
    BY <1>6, <1>8, <1>9, <1>10 DEF UnspentInv, AnswerPending
  <1> QED BY <1>9, <1>11 DEF KeepsTokens

\* The loop of UnLockFromRenew, and the unlock at its end: nobody renews then.
LEMMA DrainUnspent ==
  ASSUME CallInv, UnspentInv, CallInv', NEW c \in Calls, Drain(c) \/ RenewReturn(c)
  PROVE  KeepsTokens
  <1>1. /\ UNCHANGED <<issued, tokenFile, memory, extConn>>
        /\ Draining(c)
        /\ pc \in [Calls -> Places]
    BY DEF Drain, CallBack, CallBackFault, RenewReturn, UnLockReturn, serviceVars, CallInv
  <1>2. Renewer(c) /\ pc[c] = "unlocking"
    BY <1>1, DrainerRenews DEF UnspentInv
  <1>3. ~Renewing
    <2>1. ASSUME NEW d \in Calls, pc[d] = "renewing"
          PROVE  d = c
      BY <1>2, <2>1, OneRenewer DEF CallInv, RenewLink
    <2> QED BY <1>2, <2>1 DEF Renewing
  <1>4. PICK d \in Calls : pc[d] # "renewing" /\ (Continue(d) \/ Terminate(d))
    <2>1. CASE RenewReturn(c)
      BY <1>2, <2>1 DEF RenewReturn
    <2>2. CASE Drain(c)
      <3> DEFINE callee == Head(m_lstRetryRequest)
      <3>1. m_lstRetryRequest # << >>
        BY <2>2 DEF Drain
      <3>2. callee \in Calls
        BY <3>1, Pop DEF CallInv, TFInv, TFTypeOK
      <3>3. pc[callee] # "dead" /\ pc[callee] # "renewing"
        BY <1>3, <3>2 DEF UnspentInv, Renewing
      <3>4. Continue(callee) \/ Terminate(callee)
        BY <2>2, <3>3 DEF Drain
      <3> QED BY <3>2, <3>3, <3>4
    <2> QED BY <2>1, <2>2
  <1>5. PICK p \in {"loading", "done"} : Goto(d, p)
    BY <1>4 DEF Continue, Terminate
  <1>6. SameRenewing /\ \A e \in Calls : pc'[e] # "dead"
    BY <1>1, <1>4, <1>5, Moved, MovedRenewing DEF UnspentInv, Places
  <1>7. CASE UNCHANGED m_spLockForRenew
    BY <1>1, <1>6, <1>7, UnspentKeeps
  <1>8. CASE m_spLockForRenew' = NULL
    <2>1. Fresh
      BY <1>3 DEF UnspentInv, AnswerPending
    <2>2. Fresh' /\ Served' >= Served
      BY <1>1, <2>1, FreshKeeps
    <2>3. UnspentInv'
      BY <1>6, <1>8, <2>2 DEF UnspentInv, AnswerPending
    <2> QED BY <2>2, <2>3 DEF KeepsTokens
  <1>9. CASE RenewReturn(c)
    BY <1>8, <1>9 DEF RenewReturn, UnLockReturn
  <1>10. CASE Drain(c)
    <2>1. Head(m_lstRetryRequest) \in Calls
      BY <1>10, Pop DEF Drain, CallInv, TFInv, TFTypeOK
    <2>2. CallBack(c)
      BY <1>10, <2>1 DEF Drain, UnspentInv
    <2> QED BY <1>7, <2>2 DEF CallBack
  <1> QED BY <1>9, <1>10

LEMMA DropServerUnspent ==
  ASSUME CallInv, UnspentInv, CallInv', NEW c \in Calls, DropServer(c)
  PROVE  KeepsTokens
  <1>1. UNCHANGED <<issued, pc>>
    BY DEF DropServer, callVars, serviceVars
  <1>2. PICK role : Release(c, role)
    BY DEF DropServer
  <1>3. <<c, role>> \in extConn /\ ReleaseConnection(c, role) /\ UNCHANGED tokenFile
    BY <1>2 DEF Release
  <1>4. SameRenewing /\ \A d \in Calls : pc'[d] # "dead"
    BY <1>1 DEF SameRenewing, Renewing, UnspentInv
  <1> QED BY <1>1, <1>3, <1>4, ReleaseUnspent

\* The token endpoint spends the refresh token, and its answer is not lost.
LEMMA TokenEndpointUnspent ==
  ASSUME CallInv, UnspentInv, CallInv', Calm, TokenEndpoint
  PROVE  KeepsTokens
  <1> DEFINE pair == [access |-> issued + 1, refresh |-> issued + 1]
  <1>1. /\ Exchange
        /\ UNCHANGED pc
        /\ m_spLockForRenew # NULL /\ m_spLockForRenew \in Request
        /\ m_spLockForRenew.status = "sent"
    BY DEF TokenEndpoint, Exchange, callVars, CallInv, TFInv, TFTypeOK
  <1>2. Renewing /\ ~AnswerPending /\ Fresh
    BY <1>1 DEF UnspentInv, AnswerPending
  <1>3. (Renewing' <=> Renewing) /\ \A d \in Calls : pc'[d] # "dead"
    BY <1>1 DEF Renewing, UnspentInv
  <1>4. CASE issued' = issued + 1 /\ RenewAnswered("200", pair, 3)
    <2>1. m_spLockForRenew' =
            [m_spLockForRenew EXCEPT !.status = "200", !.pair = pair, !.parsed = 3]
      BY <1>4 DEF RenewAnswered
    <2>2. /\ m_spLockForRenew'.status = "200"
          /\ m_spLockForRenew'.pair = pair
          /\ m_spLockForRenew'.parsed = 3
      BY <1>1, <2>1 DEF Request
    <2>3. m_spLockForRenew' # NULL
      BY <1>2, <1>3 DEF Renewing, CallInv, RenewLink, Renewer
    <2>4. AnswerPending'
      BY <1>2, <1>3, <2>2, <2>3 DEF AnswerPending
    <2>5. issued \in Nat /\ Running
      BY <1>2 DEF CallInv, RenewLink, Renewing, Running
    <2>6. UNCHANGED <<memory, extConn>> /\ m_strAccessToken = issued
      BY <1>2, <1>4, <2>5 DEF RenewAnswered, Fresh
    <2>7. UnspentInv'
      BY <1>3, <1>4, <2>2, <2>4, <2>5, <2>6 DEF UnspentInv, Latest, memory
    <2>8. Served = issued /\ Served' = issued
      BY <2>5, <2>6 DEF Served, Running, memory
    <2> QED BY <2>5, <2>7, <2>8 DEF KeepsTokens
  <1>5. CASE issued' = issued /\ RenewAnswered("400", NoTokens, 3)
    <2>1. /\ m_spLockForRenew' =
               [m_spLockForRenew EXCEPT !.status = "400", !.pair = NoTokens, !.parsed = 3]
          /\ UNCHANGED <<tokenFile, memory, extConn>>
      BY <1>5 DEF RenewAnswered
    <2>2. m_spLockForRenew'.status = "400"
      BY <1>1, <2>1 DEF Request
    <2>3. Fresh' /\ Served' >= Served
      BY <1>2, <1>5, <2>1, FreshKeeps
    <2>4. UnspentInv'
      BY <1>3, <2>2, <2>3 DEF UnspentInv, AnswerPending
    <2> QED BY <2>3, <2>4 DEF KeepsTokens
  <1>6. \/ issued' = issued + 1 /\ RenewAnswered("200", pair, 3)
        \/ issued' = issued /\ RenewAnswered("400", NoTokens, 3)
    <2>1. "garbled" \notin Faults /\ "lost" \notin Faults
      BY DEF Calm
    <2> QED BY <1>1, <2>1 DEF Exchange
  <1> QED BY <1>4, <1>5, <1>6

-----------------------------------------------------------------------------
LEMMA NextUnspent ==
  ASSUME CallInv, UnspentInv, CallInv', Calm, [Next]_vars
  PROVE  KeepsTokens
  <1>1. ~(\E c \in Calls : Crash(c) \/ InitThrows(c)) /\ ~SurrogateEnds
    BY DEF Crash, InitThrows, SurrogateEnds, SurrogateDies, Calm
  <1>2. ASSUME NEW c \in Calls, InitRequest(c) \/ Step(c)
        PROVE  KeepsTokens
    BY <1>2, OnLoadingUnspent, AuthorizedUnspent, OnCompleteUnspent, QuietUnspent,
       RenewInitUnspent, RenewSendUnspent, RenewCompleteUnspent, DrainUnspent,
       DropServerUnspent DEF Step
  <1>3. CASE TokenEndpoint
    BY <1>3, TokenEndpointUnspent
  <1>4. CASE UNCHANGED <<tfVars, issued, pc>>
    <2>1. SameRenewing /\ \A c \in Calls : pc'[c] # "dead"
      BY <1>4 DEF SameRenewing, Renewing, UnspentInv
    <2> QED BY <1>4, <2>1, UnspentKeeps DEF tfVars
  <1>5. Expire \/ Revoke \/ Terminating \/ UNCHANGED vars => UNCHANGED <<tfVars, issued, pc>>
    BY DEF Expire, ExpireToken, Revoke, RevokeConsent, Terminating, vars, callVars, serviceVars
  <1> QED BY <1>1, <1>2, <1>3, <1>4, <1>5 DEF Next

LEMMA InitUnspent ==
  ASSUME Init
  PROVE  UnspentInv
  BY DEF Init, TFInit, ServiceInit, UnspentInv, AnswerPending, Fresh, Latest, Running

\* No POST carries a refresh token that the service has exchanged already, as
\* long as its answers arrive complete, the file can be written and no process
\* ends, be it by an exception of Init or by another cause (the lock of
\* LockForRenew, UpdateAccessRefreshToken before the unlock).
THEOREM UsedOnce ==
  ASSUME Generation = Nat \ {0}, Calm
  PROVE  Spec => []RefreshTokenUnspent
  <1>1. Init => UnspentInv
    BY InitUnspent
  <1>2. CallInv /\ UnspentInv /\ CallInv' /\ [Next]_vars => UnspentInv'
    BY NextUnspent DEF KeepsTokens
  <1>3. UnspentInv => RefreshTokenUnspent
    BY DEF UnspentInv, RefreshTokenUnspent
  <1> QED BY <1>1, <1>2, <1>3, CallInvariance, PTL DEF Spec

\* The token that clients get never goes back to an older one, not even from
\* one server object to the next, under the same conditions (Save before the
\* unlock, Load).
THEOREM NoRollBack ==
  ASSUME Generation = Nat \ {0}, Calm
  PROVE  Spec => NeverRollsBack
  <1>1. Init => UnspentInv
    BY InitUnspent
  <1>2. CallInv /\ UnspentInv /\ CallInv' /\ [Next]_vars => UnspentInv' /\ [Served' >= Served]_vars
    BY NextUnspent DEF KeepsTokens
  <1> QED BY <1>1, <1>2, CallInvariance, PTL DEF Spec, NeverRollsBack

-----------------------------------------------------------------------------
(* Deferred calls *)

Orderly == Faults \cap {"garbled", "open", "send", "init", "crash", "dies"} = {}

\* As long as the server is locked somebody is about to unlock it, and who
\* waits for that is in the queue.
RenewPlaces == {"locked", "renewing", "unlocking"}
Cared == \E c \in Calls : pc[c] \in RenewPlaces
InQueue(c) == \E i \in 1..Len(m_lstRetryRequest) : m_lstRetryRequest[i] = c

OrderInv ==
  /\ \A c \in Calls : pc[c] # "dead"
  /\ m_spLockForRenew # NULL /\ m_spLockForRenew.status = "200" => m_spLockForRenew.parsed = 3
  /\ m_spLockForRenew # NULL => Cared
  /\ \A c \in Calls : pc[c] = "queued" => InQueue(c)

\* What every step does.
KeepsOrder == OrderInv' /\ (Running /\ ~Running' => m_spLockForRenew = NULL)

\* A server that goes is one that nobody cares for, hence not locked.
LEMMA GoesQuietly ==
  ASSUME CallInv, OrderInv, CallInv', ~Running', Cared' <=> Cared,
         \A c \in Calls : pc'[c] # "dead" /\ (pc'[c] = "queued" => pc[c] = "queued")
  PROVE  KeepsOrder
  <1>1. ~Cared'
    BY DEF CallInv, RenewLink, Running, Cared, RenewPlaces
  <1>2. m_spLockForRenew = NULL
    BY <1>1 DEF OrderInv
  <1>3. m_lstRetryRequest = << >>
    BY <1>2 DEF CallInv, TFInv, QueueOnlyWhileLocked
  <1>4. \A c \in Calls : pc'[c] # "queued"
    BY <1>3 DEF OrderInv, InQueue
  <1>5. m_spLockForRenew' = NULL
    BY DEF CallInv, TFInv, TokensIffRunning
  <1> QED BY <1>2, <1>4, <1>5 DEF KeepsOrder, OrderInv

\* Lock and queue stay, or go with the server; nobody begins or ends a renew,
\* and nobody new waits.
LEMMA OrderKeeps ==
  ASSUME CallInv, OrderInv, CallInv', Cared' <=> Cared,
         \A c \in Calls : pc'[c] # "dead" /\ (pc'[c] = "queued" => pc[c] = "queued"),
         UNCHANGED <<m_spLockForRenew, m_lstRetryRequest>> \/ ~Running'
  PROVE  KeepsOrder
  <1>1. CASE ~Running'
    BY <1>1, GoesQuietly
  <1>2. CASE Running' /\ UNCHANGED <<m_spLockForRenew, m_lstRetryRequest>>
    <2>1. \A c \in Calls : InQueue(c) => InQueue(c)'
      BY <1>2 DEF InQueue
    <2>2. OrderInv'
      BY <1>2, <2>1 DEF OrderInv
    <2> QED BY <1>2, <2>2 DEF KeepsOrder
  <1> QED BY <1>1, <1>2

\* One call moves between places where it neither renews nor waits.
Away == Places \ (RenewPlaces \cup {"queued", "dead"})

LEMMA MovedAway ==
  ASSUME CallInv, OrderInv, NEW c \in Calls, NEW p \in Away, Goto(c, p),
         pc[c] \notin RenewPlaces
  PROVE  /\ Cared' <=> Cared
         /\ \A d \in Calls : pc'[d] # "dead" /\ (pc'[d] = "queued" => pc[d] = "queued")
  <1>1. pc'[c] = p /\ \A d \in Calls : d # c => pc'[d] = pc[d]
    BY Moved DEF CallInv, Away
  <1> QED BY <1>1 DEF Cared, Away, OrderInv

LEMMA CallsOrder ==
  ASSUME CallInv, OrderInv, CallInv', NEW c \in Calls,
         InitRequest(c) \/ OnLoading(c) \/ Authorized(c) \/ Send(c) \/ OnComplete(c)
           \/ Refused(c) \/ ServiceAnswers(c) \/ DropServer(c)
  PROVE  KeepsOrder
  <1>1. UNCHANGED <<m_spLockForRenew, m_lstRetryRequest>> \/ ~Running'
    BY DEF InitRequest, OnLoading, AuthorizeRequest, Authorized, AuthorizeRequestReturn, Send,
           OnComplete, OnFinish, OnRejected, CanRetryImmediately, Refused, ServiceAnswers,
           DropServer, Release, ReleaseConnection, Running, tfVars
  <1>2. CASE UNCHANGED pc
    <2>1. /\ Cared' <=> Cared
          /\ \A d \in Calls : pc'[d] # "dead" /\ (pc'[d] = "queued" => pc[d] = "queued")
      BY <1>2 DEF Cared, OrderInv
    <2> QED BY <1>1, <2>1, OrderKeeps
  <1>3. CASE pc[c] \notin RenewPlaces /\ \E p \in Away : Goto(c, p)
    BY <1>1, <1>3, MovedAway, OrderKeeps
  <1>4. CASE Authorized(c)
    BY <1>2, <1>3, <1>4 DEF Authorized, Away, Places, RenewPlaces
  <1>5. CASE OnComplete(c)
    BY <1>3, <1>5 DEF OnComplete, OnFinish, OnRejected, Continue, Away, Places, RenewPlaces
  <1>6. CASE DropServer(c)
    BY <1>2, <1>6 DEF DropServer, callVars
  <1>7. CASE InitRequest(c) \/ OnLoading(c) \/ Send(c) \/ Refused(c) \/ ServiceAnswers(c)
    BY <1>3, <1>7 DEF InitRequest, OnLoading, Send, Refused, Terminate, ServiceAnswers,
                      Away, Places, RenewPlaces
  <1> QED BY <1>4, <1>5, <1>6, <1>7

\* LockForRenew locks for the caller, or appends it to the queue.
LEMMA RenewInitOrder ==
  ASSUME CallInv, OrderInv, Orderly, NEW c \in Calls, RenewInit(c)
  PROVE  KeepsOrder
  <1>1. /\ LockForRenew(c)
        /\ Goto(c, IF m_spLockForRenew = NULL THEN "locked" ELSE "queued")
        /\ pc[c] = "rejected"
        /\ pc \in [Calls -> Places]
    BY DEF RenewInit, Orderly, CallInv
  <1>2. Running'
    BY <1>1 DEF LockForRenew, CallInv, RejectedLink, Running
  <1>3. m_lstRetryRequest \in Seq(Calls)
    BY DEF CallInv, TFInv, TFTypeOK
  <1>4. CASE m_spLockForRenew = NULL
    <2>1. pc'[c] = "locked" /\ \A d \in Calls : d # c => pc'[d] = pc[d]
      BY <1>1, <1>4, Moved DEF Places
    <2>2. m_spLockForRenew'.status = "open" /\ UNCHANGED m_lstRetryRequest
      BY <1>1, <1>4 DEF LockForRenew, NewRequest
    <2>3. Cared' /\ \A d \in Calls : InQueue(d) => InQueue(d)'
      BY <2>1, <2>2 DEF Cared, RenewPlaces, InQueue
    <2> QED BY <1>2, <2>1, <2>2, <2>3 DEF OrderInv, KeepsOrder
  <1>5. CASE m_spLockForRenew # NULL
    <2>1. pc'[c] = "queued" /\ \A d \in Calls : d # c => pc'[d] = pc[d]
      BY <1>1, <1>5, Moved DEF Places
    <2>2. UNCHANGED m_spLockForRenew /\ m_lstRetryRequest' = Append(m_lstRetryRequest, c)
      BY <1>1, <1>5 DEF LockForRenew
    <2>3. /\ Len(m_lstRetryRequest') = Len(m_lstRetryRequest) + 1
          /\ m_lstRetryRequest'[Len(m_lstRetryRequest) + 1] = c
          /\ \A i \in 1..Len(m_lstRetryRequest) : m_lstRetryRequest'[i] = m_lstRetryRequest[i]
          /\ Len(m_lstRetryRequest) \in Nat
      BY <1>3, <2>2
    <2>4. InQueue(c)' /\ \A d \in Calls : InQueue(d) => InQueue(d)'
      BY <2>3 DEF InQueue
    <2>5. Cared'
      BY <1>1, <1>5, <2>1 DEF OrderInv, Cared, RenewPlaces
    <2> QED BY <1>2, <2>1, <2>2, <2>4, <2>5 DEF OrderInv, KeepsOrder
  <1> QED BY <1>4, <1>5

\* The renew goes on.
LEMMA RenewSendOrder ==
  ASSUME CallInv, OrderInv, Orderly, NEW c \in Calls, RenewSend(c) \/ RenewComplete(c)
  PROVE  KeepsOrder
  <1>1. pc[c] \in RenewPlaces /\ UNCHANGED <<m_lstRetryRequest, extConn>> /\ pc \in [Calls -> Places]
    BY DEF RenewSend, SendRenew, RenewComplete, UnLockFromRenew, RenewPlaces, tfVars, CallInv
  <1>2. m_spLockForRenew # NULL /\ m_spLockForRenew \in Request
    BY <1>1 DEF RenewPlaces, CallInv, RenewLink, Renewer, TFInv, TFTypeOK
  <1>3. PICK p \in {"renewing", "unlocking"} :
          /\ Goto(c, p)
          /\ \/ UNCHANGED m_spLockForRenew
             \/ m_spLockForRenew' = [m_spLockForRenew EXCEPT !.status = "sent"]
    <2>1. ~Throws(m_spLockForRenew)
      BY <1>2 DEF OrderInv, Throws
    <2>2. CASE RenewSend(c)
      BY <2>2 DEF RenewSend, SendRenew, Orderly
    <2>3. CASE RenewComplete(c)
      BY <2>1, <2>3 DEF RenewComplete, UnLockFromRenew
    <2> QED BY <2>2, <2>3
  <1>4. pc'[c] = p /\ \A d \in Calls : d # c => pc'[d] = pc[d]
    BY <1>1, <1>3, Moved DEF Places
  <1>5. UNCHANGED m_spLockForRenew \/ m_spLockForRenew'.status = "sent"
    BY <1>2, <1>3 DEF Request
  <1>6. Cared' /\ \A d \in Calls : InQueue(d) => InQueue(d)'
    BY <1>1, <1>4 DEF Cared, RenewPlaces, InQueue
  <1>7. OrderInv'
    BY <1>2, <1>4, <1>5, <1>6 DEF OrderInv
  <1> QED BY <1>1, <1>7 DEF KeepsOrder, Running

\* The loop calls back the head of the queue, which waits no longer.
LEMMA DrainOrder ==
  ASSUME CallInv, OrderInv, NEW c \in Calls, Drain(c)
  PROVE  KeepsOrder
  <1> DEFINE callee == Head(m_lstRetryRequest)
  <1>1. /\ Draining(c)
        /\ m_lstRetryRequest # << >>
        /\ m_lstRetryRequest \in Seq(Calls)
        /\ pc \in [Calls -> Places]
    BY DEF Drain, CallInv, TFInv, TFTypeOK
  <1>2. /\ callee \in Calls /\ callee = m_lstRetryRequest[1] /\ 1 \in 1..Len(m_lstRetryRequest)
        /\ pc[callee] = "queued"
    <2>1. callee \in Calls /\ callee = m_lstRetryRequest[1] /\ 1 \in 1..Len(m_lstRetryRequest)
      BY <1>1, Pop
    <2> QED BY <2>1 DEF CallInv, QueueLink, OrderInv
  <1>3. /\ CallBack(c)
        /\ Continue(callee) \/ Terminate(callee)
    BY <1>2 DEF Drain
  <1>4. m_lstRetryRequest' = Tail(m_lstRetryRequest) /\ UNCHANGED <<m_spLockForRenew, extConn>>
    BY <1>3 DEF CallBack
  <1>5. pc'[callee] \in {"loading", "done"} /\ \A d \in Calls : d # callee => pc'[d] = pc[d]
    BY <1>1, <1>2, <1>3, Moved DEF Continue, Terminate, Places
  <1>6. ASSUME NEW d \in Calls, d # callee, InQueue(d)
        PROVE  InQueue(d)'
    <2>1. PICK i \in 1..Len(m_lstRetryRequest) : m_lstRetryRequest[i] = d
      BY <1>6 DEF InQueue
    <2>2. i # 1
      BY <1>2, <1>6, <2>1
    <2>3. i - 1 \in 1..Len(Tail(m_lstRetryRequest)) /\ Tail(m_lstRetryRequest)[i - 1] = d
      BY <1>1, <2>1, <2>2
    <2> QED BY <1>4, <2>3 DEF InQueue
  <1>7. Cared'
    <2>1. pc[c] = "unlocking"
      BY <1>1, DrainerRenews DEF OrderInv
    <2> QED BY <1>2, <1>5, <2>1 DEF Cared, RenewPlaces
  <1>8. OrderInv'
    BY <1>2, <1>4, <1>5, <1>6, <1>7 DEF OrderInv
  <1> QED BY <1>4, <1>8 DEF KeepsOrder, Running

\* Nobody waits any more when the server is unlocked.
LEMMA RenewReturnOrder ==
  ASSUME CallInv, OrderInv, NEW c \in Calls, RenewReturn(c)
  PROVE  KeepsOrder
  <1>1. /\ UnLockReturn(c)
        /\ m_lstRetryRequest = << >>
        /\ m_spLockForRenew' = NULL
        /\ UNCHANGED extConn
        /\ pc \in [Calls -> Places]
    BY DEF RenewReturn, UnLockReturn, CallInv
  <1>2. pc[c] = "unlocking"
    BY <1>1, DrainerRenews DEF UnLockReturn, OrderInv
  <1>3. PICK p \in {"loading", "done"} : Goto(c, p)
    BY <1>2 DEF RenewReturn, Continue, Terminate
  <1>4. pc'[c] = p /\ \A d \in Calls : d # c => pc'[d] = pc[d]
    BY <1>1, <1>3, Moved DEF Places
  <1>5. \A d \in Calls : pc[d] # "queued"
    BY <1>1 DEF OrderInv, InQueue
  <1>6. OrderInv'
    BY <1>1, <1>4, <1>5 DEF OrderInv
  <1> QED BY <1>1, <1>6 DEF KeepsOrder, Running

LEMMA TokenEndpointOrder ==
  ASSUME CallInv, OrderInv, Orderly, TokenEndpoint
  PROVE  KeepsOrder
  <1>1. /\ Exchange
        /\ UNCHANGED pc
        /\ m_spLockForRenew # NULL /\ m_spLockForRenew \in Request
    BY DEF TokenEndpoint, Exchange, callVars, CallInv, TFInv, TFTypeOK
  <1>2. PICK answer, pair : RenewAnswered(answer, pair, 3)
    <2>1. "garbled" \notin Faults
      BY DEF Orderly
    <2> QED BY <1>1, <2>1 DEF Exchange
  <1>3. /\ m_spLockForRenew' = [m_spLockForRenew EXCEPT
                                  !.status = answer, !.pair = pair, !.parsed = 3]
        /\ UNCHANGED <<m_lstRetryRequest, extConn>>
    BY <1>2 DEF RenewAnswered
  <1>4. m_spLockForRenew'.parsed = 3
    BY <1>1, <1>3 DEF Request
  <1>5. Cared' /\ \A d \in Calls : InQueue(d) => InQueue(d)'
    BY <1>1, <1>3 DEF OrderInv, Cared, InQueue
  <1>6. OrderInv'
    BY <1>1, <1>4, <1>5 DEF OrderInv
  <1> QED BY <1>3, <1>6 DEF KeepsOrder, Running

LEMMA NextOrder ==
  ASSUME CallInv, OrderInv, CallInv', Orderly, [Next]_vars
  PROVE  KeepsOrder
  <1>1. ~(\E c \in Calls : Crash(c) \/ InitThrows(c)) /\ ~SurrogateEnds
    BY DEF Crash, InitThrows, SurrogateEnds, SurrogateDies, Orderly
  <1>2. ASSUME NEW c \in Calls, InitRequest(c) \/ Step(c)
        PROVE  KeepsOrder
    BY <1>2, CallsOrder, RenewInitOrder, RenewSendOrder, DrainOrder, RenewReturnOrder DEF Step
  <1>3. CASE TokenEndpoint
    BY <1>3, TokenEndpointOrder
  <1>4. CASE UNCHANGED <<tfVars, pc>>
    <2>1. /\ Cared' <=> Cared
          /\ \A c \in Calls : pc'[c] # "dead" /\ (pc'[c] = "queued" => pc[c] = "queued")
      BY <1>4 DEF Cared, OrderInv
    <2> QED BY <1>4, <2>1, OrderKeeps DEF tfVars
  <1>5. Expire \/ Revoke \/ Terminating \/ UNCHANGED vars => UNCHANGED <<tfVars, pc>>
    BY DEF Expire, ExpireToken, Revoke, RevokeConsent, Terminating, vars, callVars
  <1> QED BY <1>1, <1>2, <1>3, <1>4, <1>5 DEF Next

LEMMA InitOrder ==
  ASSUME Init
  PROVE  OrderInv
  BY DEF Init, TFInit, OrderInv

\* A deferred call is in the queue of the running server, once, until the server
\* calls it back, and nobody else is in there (LockForRenew, the loop of
\* UnLockFromRenew, the last release).
THEOREM NobodyForgotten ==
  ASSUME Generation = Nat \ {0}, Orderly
  PROVE  Spec => []DeferredNotLost
  <1>1. Init => OrderInv
    BY InitOrder
  <1>2. CallInv /\ OrderInv /\ CallInv' /\ [Next]_vars => OrderInv'
    BY NextOrder DEF KeepsOrder
  <1>3. CallInv /\ OrderInv => DeferredNotLost
    <2> SUFFICES ASSUME CallInv, OrderInv, NEW c \in Calls
                 PROVE  LET positions == {i \in 1..Len(m_lstRetryRequest) : m_lstRetryRequest[i] = c} IN
                          IF pc[c] = "queued" THEN \E i \in positions : positions = {i}
                                              ELSE positions = {}
      BY DEF DeferredNotLost
    <2>1. CASE pc[c] = "queued"
      <3>1. PICK i \in 1..Len(m_lstRetryRequest) : m_lstRetryRequest[i] = c
        BY <2>1 DEF OrderInv, InQueue
      <3>2. \A j \in 1..Len(m_lstRetryRequest) : m_lstRetryRequest[j] = c => j = i
        BY <3>1 DEF CallInv, QueueLink
      <3> QED BY <2>1, <3>1, <3>2
    <2>2. CASE pc[c] # "queued"
      <3>1. \A i \in 1..Len(m_lstRetryRequest) : m_lstRetryRequest[i] # c
        BY <2>2 DEF CallInv, QueueLink, OrderInv
      <3> QED BY <2>2, <3>1
    <2> QED BY <2>1, <2>2
  <1> QED BY <1>1, <1>2, <1>3, CallInvariance, PTL DEF Spec

\* The server is not destroyed while it is locked or has clients waiting, under
\* the same conditions (the pointer that CRenewTokenAsync keeps).
THEOREM TornDownQuietly ==
  ASSUME Generation = Nat \ {0}, Orderly
  PROVE  Spec => QuietTeardown
  <1>1. Init => OrderInv
    BY InitOrder
  <1>2. CallInv /\ OrderInv /\ CallInv' /\ [Next]_vars
          => OrderInv' /\ [Running /\ ~Running' => m_spLockForRenew = NULL /\ m_lstRetryRequest = << >>]_vars
    <2> SUFFICES ASSUME CallInv, OrderInv, CallInv', [Next]_vars
                 PROVE  OrderInv' /\ (Running /\ ~Running'
                                       => m_spLockForRenew = NULL /\ m_lstRetryRequest = << >>)
      OBVIOUS
    <2>1. KeepsOrder
      BY NextOrder
    <2> QED BY <2>1 DEF KeepsOrder, CallInv, TFInv, QueueOnlyWhileLocked
  <1> QED BY <1>1, <1>2, CallInvariance, PTL DEF Spec, QuietTeardown

-----------------------------------------------------------------------------
(* What calls remember of the tokens *)

\* No call remembers a token that is newer than the one it would get now, and
\* who sent its first request remembers one.
RecallInv ==
  \A c \in Calls :
    /\ m_bstrAccessToken[c] <= Served
    /\ pc[c] \in Underway /\ m_eState[c] = "InitialRequest" => m_bstrAccessToken[c] # NoToken

\* All that is known of the calls, and of a step of theirs, so far.
KnownInv == CallInv /\ StageInv /\ FailInv /\ RememberInv /\ UnspentInv

LEMMA ServedIsNat ==
  ASSUME RememberInv
  PROVE  Served \in Nat
  BY DEF RememberInv, Tokens, Served

LEMMA KnownInvariance ==
  ASSUME Generation = Nat \ {0}, Calm
  PROVE  Spec => []KnownInv
  <1>1. Init => StageInv /\ FailInv /\ RememberInv /\ UnspentInv
    BY InitSeen, InitRemembers, InitUnspent DEF Init, FailInv, Explained, Opening, Rejected
  <1>2. CallInv /\ CallInv' /\ (StageInv /\ FailInv /\ RememberInv /\ UnspentInv) /\ [Next]_vars
          => (StageInv /\ FailInv /\ RememberInv /\ UnspentInv)'
    BY NextSeen, NextExplained, NextRemembers, NextUnspent DEF KeepsTokens
  <1>3. CallInv /\ StageInv /\ FailInv /\ RememberInv /\ UnspentInv => KnownInv
    BY DEF KnownInv
  <1> QED BY <1>1, <1>2, <1>3, CallInvariance, PTL DEF Spec

\* Who loses nothing of what is served recalls what it did.
LEMMA RecallKeeps ==
  ASSUME RecallInv, Served \in Nat, Served' \in Nat, Served' >= Served, RememberInv,
         NEW c \in Calls,
         m_bstrAccessToken'[c] <= Served',
         pc'[c] \in Underway /\ m_eState'[c] = "InitialRequest" => m_bstrAccessToken'[c] # NoToken,
         \A d \in Calls : d # c => /\ m_bstrAccessToken'[d] = m_bstrAccessToken[d]
                                   /\ pc'[d] = pc[d]
                                   /\ m_eState'[d] = m_eState[d]
  PROVE  RecallInv'
  <1>1. ASSUME NEW d \in Calls, d # c
        PROVE  m_bstrAccessToken'[d] <= Served'
    <2>1. m_bstrAccessToken[d] \in Nat /\ m_bstrAccessToken[d] <= Served
      BY DEF RememberInv, RecallInv
    <2> QED BY <1>1, <2>1
  <1> QED BY <1>1 DEF RecallInv

\* Who has the server's token remembers it, and who asks in vain forgets it.
LEMMA AuthorizedRecall ==
  ASSUME KnownInv, RecallInv, Served \in Nat, Served' \in Nat, Served' >= Served,
         NEW c \in Calls, Authorized(c)
  PROVE  RecallInv'
  <1>1. /\ stack # << >> /\ Head(stack).method = "AuthorizeRequest" /\ Head(stack).caller = c
        /\ UNCHANGED m_eState
        /\ pc \in [Calls -> Places] /\ m_bstrAccessToken \in [Calls -> Nat]
    BY DEF Authorized, AuthorizeRequestReturn, KnownInv, CallInv, RememberInv
  <1>2. Running
    <2>1. 1 \in 1..Len(stack) /\ stack[1] = Head(stack)
      BY <1>1 DEF KnownInv, CallInv, TFInv, TFTypeOK
    <2> QED BY <1>1, <2>1 DEF KnownInv, CallInv, TFInv, ActivationsConnected, Running
  <1>3. m_strAccessToken = Served
    BY <1>2 DEF Served
  <1>4. \A d \in Calls : d # c => /\ m_bstrAccessToken'[d] = m_bstrAccessToken[d]
                                  /\ pc'[d] = pc[d] /\ m_eState'[d] = m_eState[d]
    BY <1>1 DEF Authorized, Goto
  <1>5. m_bstrAccessToken'[c] <= Served'
    <2>1. m_bstrAccessToken'[c] \in {m_bstrAccessToken[c], Served}
      BY <1>1, <1>3 DEF Authorized
    <2>2. m_bstrAccessToken[c] \in Nat /\ m_bstrAccessToken[c] <= Served
      BY <1>1 DEF RecallInv
    <2> QED BY <2>1, <2>2
  <1>6. pc'[c] \in Underway /\ m_eState'[c] = "InitialRequest" => m_bstrAccessToken'[c] # NoToken
    <2>1. CASE pc[c] = "authorizing"
      <3>1. pc'[c] = "opened"
        BY <1>1, <2>1 DEF Authorized, Goto
      <3> QED BY <3>1 DEF Underway
    <2>2. CASE pc[c] # "authorizing"
      BY <1>1, <2>2 DEF Authorized, RecallInv
    <2> QED BY <2>1, <2>2
  <1> QED BY <1>4, <1>5, <1>6, RecallKeeps DEF KnownInv

LEMMA OnCompleteRecall ==
  ASSUME KnownInv, RecallInv, Served \in Nat, Served' \in Nat, Served' >= Served,
         NEW c \in Calls, OnComplete(c)
  PROVE  RecallInv'
  <1>1. /\ pc \in [Calls -> Places] /\ m_bstrAccessToken \in [Calls -> Nat]
        /\ m_eState \in [Calls -> {"InitialRequest", "RetryOnce", "Finish"}]
    BY DEF KnownInv, CallInv, StageInv, RememberInv
  <1>2. PICK p \in {"done", "rejected", "loading"} : Goto(c, p)
    BY DEF OnComplete, OnFinish, OnRejected, Continue
  <1>3. pc'[c] \notin Underway
    BY <1>1, <1>2 DEF Goto, Underway
  <1>4. \A d \in Calls : d # c => /\ m_bstrAccessToken'[d] = m_bstrAccessToken[d]
                                  /\ pc'[d] = pc[d] /\ m_eState'[d] = m_eState[d]
    BY <1>1, <1>2 DEF OnComplete, OnFinish, OnRejected, Continue, Goto
  <1>5. m_bstrAccessToken'[c] <= Served'
    <2>1. m_bstrAccessToken'[c] \in {m_bstrAccessToken[c], 0}
      BY <1>1 DEF OnComplete, OnFinish, OnRejected, NoToken
    <2>2. m_bstrAccessToken[c] \in Nat /\ m_bstrAccessToken[c] <= Served
      BY <1>1 DEF RecallInv
    <2> QED BY <2>1, <2>2
  <1> QED BY <1>3, <1>4, <1>5, RecallKeeps DEF KnownInv

\* A step after which a call that waits for the service is as it was.
LEMMA QuietRecall ==
  ASSUME RecallInv, RememberInv, Served \in Nat, Served' \in Nat, Served' >= Served,
         UNCHANGED m_bstrAccessToken,
         \A d \in Calls : pc'[d] \in Underway /\ m_eState'[d] = "InitialRequest"
                            => m_bstrAccessToken[d] # NoToken
  PROVE  RecallInv'
  <1>1. ASSUME NEW d \in Calls
        PROVE  m_bstrAccessToken'[d] <= Served'
    <2>1. m_bstrAccessToken[d] \in Nat /\ m_bstrAccessToken[d] <= Served
      BY DEF RememberInv, RecallInv
    <2> QED BY <2>1
  <1> QED BY <1>1 DEF RecallInv

LEMMA CalledRecall ==
  ASSUME KnownInv, RecallInv, NEW c \in Calls,
         InitRequest(c) \/ OnLoading(c) \/ Send(c) \/ RenewInit(c) \/ RenewSend(c)
           \/ RenewComplete(c) \/ Drain(c) \/ RenewReturn(c) \/ DropServer(c) \/ Refused(c)
           \/ ServiceAnswers(c),
         NEW d \in Calls, pc'[d] \in Underway, m_eState'[d] = "InitialRequest"
  PROVE  m_bstrAccessToken[d] # NoToken
  <1>1. /\ pc \in [Calls -> Places]
        /\ m_eState \in [Calls -> {"InitialRequest", "RetryOnce", "Finish"}]
    BY DEF KnownInv, CallInv, StageInv
  <1>2. CASE pc'[d] = pc[d] /\ m_eState'[d] = m_eState[d]
    BY <1>2 DEF RecallInv
  <1>3. CASE Send(c) /\ c = d
    BY <1>1, <1>3 DEF Send, Goto, Underway
  <1>4. CASE ServiceAnswers(c) /\ c = d
    BY <1>1, <1>4 DEF ServiceAnswers, Underway, RecallInv
  <1>5. CASE InitRequest(c) \/ OnLoading(c) \/ Send(c) \/ RenewInit(c) \/ RenewSend(c)
               \/ RenewComplete(c) \/ RenewReturn(c) \/ Refused(c) \/ ServiceAnswers(c)
    <2>1. c # d => pc'[d] = pc[d] /\ m_eState'[d] = m_eState[d]
      BY <1>1, <1>5 DEF InitRequest, OnLoading, Send, RenewInit, RenewSend, RenewComplete,
         RenewReturn, Refused, ServiceAnswers, Goto, Continue, Terminate
    <2>2. c = d => \/ Send(c) \/ ServiceAnswers(c)
                   \/ pc'[d] \notin Underway
                   \/ pc'[d] = pc[d] /\ m_eState'[d] = m_eState[d]
      BY <1>1, <1>5 DEF InitRequest, OnLoading, RenewInit, RenewSend, RenewComplete,
         RenewReturn, Refused, Goto, Continue, Terminate, Underway
    <2> QED BY <1>2, <1>3, <1>4, <2>1, <2>2
  <1>6. CASE Drain(c)
    <2> DEFINE callee == Head(m_lstRetryRequest)
    <2>1. callee \in Calls
      BY <1>6, Pop DEF Drain, KnownInv, CallInv, TFInv, TFTypeOK
    <2>2. Continue(callee) \/ Terminate(callee)
      BY <1>6, <2>1 DEF Drain, KnownInv, UnspentInv
    <2>3. callee # d
      BY <1>1, <2>1, <2>2 DEF Continue, Terminate, Goto, Underway
    <2> QED BY <1>1, <1>2, <2>2, <2>3 DEF Continue, Terminate, Goto
  <1>7. CASE DropServer(c)
    BY <1>2, <1>7 DEF DropServer, callVars
  <1> QED BY <1>5, <1>6, <1>7

LEMMA NextRecall ==
  ASSUME KnownInv, KnownInv', RecallInv, Calm, [Next]_vars
  PROVE  RecallInv'
  <1>1. Served \in Nat /\ Served' \in Nat
    BY ServedIsNat DEF KnownInv, RememberInv, Tokens, Served
  <1>2. Served' >= Served
    BY NextUnspent DEF KnownInv, KeepsTokens
  <1>3. ASSUME NEW c \in Calls, Authorized(c) \/ OnComplete(c)
        PROVE  RecallInv'
    BY <1>1, <1>2, <1>3, AuthorizedRecall, OnCompleteRecall
  <1>4. ASSUME NEW c \in Calls,
               InitRequest(c) \/ OnLoading(c) \/ Send(c) \/ RenewInit(c) \/ RenewSend(c)
                 \/ RenewComplete(c) \/ Drain(c) \/ RenewReturn(c) \/ DropServer(c) \/ Refused(c)
                 \/ ServiceAnswers(c)
        PROVE  RecallInv'
    <2>1. UNCHANGED m_bstrAccessToken
      BY <1>4 DEF InitRequest, OnLoading, Send, RenewInit, RenewSend, RenewComplete, Drain,
         RenewReturn, DropServer, Refused, ServiceAnswers, callVars
    <2>2. \A d \in Calls : pc'[d] \in Underway /\ m_eState'[d] = "InitialRequest"
                            => m_bstrAccessToken[d] # NoToken
      BY <1>4, CalledRecall
    <2> QED BY <1>1, <1>2, <2>1, <2>2, QuietRecall DEF KnownInv
  <1>5. ~(\E c \in Calls : Crash(c) \/ InitThrows(c)) /\ ~SurrogateEnds
    BY DEF Crash, InitThrows, SurrogateEnds, SurrogateDies, Calm
  <1>6. CASE UNCHANGED callVars
    BY <1>1, <1>2, <1>6, QuietRecall DEF callVars, RecallInv, KnownInv
  <1>7. TokenEndpoint \/ Expire \/ Revoke \/ Terminating \/ UNCHANGED vars => UNCHANGED callVars
    BY DEF TokenEndpoint, Expire, ExpireToken, Revoke, RevokeConsent, Terminating, vars, callVars
  <1>8. ASSUME NEW c \in Calls, InitRequest(c) \/ Step(c)
        PROVE  RecallInv'
    BY <1>3, <1>4, <1>8 DEF Step
  <1> QED BY <1>5, <1>6, <1>7, <1>8 DEF Next

LEMMA InitRecall ==
  ASSUME Init
  PROVE  RecallInv
  <1>1. extConn = {} /\ tokenFile = [access |-> 1, refresh |-> 1]
    BY DEF Init, TFInit
  <1>2. Served = 1
    BY <1>1 DEF Served, Running
  <1>3. \A c \in Calls : pc[c] = "new" /\ m_bstrAccessToken[c] = 0
    BY DEF Init, NoToken
  <1>4. ASSUME NEW c \in Calls
        PROVE  m_bstrAccessToken[c] <= Served
    <2>1. m_bstrAccessToken[c] \in Int /\ Served \in Int /\ m_bstrAccessToken[c] = 0
      BY <1>2, <1>3
    <2> QED BY <1>2, <2>1
  <1>5. \A c \in Calls : pc[c] \notin Underway
    BY <1>3 DEF Underway
  <1> QED BY <1>4, <1>5 DEF RecallInv

\* Nobody but the COMPLETE handler takes a call with an answer to the next request.
LEMMA AnswerHandled ==
  ASSUME KnownInv, Calm, [Next]_vars, NEW c \in Calls, pc[c] = "answered", pc'[c] = "loading"
  PROVE  OnRejected(c)
  <1>1. pc \in [Calls -> Places] /\ pc'[c] # pc[c]
    BY DEF KnownInv, CallInv
  <1>2. ~(\E d \in Calls : Crash(d) \/ InitThrows(d)) /\ ~SurrogateEnds
    BY DEF Crash, InitThrows, SurrogateEnds, SurrogateDies, Calm
  <1>3. ~(TokenEndpoint \/ Expire \/ Revoke \/ Terminating \/ UNCHANGED vars)
    BY <1>1 DEF TokenEndpoint, Expire, ExpireToken, Revoke, RevokeConsent, Terminating, vars,
       callVars
  <1>4. PICK d \in Calls : InitRequest(d) \/ Step(d)
    BY <1>2, <1>3 DEF Next
  <1>5. ~Drain(d)
    <2> SUFFICES ASSUME Drain(d)
                 PROVE  FALSE
      OBVIOUS
    <2> DEFINE callee == Head(m_lstRetryRequest)
    <2>1. callee \in Calls /\ callee = m_lstRetryRequest[1] /\ 1 \in 1..Len(m_lstRetryRequest)
      BY Pop DEF Drain, KnownInv, CallInv, TFInv, TFTypeOK
    <2>2. pc[callee] \in {"queued", "dead"}
      BY <2>1 DEF KnownInv, CallInv, QueueLink
    <2>3. Continue(callee) \/ Terminate(callee)
      BY <2>1 DEF Drain, KnownInv, UnspentInv
    <2> QED BY <1>1, <2>1, <2>2, <2>3 DEF Continue, Terminate, Goto
  <1>6. ~DropServer(d)
    BY <1>1 DEF DropServer, callVars
  <1>7. d = c
    BY <1>1, <1>4, <1>5, <1>6 DEF Step, InitRequest, OnLoading, Authorized, Send, OnComplete,
       OnFinish, OnRejected, RenewInit, RenewSend, RenewComplete, RenewReturn, Refused,
       ServiceAnswers, Goto, Continue, Terminate
  <1>8. OnComplete(c)
    BY <1>4, <1>5, <1>6, <1>7 DEF Step, InitRequest, OnLoading, Authorized, Send, RenewInit,
       RenewSend, RenewComplete, RenewReturn, Refused, ServiceAnswers
  <1> QED BY <1>1, <1>8 DEF OnComplete, OnFinish, Goto

\* A call that retries at once does so with a newer token than the one that was
\* rejected, under the same conditions (the comparison after CanRetryImmediately).
THEOREM RetriesWithNewer ==
  ASSUME Generation = Nat \ {0}, Calm
  PROVE  Spec => DirectRetryNewer
  <1>1. Init => RecallInv
    BY InitRecall
  <1>2. KnownInv /\ KnownInv' /\ RecallInv /\ [Next]_vars => RecallInv'
    BY NextRecall
  <1>3. KnownInv /\ KnownInv' /\ RecallInv /\ [Next]_vars
          => [\A c \in Calls : pc[c] = "answered" /\ pc'[c] = "loading"
                                 => m_strAccessToken' > header[c]]_vars
    <2> SUFFICES ASSUME KnownInv, KnownInv', RecallInv, [Next]_vars, NEW c \in Calls,
                        pc[c] = "answered", pc'[c] = "loading"
                 PROVE  m_strAccessToken' > header[c]
      OBVIOUS
    <2>1. OnRejected(c)
      BY AnswerHandled
    <2>2. /\ m_strAccessToken' # m_bstrAccessToken[c]
          /\ m_eState[c] = "InitialRequest"
          /\ extConn' = extConn \cup {<<c, "complete">>}
      BY <2>1 DEF OnRejected, CanRetryImmediately, GetTokenServer, Goto, KnownInv, CallInv
    <2>3. Served' = m_strAccessToken'
      BY <2>2 DEF Served, Running
    <2>4. Served' >= Served
      BY NextUnspent DEF KnownInv, KeepsTokens
    <2>5. m_bstrAccessToken[c] <= Served /\ m_bstrAccessToken[c] # NoToken
      BY <2>2 DEF RecallInv, Underway
    <2>6. header[c] <= m_bstrAccessToken[c]
      BY <2>5 DEF KnownInv, RememberInv, Remembers, NoToken
    <2>7. header[c] \in Nat /\ m_bstrAccessToken[c] \in Nat /\ Served \in Nat
      BY ServedIsNat DEF KnownInv, RememberInv
    <2>8. m_strAccessToken' \in Nat
      BY DEF KnownInv, RememberInv, Tokens
    <2> QED BY <2>2, <2>3, <2>4, <2>5, <2>6, <2>7, <2>8
  <1> QED BY <1>1, <1>2, <1>3, KnownInvariance, PTL DEF Spec, DirectRetryNewer

-----------------------------------------------------------------------------
(* A renew that nobody notices *)

\* Every POST is granted, and who unlocks the server has a newer token than the
\* first.
GrantedInv ==
  /\ ~revoked
  /\ m_spLockForRenew # NULL => m_spLockForRenew.status \in {"open", "sent", "200"}
  /\ m_spLockForRenew # NULL /\ m_spLockForRenew.status = "200" => issued > 1
  /\ \A i \in 1..Len(stack) :
       stack[i].method = "UnLockFromRenew" => stack[i].succeeded /\ Served > 1

\* A call fails in no place: its first request carries a token, its second one
\* a newer token than the first, which is all that has expired.
Untroubled(c) ==
  /\ pc[c] \notin {"refused", "stranded", "dead"}
  /\ notified[c] \in {<< >>, <<"onSucceeded">>}
  /\ m_eState[c] = "RetryOnce" => Served > 1
  /\ pc[c] \in {"authorizing", "opened", "sent", "answered"} /\ m_eState[c] = "RetryOnce"
       => header[c] > 1
  /\ pc[c] = "opened" => m_bstrAccessToken[c] # NoToken
  /\ pc[c] = "answered" => \/ status[c] = "200"
                           \/ status[c] = "401" /\ m_eState[c] = "InitialRequest"

SmoothInv ==
  /\ GrantedInv
  /\ expired \in Nat
  /\ expired <= 1 => \A c \in Calls : Untroubled(c)

\* A renew is begun, goes on or ends; an activation ends, or one of another
\* method begins.
LEMMA GrantedKeeps ==
  ASSUME GrantedInv, Served \in Nat, Served' \in Nat, Served' >= Served,
         UNCHANGED <<revoked, issued>>,
         \/ m_spLockForRenew' = NULL
         \/ UNCHANGED m_spLockForRenew
         \/ m_spLockForRenew'.status \in {"open", "sent"},
         \A i \in 1..Len(stack') : stack'[i].method = "UnLockFromRenew" =>
           \E j \in 1..Len(stack) : /\ stack[j].method = "UnLockFromRenew"
                                    /\ stack[j].succeeded = stack'[i].succeeded
  PROVE  GrantedInv'
  BY DEF GrantedInv

\* The steps of the server and of those who call it.
LEMMA CallsGranted ==
  ASSUME KnownInv, GrantedInv, Served \in Nat, Served' \in Nat, Served' >= Served, Faults = {},
         NEW c \in Calls,
         OnLoading(c) \/ Authorized(c) \/ OnComplete(c) \/ RenewInit(c) \/ RenewSend(c)
           \/ Drain(c) \/ RenewReturn(c) \/ DropServer(c)
  PROVE  GrantedInv'
  <1>1. /\ stack \in Seq(Activation)
        /\ UNCHANGED <<revoked, issued>>
        /\ \/ m_spLockForRenew' = NULL
           \/ UNCHANGED m_spLockForRenew
           \/ m_spLockForRenew'.status \in {"open", "sent"}
    <2>1. stack \in Seq(Activation) /\ UNCHANGED <<revoked, issued>>
      BY DEF KnownInv, CallInv, TFInv, TFTypeOK, OnLoading, Authorized, OnComplete, RenewInit,
         RenewSend, Drain, RenewReturn, DropServer, serviceVars
    <2>2. CASE RenewSend(c)
      <3>1. m_spLockForRenew \in Request
        BY <2>2 DEF RenewSend, KnownInv, CallInv, TFInv, TFTypeOK, RenewLink, Renewer
      <3>2. m_spLockForRenew' = [m_spLockForRenew EXCEPT !.status = "sent"]
        BY <2>2 DEF RenewSend, SendRenew
      <3> QED BY <2>1, <3>1, <3>2 DEF Request
    <2>3. CASE RenewInit(c)
      <3>1. UNCHANGED m_spLockForRenew \/ m_spLockForRenew' = NewRequest(c)
        BY <2>3 DEF RenewInit, LockForRenew
      <3> QED BY <2>1, <3>1 DEF NewRequest
    <2>4. CASE Drain(c)
      <3>1. Head(m_lstRetryRequest) \in Calls
        BY <2>4, Pop DEF Drain, KnownInv, CallInv, TFInv, TFTypeOK
      <3>2. CallBack(c)
        BY <2>4, <3>1 DEF Drain, KnownInv, UnspentInv
      <3> QED BY <2>1, <3>2 DEF CallBack
    <2>5. CASE OnLoading(c) \/ Authorized(c) \/ OnComplete(c) \/ RenewReturn(c) \/ DropServer(c)
      BY <2>1, <2>5 DEF OnLoading, AuthorizeRequest, Authorized, AuthorizeRequestReturn,
         ReleaseConnection, OnComplete, OnFinish, OnRejected, CanRetryImmediately, RenewReturn,
         UnLockReturn, DropServer, Release, tfVars
    <2> QED BY <2>2, <2>3, <2>4, <2>5
  <1>2. ASSUME NEW i \in 1..Len(stack'), stack'[i].method = "UnLockFromRenew"
        PROVE  \E j \in 1..Len(stack) : /\ stack[j].method = "UnLockFromRenew"
                                        /\ stack[j].succeeded = stack'[i].succeeded
    <2>1. CASE UNCHANGED stack
      BY <1>2, <2>1
    <2>2. CASE stack # << >> /\ \/ stack' = Tail(stack)
                                \/ \E callee : stack' =
                                     << [Head(stack) EXCEPT !.callee = callee] >> \o Tail(stack)
      BY <1>1, <1>2, <2>2, StackShrinks
    <2>3. CASE OnLoading(c) /\ AuthorizeRequest(c)
      <3> DEFINE f == [method |-> "AuthorizeRequest", caller |-> c,
                       succeeded |-> TRUE, callee |-> c]
      <3>1. stack' = << f >> \o stack
        BY <2>3 DEF AuthorizeRequest
      <3>2. f.method # "UnLockFromRenew"
        OBVIOUS
      <3> HIDE DEF f
      <3>3. (i = 1 => stack'[i] = f)
            /\ (i # 1 => i - 1 \in 1..Len(stack) /\ stack'[i] = stack[i - 1])
        BY <1>1, <3>1
      <3> QED BY <1>2, <3>2, <3>3
    <2>4. CASE OnLoading(c) /\ ~AuthorizeRequest(c)
      BY <2>1, <2>4 DEF OnLoading, tfVars
    <2>5. CASE Authorized(c) \/ Drain(c) \/ RenewReturn(c)
      BY <2>2, <2>5 DEF Authorized, AuthorizeRequestReturn, Drain, CallBack, CallBackFault,
         RenewReturn, UnLockReturn, Draining
    <2>6. CASE OnComplete(c) \/ RenewInit(c) \/ RenewSend(c) \/ DropServer(c)
      BY <2>1, <2>6 DEF OnComplete, OnFinish, OnRejected, CanRetryImmediately, RenewInit,
         LockForRenew, LockForRenewThrows, RenewSend, SendRenew, DropServer, Release, tfVars
    <2> QED BY <2>3, <2>4, <2>5, <2>6
  <1> QED BY <1>1, <1>2, GrantedKeeps

\* The answer that is read is good, and newer than the first token.
LEMMA RenewCompleteGranted ==
  ASSUME KnownInv, KnownInv', GrantedInv, Faults = {}, NEW c \in Calls, RenewComplete(c)
  PROVE  GrantedInv' /\ Goto(c, "unlocking") /\ UNCHANGED <<m_eState, header, status, notified>>
  <1>1. /\ UnLockFromRenew(c) /\ UNCHANGED <<revoked, issued>>
        /\ pc[c] = "renewing" /\ Renewer(c)
        /\ pc \in [Calls -> Places] /\ issued \in Nat
        /\ stack \in Seq(Activation)
    BY DEF RenewComplete, serviceVars, KnownInv, CallInv, RenewLink, TFInv, TFTypeOK
  <1>2. m_spLockForRenew # NULL /\ m_spLockForRenew.status = "200"
    BY <1>1 DEF Renewer, GrantedInv, RenewComplete, Answered
  <1>3. ~Throws(m_spLockForRenew) /\ issued > 1
    BY <1>1, <1>2 DEF Throws, KnownInv, UnspentInv, AnswerPending, Renewing, GrantedInv
  <1>4. /\ Goto(c, "unlocking") /\ UNCHANGED <<m_eState, header, status, notified>>
        /\ UNCHANGED <<m_spLockForRenew, extConn>>
    BY <1>1, <1>3 DEF RenewComplete, UnLockFromRenew
  <1>5. ~Renewing'
    <2>1. ASSUME NEW d \in Calls, pc[d] = "renewing"
          PROVE  d = c
      BY <1>1, <2>1, OneRenewer DEF KnownInv, CallInv, RenewLink
    <2>2. pc'[c] = "unlocking" /\ \A d \in Calls : d # c => pc'[d] = pc[d]
      BY <1>1, <1>4, Moved DEF Places
    <2> QED BY <2>1, <2>2 DEF Renewing
  <1>6. Served' = issued'
    BY <1>5 DEF KnownInv, UnspentInv, AnswerPending, Fresh, Latest, Served
  <1> DEFINE f == [method |-> "UnLockFromRenew", caller |-> c, succeeded |-> TRUE,
                   callee |-> NULL]
  <1>7. stack' = << f >> \o stack
    BY <1>1, <1>2, <1>3 DEF UnLockFromRenew
  <1>8. f.succeeded
    OBVIOUS
  <1> HIDE DEF f
  <1>9. ASSUME NEW i \in 1..Len(stack'), stack'[i].method = "UnLockFromRenew"
        PROVE  stack'[i].succeeded
    <2>1. /\ i = 1 => stack'[i] = f
          /\ i # 1 => i - 1 \in 1..Len(stack) /\ stack'[i] = stack[i - 1]
      BY <1>1, <1>7
    <2> QED BY <1>8, <1>9, <2>1 DEF GrantedInv
  <1>10. GrantedInv'
    BY <1>1, <1>3, <1>4, <1>6, <1>9 DEF GrantedInv
  <1> QED BY <1>4, <1>10

\* The refresh token is not spent, and the consent is not withdrawn.
LEMMA TokenEndpointGranted ==
  ASSUME KnownInv, GrantedInv, Served \in Nat, Served' \in Nat, Served' >= Served, Faults = {},
         TokenEndpoint
  PROVE  GrantedInv'
  <1>1. /\ Exchange
        /\ m_spLockForRenew # NULL /\ m_spLockForRenew \in Request
        /\ m_spLockForRenew.status = "sent"
        /\ issued \in Nat /\ issued > 0
    BY DEF TokenEndpoint, Exchange, KnownInv, CallInv, TFInv, TFTypeOK
  <1>2. Unspent(m_spLockForRenew.body)
    BY <1>1 DEF Unspent, KnownInv, UnspentInv, GrantedInv
  <1>3. /\ issued' = issued + 1 /\ UNCHANGED <<revoked, stack>>
        /\ \E pair : RenewAnswered("200", pair, 3)
    BY <1>1, <1>2 DEF Exchange, RenewAnswered
  <1>4. m_spLockForRenew'.status = "200" /\ issued' > 1
    BY <1>1, <1>3 DEF RenewAnswered, Request
  <1> QED BY <1>3, <1>4 DEF GrantedInv

\* A binding never fails: the file holds the latest pair while nobody runs.
LEMMA BindingSucceeds ==
  ASSUME KnownInv, Faults = {}
  PROVE  ~GetTokenServerFails
  <1>1. CASE AnswerPending
    BY <1>1, PendingRuns DEF KnownInv, GetTokenServerFails
  <1>2. CASE ~AnswerPending
    <2>1. tokenFile.access = issued /\ issued # 0
      BY <1>2 DEF KnownInv, UnspentInv, Fresh, Latest, CallInv
    <2>2. NoTokens.access = 0
      BY DEF NoTokens, NoToken
    <2> QED BY <2>1, <2>2 DEF GetTokenServerFails, LoadFails
  <1> QED BY <1>1, <1>2

\* One call moves.
LEMMA UntroubledKeeps ==
  ASSUME \A d \in Calls : Untroubled(d), Served \in Nat, Served' \in Nat, Served' >= Served,
         NEW c \in Calls,
         \A d \in Calls : d # c =>
           /\ pc'[d] = pc[d] /\ m_eState'[d] = m_eState[d] /\ header'[d] = header[d]
           /\ m_bstrAccessToken'[d] = m_bstrAccessToken[d] /\ status'[d] = status[d]
           /\ notified'[d] = notified[d],
         Untroubled(c)'
  PROVE  \A d \in Calls : Untroubled(d)'
  <1>1. ASSUME NEW d \in Calls, d # c
        PROVE  Untroubled(d)'
    BY <1>1 DEF Untroubled
  <1> QED BY <1>1

CallTypes ==
  /\ pc \in [Calls -> Places]
  /\ m_eState \in [Calls -> {"InitialRequest", "RetryOnce", "Finish"}]
  /\ notified \in [Calls -> Seq({"onSucceeded", "onFailed"})]
  /\ status \in [Calls -> {"none", "200", "401", "other"}]
  /\ header \in [Calls -> Nat]
  /\ m_bstrAccessToken \in [Calls -> Nat]

LEMMA KnownTypes ==
  ASSUME KnownInv
  PROVE  CallTypes
  BY DEF KnownInv, CallInv, StageInv, FailInv, RememberInv, CallTypes

\* A call that is called back, or retries at once, with a newer token.
LEMMA ContinueUntroubled ==
  ASSUME CallTypes, \A d \in Calls : Untroubled(d), Served \in Nat, Served' \in Nat,
         Served' >= Served, Served' > 1, NEW c \in Calls, Continue(c),
         \A d \in Calls : d # c => m_bstrAccessToken'[d] = m_bstrAccessToken[d]
  PROVE  \A d \in Calls : Untroubled(d)'
  <1>1. /\ pc'[c] = "loading" /\ m_eState'[c] = "RetryOnce" /\ notified'[c] = notified[c]
        /\ \A d \in Calls : d # c =>
             /\ pc'[d] = pc[d] /\ m_eState'[d] = m_eState[d] /\ header'[d] = header[d]
             /\ status'[d] = status[d] /\ notified'[d] = notified[d]
    BY DEF Continue, Goto, CallTypes
  <1>2. Untroubled(c)'
    BY <1>1 DEF Untroubled
  <1> QED BY <1>1, <1>2, UntroubledKeeps

\* A call that only moves, to a place where nothing is asked of it.
LEMMA MovedUntroubled ==
  ASSUME CallTypes, \A d \in Calls : Untroubled(d), Served \in Nat, Served' \in Nat,
         Served' >= Served, NEW c \in Calls,
         NEW p \in {"loading", "rejected", "locked", "renewing", "unlocking", "queued", "done"},
         Goto(c, p), UNCHANGED <<m_eState, header, m_bstrAccessToken, status, notified>>
  PROVE  \A d \in Calls : Untroubled(d)'
  <1>1. pc'[c] = p /\ \A d \in Calls : d # c => pc'[d] = pc[d]
    BY DEF Goto, CallTypes
  <1>2. Untroubled(c)'
    BY <1>1 DEF Untroubled
  <1> QED BY <1>1, <1>2, UntroubledKeeps

LEMMA OnLoadingUntroubled ==
  ASSUME KnownInv, \A d \in Calls : Untroubled(d), Served \in Nat, Served' \in Nat,
         Served' >= Served, Faults = {}, NEW c \in Calls, OnLoading(c)
  PROVE  \A d \in Calls : Untroubled(d)'
  <1>1. /\ AuthorizeRequest(c) /\ Goto(c, "authorizing")
        /\ header' = [header EXCEPT ![c] = m_strAccessToken']
        /\ UNCHANGED <<m_eState, m_bstrAccessToken, status, notified>>
    BY BindingSucceeds DEF OnLoading
  <1>2. Served' = m_strAccessToken'
    BY <1>1 DEF AuthorizeRequest, GetTokenServer, Served, Running
  <1>3. /\ pc'[c] = "authorizing" /\ header'[c] = Served'
        /\ \A d \in Calls : d # c => pc'[d] = pc[d] /\ header'[d] = header[d]
    BY <1>1, <1>2, KnownTypes DEF CallTypes, Goto
  <1>4. Untroubled(c)'
    BY <1>1, <1>3 DEF Untroubled
  <1> QED BY <1>1, <1>3, <1>4, UntroubledKeeps

LEMMA AuthorizedUntroubled ==
  ASSUME KnownInv, \A d \in Calls : Untroubled(d), Served \in Nat, Served' \in Nat,
         Served' >= Served, NEW c \in Calls, Authorized(c)
  PROVE  \A d \in Calls : Untroubled(d)'
  <1>1. stack # << >> /\ Head(stack).method = "AuthorizeRequest" /\ Head(stack).caller = c
    BY DEF Authorized, AuthorizeRequestReturn
  <1>2. 1 \in 1..Len(stack) /\ stack[1] = Head(stack)
    BY <1>1, Pop DEF KnownInv, CallInv, TFInv, TFTypeOK
  <1>3. pc[c] = "authorizing"
    BY <1>1, <1>2 DEF KnownInv, CallInv, StackLink, PlaceOf, UnspentInv
  <1>4. m_strAccessToken # NoToken
    BY <1>1, <1>2 DEF KnownInv, CallInv, TFInv, ActivationsConnected, TokensIffRunning, Running
  <1>5. /\ pc'[c] = "opened" /\ m_bstrAccessToken'[c] = m_strAccessToken
        /\ \A d \in Calls : d # c => /\ pc'[d] = pc[d]
                                     /\ m_bstrAccessToken'[d] = m_bstrAccessToken[d]
        /\ UNCHANGED <<m_eState, header, status, notified>>
    BY <1>3, KnownTypes DEF Authorized, CallTypes, Goto
  <1>6. Untroubled(c)'
    BY <1>3, <1>4, <1>5 DEF Untroubled
  <1> QED BY <1>5, <1>6, UntroubledKeeps

LEMMA SendUntroubled ==
  ASSUME KnownInv, \A d \in Calls : Untroubled(d), Served \in Nat, Served' \in Nat,
         Served' >= Served, Faults = {}, NEW c \in Calls, Send(c)
  PROVE  \A d \in Calls : Untroubled(d)'
  <1>1. /\ pc[c] = "opened" /\ Goto(c, "sent")
        /\ UNCHANGED <<m_eState, header, m_bstrAccessToken, status, notified>>
    BY DEF Send, Untroubled
  <1>2. pc'[c] = "sent" /\ \A d \in Calls : d # c => pc'[d] = pc[d]
    BY <1>1, KnownTypes DEF CallTypes, Goto
  <1>3. Untroubled(c)'
    BY <1>1, <1>2 DEF Untroubled
  <1> QED BY <1>1, <1>2, <1>3, UntroubledKeeps

LEMMA ServiceAnswersUntroubled ==
  ASSUME KnownInv, GrantedInv, \A d \in Calls : Untroubled(d), Served \in Nat, Served' \in Nat,
         Served' >= Served, Faults = {}, expired \in Nat, expired <= 1,
         NEW c \in Calls, ServiceAnswers(c)
  PROVE  \A d \in Calls : Untroubled(d)'
  <1>1. /\ pc[c] = "sent" /\ Goto(c, "answered")
        /\ status' = [status EXCEPT ![c] = IF Accepts(header[c]) THEN "200" ELSE "401"]
        /\ UNCHANGED <<m_eState, header, m_bstrAccessToken, notified>>
    BY DEF ServiceAnswers
  <1>2. /\ pc'[c] = "answered"
        /\ status'[c] = IF Accepts(header[c]) THEN "200" ELSE "401"
        /\ \A d \in Calls : d # c => pc'[d] = pc[d] /\ status'[d] = status[d]
    BY <1>1, KnownTypes DEF CallTypes, Goto
  <1>3. m_eState[c] = "InitialRequest" \/ Accepts(header[c])
    <2>1. m_eState[c] \in {"InitialRequest", "RetryOnce"}
      BY <1>1 DEF KnownInv, StageInv, Stage, Underway
    <2>2. m_eState[c] = "RetryOnce" => header[c] > 1 /\ header[c] \in Nat
      BY <1>1, KnownTypes DEF Untroubled, CallTypes
    <2> QED BY <2>1, <2>2 DEF Accepts, GrantedInv
  <1>4. Untroubled(c)'
    BY <1>1, <1>2, <1>3 DEF Untroubled
  <1> QED BY <1>1, <1>2, <1>4, UntroubledKeeps

\* The COMPLETE handler: a good answer, or the first 401.
LEMMA OnCompleteUntroubled ==
  ASSUME KnownInv, KnownInv', RecallInv, \A d \in Calls : Untroubled(d), Served \in Nat,
         Served' \in Nat, Served' >= Served, Faults = {}, NEW c \in Calls, OnComplete(c)
  PROVE  \A d \in Calls : Untroubled(d)'
  <1>1. pc[c] = "answered" /\ CallTypes
    BY KnownTypes DEF OnComplete
  <1>2. CASE OnFinish(c)
    <2>1. status[c] = "200" /\ notified[c] = << >>
      BY <1>1, <1>2, BindingSucceeds DEF OnFinish, Untroubled, KnownInv, StageInv, Stage
    <2>2. /\ pc'[c] = "done" /\ m_eState'[c] = "Finish"
          /\ notified'[c] = Append(notified[c], "onSucceeded")
          /\ UNCHANGED <<m_bstrAccessToken, header, status>>
          /\ \A d \in Calls : d # c => /\ pc'[d] = pc[d] /\ m_eState'[d] = m_eState[d]
                                       /\ notified'[d] = notified[d]
      BY <1>1, <1>2, <2>1 DEF OnFinish, Notify, Goto, CallTypes
    <2>3. notified'[c] = <<"onSucceeded">>
      BY <2>1, <2>2
    <2>4. Untroubled(c)'
      BY <2>2, <2>3 DEF Untroubled
    <2> QED BY <2>2, <2>4, UntroubledKeeps
  <1>3. CASE OnRejected(c) /\ m_strAccessToken' = m_bstrAccessToken[c]
    BY <1>1, <1>3, MovedUntroubled DEF OnRejected
  <1>4. CASE OnRejected(c) /\ m_strAccessToken' # m_bstrAccessToken[c]
    <2>1. /\ Continue(c) /\ m_eState[c] = "InitialRequest"
          /\ extConn' = extConn \cup {<<c, "complete">>}
          /\ \A d \in Calls : d # c => m_bstrAccessToken'[d] = m_bstrAccessToken[d]
      BY <1>1, <1>4 DEF OnRejected, CanRetryImmediately, GetTokenServer, CallTypes
    <2>2. Served' = m_strAccessToken'
      BY <2>1 DEF Served, Running
    <2>3. /\ m_bstrAccessToken[c] <= Served /\ m_bstrAccessToken[c] # 0
          /\ m_bstrAccessToken[c] \in Nat
      BY <1>1, <2>1 DEF RecallInv, Underway, NoToken, CallTypes
    <2>4. Served' > 1
      BY <1>4, <2>2, <2>3
    <2> QED BY <1>1, <2>1, <2>4, ContinueUntroubled
  <1> QED BY <1>2, <1>3, <1>4 DEF OnComplete

\* The renew, and the loop of UnLockFromRenew: whoever is called back continues.
LEMMA RenewUntroubled ==
  ASSUME KnownInv, KnownInv', GrantedInv, \A d \in Calls : Untroubled(d), Served \in Nat,
         Served' \in Nat, Served' >= Served, Faults = {}, NEW c \in Calls,
         RenewInit(c) \/ RenewSend(c) \/ RenewComplete(c) \/ Drain(c) \/ RenewReturn(c)
  PROVE  \A d \in Calls : Untroubled(d)'
  <1>1. CallTypes /\ UNCHANGED m_bstrAccessToken
    BY KnownTypes DEF RenewInit, RenewSend, RenewComplete, Drain, RenewReturn
  <1>2. CASE RenewInit(c)
    <2>1. PICK p \in {"locked", "queued"} : Goto(c, p)
      BY <1>2 DEF RenewInit
    <2>2. UNCHANGED <<m_eState, header, status, notified>>
      BY <1>2 DEF RenewInit
    <2> QED BY <1>1, <2>1, <2>2, MovedUntroubled
  <1>3. CASE RenewSend(c)
    <2>1. Goto(c, "renewing") /\ UNCHANGED <<m_eState, header, status, notified>>
      BY <1>3 DEF RenewSend
    <2> QED BY <1>1, <2>1, MovedUntroubled
  <1>4. CASE RenewComplete(c)
    <2>1. Goto(c, "unlocking") /\ UNCHANGED <<m_eState, header, status, notified>>
      BY <1>4, RenewCompleteGranted
    <2> QED BY <1>1, <2>1, MovedUntroubled
  <1>5. CASE Drain(c) \/ RenewReturn(c)
    <2>1. Draining(c)
      BY <1>5 DEF Drain, RenewReturn, UnLockReturn
    <2>2. /\ stack # << >> /\ Head(stack).method = "UnLockFromRenew"
          /\ pc[c] = "unlocking"
      BY <2>1, DrainerRenews DEF KnownInv, UnspentInv
    <2>3. 1 \in 1..Len(stack) /\ stack[1] = Head(stack)
      BY <2>2, Pop DEF KnownInv, CallInv, TFInv, TFTypeOK
    <2>4. Head(stack).succeeded /\ Served > 1
      BY <2>2, <2>3 DEF GrantedInv
    <2>5. PICK d \in Calls : Continue(d)
      <3>1. CASE RenewReturn(c)
        BY <2>2, <2>4, <3>1 DEF RenewReturn
      <3>2. CASE Drain(c)
        <4>1. Head(m_lstRetryRequest) \in Calls
          BY <3>2, Pop DEF Drain, KnownInv, CallInv, TFInv, TFTypeOK
        <4>2. Continue(Head(m_lstRetryRequest))
          BY <2>4, <3>2, <4>1 DEF Drain, KnownInv, UnspentInv
        <4> QED BY <4>1, <4>2
      <3> QED BY <1>5, <3>1, <3>2
    <2> QED BY <1>1, <2>4, <2>5, ContinueUntroubled
  <1> QED BY <1>2, <1>3, <1>4, <1>5

LEMMA NextSmooth ==
  ASSUME KnownInv, KnownInv', RecallInv, SmoothInv, Faults = {}, [Next]_vars
  PROVE  SmoothInv'
  <1>1. Served \in Nat /\ Served' \in Nat
    BY ServedIsNat DEF KnownInv, RememberInv, Tokens, Served
  <1>2. Served' >= Served /\ Calm
    BY NextUnspent DEF KnownInv, KeepsTokens, Calm
  <1>3. ~(\E c \in Calls : Crash(c) \/ InitThrows(c)) /\ ~SurrogateEnds /\ ~Revoke
    BY DEF Crash, InitThrows, SurrogateEnds, SurrogateDies, Revoke, RevokeConsent
  <1>4. ASSUME NEW c \in Calls, InitRequest(c) \/ Step(c)
        PROVE  GrantedInv' /\ UNCHANGED expired
    <2>1. UNCHANGED expired
      BY <1>4 DEF InitRequest, Step, OnLoading, Authorized, Send, OnComplete, RenewInit, RenewSend,
         RenewComplete, Drain, RenewReturn, DropServer, Refused, ServiceAnswers, serviceVars
    <2>2. CASE InitRequest(c) \/ Send(c) \/ Refused(c) \/ ServiceAnswers(c)
      <3>1. UNCHANGED <<m_spLockForRenew, stack, revoked, issued>>
        BY <2>2 DEF InitRequest, Send, Refused, ServiceAnswers, serviceVars, tfVars
      <3>2. GrantedInv
        BY DEF SmoothInv
      <3> QED BY <1>1, <1>2, <2>1, <3>1, <3>2, GrantedKeeps
    <2>3. CASE RenewComplete(c)
      BY <2>1, <2>3, RenewCompleteGranted DEF SmoothInv
    <2>4. CASE OnLoading(c) \/ Authorized(c) \/ OnComplete(c) \/ RenewInit(c) \/ RenewSend(c)
                 \/ Drain(c) \/ RenewReturn(c) \/ DropServer(c)
      BY <1>1, <1>2, <2>1, <2>4, CallsGranted DEF SmoothInv
    <2> QED BY <1>4, <2>2, <2>3, <2>4 DEF Step
  <1>5. ASSUME NEW c \in Calls, InitRequest(c) \/ Step(c), expired <= 1
        PROVE  \A d \in Calls : Untroubled(d)'
    <2>1. /\ \A d \in Calls : Untroubled(d)
          /\ GrantedInv /\ expired \in Nat /\ CallTypes
      BY <1>5, KnownTypes DEF SmoothInv
    <2>2. CASE InitRequest(c)
      <3>1. Goto(c, "loading") /\ UNCHANGED <<m_eState, header, m_bstrAccessToken, status, notified>>
        BY <2>2 DEF InitRequest
      <3> QED BY <1>1, <1>2, <2>1, <3>1, MovedUntroubled
    <2>3. CASE OnLoading(c) \/ Authorized(c)
      BY <1>1, <1>2, <2>1, <2>3, OnLoadingUntroubled, AuthorizedUntroubled
    <2>4. CASE Send(c) \/ ServiceAnswers(c)
      BY <1>1, <1>2, <1>5, <2>1, <2>4, SendUntroubled, ServiceAnswersUntroubled
    <2>5. CASE OnComplete(c)
      BY <1>1, <1>2, <2>1, <2>5, OnCompleteUntroubled
    <2>6. CASE RenewInit(c) \/ RenewSend(c) \/ RenewComplete(c) \/ Drain(c) \/ RenewReturn(c)
      BY <1>1, <1>2, <2>1, <2>6, RenewUntroubled
    <2>7. CASE DropServer(c)
      BY <1>1, <1>2, <2>1, <2>7, UntroubledKeeps DEF DropServer, callVars, Untroubled
    <2>8. ~Refused(c)
      BY <2>1 DEF Refused, Untroubled
    <2> QED BY <1>5, <2>2, <2>3, <2>4, <2>5, <2>6, <2>7, <2>8 DEF Step
  <1>6. CASE UNCHANGED callVars /\ GrantedInv' /\ expired' \in Nat /\ expired' >= expired
    <2>1. ASSUME NEW d \in Calls, Untroubled(d)
          PROVE  Untroubled(d)'
      BY <1>1, <1>2, <1>6, <2>1 DEF Untroubled, callVars
    <2> QED BY <1>6, <2>1 DEF SmoothInv
  <1>7. CASE TokenEndpoint
    BY <1>1, <1>2, <1>6, <1>7, TokenEndpointGranted DEF TokenEndpoint, Exchange, SmoothInv
  <1>8. CASE Expire \/ Terminating \/ UNCHANGED vars
    <2>1. UNCHANGED <<callVars, m_spLockForRenew, stack, revoked, issued>>
      BY <1>8 DEF Expire, ExpireToken, Terminating, vars, tfVars, serviceVars
    <2>2. expired' \in Nat /\ expired' >= expired
      BY <1>8 DEF Expire, ExpireToken, Terminating, vars, serviceVars, SmoothInv
    <2>3. GrantedInv
      BY DEF SmoothInv
    <2>4. GrantedInv'
      BY <1>1, <1>2, <2>1, <2>3, GrantedKeeps
    <2> QED BY <1>6, <2>1, <2>2, <2>4
  <1>9. ASSUME NEW c \in Calls, InitRequest(c) \/ Step(c)
        PROVE  SmoothInv'
    BY <1>4, <1>5, <1>9 DEF SmoothInv
  <1> QED BY <1>3, <1>7, <1>8, <1>9 DEF Next

LEMMA InitSmooth ==
  ASSUME Init
  PROVE  SmoothInv
  <1>1. /\ ~revoked /\ expired = 0 /\ m_spLockForRenew = NULL /\ stack = << >>
        /\ \A c \in Calls : pc[c] = "new" /\ m_eState[c] = "InitialRequest" /\ notified[c] = << >>
    BY DEF Init, TFInit, ServiceInit
  <1> QED BY <1>1 DEF SmoothInv, GrantedInv, Untroubled

\* The renew is transparent: if nothing fails and nothing but the first token
\* has expired, no call fails (CanRetryImmediately, LockForRenew, Continue).
THEOREM NobodyNotices ==
  ASSUME Generation = Nat \ {0}, Faults = {}
  PROVE  Spec => []TransparentRenew
  <1>1. Calm
    BY DEF Calm
  <1>2. Init => RecallInv /\ SmoothInv
    BY InitRecall, InitSmooth
  <1>3. KnownInv /\ KnownInv' /\ (RecallInv /\ SmoothInv) /\ [Next]_vars
          => (RecallInv /\ SmoothInv)'
    BY <1>1, NextRecall, NextSmooth
  <1>4. SmoothInv => TransparentRenew
    <2>1. ASSUME NEW c \in Calls, Untroubled(c)
          PROVE  "onFailed" \notin {notified[c][i] : i \in 1..Len(notified[c])}
      <3>1. CASE notified[c] = << >>
        BY <3>1
      <3>2. CASE notified[c] = <<"onSucceeded">>
        BY <3>2
      <3> QED BY <2>1, <3>1, <3>2 DEF Untroubled
    <2> QED BY <2>1 DEF SmoothInv, TransparentRenew
  <1> QED BY <1>1, <1>2, <1>3, <1>4, KnownInvariance, PTL DEF Spec

=============================================================================
