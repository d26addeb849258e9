----------------------- MODULE MFCApplicationDlgProofs -----------------------
(***************************************************************************)
(* The MFC client library and its sample dialog, for any number of calls   *)
(* and any faults: the calls keep to the protocol of the token server, a   *)
(* call that is collected is out of everybody's reach, and the dialog      *)
(* closes over no call.                                                    *)
(***************************************************************************)
EXTENDS MFCApplicationDlg, TokenFileProofs

\* Who is in the queue of the server is waiting for it, and is in it once.
QueueLink ==
  /\ \A i \in 1..Len(m_lstRetryRequest) : pc[m_lstRetryRequest[i]] \in {"queued", "dead"}
  /\ \A i, j \in 1..Len(m_lstRetryRequest) :
       m_lstRetryRequest[i] = m_lstRetryRequest[j] => i = j

\* Who is in a method of the server waits for this method, or is dead.
PlaceOf(method) == IF method = "UnLockFromRenew" THEN "unlocking" ELSE "authorizing"
StackLink == \A i \in 1..Len(stack) : pc[stack[i].caller] \in {PlaceOf(stack[i].method), "dead"}

\* A rejected call still holds the pointer of its COMPLETE handler.
RejectedLink == \A c \in Calls : pc[c] = "rejected" => <<c, "complete">> \in extConn

\* Who renews has the sink on the POST and a pointer to the server.
RenewLink ==
  \A c \in Calls : pc[c] \in {"locked", "renewing", "unlocking"} =>
    /\ Renewer(c)
    /\ <<c, "renewer">> \in extConn
    /\ pc[c] = "locked" => m_spLockForRenew.status = "open"

\* The inductive invariant of the composition: that of the server, and what
\* the places of the calls say about the server's state.
CallInv ==
  /\ TFInv
  /\ pc \in [Calls -> Places]
  /\ issued \in Nat \ {0}
  /\ QueueLink
  /\ StackLink
  /\ RejectedLink
  /\ RenewLink

Links == QueueLink /\ StackLink /\ RejectedLink /\ RenewLink

-----------------------------------------------------------------------------
(* Places *)

LEMMA Moved ==
  ASSUME pc \in [Calls -> Places], NEW c \in Calls, NEW p \in Places, Goto(c, p)
  PROVE  /\ pc' \in [Calls -> Places]
         /\ pc'[c] = p
         /\ \A d \in Calls : d # c => pc'[d] = pc[d]
  BY DEF Goto

LEMMA Callers ==
  ASSUME TFInv, NEW i \in 1..Len(stack)
  PROVE  stack[i].caller \in Calls
  <1>1. stack[i] \in Activation
    BY DEF TFInv, TFTypeOK
  <1> QED BY <1>1 DEF Activation

LEMMA NotInCall ==
  ASSUME CallInv, NEW c \in Calls, pc[c] \notin {"authorizing", "unlocking", "dead"}
  PROVE  ~InCall(c)
  BY DEF CallInv, StackLink, PlaceOf, InCall

LEMMA NotDeferred ==
  ASSUME CallInv, NEW c \in Calls, pc[c] \notin {"queued", "dead"}
  PROVE  ~Deferred(c)
  BY DEF CallInv, QueueLink, Deferred

LEMMA OneRenewer ==
  ASSUME NEW c \in Calls, NEW d \in Calls, Renewer(c), Renewer(d)
  PROVE  c = d
  BY DEF Renewer

\* One call moves, and neither into nor out of the queue (a method).
LEMMA QueueKeeps ==
  ASSUME CallInv, NEW c \in Calls, \A d \in Calls : d # c => pc'[d] = pc[d],
         pc[c] \notin {"queued", "dead"} \/ pc'[c] \in {"queued", "dead"},
         UNCHANGED m_lstRetryRequest \/ m_lstRetryRequest' = << >>
  PROVE  QueueLink'
  <1>1. CASE m_lstRetryRequest' = << >>
    BY <1>1 DEF QueueLink
  <1>2. CASE UNCHANGED m_lstRetryRequest
    <2>1. ASSUME NEW i \in 1..Len(m_lstRetryRequest)
          PROVE  pc'[m_lstRetryRequest[i]] \in {"queued", "dead"}
      <3>1. m_lstRetryRequest[i] \in Calls /\ pc[m_lstRetryRequest[i]] \in {"queued", "dead"}
        BY DEF CallInv, QueueLink, TFInv, TFTypeOK
      <3> QED BY <3>1
    <2> QED BY <1>2, <2>1 DEF CallInv, QueueLink
  <1> QED BY <1>1, <1>2

LEMMA StackKeeps ==
  ASSUME CallInv, NEW c \in Calls, \A d \in Calls : d # c => pc'[d] = pc[d],
         pc[c] \notin {"authorizing", "unlocking", "dead"} \/ pc'[c] \in {pc[c], "dead"},
         UNCHANGED stack
  PROVE  StackLink'
  <1>1. ASSUME NEW i \in 1..Len(stack)
        PROVE  pc'[stack[i].caller] \in {PlaceOf(stack[i].method), "dead"}
    <2>1. stack[i].caller \in Calls
      BY Callers DEF CallInv
    <2>2. pc[stack[i].caller] \in {PlaceOf(stack[i].method), "dead"}
      BY DEF CallInv, StackLink
    <2> QED BY <2>1, <2>2 DEF PlaceOf
  <1> QED BY <1>1 DEF StackLink

\* A step of a call that the server does not notice.
LEMMA MoveKeeps ==
  ASSUME CallInv, NEW c \in Calls, NEW p \in Places, Goto(c, p), UNCHANGED tfVars,
         pc[c] \notin {"authorizing", "unlocking", "queued", "dead"} \/ p = "dead",
         p \notin {"rejected", "locked", "renewing", "unlocking"}
  PROVE  /\ pc' \in [Calls -> Places]
         /\ Links'
  <1>1. /\ pc' \in [Calls -> Places]
        /\ pc'[c] = p
        /\ \A d \in Calls : d # c => pc'[d] = pc[d]
    BY Moved DEF CallInv
  <1>2. UNCHANGED <<m_spLockForRenew, m_lstRetryRequest, extConn, stack>>
    BY DEF tfVars
  <1>3. QueueLink' /\ StackLink'
    BY <1>1, <1>2, QueueKeeps, StackKeeps
  <1>4. RejectedLink'
    BY <1>1, <1>2 DEF CallInv, RejectedLink
  <1>5. RenewLink'
    BY <1>1, <1>2 DEF CallInv, RenewLink, Renewer
  <1> QED BY <1>1, <1>3, <1>4, <1>5 DEF Links

\* A new activation of a call that was in no method before.
LEMMA EnterKeeps ==
  ASSUME CallInv, NEW c \in Calls, NEW f \in Activation, f.caller = c,
         Goto(c, PlaceOf(f.method)), pc[c] \notin {"authorizing", "unlocking", "queued", "dead"},
         stack' = << f >> \o stack, UNCHANGED m_lstRetryRequest
  PROVE  /\ pc' \in [Calls -> Places]
         /\ QueueLink'
         /\ StackLink'
  <1>1. /\ pc' \in [Calls -> Places]
        /\ pc'[c] = PlaceOf(f.method)
        /\ \A d \in Calls : d # c => pc'[d] = pc[d]
    BY Moved DEF CallInv, PlaceOf, Places
  <1>2. stack \in Seq(Activation) /\ m_lstRetryRequest \in Seq(Calls)
    BY DEF CallInv, TFInv, TFTypeOK
  <1>3. /\ stack'[1] = f
        /\ \A i \in 1..Len(stack') : i = 1 \/ (i - 1 \in 1..Len(stack) /\ stack'[i] = stack[i - 1])
    BY <1>2, Push
  <1>4. QueueLink'
    BY <1>1, QueueKeeps
  <1>5. StackLink'
    <2>1. ASSUME NEW i \in 1..Len(stack')
          PROVE  pc'[stack'[i].caller] \in {PlaceOf(stack'[i].method), "dead"}
      <3>1. CASE i = 1
        BY <1>1, <1>3, <3>1
      <3>2. CASE i # 1
        <4>1. i - 1 \in 1..Len(stack) /\ stack'[i] = stack[i - 1]
          BY <1>3, <3>2
        <4>2. /\ stack[i - 1].caller \in Calls
              /\ pc[stack[i - 1].caller] \in {PlaceOf(stack[i - 1].method), "dead"}
          BY <4>1, Callers DEF CallInv, StackLink
        <4>3. stack[i - 1].caller # c
          BY <4>2 DEF PlaceOf
        <4> QED BY <1>1, <4>1, <4>2, <4>3
      <3> QED BY <3>1, <3>2
    <2> QED BY <2>1 DEF StackLink
  <1> QED BY <1>1, <1>4, <1>5

\* The innermost activation has ended, and its caller is anywhere but in a method.
LEMMA LeaveKeeps ==
  ASSUME CallInv, NEW c \in Calls, stack # << >>, Head(stack).caller = c,
         stack' = Tail(stack), NEW role,
         UNCHANGED extConn \/ extConn' = extConn \ {<<c, role>>},
         pc' \in [Calls -> Places], \A d \in Calls : d # c => pc'[d] = pc[d]
  PROVE  StackLink'
  <1>1. \A i \in 1..Len(stack') : \E j \in 1..Len(stack) :
          stack'[i] = stack[j] /\ stack[j].caller # c
    BY PopKeeps DEF CallInv
  <1>2. ASSUME NEW i \in 1..Len(stack')
        PROVE  pc'[stack'[i].caller] \in {PlaceOf(stack'[i].method), "dead"}
    <2>1. PICK j \in 1..Len(stack) : stack'[i] = stack[j] /\ stack[j].caller # c
      BY <1>1
    <2>2. /\ stack[j].caller \in Calls
          /\ pc[stack[j].caller] \in {PlaceOf(stack[j].method), "dead"}
      BY Callers DEF CallInv, StackLink
    <2> QED BY <2>1, <2>2
  <1> QED BY <1>2 DEF StackLink

-----------------------------------------------------------------------------
(* The steps: each is one of the server's specification, and keeps the links. *)

LEMMA OnLoadingStep ==
  ASSUME CallInv, NEW c \in Calls, OnLoading(c)
  PROVE  [TFNext]_tfVars /\ issued' = issued /\ pc' \in [Calls -> Places] /\ Links'
  <1>1. pc[c] = "loading" /\ issued' = issued
    BY DEF OnLoading, serviceVars
  <1>2. CASE AuthorizeRequest(c) /\ Goto(c, "authorizing")
    <2> DEFINE f == [method |-> "AuthorizeRequest", caller |-> c, succeeded |-> TRUE, callee |-> c]
    <2>1. [TFNext]_tfVars
      BY <1>1, <1>2, NotInCall DEF TFNext, ClientCalls
    <2>2. f \in Activation /\ PlaceOf(f.method) = "authorizing" /\ f.caller = c
      BY DEF Activation, PlaceOf
    <2>3. /\ stack' = << f >> \o stack
          /\ UNCHANGED <<m_lstRetryRequest, m_spLockForRenew>>
          /\ extConn' = extConn \cup {<<c, "loading">>}
      BY <1>2 DEF AuthorizeRequest, GetTokenServer
    <2>4. pc' \in [Calls -> Places] /\ QueueLink' /\ StackLink'
      BY <1>1, <1>2, <2>2, <2>3, EnterKeeps
    <2>5. pc'[c] = "authorizing" /\ \A d \in Calls : d # c => pc'[d] = pc[d]
      BY <1>2, Moved DEF CallInv, Places
    <2>6. RejectedLink' /\ RenewLink'
      BY <2>3, <2>5 DEF CallInv, RejectedLink, RenewLink, Renewer
    <2> QED BY <1>1, <2>1, <2>4, <2>6 DEF Links
  <1>3. CASE Goto(c, "opened") /\ UNCHANGED tfVars
    BY <1>1, <1>3, MoveKeeps DEF Places
  <1> QED BY <1>2, <1>3 DEF OnLoading

LEMMA AuthorizedStep ==
  ASSUME CallInv, NEW c \in Calls, Authorized(c)
  PROVE  [TFNext]_tfVars /\ issued' = issued /\ pc' \in [Calls -> Places] /\ Links'
  <1>1. /\ AuthorizeRequestReturn(c)
        /\ issued' = issued
        /\ stack # << >>
        /\ Head(stack).caller = c
        /\ Head(stack).method = "AuthorizeRequest"
        /\ stack' = Tail(stack)
        /\ ReleaseConnection(c, "loading")
        /\ extConn' = extConn \ {<<c, "loading">>}
    BY DEF Authorized, AuthorizeRequestReturn, ReleaseConnection, serviceVars
  <1>2. [TFNext]_tfVars
    BY <1>1 DEF TFNext, ServerSteps
  <1>3. pc[c] \in {"authorizing", "dead"}
    <2>1. Head(stack) = stack[1] /\ 1 \in 1..Len(stack)
      BY <1>1, Pop DEF CallInv, TFInv, TFTypeOK
    <2> QED BY <1>1, <2>1 DEF CallInv, StackLink, PlaceOf
  <1>4. /\ pc' \in [Calls -> Places]
        /\ pc'[c] \in {"opened", "dead"}
        /\ \A d \in Calls : d # c => pc'[d] = pc[d]
    BY <1>3, Moved DEF CallInv, Authorized, Places
  <1>5. StackLink'
    BY <1>1, <1>4, LeaveKeeps
  <1>6. RejectedLink'
    BY <1>1, <1>4 DEF CallInv, RejectedLink
  <1>7. extConn' = {} \/ UNCHANGED <<m_spLockForRenew, m_lstRetryRequest>>
    BY <1>1 DEF ReleaseConnection
  <1>8. RenewLink'
    BY <1>1, <1>4, <1>7 DEF CallInv, RenewLink, Renewer
  <1>9. QueueLink'
    <2>1. pc[c] = "dead" => pc'[c] = "dead"
      BY DEF Authorized
    <2>2. UNCHANGED m_lstRetryRequest \/ m_lstRetryRequest' = << >>
      BY <1>1 DEF ReleaseConnection
    <2> QED BY <1>3, <1>4, <2>1, <2>2, QueueKeeps
  <1> QED BY <1>1, <1>2, <1>4, <1>5, <1>6, <1>8, <1>9 DEF Links

LEMMA OnCompleteStep ==
  ASSUME CallInv, NEW c \in Calls, OnComplete(c)
  PROVE  [TFNext]_tfVars /\ issued' = issued /\ pc' \in [Calls -> Places] /\ Links'
  <1>1. pc[c] = "answered" /\ issued' = issued
    BY DEF OnComplete, serviceVars
  <1>2. CASE OnFinish(c)
    <2>1. Goto(c, "ended") /\ UNCHANGED tfVars
      BY <1>2 DEF OnFinish
    <2> QED BY <1>1, <2>1, MoveKeeps DEF Places
  <1>3. CASE OnRejected(c)
    <2>1. /\ CanRetryImmediately(c)
          /\ \E p \in {"rejected", "loading"} : Goto(c, p)
      BY <1>3 DEF OnRejected, Continue
    <2>2. [TFNext]_tfVars
      BY <1>1, <2>1, NotInCall DEF TFNext, ClientCalls
    <2>3. /\ extConn' = extConn \cup {<<c, "complete">>}
          /\ UNCHANGED <<m_spLockForRenew, m_lstRetryRequest, stack>>
      BY <2>1 DEF CanRetryImmediately, GetTokenServer
    <2>4. /\ pc' \in [Calls -> Places]
          /\ pc'[c] \in {"rejected", "loading"}
          /\ \A d \in Calls : d # c => pc'[d] = pc[d]
      BY <2>1, Moved DEF CallInv, Places
    <2>5. QueueLink' /\ StackLink'
      BY <1>1, <2>3, <2>4, QueueKeeps, StackKeeps
    <2>6. RejectedLink' /\ RenewLink'
      BY <2>3, <2>4 DEF CallInv, RejectedLink, RenewLink, Renewer
    <2> QED BY <1>1, <2>2, <2>4, <2>5, <2>6 DEF Links
  <1> QED BY <1>2, <1>3 DEF OnComplete

\* InitRequest, Send, ServiceAnswers: the server does not notice.
LEMMA QuietStep ==
  ASSUME CallInv, NEW c \in Calls, InitRequest(c) \/ Send(c) \/ ServiceAnswers(c)
  PROVE  [TFNext]_tfVars /\ issued' = issued /\ pc' \in [Calls -> Places] /\ Links'
  <1>1. /\ UNCHANGED tfVars
        /\ issued' = issued
        /\ pc[c] \in {"new", "opened", "sent"}
    BY DEF InitRequest, Send, ServiceAnswers, serviceVars
  <1>2. PICK p \in {"loading", "sent", "ended", "answered"} : Goto(c, p)
    BY DEF InitRequest, Send, ServiceAnswers
  <1> QED BY <1>1, <1>2, MoveKeeps DEF Places

LEMMA RenewInitStep ==
  ASSUME CallInv, NEW c \in Calls, RenewInit(c)
  PROVE  [TFNext]_tfVars /\ issued' = issued /\ pc' \in [Calls -> Places] /\ Links'
  <1>1. /\ pc[c] = "rejected"
        /\ issued' = issued
        /\ ~InCall(c)
        /\ MayLock(c)
    BY NotInCall, NotDeferred DEF RenewInit, serviceVars, MayLock, CallInv, RejectedLink
  <1>2. CASE LockForRenew(c) /\ Goto(c, IF m_spLockForRenew = NULL THEN "locked" ELSE "queued")
    <2>1. [TFNext]_tfVars
      BY <1>1, <1>2 DEF TFNext, ClientCalls
    <2>2. UNCHANGED stack
      BY <1>2 DEF LockForRenew
    <2>3. CASE m_spLockForRenew = NULL
      <3>1. /\ m_spLockForRenew' = NewRequest(c)
            /\ extConn' = extConn \cup {<<c, "renewer">>}
            /\ UNCHANGED m_lstRetryRequest
        BY <1>2, <2>3 DEF LockForRenew
      <3>2. /\ pc' \in [Calls -> Places]
            /\ pc'[c] = "locked"
            /\ \A d \in Calls : d # c => pc'[d] = pc[d]
        BY <1>2, <2>3, Moved DEF CallInv, Places
      <3>3. QueueLink' /\ StackLink'
        BY <1>1, <2>2, <3>1, <3>2, QueueKeeps, StackKeeps
      <3>4. RejectedLink'
        BY <3>1, <3>2 DEF CallInv, RejectedLink
      <3>5. m_spLockForRenew' # NULL
        <4>1. m_strRefreshToken \in Generation
          BY <1>1 DEF MayLock, CallInv, TFInv, TFTypeOK, TokensIffRunning, Running
        <4>2. m_spLockForRenew' \in Request
          BY <3>1, <4>1 DEF NewRequest, Request
        <4> QED BY <4>2, NullAssumption
      <3>6. RenewLink'
        BY <2>3, <3>1, <3>2, <3>5 DEF CallInv, RenewLink, Renewer, NewRequest
      <3> QED BY <1>1, <2>1, <3>2, <3>3, <3>4, <3>6 DEF Links
    <2>4. CASE m_spLockForRenew # NULL
      <3>1. /\ m_lstRetryRequest' = Append(m_lstRetryRequest, c)
            /\ UNCHANGED <<m_spLockForRenew, extConn>>
        BY <1>2, <2>4 DEF LockForRenew
      <3>2. /\ pc' \in [Calls -> Places]
            /\ pc'[c] = "queued"
            /\ \A d \in Calls : d # c => pc'[d] = pc[d]
        BY <1>2, <2>4, Moved DEF CallInv, Places
      <3>3. QueueLink'
        <4>1. m_lstRetryRequest \in Seq(Calls) /\ m_lstRetryRequest' \in Seq(Calls)
          BY <3>1 DEF CallInv, TFInv, TFTypeOK
        <4>2. \A i \in 1..Len(m_lstRetryRequest') :
                IF i \in 1..Len(m_lstRetryRequest)
                  THEN /\ m_lstRetryRequest'[i] = m_lstRetryRequest[i]
                       /\ m_lstRetryRequest[i] \in Calls
                       /\ m_lstRetryRequest[i] # c
                  ELSE i = Len(m_lstRetryRequest) + 1 /\ m_lstRetryRequest'[i] = c
          BY <1>1, <3>1, <4>1 DEF MayLock, Deferred
        <4>3. ASSUME NEW i \in 1..Len(m_lstRetryRequest')
              PROVE  pc'[m_lstRetryRequest'[i]] \in {"queued", "dead"}
          BY <3>2, <4>2 DEF CallInv, QueueLink
        <4>4. ASSUME NEW i \in 1..Len(m_lstRetryRequest'), NEW j \in 1..Len(m_lstRetryRequest'),
                     m_lstRetryRequest'[i] = m_lstRetryRequest'[j]
              PROVE  i = j
          BY <4>2, <4>4 DEF CallInv, QueueLink
        <4> QED BY <4>3, <4>4 DEF QueueLink
      <3>4. StackLink'
        BY <1>1, <2>2, <3>2, StackKeeps
      <3>5. RejectedLink' /\ RenewLink'
        BY <3>1, <3>2 DEF CallInv, RejectedLink, RenewLink, Renewer
      <3> QED BY <1>1, <2>1, <3>2, <3>3, <3>4, <3>5 DEF Links
    <2> QED BY <2>3, <2>4
  <1>3. CASE LockForRenewThrows /\ Terminate(c)
    <2>1. [TFNext]_tfVars
      BY <1>1, <1>3 DEF TFNext, ClientCalls
    <2>2. m_spLockForRenew = NULL /\ UNCHANGED <<m_lstRetryRequest, extConn, stack>>
      BY <1>3 DEF LockForRenewThrows
    <2>3. /\ pc' \in [Calls -> Places]
          /\ pc'[c] = "ended"
          /\ \A d \in Calls : d # c => pc'[d] = pc[d]
      BY <1>3, Moved DEF Terminate, CallInv, Places
    <2>4. QueueLink' /\ StackLink'
      BY <1>1, <2>2, <2>3, QueueKeeps, StackKeeps
    <2>5. RejectedLink' /\ RenewLink'
      BY <2>2, <2>3 DEF CallInv, RejectedLink, RenewLink, Renewer
    <2> QED BY <1>1, <2>1, <2>3, <2>4, <2>5 DEF Links
  <1> QED BY <1>2, <1>3 DEF RenewInit

LEMMA RenewSendStep ==
  ASSUME CallInv, NEW c \in Calls, RenewSend(c)
  PROVE  [TFNext]_tfVars /\ issued' = issued /\ pc' \in [Calls -> Places] /\ Links'
  <1>1. /\ pc[c] = "locked"
        /\ issued' = issued
        /\ ~InCall(c)
        /\ Renewer(c)
        /\ m_spLockForRenew.status = "open"
    BY NotInCall DEF RenewSend, serviceVars, CallInv, RenewLink
  <1>2. CASE SendRenew /\ Goto(c, "renewing")
    <2>1. [TFNext]_tfVars
      BY <1>1, <1>2 DEF TFNext, ClientCalls
    <2>2. /\ m_spLockForRenew' = [m_spLockForRenew EXCEPT !.status = "sent"]
          /\ UNCHANGED <<m_lstRetryRequest, extConn, stack>>
      BY <1>2 DEF SendRenew
    <2>3. /\ pc' \in [Calls -> Places]
          /\ pc'[c] = "renewing"
          /\ \A d \in Calls : d # c => pc'[d] = pc[d]
      BY <1>2, Moved DEF CallInv, Places
    <2>4. QueueLink' /\ StackLink' /\ RejectedLink'
      BY <1>1, <2>2, <2>3, QueueKeeps, StackKeeps DEF CallInv, RejectedLink
    <2>5. m_spLockForRenew \in Request
      BY <1>1 DEF Renewer, CallInv, TFInv, TFTypeOK
    <2>6. m_spLockForRenew' \in Request /\ m_spLockForRenew'.sink = c
      BY <1>1, <2>2, <2>5 DEF Request, Renewer
    <2>7. RenewLink'
      <3>1. ASSUME NEW d \in Calls, pc'[d] \in {"locked", "renewing", "unlocking"}
            PROVE  d = c /\ <<c, "renewer">> \in extConn
        <4>1. pc[d] \in {"locked", "renewing", "unlocking"}
          BY <1>1, <2>3, <3>1
        <4>2. Renewer(d) /\ <<d, "renewer">> \in extConn
          BY <4>1 DEF CallInv, RenewLink
        <4> QED BY <1>1, <4>2, OneRenewer
      <3> QED BY <2>2, <2>3, <2>6, <3>1, NullAssumption DEF RenewLink, Renewer
    <2> QED BY <1>1, <2>1, <2>3, <2>4, <2>7 DEF Links
  <1>3. CASE Terminate(c) /\ UNCHANGED tfVars
    <2>1. Goto(c, "ended")
      BY <1>3 DEF Terminate
    <2> QED BY <1>1, <1>3, <2>1, MoveKeeps DEF Places
  <1> QED BY <1>2, <1>3 DEF RenewSend

\* After a step that takes the POST away from its only holder, which moves on.
LEMMA RenewerLeaves ==
  ASSUME CallInv, NEW c \in Calls, Renewer(c),
         pc'[c] \notin {"locked", "renewing", "unlocking", "rejected"},
         \A d \in Calls : pc'[d] = pc[d] \/ pc'[d] \notin {"locked", "renewing", "unlocking", "rejected"},
         UNCHANGED extConn
  PROVE  RejectedLink' /\ RenewLink'
  <1>1. RejectedLink'
    BY DEF CallInv, RejectedLink
  <1>2. ASSUME NEW d \in Calls, pc'[d] \in {"locked", "renewing", "unlocking"}
        PROVE  FALSE
    <2>1. pc'[d] = pc[d] /\ d # c
      BY <1>2
    <2>2. Renewer(d)
      BY <1>2, <2>1 DEF CallInv, RenewLink
    <2> QED BY <2>1, <2>2, OneRenewer
  <1> QED BY <1>1, <1>2 DEF RenewLink

LEMMA RenewCompleteStep ==
  ASSUME CallInv, NEW c \in Calls, RenewComplete(c)
  PROVE  [TFNext]_tfVars /\ issued' = issued /\ pc' \in [Calls -> Places] /\ Links'
  <1>1. /\ pc[c] = "renewing"
        /\ issued' = issued
        /\ ~InCall(c)
        /\ Renewer(c)
        /\ MayUnLock(c)
        /\ UnLockFromRenew(c)
        /\ UNCHANGED <<m_lstRetryRequest, extConn>>
    BY NotInCall DEF RenewComplete, UnLockFromRenew, serviceVars, CallInv, RenewLink, MayUnLock
  <1>2. [TFNext]_tfVars
    BY <1>1 DEF TFNext, ClientCalls
  <1>3. CASE Throws(m_spLockForRenew)
    <2>1. Goto(c, "ended") /\ UNCHANGED stack
      BY <1>1, <1>3 DEF RenewComplete, Terminate, UnLockFromRenew
    <2>2. /\ pc' \in [Calls -> Places]
          /\ pc'[c] = "ended"
          /\ \A d \in Calls : d # c => pc'[d] = pc[d]
      BY <2>1, Moved DEF CallInv, Places
    <2>3. QueueLink' /\ StackLink'
      BY <1>1, <2>1, <2>2, QueueKeeps, StackKeeps
    <2>4. RejectedLink' /\ RenewLink'
      BY <1>1, <2>2, RenewerLeaves
    <2> QED BY <1>1, <1>2, <2>2, <2>3, <2>4 DEF Links
  <1>4. CASE ~Throws(m_spLockForRenew)
    <2> DEFINE f == [method |-> "UnLockFromRenew", caller |-> c,
                     succeeded |-> m_spLockForRenew.status = "200", callee |-> NULL]
    <2>1. Goto(c, "unlocking") /\ stack' = << f >> \o stack /\ UNCHANGED m_spLockForRenew
      BY <1>1, <1>4 DEF RenewComplete, UnLockFromRenew
    <2>2. f \in Activation /\ f.caller = c /\ PlaceOf(f.method) = "unlocking"
      BY DEF Activation, PlaceOf
    <2>3. pc' \in [Calls -> Places] /\ QueueLink' /\ StackLink'
      BY <1>1, <2>1, <2>2, EnterKeeps
    <2>4. pc'[c] = "unlocking" /\ \A d \in Calls : d # c => pc'[d] = pc[d]
      BY <2>1, Moved DEF CallInv, Places
    <2>5. RejectedLink' /\ RenewLink'
      BY <1>1, <2>1, <2>4 DEF CallInv, RejectedLink, RenewLink, Renewer
    <2> QED BY <1>1, <1>2, <2>3, <2>5 DEF Links
  <1> QED BY <1>3, <1>4

LEMMA DrainerRenews ==
  ASSUME CallInv, NEW c \in Calls, Draining(c)
  PROVE  /\ Renewer(c)
         /\ pc[c] \in {"unlocking", "dead"}
         /\ stack # << >>
         /\ Head(stack).caller = c
         /\ Head(stack).method = "UnLockFromRenew"
  <1>1. /\ stack # << >>
        /\ Head(stack).caller = c
        /\ Head(stack).method = "UnLockFromRenew"
    BY DEF Draining
  <1>2. Head(stack) = stack[1] /\ 1 \in 1..Len(stack)
    BY <1>1, Pop DEF CallInv, TFInv, TFTypeOK
  <1> QED BY <1>1, <1>2 DEF CallInv, StackLink, PlaceOf, TFInv, DrainHoldsLock

\* The queue without its head, which has moved on or is dead.
LEMMA TailKeeps ==
  ASSUME CallInv, m_lstRetryRequest # << >>, m_lstRetryRequest' = Tail(m_lstRetryRequest),
         \A d \in Calls : d = Head(m_lstRetryRequest) \/ pc'[d] = pc[d]
           \/ pc[d] \notin {"queued", "dead"}
  PROVE  QueueLink'
  <1>1. /\ Head(m_lstRetryRequest) = m_lstRetryRequest[1]
        /\ 1 \in 1..Len(m_lstRetryRequest)
        /\ \A i \in 1..Len(m_lstRetryRequest') :
             i + 1 \in 1..Len(m_lstRetryRequest) /\ m_lstRetryRequest'[i] = m_lstRetryRequest[i + 1]
    BY Pop DEF CallInv, TFInv, TFTypeOK
  <1>2. ASSUME NEW i \in 1..Len(m_lstRetryRequest')
        PROVE  pc'[m_lstRetryRequest'[i]] \in {"queued", "dead"}
    <2>1. /\ i + 1 \in 1..Len(m_lstRetryRequest)
          /\ i + 1 # 1
          /\ m_lstRetryRequest'[i] = m_lstRetryRequest[i + 1]
      BY <1>1
    <2>2. m_lstRetryRequest[i + 1] \in Calls
      BY <2>1 DEF CallInv, TFInv, TFTypeOK
    <2>3. /\ pc[m_lstRetryRequest[i + 1]] \in {"queued", "dead"}
          /\ m_lstRetryRequest[i + 1] # m_lstRetryRequest[1]
      BY <1>1, <2>1 DEF CallInv, QueueLink
    <2> QED BY <1>1, <2>1, <2>2, <2>3
  <1>3. ASSUME NEW i \in 1..Len(m_lstRetryRequest'), NEW j \in 1..Len(m_lstRetryRequest'),
               m_lstRetryRequest'[i] = m_lstRetryRequest'[j]
        PROVE  i = j
    <2>1. i + 1 = j + 1
      BY <1>1, <1>3 DEF CallInv, QueueLink
    <2> QED BY <2>1
  <1> QED BY <1>2, <1>3 DEF QueueLink

LEMMA DrainedWaits ==
  ASSUME CallInv, m_lstRetryRequest # << >>
  PROVE  /\ Head(m_lstRetryRequest) \in Calls
         /\ pc[Head(m_lstRetryRequest)] \in {"queued", "dead"}
  <1>1. /\ Head(m_lstRetryRequest) \in Calls
        /\ Head(m_lstRetryRequest) = m_lstRetryRequest[1]
        /\ 1 \in 1..Len(m_lstRetryRequest)
    BY Pop DEF CallInv, TFInv, TFTypeOK
  <1> QED BY <1>1 DEF CallInv, QueueLink

LEMMA DrainStep ==
  ASSUME CallInv, NEW c \in Calls, Drain(c)
  PROVE  [TFNext]_tfVars /\ issued' = issued /\ pc' \in [Calls -> Places] /\ Links'
  <1> DEFINE callee == Head(m_lstRetryRequest)
  <1>1. /\ Draining(c)
        /\ m_lstRetryRequest # << >>
        /\ issued' = issued
    BY DEF Drain, serviceVars
  <1>2. /\ Renewer(c)
        /\ pc[c] \in {"unlocking", "dead"}
        /\ stack # << >>
        /\ Head(stack).caller = c
        /\ Head(stack).method = "UnLockFromRenew"
    BY <1>1, DrainerRenews
  <1>3. callee \in Calls /\ pc[callee] \in {"queued", "dead"}
    BY <1>1, DrainedWaits
  <1>4. CASE pc[callee] = "dead"
    <2>1. /\ CallBackFault(c)
          /\ m_lstRetryRequest' = Tail(m_lstRetryRequest)
          /\ stack' = Tail(stack)
          /\ UNCHANGED extConn
      BY <1>4 DEF Drain, CallBackFault
    <2>2. [TFNext]_tfVars
      BY <2>1 DEF TFNext, ServerSteps
    <2>3. /\ pc' \in [Calls -> Places]
          /\ pc'[c] \in {"ended", "dead"}
          /\ \A d \in Calls : d # c => pc'[d] = pc[d]
          /\ pc[c] = "dead" => pc'[c] = "dead"
      <3>1. CASE pc[c] = "unlocking"
        <4>1. Goto(c, "ended")
          BY <1>4, <3>1 DEF Drain, Terminate
        <4> QED BY <3>1, <4>1, Moved DEF CallInv, Places
      <3>2. CASE pc[c] = "dead"
        BY <1>4, <3>2 DEF Drain, CallInv
      <3> QED BY <1>2, <3>1, <3>2
    <2>4. StackLink'
      BY <1>2, <2>1, <2>3, LeaveKeeps
    <2>5. QueueLink'
      BY <1>1, <1>2, <2>1, <2>3, TailKeeps
    <2>6. RejectedLink' /\ RenewLink'
      BY <1>2, <2>1, <2>3, RenewerLeaves
    <2> QED BY <1>1, <2>2, <2>3, <2>4, <2>5, <2>6 DEF Links
  <1>5. CASE pc[callee] = "queued"
    <2> DEFINE g == [Head(stack) EXCEPT !.callee = callee]
    <2>1. /\ CallBack(c)
          /\ m_lstRetryRequest' = Tail(m_lstRetryRequest)
          /\ stack' = << g >> \o Tail(stack)
          /\ UNCHANGED <<m_spLockForRenew, extConn>>
      BY <1>5 DEF Drain, CallBack
    <2>2. [TFNext]_tfVars
      BY <2>1 DEF TFNext, ServerSteps
    <2>3. PICK p \in {"loading", "ended"} : Goto(callee, p)
      BY <1>5 DEF Drain, Continue, Terminate
    <2>4. /\ pc' \in [Calls -> Places]
          /\ pc'[callee] \in {"loading", "ended"}
          /\ \A d \in Calls : d # callee => pc'[d] = pc[d]
      BY <1>3, <2>3, Moved DEF CallInv, Places
    <2>5. QueueLink'
      BY <1>1, <2>1, <2>4, TailKeeps
    <2>6. RejectedLink' /\ RenewLink'
      BY <1>5, <2>1, <2>4 DEF CallInv, RejectedLink, RenewLink, Renewer
    <2>7. StackLink'
      <3>1. /\ stack \in Seq(Activation)
            /\ Head(stack) = stack[1] /\ Head(stack) \in Activation
            /\ 1 \in 1..Len(stack)
            /\ Tail(stack) \in Seq(Activation)
            /\ \A i \in 1..Len(Tail(stack)) :
                 i + 1 \in 1..Len(stack) /\ Tail(stack)[i] = stack[i + 1]
        BY <1>2, Pop DEF CallInv, TFInv, TFTypeOK
      <3>2. g \in Activation /\ g.method = stack[1].method /\ g.caller = stack[1].caller
        BY <1>3, <3>1 DEF Activation
      <3>3. /\ stack'[1] = g
            /\ \A i \in 1..Len(stack') :
                 i = 1 \/ (i - 1 \in 1..Len(Tail(stack)) /\ stack'[i] = Tail(stack)[i - 1])
        BY <2>1, <3>1, <3>2, Push
      <3>4. ASSUME NEW i \in 1..Len(stack')
            PROVE  pc'[stack'[i].caller] \in {PlaceOf(stack'[i].method), "dead"}
        <4>1. PICK j \in 1..Len(stack) :
                stack'[i].caller = stack[j].caller /\ stack'[i].method = stack[j].method
          <5>1. CASE i = 1
            BY <3>1, <3>2, <3>3, <5>1
          <5>2. CASE i # 1
            <6>1. i - 1 \in 1..Len(Tail(stack)) /\ stack'[i] = Tail(stack)[i - 1]
              BY <3>3, <5>2
            <6>2. (i - 1) + 1 \in 1..Len(stack) /\ Tail(stack)[i - 1] = stack[(i - 1) + 1]
              BY <3>1, <6>1
            <6> QED BY <6>1, <6>2
          <5> QED BY <5>1, <5>2
        <4>2. stack[j].caller \in Calls /\ pc[stack[j].caller] \in {PlaceOf(stack[j].method), "dead"}
          BY Callers DEF CallInv, StackLink
        <4>3. stack[j].caller # callee
          BY <1>5, <4>2 DEF PlaceOf
        <4> QED BY <2>4, <4>1, <4>2, <4>3
      <3> QED BY <3>4 DEF StackLink
    <2> QED BY <1>1, <2>2, <2>4, <2>5, <2>6, <2>7 DEF Links
  <1> QED BY <1>3, <1>4, <1>5

LEMMA RenewReturnStep ==
  ASSUME CallInv, NEW c \in Calls, RenewReturn(c)
  PROVE  [TFNext]_tfVars /\ issued' = issued /\ pc' \in [Calls -> Places] /\ Links'
  <1>1. /\ UnLockReturn(c)
        /\ Draining(c)
        /\ stack' = Tail(stack)
        /\ UNCHANGED <<m_lstRetryRequest, extConn>>
        /\ issued' = issued
    BY DEF RenewReturn, UnLockReturn, serviceVars
  <1>2. [TFNext]_tfVars
    BY <1>1 DEF TFNext, ServerSteps
  <1>3. /\ Renewer(c)
        /\ pc[c] \in {"unlocking", "dead"}
        /\ stack # << >>
        /\ Head(stack).caller = c
    BY <1>1, DrainerRenews
  <1>4. /\ pc' \in [Calls -> Places]
        /\ pc'[c] \in {"loading", "ended", "dead"}
        /\ \A d \in Calls : d # c => pc'[d] = pc[d]
        /\ pc[c] = "dead" => pc'[c] = "dead"
    <2>1. CASE pc[c] = "unlocking"
      <3>1. PICK p \in {"loading", "ended"} : Goto(c, p)
        BY <2>1 DEF RenewReturn, Continue, Terminate
      <3> QED BY <2>1, <3>1, Moved DEF CallInv, Places
    <2>2. CASE pc[c] = "dead"
      BY <2>2 DEF RenewReturn, CallInv
    <2> QED BY <1>3, <2>1, <2>2
  <1>5. QueueLink'
    BY <1>1, <1>3, <1>4, QueueKeeps
  <1>6. StackLink'
    BY <1>1, <1>3, <1>4, LeaveKeeps
  <1>7. RejectedLink' /\ RenewLink'
    BY <1>1, <1>3, <1>4, RenewerLeaves
  <1> QED BY <1>1, <1>2, <1>4, <1>5, <1>6, <1>7 DEF Links

LEMMA DropServerStep ==
  ASSUME CallInv, NEW c \in Calls, DropServer(c)
  PROVE  [TFNext]_tfVars /\ issued' = issued /\ pc' \in [Calls -> Places] /\ Links'
  <1>1. PICK role \in {"complete", "renewer"} : MayDrop(c, role) /\ Release(c, role)
    BY DEF DropServer
  <1>2. /\ UNCHANGED <<pc, stack>>
        /\ issued' = issued
        /\ extConn' = extConn \ {<<c, role>>}
        /\ \/ extConn' = {} /\ m_lstRetryRequest' = << >>
           \/ UNCHANGED <<m_spLockForRenew, m_lstRetryRequest>>
    BY <1>1 DEF DropServer, Release, ReleaseConnection, callVars, serviceVars
  <1>3. pc[c] = "collected" => ~Unlocking(c)
    BY NotInCall DEF Unlocking, InCall
  <1>4. [TFNext]_tfVars
    BY <1>1, <1>3 DEF TFNext, ClientReleases, MayDrop
  <1>5. QueueLink' /\ StackLink'
    BY <1>2 DEF CallInv, QueueLink, StackLink
  <1>6. RejectedLink'
    BY <1>1, <1>2 DEF CallInv, RejectedLink, MayDrop
  <1>7. RenewLink'
    <2>1. ASSUME NEW d \in Calls, pc[d] \in {"locked", "renewing", "unlocking"}
          PROVE  <<d, "renewer">> \in extConn'
      <3>1. <<d, "renewer">> \in extConn
        BY <2>1 DEF CallInv, RenewLink
      <3>2. d # c \/ role # "renewer"
        BY <1>1, <2>1 DEF MayDrop
      <3> QED BY <1>2, <3>1, <3>2
    <2> QED BY <1>2, <2>1 DEF CallInv, RenewLink, Renewer
  <1> QED BY <1>2, <1>4, <1>5, <1>6, <1>7 DEF CallInv, Links

\* The token endpoint answers as the server expects: with a pair of tokens,
\* provided that there is no last generation.
LEMMA TokenEndpointStep ==
  ASSUME CallInv, Generation = Nat \ {0}, TokenEndpoint
  PROVE  [TFNext]_tfVars /\ issued' \in Nat \ {0} /\ pc' \in [Calls -> Places] /\ Links'
  <1> DEFINE pair == [access |-> issued + 1, refresh |-> issued + 1]
  <1>1. /\ Exchange
        /\ UNCHANGED pc
        /\ m_spLockForRenew # NULL
        /\ m_spLockForRenew.status = "sent"
    BY DEF TokenEndpoint, Exchange, callVars
  <1>2. pair \in TokenPair /\ issued' \in Nat \ {0}
    BY <1>1 DEF Exchange, TokenPair, CallInv
  <1>3. RenewAnswer
    BY <1>1, <1>2 DEF Exchange, RenewAnswer
  <1>4. PICK status_ \in Answered, pair_ \in TokenPair \cup {NoTokens}, parsed_ \in 0..3 :
          RenewAnswered(status_, pair_, parsed_)
    BY <1>3 DEF RenewAnswer, Answered
  <1>5. [TFNext]_tfVars
    BY <1>3 DEF TFNext
  <1>6. /\ UNCHANGED <<m_lstRetryRequest, extConn, stack>>
        /\ m_spLockForRenew' = [m_spLockForRenew EXCEPT
                                  !.status = status_, !.pair = pair_, !.parsed = parsed_]
    BY <1>4 DEF RenewAnswered
  <1>7. QueueLink' /\ StackLink' /\ RejectedLink'
    BY <1>1, <1>6 DEF CallInv, QueueLink, StackLink, RejectedLink
  <1>8. m_spLockForRenew \in Request
    BY <1>1 DEF CallInv, TFInv, TFTypeOK
  <1>9. m_spLockForRenew' \in Request /\ m_spLockForRenew'.sink = m_spLockForRenew.sink
    BY <1>6, <1>8 DEF Request
  <1>10. RenewLink'
    <2>1. m_spLockForRenew' # NULL
      BY <1>9, NullAssumption
    <2>2. \A d \in Calls : pc[d] # "locked"
      BY <1>1 DEF CallInv, RenewLink
    <2> QED BY <1>1, <1>6, <1>9, <2>1, <2>2 DEF CallInv, RenewLink, Renewer
  <1> QED BY <1>1, <1>2, <1>5, <1>7, <1>10 DEF CallInv, Links

LEMMA LibraryStep ==
  ASSUME CallInv, NEW c \in Calls, InitRequest(c) \/ Step(c)
  PROVE  [TFNext]_tfVars /\ issued' = issued /\ pc' \in [Calls -> Places] /\ Links'
  <1>1. CASE InitRequest(c) \/ Send(c) \/ ServiceAnswers(c)
    BY <1>1, QuietStep
  <1>2. CASE OnLoading(c)
    BY <1>2, OnLoadingStep
  <1>3. CASE Authorized(c)
    BY <1>3, AuthorizedStep
  <1>4. CASE OnComplete(c)
    BY <1>4, OnCompleteStep
  <1>5. CASE RenewInit(c)
    BY <1>5, RenewInitStep
  <1>6. CASE RenewSend(c)
    BY <1>6, RenewSendStep
  <1>7. CASE RenewComplete(c)
    BY <1>7, RenewCompleteStep
  <1>8. CASE Drain(c)
    BY <1>8, DrainStep
  <1>9. CASE RenewReturn(c)
    BY <1>9, RenewReturnStep
  <1>10. CASE DropServer(c)
    BY <1>10, DropServerStep
  <1> QED BY <1>1, <1>2, <1>3, <1>4, <1>5, <1>6, <1>7, <1>8, <1>9, <1>10 DEF Step, SendRequest

-----------------------------------------------------------------------------
(* What the creators see: their contract *)

Opening == {"loading", "authorizing", "opened"}
Underway == {"sent", "answered"}
Rejected == {"rejected", "locked", "renewing", "unlocking", "queued"}
Over == {"ended", "collected", "dead"}

\* How far a call is: what was sent, by its state and its place.  It is over
\* when it has finished, and notified only then.
Stage(c) ==
  /\ pc[c] = "new" => m_eState[c] = "InitialRequest" /\ sends[c] = 0
  /\ pc[c] \in Opening => \/ m_eState[c] = "InitialRequest" /\ sends[c] = 0
                          \/ m_eState[c] = "RetryOnce" /\ sends[c] = 1
  /\ pc[c] \in Underway => \/ m_eState[c] = "InitialRequest" /\ sends[c] = 1
                           \/ m_eState[c] = "RetryOnce" /\ sends[c] = 2
  /\ pc[c] \in Rejected => m_eState[c] = "InitialRequest" /\ sends[c] = 1
  /\ IF m_eState[c] = "Finish" THEN pc[c] \in Over ELSE notified[c] = << >>

StageInv ==
  /\ pc \in [Calls -> Places]
  /\ m_eState \in [Calls -> {"InitialRequest", "RetryOnce", "Finish"}]
  /\ notified \in [Calls -> Seq({"onSucceeded", "onFailed"})]
  /\ sends \in [Calls -> 0..2]
  /\ \A c \in Calls : Stage(c)

\* What the creators see of a step: nothing, or a step of the contract.
Seen == Contract!Next \/ UNCHANGED Contract!contractVars

OthersStay(c) ==
  \A d \in Calls : d # c => /\ pc'[d] = pc[d] /\ m_eState'[d] = m_eState[d]
                            /\ notified'[d] = notified[d] /\ sends'[d] = sends[d]

LEMMA StartedMeans ==
  ASSUME NEW c \in Calls
  PROVE  c \in started <=> pc[c] # "new"
  BY DEF started

\* One call has moved, and its new stage is as it should be.
LEMMA StageKeeps ==
  ASSUME StageInv, NEW c \in Calls, NEW p \in Places, Goto(c, p),
         m_eState' \in [Calls -> {"InitialRequest", "RetryOnce", "Finish"}],
         notified' \in [Calls -> Seq({"onSucceeded", "onFailed"})],
         sends' \in [Calls -> 0..2],
         OthersStay(c), Stage(c)'
  PROVE  StageInv'
  <1>1. pc' \in [Calls -> Places]
    BY Moved DEF StageInv
  <1>2. ASSUME NEW d \in Calls, d # c
        PROVE  Stage(d)'
    BY <1>2 DEF StageInv, Stage, OthersStay
  <1> QED BY <1>1, <1>2 DEF StageInv

LEMMA StartedKeeps ==
  ASSUME StageInv, NEW c \in Calls, NEW p \in Places \ {"new"}, Goto(c, p), pc[c] # "new"
  PROVE  UNCHANGED started
  <1>1. ASSUME NEW d \in Calls
        PROVE  pc'[d] # "new" <=> pc[d] # "new"
    BY Moved DEF StageInv
  <1> QED BY <1>1 DEF started

\* From one place to another, without a new state, request or notification.
LEMMA PlaceKeeps ==
  ASSUME StageInv, NEW c \in Calls, NEW p \in Places, Goto(c, p),
         UNCHANGED <<m_eState, notified, sends>>,
         \/ pc[c] \in Opening /\ p \in Opening
         \/ pc[c] \in Underway /\ p \in Underway
         \/ pc[c] = "answered" /\ m_eState[c] = "InitialRequest" /\ p = "rejected"
         \/ pc[c] \in Rejected /\ p \in Rejected
         \/ pc[c] # "new" /\ p \in Over
  PROVE  StageInv' /\ Seen
  <1>1. pc'[c] = p /\ \A d \in Calls : d # c => pc'[d] = pc[d]
    BY Moved DEF StageInv
  <1>2. Stage(c)'
    BY <1>1 DEF StageInv, Stage, Opening, Underway, Rejected, Over
  <1>3. OthersStay(c)
    BY <1>1 DEF OthersStay
  <1>4. StageInv'
    BY <1>2, <1>3, StageKeeps DEF StageInv
  <1>5. UNCHANGED started
    BY StartedKeeps DEF Opening, Underway, Rejected, Over
  <1> QED BY <1>4, <1>5 DEF Seen, Contract!contractVars

LEMMA ContinueKeeps ==
  ASSUME StageInv, NEW c \in Calls, Continue(c),
         pc[c] \in Rejected \cup {"answered"}, m_eState[c] = "InitialRequest"
  PROVE  StageInv' /\ Seen
  <1>1. /\ Goto(c, "loading")
        /\ m_eState' = [m_eState EXCEPT ![c] = "RetryOnce"]
        /\ UNCHANGED <<notified, sends>>
    BY DEF Continue
  <1>2. pc'[c] = "loading" /\ \A d \in Calls : d # c => pc'[d] = pc[d]
    BY <1>1, Moved DEF StageInv, Places
  <1>3. Stage(c)' /\ OthersStay(c)
    BY <1>1, <1>2 DEF StageInv, Stage, Opening, Underway, Rejected, Over, OthersStay
  <1>4. StageInv'
    BY <1>1, <1>3, StageKeeps DEF StageInv, Places
  <1>5. UNCHANGED started
    BY <1>1, StartedKeeps DEF Rejected, Places
  <1> QED BY <1>1, <1>4, <1>5 DEF Seen, Contract!contractVars

\* Terminate() notifies nobody.
LEMMA TerminateKeeps ==
  ASSUME StageInv, NEW c \in Calls, Terminate(c), pc[c] \in Rejected
  PROVE  StageInv' /\ Seen
  <1>1. /\ Goto(c, "ended")
        /\ m_eState' = [m_eState EXCEPT ![c] = "Finish"]
        /\ UNCHANGED <<notified, sends>>
    BY DEF Terminate, requestVars
  <1>2. pc'[c] = "ended" /\ \A d \in Calls : d # c => pc'[d] = pc[d]
    BY <1>1, Moved DEF StageInv, Places
  <1>3. Stage(c)' /\ OthersStay(c)
    BY <1>1, <1>2 DEF StageInv, Stage, Opening, Underway, Rejected, Over, OthersStay
  <1>4. StageInv'
    BY <1>1, <1>3, StageKeeps DEF StageInv, Places
  <1>5. UNCHANGED started
    BY <1>1, StartedKeeps DEF Rejected, Places
  <1> QED BY <1>1, <1>4, <1>5 DEF Seen, Contract!contractVars

LEMMA InitRequestSeen ==
  ASSUME StageInv, NEW c \in Calls, InitRequest(c)
  PROVE  StageInv' /\ Seen
  <1>1. /\ pc[c] = "new"
        /\ Goto(c, "loading")
        /\ UNCHANGED <<m_eState, notified, sends>>
    BY DEF InitRequest, requestVars
  <1>2. pc'[c] = "loading" /\ \A d \in Calls : d # c => pc'[d] = pc[d]
    BY <1>1, Moved DEF StageInv, Places
  <1>3. Stage(c)' /\ OthersStay(c)
    BY <1>1, <1>2 DEF StageInv, Stage, Opening, Underway, Rejected, Over, OthersStay
  <1>4. StageInv'
    BY <1>1, <1>3, StageKeeps DEF StageInv, Places
  <1>5. started' = started \cup {c}
    BY <1>2 DEF started
  <1>6. Contract!Start(c)
    BY <1>1, <1>5, StartedMeans DEF Contract!Start
  <1> QED BY <1>4, <1>6 DEF Seen, Contract!Next

\* The request goes out for the first or for the second time.
LEMMA SendSeen ==
  ASSUME StageInv, NEW c \in Calls, Send(c)
  PROVE  StageInv' /\ Seen
  <1>1. pc[c] = "opened" /\ UNCHANGED <<m_eState, notified>>
    BY DEF Send
  <1>2. CASE Goto(c, "sent") /\ sends' = [sends EXCEPT ![c] = @ + 1]
    <2>1. pc'[c] = "sent" /\ \A d \in Calls : d # c => pc'[d] = pc[d]
      BY <1>2, Moved DEF StageInv, Places
    <2>2. sends[c] \in {0, 1} /\ notified[c] = << >>
      BY <1>1 DEF StageInv, Stage, Opening, Over
    <2>3. /\ sends' \in [Calls -> 0..2]
          /\ sends'[c] = sends[c] + 1
          /\ \A d \in Calls : d # c => sends'[d] = sends[d]
      BY <1>2, <2>2 DEF StageInv
    <2>4. Stage(c)' /\ OthersStay(c)
      BY <1>1, <2>1, <2>3 DEF StageInv, Stage, Opening, Underway, Rejected, Over, OthersStay
    <2>5. StageInv'
      BY <1>1, <1>2, <2>3, <2>4, StageKeeps DEF StageInv, Places
    <2>6. UNCHANGED started
      BY <1>1, <1>2, StartedKeeps DEF Places
    <2>7. Contract!Transmit(c)
      BY <1>1, <1>2, <2>2, <2>6, StartedMeans DEF Contract!Transmit, Contract!Pending
    <2> QED BY <2>5, <2>7 DEF Seen, Contract!Next
  <1>3. CASE Goto(c, "ended") /\ UNCHANGED sends
    BY <1>1, <1>3, PlaceKeeps DEF Over, Places
  <1> QED BY <1>2, <1>3 DEF Send

LEMMA OnFinishSeen ==
  ASSUME StageInv, NEW c \in Calls, pc[c] = "answered", OnFinish(c)
  PROVE  StageInv' /\ Seen
  <1> DEFINE what == IF status[c] = "200" THEN "onSucceeded" ELSE "onFailed"
  <1>1. /\ Goto(c, "ended")
        /\ m_eState' = [m_eState EXCEPT ![c] = "Finish"]
        /\ notified' = [notified EXCEPT ![c] = Append(@, what)]
        /\ UNCHANGED sends
    BY DEF OnFinish
  <1>2. pc'[c] = "ended" /\ \A d \in Calls : d # c => pc'[d] = pc[d]
    BY <1>1, Moved DEF StageInv, Places
  <1>3. notified[c] = << >> /\ sends[c] > 0
    BY DEF StageInv, Stage, Underway, Over
  <1>4. notified' = [notified EXCEPT ![c] = << what >>]
    BY <1>1, <1>3
  <1>5. what \in {"onSucceeded", "onFailed"}
    OBVIOUS
  <1>6. /\ notified' \in [Calls -> Seq({"onSucceeded", "onFailed"})]
        /\ \A d \in Calls : d # c => notified'[d] = notified[d]
    BY <1>4 DEF StageInv
  <1>7. Stage(c)' /\ OthersStay(c)
    BY <1>1, <1>2, <1>6 DEF StageInv, Stage, Opening, Underway, Rejected, Over, OthersStay
  <1>8. StageInv'
    BY <1>1, <1>6, <1>7, StageKeeps DEF StageInv, Places
  <1>9. UNCHANGED started
    BY <1>1, StartedKeeps DEF Places
  <1>10. Contract!End(c)
    BY <1>1, <1>3, <1>4, <1>5, <1>9, StartedMeans DEF Contract!End, Contract!Pending
  <1> QED BY <1>8, <1>10 DEF Seen, Contract!Next

LEMMA OnCompleteSeen ==
  ASSUME StageInv, NEW c \in Calls, OnComplete(c)
  PROVE  StageInv' /\ Seen
  <1>1. pc[c] = "answered"
    BY DEF OnComplete
  <1>2. CASE OnFinish(c)
    BY <1>1, <1>2, OnFinishSeen
  <1>3. CASE OnRejected(c)
    <2>1. CASE Continue(c)
      BY <1>1, <1>3, <2>1, ContinueKeeps DEF OnRejected
    <2>2. CASE Goto(c, "rejected") /\ UNCHANGED <<m_eState, notified, sends>>
      BY <1>1, <1>3, <2>2, PlaceKeeps DEF OnRejected, Places
    <2> QED BY <1>3, <2>1, <2>2 DEF OnRejected, requestVars
  <1> QED BY <1>2, <1>3 DEF OnComplete

LEMMA RenewerSeen ==
  ASSUME StageInv, NEW c \in Calls, RenewInit(c) \/ RenewSend(c) \/ RenewComplete(c)
  PROVE  StageInv' /\ Seen
  <1>1. pc[c] \in Rejected
    BY DEF RenewInit, RenewSend, RenewComplete, Rejected
  <1>2. \/ Terminate(c)
        \/ \E p \in {"locked", "queued", "renewing", "unlocking"} :
             Goto(c, p) /\ UNCHANGED <<m_eState, notified, sends>>
    BY DEF RenewInit, RenewSend, RenewComplete, requestVars
  <1> QED BY <1>1, <1>2, TerminateKeeps, PlaceKeeps DEF Rejected, Places

LEMMA DrainSeen ==
  ASSUME CallInv, StageInv, NEW c \in Calls, Drain(c) \/ RenewReturn(c)
  PROVE  StageInv' /\ Seen
  <1>1. CASE UNCHANGED <<pc, m_eState, notified, sends>>
    BY <1>1 DEF StageInv, Stage, Seen, Contract!contractVars, started
  <1>2. CASE \E d \in Calls : pc[d] \in Rejected /\ (Continue(d) \/ Terminate(d))
    <2>1. PICK d \in Calls : pc[d] \in Rejected /\ (Continue(d) \/ Terminate(d))
      BY <1>2
    <2>2. m_eState[d] = "InitialRequest"
      BY <2>1 DEF StageInv, Stage
    <2> QED BY <2>1, <2>2, ContinueKeeps, TerminateKeeps
  <1>3. CASE RenewReturn(c)
    <2>1. CASE pc[c] = "unlocking"
      <3>1. Continue(c) \/ Terminate(c)
        BY <1>3, <2>1 DEF RenewReturn
      <3> QED BY <1>2, <2>1, <3>1 DEF Rejected
    <2>2. CASE pc[c] # "unlocking"
      BY <1>1, <1>3, <2>2 DEF RenewReturn, requestVars
    <2> QED BY <2>1, <2>2
  <1>4. CASE Drain(c)
    <2> DEFINE callee == Head(m_lstRetryRequest)
    <2>1. callee \in Calls /\ pc[callee] \in {"queued", "dead"}
      BY <1>4, DrainedWaits DEF Drain
    <2>2. CASE pc[callee] = "dead"
      BY <1>1, <1>2, <1>4, <2>2 DEF Drain, Rejected, requestVars
    <2>3. CASE pc[callee] = "queued"
      <3>1. Continue(callee) \/ Terminate(callee)
        BY <1>4, <2>3 DEF Drain
      <3> QED BY <1>2, <2>1, <2>3, <3>1 DEF Rejected
    <2> QED BY <2>1, <2>2, <2>3
  <1> QED BY <1>3, <1>4

\* The other steps move a call at most from one place to the next.
LEMMA QuietSeen ==
  ASSUME StageInv, NEW c \in Calls,
         OnLoading(c) \/ Authorized(c) \/ DropServer(c) \/ ServiceAnswers(c)
  PROVE  StageInv' /\ Seen
  <1>1. UNCHANGED <<m_eState, notified, sends>>
    BY DEF OnLoading, Authorized, DropServer, ServiceAnswers, callVars, requestVars
  <1>2. CASE UNCHANGED pc
    BY <1>1, <1>2 DEF StageInv, Stage, Seen, Contract!contractVars, started
  <1>3. CASE OnLoading(c)
    <2>1. pc[c] = "loading" /\ \E p \in {"authorizing", "opened"} : Goto(c, p)
      BY <1>3 DEF OnLoading
    <2> QED BY <1>1, <2>1, PlaceKeeps DEF Opening, Places
  <1>4. CASE Authorized(c) /\ pc[c] = "authorizing"
    <2>1. Goto(c, "opened")
      BY <1>4 DEF Authorized
    <2> QED BY <1>1, <1>4, <2>1, PlaceKeeps DEF Opening, Places
  <1>5. CASE ServiceAnswers(c)
    <2>1. pc[c] = "sent" /\ Goto(c, "answered")
      BY <1>5 DEF ServiceAnswers
    <2> QED BY <1>1, <2>1, PlaceKeeps DEF Underway, Places
  <1>6. (Authorized(c) /\ pc[c] # "authorizing") \/ DropServer(c) => UNCHANGED pc
    BY DEF Authorized, DropServer, callVars
  <1> QED BY <1>2, <1>3, <1>4, <1>5, <1>6

LEMMA LibrarySeen ==
  ASSUME CallInv, StageInv, NEW c \in Calls, InitRequest(c) \/ Step(c)
  PROVE  StageInv' /\ Seen
  BY InitRequestSeen, SendSeen, OnCompleteSeen, RenewerSeen, DrainSeen, QuietSeen
     DEF Step, SendRequest

-----------------------------------------------------------------------------
(* The dialog *)

Listed(c) == \E i \in 1..Len(m_lstCmd) : m_lstCmd[i] = c

\* Not in the list: not started, in the first open(), which comes before the
\* call is appended, collected, or gone with the process.
FirstOpen(c) == pc[c] \in Opening /\ m_eState[c] = "InitialRequest"
Unlisted(c) == pc[c] \in {"new", "collected", "dead"} \/ FirstOpen(c)

DialogInv ==
  /\ m_lstCmd \in Seq(Calls)
  /\ dialog \in {"open", "closed", "gone"}
  /\ \A c \in Calls : Unlisted(c) \/ Listed(c)
  /\ \A c \in Calls : pc[c] = "dead" => dialog = "gone"
  /\ dialog = "closed" => \A c \in Calls : pc[c] \in {"new", "collected"}

\* What every step does: it is one of the server's specification, keeps the
\* links, and shows the creators what their contract allows.
Kept ==
  /\ [TFNext]_tfVars
  /\ pc' \in [Calls -> Places]
  /\ Links'
  /\ StageInv' /\ Seen
  /\ DialogInv'

\* How a call may go on in a step of the library that does not send its request.
GoesOn(c) ==
  \/ pc'[c] = pc[c] /\ m_eState'[c] = m_eState[c]
  \/ pc[c] \in Opening /\ pc'[c] \in Opening /\ m_eState'[c] = m_eState[c]
  \/ pc[c] \in Underway \cup Rejected /\ pc'[c] \notin {"new", "collected", "dead"}
  \/ pc[c] = "opened" /\ m_eState[c] = "RetryOnce" /\ pc'[c] \in {"sent", "ended"}

LEMMA AllGoOn ==
  ASSUME StageInv, NEW c \in Calls, NEW p \in Places, Goto(c, p),
         \A d \in Calls : d # c => m_eState'[d] = m_eState[d],
         \/ pc[c] \in Opening /\ p \in Opening /\ m_eState'[c] = m_eState[c]
         \/ pc[c] \in Underway \cup Rejected /\ p \notin {"new", "collected", "dead"}
         \/ pc[c] = "opened" /\ m_eState[c] = "RetryOnce" /\ p \in {"sent", "ended"}
  PROVE  \A d \in Calls : GoesOn(d)
  <1>1. pc'[c] = p /\ \A d \in Calls : d # c => pc'[d] = pc[d]
    BY Moved DEF StageInv
  <1> QED BY <1>1 DEF GoesOn

LEMMA BackGoesOn ==
  ASSUME StageInv, NEW c \in Calls, pc[c] \in Underway \cup Rejected, Continue(c) \/ Terminate(c)
  PROVE  \A d \in Calls : GoesOn(d)
  <1>1. PICK p \in {"loading", "ended"} : Goto(c, p)
    BY DEF Continue, Terminate
  <1>2. \A d \in Calls : d # c => m_eState'[d] = m_eState[d]
    BY DEF Continue, Terminate, StageInv
  <1> QED BY <1>1, <1>2, AllGoOn DEF Places

LEMMA LibraryGoesOn ==
  ASSUME CallInv, StageInv, NEW c \in Calls, Step(c),
         ~(SendRequest(c) /\ m_eState[c] = "InitialRequest")
  PROVE  /\ \A d \in Calls : GoesOn(d)
         /\ UNCHANGED <<m_lstCmd, dialog>>
  <1>1. UNCHANGED <<m_lstCmd, dialog>>
    BY DEF Step, SendRequest
  <1>2. CASE UNCHANGED <<pc, m_eState>>
    BY <1>1, <1>2 DEF GoesOn
  <1>3. CASE SendRequest(c)
    <2>1. pc[c] = "opened" /\ m_eState[c] = "RetryOnce" /\ UNCHANGED m_eState
      BY <1>3 DEF SendRequest, Send, StageInv, Stage, Opening
    <2>2. PICK p \in {"sent", "ended"} : Goto(c, p)
      BY <1>3 DEF SendRequest, Send
    <2> QED BY <1>1, <2>1, <2>2, AllGoOn DEF Places
  <1>4. CASE OnLoading(c)
    <2>1. pc[c] = "loading" /\ UNCHANGED m_eState /\ \E p \in {"authorizing", "opened"} : Goto(c, p)
      BY <1>4 DEF OnLoading
    <2> QED BY <1>1, <2>1, AllGoOn DEF Opening, Places
  <1>5. CASE Authorized(c)
    <2>1. CASE pc[c] = "authorizing"
      <3>1. Goto(c, "opened") /\ UNCHANGED m_eState
        BY <1>5, <2>1 DEF Authorized
      <3> QED BY <1>1, <2>1, <3>1, AllGoOn DEF Opening, Places
    <2>2. CASE pc[c] # "authorizing"
      BY <1>2, <1>5, <2>2 DEF Authorized
    <2> QED BY <2>1, <2>2
  <1>6. CASE OnComplete(c)
    <2>1. pc[c] \in Underway
      BY <1>6 DEF OnComplete, Underway
    <2>2. PICK p \in {"ended", "rejected", "loading"} : Goto(c, p)
      BY <1>6 DEF OnComplete, OnFinish, OnRejected, Continue
    <2>3. \A d \in Calls : d # c => m_eState'[d] = m_eState[d]
      BY <1>6 DEF OnComplete, OnFinish, OnRejected, Continue, StageInv
    <2> QED BY <1>1, <2>1, <2>2, <2>3, AllGoOn DEF Places
  <1>7. CASE RenewInit(c) \/ RenewSend(c) \/ RenewComplete(c)
    <2>1. pc[c] \in Rejected
      BY <1>7 DEF RenewInit, RenewSend, RenewComplete, Rejected
    <2>2. CASE Terminate(c)
      BY <1>1, <2>1, <2>2, BackGoesOn
    <2>3. CASE UNCHANGED m_eState /\ \E p \in {"locked", "queued", "renewing", "unlocking"} : Goto(c, p)
      BY <1>1, <2>1, <2>3, AllGoOn DEF Places
    <2> QED BY <1>7, <2>2, <2>3 DEF RenewInit, RenewSend, RenewComplete
  <1>8. CASE RenewReturn(c)
    <2>1. CASE pc[c] = "unlocking"
      <3>1. Continue(c) \/ Terminate(c)
        BY <1>8, <2>1 DEF RenewReturn
      <3> QED BY <1>1, <2>1, <3>1, BackGoesOn DEF Rejected
    <2>2. CASE pc[c] # "unlocking"
      BY <1>2, <1>8, <2>2 DEF RenewReturn
    <2> QED BY <2>1, <2>2
  <1>9. CASE Drain(c)
    <2> DEFINE callee == Head(m_lstRetryRequest)
    <2>1. callee \in Calls /\ pc[callee] \in {"queued", "dead"}
      BY <1>9, DrainedWaits DEF Drain
    <2>2. CASE pc[callee] = "dead" /\ pc[c] = "unlocking"
      <3>1. Terminate(c)
        BY <1>9, <2>2 DEF Drain
      <3> QED BY <1>1, <2>2, <3>1, BackGoesOn DEF Rejected
    <2>3. CASE pc[callee] = "dead" /\ pc[c] # "unlocking"
      BY <1>2, <1>9, <2>3 DEF Drain
    <2>4. CASE pc[callee] = "queued"
      <3>1. Continue(callee) \/ Terminate(callee)
        BY <1>9, <2>4 DEF Drain
      <3> QED BY <1>1, <2>1, <2>4, <3>1, BackGoesOn DEF Rejected
    <2> QED BY <2>1, <2>2, <2>3, <2>4
  <1>10. CASE DropServer(c)
    BY <1>2, <1>10 DEF DropServer, callVars
  <1>11. CASE ServiceAnswers(c)
    <2>1. pc[c] \in Underway /\ Goto(c, "answered") /\ UNCHANGED m_eState
      BY <1>11 DEF ServiceAnswers, Underway
    <2> QED BY <1>1, <2>1, AllGoOn DEF Places
  <1> QED BY <1>3, <1>4, <1>5, <1>6, <1>7, <1>8, <1>9, <1>10, <1>11 DEF Step

LEMMA GoesOnKeeps ==
  ASSUME DialogInv, \A c \in Calls : GoesOn(c), UNCHANGED <<m_lstCmd, dialog>>
  PROVE  DialogInv'
  <1>1. ASSUME NEW c \in Calls
        PROVE  /\ Unlisted(c)' \/ Listed(c)'
               /\ pc'[c] = "dead" => pc[c] = "dead"
               /\ pc[c] \in {"new", "collected"} => pc'[c] = pc[c]
    BY DEF DialogInv, GoesOn, Unlisted, FirstOpen, Listed, Opening, Underway, Rejected
  <1> QED BY <1>1 DEF DialogInv

\* A new call appears only in an open dialog, and is then in its first open().
LEMMA RunpingKeeps ==
  ASSUME CallInv, StageInv, DialogInv, NEW c \in Calls, OnBnClickedRunping(c)
  PROVE  DialogInv'
  <1>1. /\ UNCHANGED <<m_lstCmd, dialog, m_eState>>
        /\ dialog = "open"
        /\ pc[c] = "new" /\ Goto(c, "loading")
    BY DEF OnBnClickedRunping, Idle, InitRequest
  <1>2. pc'[c] = "loading" /\ \A d \in Calls : d # c => pc'[d] = pc[d]
    BY <1>1, Moved DEF StageInv, Places
  <1>3. ASSUME NEW d \in Calls
        PROVE  Unlisted(d)' \/ Listed(d)'
    BY <1>1, <1>2 DEF DialogInv, StageInv, Stage, Unlisted, FirstOpen, Listed, Opening
  <1> QED BY <1>1, <1>2, <1>3 DEF DialogInv

\* The list grows by the call that has been sent.
LEMMA SendKeeps ==
  ASSUME CallInv, StageInv, DialogInv, NEW c \in Calls, SendRequest(c),
         m_eState[c] = "InitialRequest"
  PROVE  DialogInv'
  <1>1. /\ UNCHANGED <<dialog, m_eState>>
        /\ pc[c] = "opened" /\ Goto(c, "sent")
        /\ m_lstCmd' = Append(m_lstCmd, c)
    BY DEF SendRequest, Send
  <1>2. pc'[c] = "sent" /\ \A d \in Calls : d # c => pc'[d] = pc[d]
    BY <1>1, Moved DEF StageInv, Places
  <1>3. /\ m_lstCmd \in Seq(Calls) /\ m_lstCmd' \in Seq(Calls)
        /\ Len(m_lstCmd) \in Nat
        /\ Len(m_lstCmd') = Len(m_lstCmd) + 1
        /\ m_lstCmd'[Len(m_lstCmd) + 1] = c
        /\ \A i \in 1..Len(m_lstCmd) : m_lstCmd'[i] = m_lstCmd[i]
    BY <1>1 DEF DialogInv
  <1>4. Listed(c)' /\ \A d \in Calls : Listed(d) => Listed(d)'
    BY <1>3 DEF Listed
  <1>5. ASSUME NEW d \in Calls
        PROVE  Unlisted(d)' \/ Listed(d)'
    BY <1>1, <1>2, <1>4 DEF DialogInv, Unlisted, FirstOpen
  <1>6. dialog # "closed"
    BY <1>1 DEF DialogInv
  <1> QED BY <1>1, <1>2, <1>3, <1>5, <1>6 DEF DialogInv

\* The process takes all its calls with it.
LEMMA DieKeeps ==
  ASSUME CallInv, StageInv, DialogInv, Die
  PROVE  Kept /\ issued' = issued
  <1>1. /\ UNCHANGED <<tfVars, issued, m_eState, notified, sends, m_lstCmd>>
        /\ dialog' = "gone"
    BY DEF Die, requestVars, serviceVars
  <1>2. \A c \in Calls : pc'[c] = IF pc[c] \in {"new", "collected"} THEN pc[c] ELSE "dead"
    BY DEF Die
  <1>3. pc' \in [Calls -> Places]
    BY DEF Die, CallInv, Places
  <1>4. QueueLink'
    <2>1. ASSUME NEW i \in 1..Len(m_lstRetryRequest)
          PROVE  pc'[m_lstRetryRequest[i]] \in {"queued", "dead"}
      <3>1. m_lstRetryRequest[i] \in Calls /\ pc[m_lstRetryRequest[i]] \in {"queued", "dead"}
        BY DEF CallInv, QueueLink, TFInv, TFTypeOK
      <3> QED BY <1>2, <3>1
    <2> QED BY <1>1, <2>1 DEF CallInv, QueueLink, tfVars
  <1>5. StackLink'
    <2>1. ASSUME NEW i \in 1..Len(stack)
          PROVE  pc'[stack[i].caller] = "dead"
      <3>1. stack[i].caller \in Calls
        BY Callers DEF CallInv
      <3>2. pc[stack[i].caller] \notin {"new", "collected"}
        BY DEF CallInv, StackLink, PlaceOf
      <3> QED BY <1>2, <3>1, <3>2
    <2> QED BY <1>1, <2>1 DEF StackLink, tfVars
  <1>6. RejectedLink' /\ RenewLink'
    BY <1>2 DEF RejectedLink, RenewLink
  <1>7. StageInv'
    <2>1. ASSUME NEW c \in Calls
          PROVE  Stage(c)'
      BY <1>1, <1>2 DEF StageInv, Stage, Opening, Underway, Rejected, Over
    <2> QED BY <1>1, <1>3, <2>1 DEF StageInv
  <1>8. Seen
    <2>1. UNCHANGED started
      BY <1>2 DEF started
    <2> QED BY <1>1, <2>1 DEF Seen, Contract!contractVars
  <1>9. DialogInv'
    BY <1>1, <1>2 DEF DialogInv, Unlisted
  <1> QED BY <1>1, <1>3, <1>4, <1>5, <1>6, <1>7, <1>8, <1>9 DEF Kept, Links

\* Nobody is in a method of the server while the dialog handles a message.
LEMMA IdleServer ==
  ASSUME CallInv, DialogInv, Idle
  PROVE  stack = << >> /\ \A c \in Calls : pc[c] # "dead"
  <1>1. \A c \in Calls : pc[c] # "dead" /\ pc[c] \notin Handling
    BY DEF Idle, DialogInv
  <1>2. ASSUME stack # << >>
        PROVE  FALSE
    <2>1. 1 \in 1..Len(stack)
      BY <1>2 DEF CallInv, TFInv, TFTypeOK
    <2>2. stack[1].caller \in Calls /\ pc[stack[1].caller] \in {"unlocking", "authorizing", "dead"}
      BY <2>1, Callers DEF CallInv, StackLink, PlaceOf
    <2> QED BY <1>1, <2>2 DEF Handling
  <1> QED BY <1>1, <1>2

\* The call at the head of the list is collected: it has ended, so it is in no
\* method, neither deferred nor in a renew but for the sink it takes off.
LEMMA CollectKeeps ==
  ASSUME CallInv, StageInv, DialogInv, Idle, m_lstCmd # << >>, NEW c, c = Head(m_lstCmd),
         m_eState[c] = "Finish", Dispose(c), m_lstCmd' = Tail(m_lstCmd), UNCHANGED dialog
  PROVE  Kept /\ issued' = issued
  <1>1. /\ c \in Calls
        /\ c = m_lstCmd[1]
        /\ m_lstCmd' \in Seq(Calls)
        /\ \A i \in 1..Len(m_lstCmd) : i = 1 \/ (i - 1 \in 1..Len(m_lstCmd') /\ m_lstCmd'[i - 1] = m_lstCmd[i])
    BY DEF DialogInv
  <1>2. /\ stack = << >>
        /\ pc[c] \in {"ended", "collected"}
        /\ UNCHANGED <<issued, m_eState, notified, sends, stack, extConn, m_lstRetryRequest>>
        /\ Goto(c, "collected")
    BY <1>1, IdleServer DEF Dispose, RemoveSink, tfVars, requestVars, serviceVars,
                            StageInv, Stage, Over
  <1>3. pc' \in [Calls -> Places] /\ pc'[c] = "collected" /\ \A d \in Calls : d # c => pc'[d] = pc[d]
    BY <1>1, <1>2, Moved DEF CallInv, Places
  <1>4. [TFNext]_tfVars
    <2>1. ~InCall(c)
      BY <1>2 DEF InCall
    <2> QED BY <1>1, <2>1 DEF Dispose, TFNext, ClientCalls
  <1>5. QueueLink' /\ StackLink'
    BY <1>1, <1>2, <1>3, QueueKeeps, StackKeeps
  <1>6. RejectedLink' /\ RenewLink'
    <2>1. CASE Renewer(c)
      BY <1>1, <1>2, <1>3, <2>1, RenewerLeaves
    <2>2. CASE ~Renewer(c)
      <3>1. UNCHANGED <<m_spLockForRenew, extConn>>
        BY <2>2 DEF Dispose, tfVars
      <3> QED BY <1>1, <1>3, <3>1 DEF CallInv, RejectedLink, RenewLink, Renewer
    <2> QED BY <2>1, <2>2
  <1>7. StageInv' /\ Seen
    BY <1>1, <1>2, PlaceKeeps DEF Over, Places
  <1>8. DialogInv'
    <2>1. ASSUME NEW d \in Calls, d # c, Listed(d)
          PROVE  Listed(d)'
      BY <1>1, <2>1 DEF Listed
    <2>2. ASSUME NEW d \in Calls
          PROVE  Unlisted(d)' \/ Listed(d)'
      BY <1>2, <1>3, <2>1 DEF DialogInv, Unlisted, FirstOpen
    <2> QED BY <1>1, <1>3, <2>2 DEF DialogInv
  <1> QED BY <1>2, <1>3, <1>4, <1>5, <1>6, <1>7, <1>8 DEF Kept, Links

\* With an empty list every call that was started has been collected.
LEMMA CloseKeeps ==
  ASSUME CallInv, StageInv, DialogInv, OnSysCommand
  PROVE  /\ Kept /\ issued' = issued
         /\ \A c \in Calls : pc[c] \in {"new", "collected"}
  <1>1. /\ UNCHANGED <<tfVars, callVars, issued, m_lstCmd>>
        /\ dialog' = "closed"
        /\ \A c \in Calls : pc[c] # "dead" /\ pc[c] \notin Handling
        /\ \A c \in Calls : ~Listed(c)
    BY IdleServer DEF OnSysCommand, Idle, serviceVars, Listed
  <1>2. \A c \in Calls : pc[c] \in {"new", "collected"}
    BY <1>1 DEF DialogInv, Unlisted, FirstOpen, Opening, Handling
  <1>3. pc' \in [Calls -> Places] /\ Links'
    BY <1>1 DEF tfVars, callVars, CallInv, Links, QueueLink, StackLink, RejectedLink,
                RenewLink, Renewer
  <1>4. StageInv' /\ Seen
    BY <1>1 DEF callVars, requestVars, StageInv, Stage, Seen, Contract!contractVars, started
  <1>5. DialogInv'
    BY <1>1, <1>2 DEF DialogInv, Unlisted, callVars
  <1> QED BY <1>1, <1>2, <1>3, <1>4, <1>5 DEF Kept

LEMMA StillKeeps ==
  ASSUME StageInv, DialogInv, UNCHANGED <<callVars, m_lstCmd, dialog>>
  PROVE  StageInv' /\ Seen /\ DialogInv'
  BY DEF callVars, requestVars, StageInv, Stage, Seen, Contract!contractVars, started,
         DialogInv, Unlisted, FirstOpen, Listed

-----------------------------------------------------------------------------
(* The composition *)

\* The inductive invariant of the sample application.
MFCInv == CallInv /\ StageInv /\ DialogInv

LEMMA InitMFCInv ==
  ASSUME Generation = Nat \ {0}, Init
  PROVE  TFInit /\ Contract!Init /\ MFCInv
  <1>1. TFInit
    BY DEF Init
  <1>2. TFInv
    BY <1>1, InitTFInv
  <1>3. pc \in [Calls -> Places] /\ \A c \in Calls : pc[c] = "new"
    BY DEF Init, CallInit, Places
  <1>4. issued \in Nat \ {0}
    BY DEF Init, ServiceInit
  <1>5. QueueLink /\ StackLink
    BY <1>1 DEF TFInit, QueueLink, StackLink
  <1>6. RejectedLink /\ RenewLink
    BY <1>3 DEF RejectedLink, RenewLink
  <1>7. StageInv
    BY <1>3 DEF Init, CallInit, StageInv, Stage, Opening, Underway, Rejected, Over
  <1>8. DialogInv
    BY <1>3 DEF Init, DialogInv, Unlisted
  <1>9. Contract!Init
    BY DEF Init, CallInit, Contract!Init, started
  <1> QED BY <1>1, <1>2, <1>3, <1>4, <1>5, <1>6, <1>7, <1>8, <1>9 DEF MFCInv, CallInv

LEMMA LibraryKeeps ==
  ASSUME MFCInv, NEW c \in Calls, OnBnClickedRunping(c) \/ Step(c)
  PROVE  Kept /\ issued' = issued
  <1>1. InitRequest(c) \/ Step(c)
    BY DEF OnBnClickedRunping
  <1>2. DialogInv'
    BY LibraryGoesOn, GoesOnKeeps, RunpingKeeps, SendKeeps DEF MFCInv
  <1> QED BY <1>1, <1>2, LibraryStep, LibrarySeen DEF Kept, MFCInv

LEMMA NextMFCInv ==
  ASSUME MFCInv, Generation = Nat \ {0}, [Next]_vars
  PROVE  [TFNext]_tfVars /\ [Contract!Next]_Contract!contractVars /\ MFCInv'
  <1>1. issued \in Nat \ {0}
    BY DEF MFCInv, CallInv
  <1>2. Kept /\ issued' \in Nat \ {0}
    <2>1. ASSUME NEW c \in Calls, OnBnClickedRunping(c) \/ Step(c)
          PROVE  Kept /\ issued' = issued
      BY <2>1, LibraryKeeps
    <2>2. CASE Die
      BY <1>1, <2>2, DieKeeps DEF MFCInv
    <2>3. CASE OnTimer
      BY <1>1, <2>2, <2>3, CollectKeeps DEF OnTimer, MFCInv
    <2>4. CASE OnSysCommand
      BY <1>1, <2>4, CloseKeeps DEF MFCInv
    <2>5. CASE TokenEndpoint
      <3>1. /\ [TFNext]_tfVars /\ issued' \in Nat \ {0}
            /\ pc' \in [Calls -> Places] /\ Links'
        BY <2>5, TokenEndpointStep DEF MFCInv
      <3>2. UNCHANGED <<callVars, m_lstCmd, dialog>>
        BY <2>5 DEF TokenEndpoint
      <3> QED BY <3>1, <3>2, StillKeeps DEF Kept, MFCInv
    <2>6. CASE UNCHANGED <<tfVars, issued, callVars, m_lstCmd, dialog>>
      <3>1. pc' \in [Calls -> Places] /\ Links'
        BY <2>6 DEF tfVars, callVars, MFCInv, CallInv, Links, QueueLink, StackLink,
                    RejectedLink, RenewLink, Renewer
      <3> QED BY <1>1, <2>6, <3>1, StillKeeps DEF Kept, MFCInv
    <2>7. Expire \/ Revoke \/ Terminating \/ UNCHANGED vars
            => UNCHANGED <<tfVars, issued, callVars, m_lstCmd, dialog>>
      BY DEF Expire, ExpireToken, Revoke, RevokeConsent, Terminating, vars, serviceVars
    <2> QED BY <1>1, <2>1, <2>2, <2>3, <2>4, <2>5, <2>6, <2>7 DEF Next, OnCancel, InitThrows, Crash
  <1>3. TFInv'
    BY <1>2, NextTFInv DEF Kept, MFCInv, CallInv
  <1> QED BY <1>2, <1>3 DEF Kept, MFCInv, CallInv, Links, Seen

\* MFCInv holds in every state that dialog, calls, server and service can reach.
THEOREM MFCInvariance ==
  ASSUME Generation = Nat \ {0}
  PROVE  Spec => []MFCInv
  <1>1. Init => MFCInv
    BY InitMFCInv
  <1>2. MFCInv /\ [Next]_vars => MFCInv'
    BY NextMFCInv
  <1> QED BY <1>1, <1>2, PTL DEF Spec

\* The MFC library keeps to the protocol of IAuthorize, also when it disposes
\* of a call: it takes the sink off the POST outside of UnLockFromRenew only.
THEOREM MFCKeepsProtocol ==
  ASSUME Generation = Nat \ {0}
  PROVE  Spec => ServerSpec
  <1>1. Init => TFInit
    BY InitMFCInv
  <1>2. MFCInv /\ [Next]_vars => [TFNext]_tfVars
    BY NextMFCInv
  <1> QED BY <1>1, <1>2, MFCInvariance, PTL DEF Spec, ServerSpec, TFSpec

\* A call is sent at most twice and notified once at most, with onSucceeded
\* only after it was sent: whatever fails, and whenever the process goes.
THEOREM MFCKeepsContract ==
  ASSUME Generation = Nat \ {0}
  PROVE  Spec => ContractSafe
  <1>1. Init => Contract!Init
    BY InitMFCInv
  <1>2. MFCInv /\ [Next]_vars => [Contract!Next]_Contract!contractVars
    BY NextMFCInv
  <1> QED BY <1>1, <1>2, MFCInvariance, PTL DEF Spec, ContractSafe, Contract!SafeSpec

\* SC_CLOSE ends the dialog over no call that was started and is not collected:
\* each one is in m_lstCmd when no handler is active (OnSysCommand, OnTimer).
THEOREM MFCClosesWhenDone ==
  ASSUME Generation = Nat \ {0}
  PROVE  Spec => ClosesWhenDone
  <1>1. ASSUME MFCInv, MFCInv', [Next]_vars
        PROVE  [dialog' = "closed" => \A c \in Calls : pc[c] \in {"new", "collected"}]_vars
    <2>1. CASE dialog = "closed"
      BY <1>1, <2>1 DEF MFCInv, DialogInv
    <2>2. CASE dialog # "closed" /\ dialog' = "closed"
      <3>1. OnSysCommand
        BY <1>1, <2>2 DEF Next, OnBnClickedRunping, Step, SendRequest, OnTimer, Die, OnCancel,
                         InitThrows, Crash, TokenEndpoint, Expire, Revoke, Terminating, vars
      <3> QED BY <1>1, <3>1, CloseKeeps DEF MFCInv
    <2> QED BY <2>1, <2>2
  <1> QED BY <1>1, MFCInvariance, PTL DEF Spec, ClosesWhenDone

-----------------------------------------------------------------------------
(* A call that is collected *)

\* Neither the sink of a POST nor the client that the server calls back.
IdleInv ==
  \A c \in Calls : pc[c] = "collected" =>
    /\ ~Renewer(c)
    /\ \A i \in 1..Len(stack) : stack[i].callee # c

\* Nobody is collected, and nobody collected becomes a sink or is called back.
LEMMA IdleKeeps ==
  ASSUME IdleInv, \A c \in Calls : pc'[c] = "collected" => pc[c] = "collected",
         \A c \in Calls : Renewer(c)' => Renewer(c) \/ pc[c] # "collected",
         \A i \in 1..Len(stack') :
           \/ \E j \in 1..Len(stack) : stack'[i].callee = stack[j].callee
           \/ \A c \in Calls : stack'[i].callee = c => pc[c] # "collected"
  PROVE  IdleInv'
  BY DEF IdleInv

LEMMA SameSink ==
  ASSUME TFInv, m_spLockForRenew # NULL,
         m_spLockForRenew' \in {m_spLockForRenew, NULL,
                                [m_spLockForRenew EXCEPT !.sink = NULL],
                                [m_spLockForRenew EXCEPT !.status = "sent"]}
  PROVE  \A c \in Calls : Renewer(c)' => Renewer(c)
  <1>1. m_spLockForRenew \in Request
    BY DEF TFInv, TFTypeOK
  <1>2. ASSUME NEW c \in Calls, Renewer(c)'
        PROVE  Renewer(c)
    <2>1. m_spLockForRenew' # NULL /\ m_spLockForRenew'.sink = c /\ c # NULL
      BY <1>2, NullAssumption DEF Renewer
    <2>2. CASE m_spLockForRenew' = [m_spLockForRenew EXCEPT !.sink = NULL]
      BY <1>1, <2>1, <2>2 DEF Request
    <2>3. CASE m_spLockForRenew' = [m_spLockForRenew EXCEPT !.status = "sent"]
      BY <1>1, <2>1, <2>3 DEF Request, Renewer
    <2> QED BY <1>2, <2>2, <2>3 DEF Renewer
  <1> QED BY <1>2

\* The stack loses its top, or nothing.
LEMMA SameCallees ==
  ASSUME TFInv, UNCHANGED stack \/ (stack # << >> /\ stack' = Tail(stack))
  PROVE  \A i \in 1..Len(stack') : \E j \in 1..Len(stack) : stack'[i].callee = stack[j].callee
  <1>1. CASE UNCHANGED stack
    BY <1>1
  <1>2. CASE stack # << >> /\ stack' = Tail(stack)
    <2>1. \A i \in 1..Len(stack') : i + 1 \in 1..Len(stack) /\ stack'[i] = stack[i + 1]
      BY <1>2, Pop DEF TFInv, TFTypeOK
    <2> QED BY <2>1
  <1> QED BY <1>1, <1>2

\* The stack gets a new top, whose callee is not collected.
LEMMA TopCallee ==
  ASSUME TFInv, NEW f \in Activation, \A c \in Calls : f.callee = c => pc[c] # "collected",
         \/ stack' = << f >> \o stack
         \/ stack # << >> /\ stack' = << f >> \o Tail(stack)
  PROVE  \A i \in 1..Len(stack') :
           \/ \E j \in 1..Len(stack) : stack'[i].callee = stack[j].callee
           \/ \A c \in Calls : stack'[i].callee = c => pc[c] # "collected"
  <1>1. stack \in Seq(Activation)
    BY DEF TFInv, TFTypeOK
  <1>2. CASE stack' = << f >> \o stack
    <2>1. /\ stack'[1] = f
          /\ \A i \in 1..Len(stack') : i = 1 \/ (i - 1 \in 1..Len(stack) /\ stack'[i] = stack[i - 1])
      BY <1>1, <1>2, Push
    <2> QED BY <2>1
  <1>3. CASE stack # << >> /\ stack' = << f >> \o Tail(stack)
    <2>1. /\ Tail(stack) \in Seq(Activation)
          /\ \A i \in 1..Len(Tail(stack)) : i + 1 \in 1..Len(stack) /\ Tail(stack)[i] = stack[i + 1]
      BY <1>1, <1>3, Pop
    <2>2. /\ stack'[1] = f
          /\ \A i \in 1..Len(stack') :
               i = 1 \/ (i - 1 \in 1..Len(Tail(stack)) /\ stack'[i] = Tail(stack)[i - 1])
      BY <1>3, <2>1, Push
    <2>3. ASSUME NEW i \in 1..Len(stack'), i # 1
          PROVE  \E j \in 1..Len(stack) : stack'[i] = stack[j]
      <3>1. i - 1 \in 1..Len(Tail(stack)) /\ stack'[i] = Tail(stack)[i - 1]
        BY <2>2, <2>3
      <3>2. (i - 1) + 1 \in 1..Len(stack) /\ Tail(stack)[i - 1] = stack[(i - 1) + 1]
        BY <2>1, <3>1
      <3> QED BY <3>1, <3>2
    <2> QED BY <2>2, <2>3
  <1> QED BY <1>2, <1>3

LEMMA LibraryIdle ==
  ASSUME MFCInv, IdleInv, NEW c \in Calls, OnBnClickedRunping(c) \/ Step(c)
  PROVE  IdleInv'
  <1>1. \A d \in Calls : pc'[d] = "collected" => pc[d] = "collected"
    <2>1. CASE OnBnClickedRunping(c) \/ (SendRequest(c) /\ m_eState[c] = "InitialRequest")
      <3>1. PICK p \in {"loading", "sent"} : Goto(c, p)
        BY <2>1 DEF OnBnClickedRunping, InitRequest, SendRequest, Send
      <3> QED BY <3>1, Moved DEF MFCInv, CallInv, Places
    <2>2. CASE Step(c) /\ ~(SendRequest(c) /\ m_eState[c] = "InitialRequest")
      <3>1. \A d \in Calls : GoesOn(d)
        BY <2>2, LibraryGoesOn DEF MFCInv
      <3> QED BY <3>1 DEF GoesOn, Opening
    <2> QED BY <2>1, <2>2
  <1>2. TFInv
    BY DEF MFCInv, CallInv
  <1>3. CASE UNCHANGED <<m_spLockForRenew, stack>>
    <2>1. \A d \in Calls : Renewer(d)' => Renewer(d)
      BY <1>3 DEF Renewer
    <2>2. \A i \in 1..Len(stack') : \E j \in 1..Len(stack) : stack'[i].callee = stack[j].callee
      BY <1>2, <1>3, SameCallees
    <2> QED BY <1>1, <2>1, <2>2, IdleKeeps
  <1>4. CASE OnBnClickedRunping(c) \/ SendRequest(c) \/ OnComplete(c) \/ ServiceAnswers(c)
    BY <1>3, <1>4 DEF OnBnClickedRunping, InitRequest, SendRequest, Send, OnComplete, OnFinish,
                      OnRejected, CanRetryImmediately, ServiceAnswers, tfVars
  <1>5. CASE OnLoading(c)
    <2> DEFINE f == [method |-> "AuthorizeRequest", caller |-> c, succeeded |-> TRUE, callee |-> c]
    <2>1. CASE UNCHANGED tfVars
      BY <1>3, <2>1 DEF tfVars
    <2>2. CASE AuthorizeRequest(c)
      <3>1. UNCHANGED m_spLockForRenew /\ stack' = << f >> \o stack
        BY <2>2 DEF AuthorizeRequest
      <3>2. f \in Activation /\ \A d \in Calls : f.callee = d => pc[d] # "collected"
        BY <1>5 DEF Activation, OnLoading
      <3>3. \A d \in Calls : Renewer(d)' => Renewer(d)
        BY <3>1 DEF Renewer
      <3>4. \A i \in 1..Len(stack') :
              \/ \E j \in 1..Len(stack) : stack'[i].callee = stack[j].callee
              \/ \A d \in Calls : stack'[i].callee = d => pc[d] # "collected"
        BY <1>2, <3>1, <3>2, TopCallee
      <3> QED BY <1>1, <3>3, <3>4, IdleKeeps
    <2> QED BY <1>5, <2>1, <2>2 DEF OnLoading
  <1>6. CASE Authorized(c) \/ DropServer(c)
    <2>1. UNCHANGED stack \/ (stack # << >> /\ stack' = Tail(stack))
      BY <1>6 DEF Authorized, AuthorizeRequestReturn, DropServer, Release
    <2>2. m_spLockForRenew' = NULL \/ UNCHANGED m_spLockForRenew
      BY <1>6 DEF Authorized, AuthorizeRequestReturn, DropServer, Release, ReleaseConnection
    <2>3. \A d \in Calls : Renewer(d)' => Renewer(d)
      BY <2>2 DEF Renewer
    <2>4. \A i \in 1..Len(stack') : \E j \in 1..Len(stack) : stack'[i].callee = stack[j].callee
      BY <1>2, <2>1, SameCallees
    <2> QED BY <1>1, <2>3, <2>4, IdleKeeps
  <1>7. CASE RenewInit(c)
    <2>1. UNCHANGED stack /\ pc[c] = "rejected"
      BY <1>7 DEF RenewInit, LockForRenew, LockForRenewThrows
    <2>2. UNCHANGED m_spLockForRenew \/ \E sink \in {c, NULL} : m_spLockForRenew' = NewRequest(sink)
      BY <1>7 DEF RenewInit, LockForRenew, LockForRenewThrows
    <2>3. \A d \in Calls : Renewer(d)' => Renewer(d) \/ pc[d] # "collected"
      BY <2>1, <2>2, NullAssumption DEF Renewer, NewRequest
    <2>4. \A i \in 1..Len(stack') : \E j \in 1..Len(stack) : stack'[i].callee = stack[j].callee
      BY <1>2, <2>1, SameCallees
    <2> QED BY <1>1, <2>3, <2>4, IdleKeeps
  <1>8. CASE RenewSend(c)
    <2>1. m_spLockForRenew # NULL
      BY <1>8 DEF RenewSend, MFCInv, CallInv, RenewLink, Renewer
    <2>2. CASE SendRenew
      <3>1. UNCHANGED stack /\ m_spLockForRenew' = [m_spLockForRenew EXCEPT !.status = "sent"]
        BY <2>2 DEF SendRenew
      <3>2. \A d \in Calls : Renewer(d)' => Renewer(d)
        BY <1>2, <2>1, <3>1, SameSink
      <3>3. \A i \in 1..Len(stack') : \E j \in 1..Len(stack) : stack'[i].callee = stack[j].callee
        BY <1>2, <3>1, SameCallees
      <3> QED BY <1>1, <3>2, <3>3, IdleKeeps
    <2> QED BY <1>3, <1>8, <2>2 DEF RenewSend, tfVars
  <1>9. CASE RenewComplete(c)
    <2> DEFINE f == [method |-> "UnLockFromRenew", caller |-> c,
                     succeeded |-> m_spLockForRenew.status = "200", callee |-> NULL]
    <2>1. m_spLockForRenew # NULL /\ UnLockFromRenew(c)
      BY <1>9 DEF RenewComplete, MFCInv, CallInv, RenewLink, Renewer
    <2>2. \A d \in Calls : Renewer(d)' => Renewer(d)
      BY <1>2, <1>9, <2>1, SameSink DEF RenewComplete, UnLockFromRenew
    <2>3. UNCHANGED stack \/ stack' = << f >> \o stack
      BY <2>1 DEF UnLockFromRenew
    <2>4. f \in Activation /\ \A d \in Calls : f.callee = d => pc[d] # "collected"
      BY NullAssumption DEF Activation
    <2>5. \A i \in 1..Len(stack') :
            \/ \E j \in 1..Len(stack) : stack'[i].callee = stack[j].callee
            \/ \A d \in Calls : stack'[i].callee = d => pc[d] # "collected"
      BY <1>2, <2>3, <2>4, SameCallees, TopCallee
    <2> QED BY <1>1, <2>2, <2>5, IdleKeeps
  <1>10. CASE Drain(c) \/ RenewReturn(c)
    <2>1. Draining(c)
      BY <1>10 DEF Drain, RenewReturn, UnLockReturn
    <2>2. m_spLockForRenew # NULL /\ stack # << >>
      BY <2>1, DrainerRenews DEF MFCInv, Renewer
    <2>3. m_spLockForRenew' \in {m_spLockForRenew, NULL, [m_spLockForRenew EXCEPT !.sink = NULL]}
      BY <1>10 DEF Drain, CallBack, CallBackFault, RenewReturn, UnLockReturn
    <2>4. \A d \in Calls : Renewer(d)' => Renewer(d)
      BY <1>2, <2>2, <2>3, SameSink
    <2>5. CASE stack' = Tail(stack)
      <3>1. \A i \in 1..Len(stack') : \E j \in 1..Len(stack) : stack'[i].callee = stack[j].callee
        BY <1>2, <2>2, <2>5, SameCallees
      <3> QED BY <1>1, <2>4, <3>1, IdleKeeps
    <2>6. CASE Drain(c) /\ CallBack(c)
      <3> DEFINE callee == Head(m_lstRetryRequest)
                 g == [Head(stack) EXCEPT !.callee = callee]
      <3>1. callee \in Calls /\ pc[callee] # "collected"
        BY <2>6, DrainedWaits DEF CallBack, MFCInv
      <3>2. Head(stack) \in Activation
        BY <1>2, <2>2, Pop DEF TFInv, TFTypeOK
      <3>3. g \in Activation /\ g.callee = callee
        BY <3>1, <3>2 DEF Activation
      <3>4. stack' = << g >> \o Tail(stack)
        BY <2>6 DEF CallBack
      <3>5. \A i \in 1..Len(stack') :
              \/ \E j \in 1..Len(stack) : stack'[i].callee = stack[j].callee
              \/ \A d \in Calls : stack'[i].callee = d => pc[d] # "collected"
        BY <1>2, <2>2, <3>1, <3>3, <3>4, TopCallee
      <3> QED BY <1>1, <2>4, <3>5, IdleKeeps
    <2> QED BY <1>10, <2>5, <2>6 DEF Drain, CallBackFault, RenewReturn, UnLockReturn
  <1> QED BY <1>4, <1>5, <1>6, <1>7, <1>8, <1>9, <1>10 DEF Step

\* Whoever is collected is in no method, and takes its own sink off.
LEMMA CollectIdle ==
  ASSUME MFCInv, IdleInv, OnTimer, ~Die
  PROVE  IdleInv'
  <1>1. PICK c \in Calls : c = Head(m_lstCmd)
    BY Pop DEF OnTimer, MFCInv, DialogInv
  <1>2. Dispose(c) /\ stack = << >> /\ Goto(c, "collected")
    BY <1>1, IdleServer DEF OnTimer, Dispose, MFCInv
  <1>3. UNCHANGED stack
    BY <1>2 DEF Dispose, RemoveSink, tfVars
  <1>4. pc'[c] = "collected" /\ \A d \in Calls : d # c => pc'[d] = pc[d]
    BY <1>1, <1>2, Moved DEF MFCInv, CallInv, Places
  <1>5. ~Renewer(c)' /\ \A d \in Calls : Renewer(d)' => Renewer(d)
    <2>1. CASE Renewer(c)
      <3>1. /\ m_spLockForRenew # NULL /\ m_spLockForRenew \in Request
            /\ m_spLockForRenew' = [m_spLockForRenew EXCEPT !.sink = NULL]
        BY <1>1, <1>2, <2>1 DEF Dispose, RemoveSink, Renewer, MFCInv, CallInv, TFInv, TFTypeOK
      <3>2. m_spLockForRenew'.sink = NULL
        BY <3>1 DEF Request
      <3> QED BY <1>1, <3>2, NullAssumption DEF Renewer
    <2>2. CASE ~Renewer(c)
      BY <1>2, <2>2 DEF Dispose, tfVars, Renewer
    <2> QED BY <2>1, <2>2
  <1> QED BY <1>2, <1>3, <1>4, <1>5 DEF IdleInv

LEMMA NextIdle ==
  ASSUME MFCInv, IdleInv, [Next]_vars
  PROVE  IdleInv'
  <1>1. ASSUME NEW c \in Calls, OnBnClickedRunping(c) \/ Step(c)
        PROVE  IdleInv'
    BY <1>1, LibraryIdle
  <1>2. CASE Die
    BY <1>2 DEF Die, IdleInv, Renewer, tfVars
  <1>3. CASE OnTimer
    BY <1>2, <1>3, CollectIdle
  <1>4. CASE TokenEndpoint
    <2>1. /\ UNCHANGED <<pc, stack>>
          /\ m_spLockForRenew # NULL /\ m_spLockForRenew \in Request
          /\ \E answer, pair, parsed : m_spLockForRenew' = [m_spLockForRenew EXCEPT
               !.status = answer, !.pair = pair, !.parsed = parsed]
      BY <1>4 DEF TokenEndpoint, Exchange, RenewAnswered, callVars, MFCInv, CallInv, TFInv, TFTypeOK
    <2>2. m_spLockForRenew'.sink = m_spLockForRenew.sink
      BY <2>1 DEF Request
    <2> QED BY <2>1, <2>2 DEF IdleInv, Renewer
  <1>5. CASE UNCHANGED <<tfVars, pc>>
    BY <1>5 DEF IdleInv, Renewer, tfVars
  <1>6. OnSysCommand \/ Expire \/ Revoke \/ Terminating \/ UNCHANGED vars => UNCHANGED <<tfVars, pc>>
    BY DEF OnSysCommand, Expire, ExpireToken, Revoke, RevokeConsent, Terminating, vars, callVars
  <1> QED BY <1>1, <1>2, <1>3, <1>4, <1>5, <1>6 DEF Next, OnCancel, InitThrows, Crash

\* A call that OnTimer has disposed of is out of everybody's reach: neither in
\* m_lstRetryRequest nor the sink of the POST nor in a method of the server.
THEOREM MFCCollectsIdle ==
  ASSUME Generation = Nat \ {0}
  PROVE  Spec => []CollectedIsIdle
  <1>1. Init => IdleInv
    BY DEF Init, TFInit, CallInit, IdleInv
  <1>2. MFCInv /\ IdleInv /\ [Next]_vars => IdleInv'
    BY NextIdle
  <1>3. MFCInv /\ IdleInv => CollectedIsIdle
    <2> SUFFICES ASSUME MFCInv, IdleInv, NEW c \in Calls, pc[c] = "collected"
                 PROVE  /\ ~Deferred(c) /\ ~Renewer(c)
                        /\ \A i \in 1..Len(stack) : c # stack[i].caller /\ c # stack[i].callee
      BY DEF CollectedIsIdle
    <2>1. ~Deferred(c) /\ ~InCall(c)
      BY NotDeferred, NotInCall DEF MFCInv
    <2> QED BY <2>1 DEF IdleInv, InCall
  <1> QED BY <1>1, <1>2, <1>3, MFCInvariance, PTL DEF Spec

=============================================================================
