------------------------- MODULE CallbackoAuthProofs -------------------------
(***************************************************************************)
(* The calls of the ATL client library keep to the protocol of the token   *)
(* server, for any number of calls and any faults; so what TokenFileProofs *)
(* proves of the server under arbitrary clients holds with these, too.     *)
(***************************************************************************)
EXTENDS CallbackoAuth, TokenFileProofs

\* Who is in the queue of the server is waiting for it, and is in it once.
QueueLink ==
  /\ \A i \in 1..Len(m_lstRetryRequest) : pc[m_lstRetryRequest[i]] \in {"queued", "dead"}
  /\ \A i, j \in 1..Len(m_lstRetryRequest) :
       m_lstRetryRequest[i] = m_lstRetryRequest[j] => i = j

\* Who is in a method of the server waits for this method, or is dead.
PlaceOf(method) == IF method = "UnLockFromRenew" THEN "unlocking" ELSE "authorizing"
StackLink == \A i \in 1..Len(stack) : pc[stack[i].caller] \in {PlaceOf(stack[i].method), "dead"}

\* A rejected call still holds the pointer of its COMPLETE handler.
RejectedLink == \A c \in Calls : pc[c] = "rejected" => <<c, "complete">> \in extConn

\* Who renews has the sink on the POST and a pointer to the server.
RenewLink ==
  \A c \in Calls : pc[c] \in {"locked", "renewing", "unlocking"} =>
    /\ Renewer(c)
    /\ <<c, "renewer">> \in extConn
    /\ pc[c] = "locked" => m_spLockForRenew.status = "open"

\* The inductive invariant of the composition: that of the server, and what
\* the places of the calls say about the server's state.
CallInv ==
  /\ TFInv
  /\ pc \in [Calls -> Places]
  /\ issued \in Nat \ {0}
  /\ QueueLink
  /\ StackLink
  /\ RejectedLink
  /\ RenewLink

Links == QueueLink /\ StackLink /\ RejectedLink /\ RenewLink

-----------------------------------------------------------------------------
(* Places *)

LEMMA Moved ==
  ASSUME pc \in [Calls -> Places], NEW c \in Calls, NEW p \in Places, Goto(c, p)
  PROVE  /\ pc' \in [Calls -> Places]
         /\ pc'[c] = p
         /\ \A d \in Calls : d # c => pc'[d] = pc[d]
  BY DEF Goto

LEMMA Callers ==
  ASSUME TFInv, NEW i \in 1..Len(stack)
  PROVE  stack[i].caller \in Calls
  <1>1. stack[i] \in Activation
    BY DEF TFInv, TFTypeOK
  <1> QED BY <1>1 DEF Activation

LEMMA NotInCall ==
  ASSUME CallInv, NEW c \in Calls, pc[c] \notin {"authorizing", "unlocking", "dead"}
  PROVE  ~InCall(c)
  BY DEF CallInv, StackLink, PlaceOf, InCall

LEMMA NotDeferred ==
  ASSUME CallInv, NEW c \in Calls, pc[c] \notin {"queued", "dead"}
  PROVE  ~Deferred(c)
  BY DEF CallInv, QueueLink, Deferred

LEMMA OneRenewer ==
  ASSUME NEW c \in Calls, NEW d \in Calls, Renewer(c), Renewer(d)
  PROVE  c = d
  BY DEF Renewer

\* One call moves, and neither into nor out of the queue (a method).
LEMMA QueueKeeps ==
  ASSUME CallInv, NEW c \in Calls, \A d \in Calls : d # c => pc'[d] = pc[d],
         pc[c] \notin {"queued", "dead"} \/ pc'[c] \in {"queued", "dead"},
         UNCHANGED m_lstRetryRequest \/ m_lstRetryRequest' = << >>
  PROVE  QueueLink'
  <1>1. CASE m_lstRetryRequest' = << >>
    BY <1>1 DEF QueueLink
  <1>2. CASE UNCHANGED m_lstRetryRequest
    <2>1. ASSUME NEW i \in 1..Len(m_lstRetryRequest)
          PROVE  pc'[m_lstRetryRequest[i]] \in {"queued", "dead"}
      <3>1. m_lstRetryRequest[i] \in Calls /\ pc[m_lstRetryRequest[i]] \in {"queued", "dead"}
        BY DEF CallInv, QueueLink, TFInv, TFTypeOK
      <3> QED BY <3>1
    <2> QED BY <1>2, <2>1 DEF CallInv, QueueLink
  <1> QED BY <1>1, <1>2

LEMMA StackKeeps ==
  ASSUME CallInv, NEW c \in Calls, \A d \in Calls : d # c => pc'[d] = pc[d],
         pc[c] \notin {"authorizing", "unlocking", "dead"} \/ pc'[c] \in {pc[c], "dead"},
         UNCHANGED stack
  PROVE  StackLink'
  <1>1. ASSUME NEW i \in 1..Len(stack)
        PROVE  pc'[stack[i].caller] \in {PlaceOf(stack[i].method), "dead"}
    <2>1. stack[i].caller \in Calls
      BY Callers DEF CallInv
    <2>2. pc[stack[i].caller] \in {PlaceOf(stack[i].method), "dead"}
      BY DEF CallInv, StackLink
    <2> QED BY <2>1, <2>2 DEF PlaceOf
  <1> QED BY <1>1 DEF StackLink

\* A step of a call that the server does not notice.
LEMMA MoveKeeps ==
  ASSUME CallInv, NEW c \in Calls, NEW p \in Places, Goto(c, p), UNCHANGED tfVars,
         pc[c] \notin {"authorizing", "unlocking", "queued", "dead"} \/ p = "dead",
         p \notin {"rejected", "locked", "renewing", "unlocking"}
  PROVE  /\ pc' \in [Calls -> Places]
         /\ Links'
  <1>1. /\ pc' \in [Calls -> Places]
        /\ pc'[c] = p
        /\ \A d \in Calls : d # c => pc'[d] = pc[d]
    BY Moved DEF CallInv
  <1>2. UNCHANGED <<m_spLockForRenew, m_lstRetryRequest, extConn, stack>>
    BY DEF tfVars
  <1>3. QueueLink' /\ StackLink'
    BY <1>1, <1>2, QueueKeeps, StackKeeps
  <1>4. RejectedLink'
    BY <1>1, <1>2 DEF CallInv, RejectedLink
  <1>5. RenewLink'
    BY <1>1, <1>2 DEF CallInv, RenewLink, Renewer
  <1> QED BY <1>1, <1>3, <1>4, <1>5 DEF Links

\* A new activation of a call that was in no method before.
LEMMA EnterKeeps ==
  ASSUME CallInv, NEW c \in Calls, NEW f \in Activation, f.caller = c,
         Goto(c, PlaceOf(f.method)), pc[c] \notin {"authorizing", "unlocking", "queued", "dead"},
         stack' = << f >> \o stack, UNCHANGED m_lstRetryRequest
  PROVE  /\ pc' \in [Calls -> Places]
         /\ QueueLink'
         /\ StackLink'
  <1>1. /\ pc' \in [Calls -> Places]
        /\ pc'[c] = PlaceOf(f.method)
        /\ \A d \in Calls : d # c => pc'[d] = pc[d]
    BY Moved DEF CallInv, PlaceOf, Places
  <1>2. stack \in Seq(Activation) /\ m_lstRetryRequest \in Seq(Calls)
    BY DEF CallInv, TFInv, TFTypeOK
  <1>3. /\ stack'[1] = f
        /\ \A i \in 1..Len(stack') : i = 1 \/ (i - 1 \in 1..Len(stack) /\ stack'[i] = stack[i - 1])
    BY <1>2, Push
  <1>4. QueueLink'
    BY <1>1, QueueKeeps
  <1>5. StackLink'
    <2>1. ASSUME NEW i \in 1..Len(stack')
          PROVE  pc'[stack'[i].caller] \in {PlaceOf(stack'[i].method), "dead"}
      <3>1. CASE i = 1
        BY <1>1, <1>3, <3>1
      <3>2. CASE i # 1
        <4>1. i - 1 \in 1..Len(stack) /\ stack'[i] = stack[i - 1]
          BY <1>3, <3>2
        <4>2. /\ stack[i - 1].caller \in Calls
              /\ pc[stack[i - 1].caller] \in {PlaceOf(stack[i - 1].method), "dead"}
          BY <4>1, Callers DEF CallInv, StackLink
        <4>3. stack[i - 1].caller # c
          BY <4>2 DEF PlaceOf
        <4> QED BY <1>1, <4>1, <4>2, <4>3
      <3> QED BY <3>1, <3>2
    <2> QED BY <2>1 DEF StackLink
  <1> QED BY <1>1, <1>4, <1>5

\* The innermost activation has ended, and its caller is anywhere but in a method.
LEMMA LeaveKeeps ==
  ASSUME CallInv, NEW c \in Calls, stack # << >>, Head(stack).caller = c,
         stack' = Tail(stack), NEW role,
         UNCHANGED extConn \/ extConn' = extConn \ {<<c, role>>},
         pc' \in [Calls -> Places], \A d \in Calls : d # c => pc'[d] = pc[d]
  PROVE  StackLink'
  <1>1. \A i \in 1..Len(stack') : \E j \in 1..Len(stack) :
          stack'[i] = stack[j] /\ stack[j].caller # c
    BY PopKeeps DEF CallInv
  <1>2. ASSUME NEW i \in 1..Len(stack')
        PROVE  pc'[stack'[i].caller] \in {PlaceOf(stack'[i].method), "dead"}
    <2>1. PICK j \in 1..Len(stack) : stack'[i] = stack[j] /\ stack[j].caller # c
      BY <1>1
    <2>2. /\ stack[j].caller \in Calls
          /\ pc[stack[j].caller] \in {PlaceOf(stack[j].method), "dead"}
      BY Callers DEF CallInv, StackLink
    <2> QED BY <2>1, <2>2
  <1> QED BY <1>2 DEF StackLink

-----------------------------------------------------------------------------
(* The steps: each is one of the server's specification, and keeps the links. *)

LEMMA OnLoadingStep ==
  ASSUME CallInv, NEW c \in Calls, OnLoading(c)
  PROVE  [TFNext]_tfVars /\ issued' = issued /\ pc' \in [Calls -> Places] /\ Links'
  <1>1. pc[c] = "loading" /\ issued' = issued
    BY DEF OnLoading, serviceVars
  <1>2. CASE AuthorizeRequest(c) /\ Goto(c, "authorizing")
    <2> DEFINE f == [method |-> "AuthorizeRequest", caller |-> c, succeeded |-> TRUE, callee |-> c]
    <2>1. [TFNext]_tfVars
      BY <1>1, <1>2, NotInCall DEF TFNext, ClientCalls
    <2>2. f \in Activation /\ PlaceOf(f.method) = "authorizing" /\ f.caller = c
      BY DEF Activation, PlaceOf
    <2>3. /\ stack' = << f >> \o stack
          /\ UNCHANGED <<m_lstRetryRequest, m_spLockForRenew>>
          /\ extConn' = extConn \cup {<<c, "loading">>}
      BY <1>2 DEF AuthorizeRequest, GetTokenServer
    <2>4. pc' \in [Calls -> Places] /\ QueueLink' /\ StackLink'
      BY <1>1, <1>2, <2>2, <2>3, EnterKeeps
    <2>5. pc'[c] = "authorizing" /\ \A d \in Calls : d # c => pc'[d] = pc[d]
      BY <1>2, Moved DEF CallInv, Places
    <2>6. RejectedLink' /\ RenewLink'
      BY <2>3, <2>5 DEF CallInv, RejectedLink, RenewLink, Renewer
    <2> QED BY <1>1, <2>1, <2>4, <2>6 DEF Links
  <1>3. CASE Goto(c, "opened") /\ UNCHANGED tfVars
    BY <1>1, <1>3, MoveKeeps DEF Places
  <1> QED BY <1>2, <1>3 DEF OnLoading

LEMMA AuthorizedStep ==
  ASSUME CallInv, NEW c \in Calls, Authorized(c)
  PROVE  [TFNext]_tfVars /\ issued' = issued /\ pc' \in [Calls -> Places] /\ Links'
  <1>1. /\ AuthorizeRequestReturn(c)
        /\ issued' = issued
        /\ stack # << >>
        /\ Head(stack).caller = c
        /\ Head(stack).method = "AuthorizeRequest"
        /\ stack' = Tail(stack)
        /\ ReleaseConnection(c, "loading")
        /\ extConn' = extConn \ {<<c, "loading">>}
    BY DEF Authorized, AuthorizeRequestReturn, ReleaseConnection, serviceVars
  <1>2. [TFNext]_tfVars
    BY <1>1 DEF TFNext, ServerSteps
  <1>3. pc[c] \in {"authorizing", "dead"}
    <2>1. Head(stack) = stack[1] /\ 1 \in 1..Len(stack)
      BY <1>1, Pop DEF CallInv, TFInv, TFTypeOK
    <2> QED BY <1>1, <2>1 DEF CallInv, StackLink, PlaceOf
  <1>4. /\ pc' \in [Calls -> Places]
        /\ pc'[c] \in {"opened", "dead"}
        /\ \A d \in Calls : d # c => pc'[d] = pc[d]
    BY <1>3, Moved DEF CallInv, Authorized, Places
  <1>5. StackLink'
    BY <1>1, <1>4, LeaveKeeps
  <1>6. RejectedLink'
    BY <1>1, <1>4 DEF CallInv, RejectedLink
  <1>7. extConn' = {} \/ UNCHANGED <<m_spLockForRenew, m_lstRetryRequest>>
    BY <1>1 DEF ReleaseConnection
  <1>8. RenewLink'
    BY <1>1, <1>4, <1>7 DEF CallInv, RenewLink, Renewer
  <1>9. QueueLink'
    <2>1. pc[c] = "dead" => pc'[c] = "dead"
      BY DEF Authorized
    <2>2. UNCHANGED m_lstRetryRequest \/ m_lstRetryRequest' = << >>
      BY <1>1 DEF ReleaseConnection
    <2> QED BY <1>3, <1>4, <2>1, <2>2, QueueKeeps
  <1> QED BY <1>1, <1>2, <1>4, <1>5, <1>6, <1>8, <1>9 DEF Links

LEMMA OnCompleteStep ==
  ASSUME CallInv, NEW c \in Calls, OnComplete(c)
  PROVE  [TFNext]_tfVars /\ issued' = issued /\ pc' \in [Calls -> Places] /\ Links'
  <1>1. pc[c] = "answered" /\ issued' = issued
    BY DEF OnComplete, serviceVars
  <1>2. CASE OnFinish(c)
    <2>1. Goto(c, "done") /\ UNCHANGED tfVars
      BY <1>2 DEF OnFinish
    <2> QED BY <1>1, <2>1, MoveKeeps DEF Places
  <1>3. CASE OnRejected(c)
    <2>1. /\ CanRetryImmediately(c)
          /\ \E p \in {"rejected", "loading"} : Goto(c, p)
      BY <1>3 DEF OnRejected, Continue
    <2>2. [TFNext]_tfVars
      BY <1>1, <2>1, NotInCall DEF TFNext, ClientCalls
    <2>3. /\ extConn' = extConn \cup {<<c, "complete">>}
          /\ UNCHANGED <<m_spLockForRenew, m_lstRetryRequest, stack>>
      BY <2>1 DEF CanRetryImmediately, GetTokenServer
    <2>4. /\ pc' \in [Calls -> Places]
          /\ pc'[c] \in {"rejected", "loading"}
          /\ \A d \in Calls : d # c => pc'[d] = pc[d]
      BY <2>1, Moved DEF CallInv, Places
    <2>5. QueueLink' /\ StackLink'
      BY <1>1, <2>3, <2>4, QueueKeeps, StackKeeps
    <2>6. RejectedLink' /\ RenewLink'
      BY <2>3, <2>4 DEF CallInv, RejectedLink, RenewLink, Renewer
    <2> QED BY <1>1, <2>2, <2>4, <2>5, <2>6 DEF Links
  <1> QED BY <1>2, <1>3 DEF OnComplete

\* InitRequest, Send, Refused, ServiceAnswers, Crash, InitThrows: the server does not notice.
LEMMA QuietStep ==
  ASSUME CallInv, NEW c \in Calls,
         InitRequest(c) \/ Send(c) \/ Refused(c) \/ ServiceAnswers(c) \/ Crash(c) \/ InitThrows(c)
  PROVE  [TFNext]_tfVars /\ issued' = issued /\ pc' \in [Calls -> Places] /\ Links'
  <1>1. UNCHANGED tfVars /\ issued' = issued
    BY DEF InitRequest, Send, Refused, ServiceAnswers, Crash, InitThrows, Die, serviceVars
  <1>2. PICK p \in {"loading", "sent", "done", "answered", "dead"} : Goto(c, p)
    BY DEF InitRequest, Send, Refused, Terminate, ServiceAnswers, Crash, InitThrows, Die
  <1>3. pc[c] \notin {"authorizing", "unlocking", "queued", "dead"} \/ p = "dead"
    <2>1. CASE pc[c] \in {"new", "opened", "refused", "sent"}
      BY <2>1
    <2>2. CASE Crash(c) \/ InitThrows(c)
      <3>1. Goto(c, "dead")
        BY <2>2 DEF Crash, InitThrows, Die
      <3>2. pc'[c] = "dead" /\ pc'[c] = p
        BY <1>2, <3>1, Moved DEF CallInv, Places
      <3> QED BY <3>2
    <2> QED BY <2>1, <2>2 DEF InitRequest, Send, Refused, ServiceAnswers
  <1> QED BY <1>1, <1>2, <1>3, MoveKeeps DEF Places

LEMMA RenewInitStep ==
  ASSUME CallInv, NEW c \in Calls, RenewInit(c)
  PROVE  [TFNext]_tfVars /\ issued' = issued /\ pc' \in [Calls -> Places] /\ Links'
  <1>1. /\ pc[c] = "rejected"
        /\ issued' = issued
        /\ ~InCall(c)
        /\ MayLock(c)
    BY NotInCall, NotDeferred DEF RenewInit, serviceVars, MayLock, CallInv, RejectedLink
  <1>2. CASE LockForRenew(c) /\ Goto(c, IF m_spLockForRenew = NULL THEN "locked" ELSE "queued")
    <2>1. [TFNext]_tfVars
      BY <1>1, <1>2 DEF TFNext, ClientCalls
    <2>2. UNCHANGED stack
      BY <1>2 DEF LockForRenew
    <2>3. CASE m_spLockForRenew = NULL
      <3>1. /\ m_spLockForRenew' = NewRequest(c)
            /\ extConn' = extConn \cup {<<c, "renewer">>}
            /\ UNCHANGED m_lstRetryRequest
        BY <1>2, <2>3 DEF LockForRenew
      <3>2. /\ pc' \in [Calls -> Places]
            /\ pc'[c] = "locked"
            /\ \A d \in Calls : d # c => pc'[d] = pc[d]
        BY <1>2, <2>3, Moved DEF CallInv, Places
      <3>3. QueueLink' /\ StackLink'
        BY <1>1, <2>2, <3>1, <3>2, QueueKeeps, StackKeeps
      <3>4. RejectedLink'
        BY <3>1, <3>2 DEF CallInv, RejectedLink
      <3>5. m_spLockForRenew' # NULL
        <4>1. m_strRefreshToken \in Generation
          BY <1>1 DEF MayLock, CallInv, TFInv, TFTypeOK, TokensIffRunning, Running
        <4>2. m_spLockForRenew' \in Request
          BY <3>1, <4>1 DEF NewRequest, Request
        <4> QED BY <4>2, NullAssumption
      <3>6. RenewLink'
        BY <2>3, <3>1, <3>2, <3>5 DEF CallInv, RenewLink, Renewer, NewRequest
      <3> QED BY <1>1, <2>1, <3>2, <3>3, <3>4, <3>6 DEF Links
    <2>4. CASE m_spLockForRenew # NULL
      <3>1. /\ m_lstRetryRequest' = Append(m_lstRetryRequest, c)
            /\ UNCHANGED <<m_spLockForRenew, extConn>>
        BY <1>2, <2>4 DEF LockForRenew
      <3>2. /\ pc' \in [Calls -> Places]
            /\ pc'[c] = "queued"
            /\ \A d \in Calls : d # c => pc'[d] = pc[d]
        BY <1>2, <2>4, Moved DEF CallInv, Places
      <3>3. QueueLink'
        <4>1. m_lstRetryRequest \in Seq(Calls) /\ m_lstRetryRequest' \in Seq(Calls)
          BY <3>1 DEF CallInv, TFInv, TFTypeOK
        <4>2. \A i \in 1..Len(m_lstRetryRequest') :
                IF i \in 1..Len(m_lstRetryRequest)
                  THEN /\ m_lstRetryRequest'[i] = m_lstRetryRequest[i]
                       /\ m_lstRetryRequest[i] \in Calls
                       /\ m_lstRetryRequest[i] # c
                  ELSE i = Len(m_lstRetryRequest) + 1 /\ m_lstRetryRequest'[i] = c
          BY <1>1, <3>1, <4>1 DEF MayLock, Deferred
        <4>3. ASSUME NEW i \in 1..Len(m_lstRetryRequest')
              PROVE  pc'[m_lstRetryRequest'[i]] \in {"queued", "dead"}
          BY <3>2, <4>2 DEF CallInv, QueueLink
        <4>4. ASSUME NEW i \in 1..Len(m_lstRetryRequest'), NEW j \in 1..Len(m_lstRetryRequest'),
                     m_lstRetryRequest'[i] = m_lstRetryRequest'[j]
              PROVE  i = j
          BY <4>2, <4>4 DEF CallInv, QueueLink
        <4> QED BY <4>3, <4>4 DEF QueueLink
      <3>4. StackLink'
        BY <1>1, <2>2, <3>2, StackKeeps
      <3>5. RejectedLink' /\ RenewLink'
        BY <3>1, <3>2 DEF CallInv, RejectedLink, RenewLink, Renewer
      <3> QED BY <1>1, <2>1, <3>2, <3>3, <3>4, <3>5 DEF Links
    <2> QED BY <2>3, <2>4
  <1>3. CASE LockForRenewThrows /\ Terminate(c)
    <2>1. [TFNext]_tfVars
      BY <1>1, <1>3 DEF TFNext, ClientCalls
    <2>2. m_spLockForRenew = NULL /\ UNCHANGED <<m_lstRetryRequest, extConn, stack>>
      BY <1>3 DEF LockForRenewThrows
    <2>3. /\ pc' \in [Calls -> Places]
          /\ pc'[c] = "done"
          /\ \A d \in Calls : d # c => pc'[d] = pc[d]
      BY <1>3, Moved DEF Terminate, CallInv, Places
    <2>4. QueueLink' /\ StackLink'
      BY <1>1, <2>2, <2>3, QueueKeeps, StackKeeps
    <2>5. RejectedLink' /\ RenewLink'
      BY <2>2, <2>3 DEF CallInv, RejectedLink, RenewLink, Renewer
    <2> QED BY <1>1, <2>1, <2>3, <2>4, <2>5 DEF Links
  <1> QED BY <1>2, <1>3 DEF RenewInit

LEMMA RenewSendStep ==
  ASSUME CallInv, NEW c \in Calls, RenewSend(c)
  PROVE  [TFNext]_tfVars /\ issued' = issued /\ pc' \in [Calls -> Places] /\ Links'
  <1>1. /\ pc[c] = "locked"
        /\ issued' = issued
        /\ ~InCall(c)
        /\ Renewer(c)
        /\ m_spLockForRenew.status = "open"
    BY NotInCall DEF RenewSend, serviceVars, CallInv, RenewLink
  <1>2. CASE SendRenew /\ Goto(c, "renewing")
    <2>1. [TFNext]_tfVars
      BY <1>1, <1>2 DEF TFNext, ClientCalls
    <2>2. /\ m_spLockForRenew' = [m_spLockForRenew EXCEPT !.status = "sent"]
          /\ UNCHANGED <<m_lstRetryRequest, extConn, stack>>
      BY <1>2 DEF SendRenew
    <2>3. /\ pc' \in [Calls -> Places]
          /\ pc'[c] = "renewing"
          /\ \A d \in Calls : d # c => pc'[d] = pc[d]
      BY <1>2, Moved DEF CallInv, Places
    <2>4. QueueLink' /\ StackLink' /\ RejectedLink'
      BY <1>1, <2>2, <2>3, QueueKeeps, StackKeeps DEF CallInv, RejectedLink
    <2>5. m_spLockForRenew \in Request
      BY <1>1 DEF Renewer, CallInv, TFInv, TFTypeOK
    <2>6. m_spLockForRenew' \in Request /\ m_spLockForRenew'.sink = c
      BY <1>1, <2>2, <2>5 DEF Request, Renewer
    <2>7. RenewLink'
      <3>1. ASSUME NEW d \in Calls, pc'[d] \in {"locked", "renewing", "unlocking"}
            PROVE  d = c /\ <<c, "renewer">> \in extConn
        <4>1. pc[d] \in {"locked", "renewing", "unlocking"}
          BY <1>1, <2>3, <3>1
        <4>2. Renewer(d) /\ <<d, "renewer">> \in extConn
          BY <4>1 DEF CallInv, RenewLink
        <4> QED BY <1>1, <4>2, OneRenewer
      <3> QED BY <2>2, <2>3, <2>6, <3>1, NullAssumption DEF RenewLink, Renewer
    <2> QED BY <1>1, <2>1, <2>3, <2>4, <2>7 DEF Links
  <1>3. CASE Terminate(c) /\ UNCHANGED tfVars
    <2>1. Goto(c, "done")
      BY <1>3 DEF Terminate
    <2> QED BY <1>1, <1>3, <2>1, MoveKeeps DEF Places
  <1> QED BY <1>2, <1>3 DEF RenewSend

\* After a step that takes the POST away from its only holder, which moves on.
LEMMA RenewerLeaves ==
  ASSUME CallInv, NEW c \in Calls, Renewer(c),
         pc'[c] \notin {"locked", "renewing", "unlocking", "rejected"},
         \A d \in Calls : pc'[d] = pc[d] \/ pc'[d] \notin {"locked", "renewing", "unlocking", "rejected"},
         UNCHANGED extConn
  PROVE  RejectedLink' /\ RenewLink'
  <1>1. RejectedLink'
    BY DEF CallInv, RejectedLink
  <1>2. ASSUME NEW d \in Calls, pc'[d] \in {"locked", "renewing", "unlocking"}
        PROVE  FALSE
    <2>1. pc'[d] = pc[d] /\ d # c
      BY <1>2
    <2>2. Renewer(d)
      BY <1>2, <2>1 DEF CallInv, RenewLink
    <2> QED BY <2>1, <2>2, OneRenewer
  <1> QED BY <1>1, <1>2 DEF RenewLink

LEMMA RenewCompleteStep ==
  ASSUME CallInv, NEW c \in Calls, RenewComplete(c)
  PROVE  [TFNext]_tfVars /\ issued' = issued /\ pc' \in [Calls -> Places] /\ Links'
  <1>1. /\ pc[c] = "renewing"
        /\ issued' = issued
        /\ ~InCall(c)
        /\ Renewer(c)
        /\ MayUnLock(c)
        /\ UnLockFromRenew(c)
        /\ UNCHANGED <<m_lstRetryRequest, extConn>>
    BY NotInCall DEF RenewComplete, UnLockFromRenew, serviceVars, CallInv, RenewLink, MayUnLock
  <1>2. [TFNext]_tfVars
    BY <1>1 DEF TFNext, ClientCalls
  <1>3. CASE Throws(m_spLockForRenew)
    <2>1. Goto(c, "done") /\ UNCHANGED stack
      BY <1>1, <1>3 DEF RenewComplete, Terminate, UnLockFromRenew
    <2>2. /\ pc' \in [Calls -> Places]
          /\ pc'[c] = "done"
          /\ \A d \in Calls : d # c => pc'[d] = pc[d]
      BY <2>1, Moved DEF CallInv, Places
    <2>3. QueueLink' /\ StackLink'
      BY <1>1, <2>1, <2>2, QueueKeeps, StackKeeps
    <2>4. RejectedLink' /\ RenewLink'
      BY <1>1, <2>2, RenewerLeaves
    <2> QED BY <1>1, <1>2, <2>2, <2>3, <2>4 DEF Links
  <1>4. CASE ~Throws(m_spLockForRenew)
    <2> DEFINE f == [method |-> "UnLockFromRenew", caller |-> c,
                     succeeded |-> m_spLockForRenew.status = "200", callee |-> NULL]
    <2>1. Goto(c, "unlocking") /\ stack' = << f >> \o stack /\ UNCHANGED m_spLockForRenew
      BY <1>1, <1>4 DEF RenewComplete, UnLockFromRenew
    <2>2. f \in Activation /\ f.caller = c /\ PlaceOf(f.method) = "unlocking"
      BY DEF Activation, PlaceOf
    <2>3. pc' \in [Calls -> Places] /\ QueueLink' /\ StackLink'
      BY <1>1, <2>1, <2>2, EnterKeeps
    <2>4. pc'[c] = "unlocking" /\ \A d \in Calls : d # c => pc'[d] = pc[d]
      BY <2>1, Moved DEF CallInv, Places
    <2>5. RejectedLink' /\ RenewLink'
      BY <1>1, <2>1, <2>4 DEF CallInv, RejectedLink, RenewLink, Renewer
    <2> QED BY <1>1, <1>2, <2>3, <2>5 DEF Links
  <1> QED BY <1>3, <1>4

LEMMA DrainerRenews ==
  ASSUME CallInv, NEW c \in Calls, Draining(c)
  PROVE  /\ Renewer(c)
         /\ pc[c] \in {"unlocking", "dead"}
         /\ stack # << >>
         /\ Head(stack).caller = c
         /\ Head(stack).method = "UnLockFromRenew"
  <1>1. /\ stack # << >>
        /\ Head(stack).caller = c
        /\ Head(stack).method = "UnLockFromRenew"
    BY DEF Draining
  <1>2. Head(stack) = stack[1] /\ 1 \in 1..Len(stack)
    BY <1>1, Pop DEF CallInv, TFInv, TFTypeOK
  <1> QED BY <1>1, <1>2 DEF CallInv, StackLink, PlaceOf, TFInv, DrainHoldsLock

\* The queue without its head, which has moved on or is dead.
LEMMA TailKeeps ==
  ASSUME CallInv, m_lstRetryRequest # << >>, m_lstRetryRequest' = Tail(m_lstRetryRequest),
         \A d \in Calls : d = Head(m_lstRetryRequest) \/ pc'[d] = pc[d]
           \/ pc[d] \notin {"queued", "dead"}
  PROVE  QueueLink'
  <1>1. /\ Head(m_lstRetryRequest) = m_lstRetryRequest[1]
        /\ 1 \in 1..Len(m_lstRetryRequest)
        /\ \A i \in 1..Len(m_lstRetryRequest') :
             i + 1 \in 1..Len(m_lstRetryRequest) /\ m_lstRetryRequest'[i] = m_lstRetryRequest[i + 1]
    BY Pop DEF CallInv, TFInv, TFTypeOK
  <1>2. ASSUME NEW i \in 1..Len(m_lstRetryRequest')
        PROVE  pc'[m_lstRetryRequest'[i]] \in {"queued", "dead"}
    <2>1. /\ i + 1 \in 1..Len(m_lstRetryRequest)
          /\ i + 1 # 1
          /\ m_lstRetryRequest'[i] = m_lstRetryRequest[i + 1]
      BY <1>1
    <2>2. m_lstRetryRequest[i + 1] \in Calls
      BY <2>1 DEF CallInv, TFInv, TFTypeOK
    <2>3. /\ pc[m_lstRetryRequest[i + 1]] \in {"queued", "dead"}
          /\ m_lstRetryRequest[i + 1] # m_lstRetryRequest[1]
      BY <1>1, <2>1 DEF CallInv, QueueLink
    <2> QED BY <1>1, <2>1, <2>2, <2>3
  <1>3. ASSUME NEW i \in 1..Len(m_lstRetryRequest'), NEW j \in 1..Len(m_lstRetryRequest'),
               m_lstRetryRequest'[i] = m_lstRetryRequest'[j]
        PROVE  i = j
    <2>1. i + 1 = j + 1
      BY <1>1, <1>3 DEF CallInv, QueueLink
    <2> QED BY <2>1
  <1> QED BY <1>2, <1>3 DEF QueueLink

LEMMA DrainStep ==
  ASSUME CallInv, NEW c \in Calls, Drain(c)
  PROVE  [TFNext]_tfVars /\ issued' = issued /\ pc' \in [Calls -> Places] /\ Links'
  <1> DEFINE callee == Head(m_lstRetryRequest)
  <1>1. /\ Draining(c)
        /\ m_lstRetryRequest # << >>
        /\ issued' = issued
    BY DEF Drain, serviceVars
  <1>2. /\ Renewer(c)
        /\ pc[c] \in {"unlocking", "dead"}
        /\ stack # << >>
        /\ Head(stack).caller = c
        /\ Head(stack).method = "UnLockFromRenew"
    BY <1>1, DrainerRenews
  <1>3. callee \in Calls /\ pc[callee] \in {"queued", "dead"}
    <2>1. callee \in Calls /\ callee = m_lstRetryRequest[1] /\ 1 \in 1..Len(m_lstRetryRequest)
      BY <1>1, Pop DEF CallInv, TFInv, TFTypeOK
    <2> QED BY <2>1 DEF CallInv, QueueLink
  <1>4. CASE pc[callee] = "dead"
    <2>1. /\ CallBackFault(c)
          /\ m_lstRetryRequest' = Tail(m_lstRetryRequest)
          /\ stack' = Tail(stack)
          /\ UNCHANGED extConn
      BY <1>4 DEF Drain, CallBackFault
    <2>2. [TFNext]_tfVars
      BY <2>1 DEF TFNext, ServerSteps
    <2>3. /\ pc' \in [Calls -> Places]
          /\ pc'[c] \in {"done", "dead"}
          /\ \A d \in Calls : d # c => pc'[d] = pc[d]
          /\ pc[c] = "dead" => pc'[c] = "dead"
      <3>1. CASE pc[c] = "unlocking"
        <4>1. Goto(c, "done")
          BY <1>4, <3>1 DEF Drain, Terminate
        <4> QED BY <3>1, <4>1, Moved DEF CallInv, Places
      <3>2. CASE pc[c] = "dead"
        BY <1>4, <3>2 DEF Drain, CallInv
      <3> QED BY <1>2, <3>1, <3>2
    <2>4. StackLink'
      BY <1>2, <2>1, <2>3, LeaveKeeps
    <2>5. QueueLink'
      BY <1>1, <1>2, <2>1, <2>3, TailKeeps
    <2>6. RejectedLink' /\ RenewLink'
      BY <1>2, <2>1, <2>3, RenewerLeaves
    <2> QED BY <1>1, <2>2, <2>3, <2>4, <2>5, <2>6 DEF Links
  <1>5. CASE pc[callee] = "queued"
    <2> DEFINE g == [Head(stack) EXCEPT !.callee = callee]
    <2>1. /\ CallBack(c)
          /\ m_lstRetryRequest' = Tail(m_lstRetryRequest)
          /\ stack' = << g >> \o Tail(stack)
          /\ UNCHANGED <<m_spLockForRenew, extConn>>
      BY <1>5 DEF Drain, CallBack
    <2>2. [TFNext]_tfVars
      BY <2>1 DEF TFNext, ServerSteps
    <2>3. PICK p \in {"loading", "done"} : Goto(callee, p)
      BY <1>5 DEF Drain, Continue, Terminate
    <2>4. /\ pc' \in [Calls -> Places]
          /\ pc'[callee] \in {"loading", "done"}
          /\ \A d \in Calls : d # callee => pc'[d] = pc[d]
      BY <1>3, <2>3, Moved DEF CallInv, Places
    <2>5. QueueLink'
      BY <1>1, <2>1, <2>4, TailKeeps
    <2>6. RejectedLink' /\ RenewLink'
      BY <1>5, <2>1, <2>4 DEF CallInv, RejectedLink, RenewLink, Renewer
    <2>7. StackLink'
      <3>1. /\ stack \in Seq(Activation)
            /\ Head(stack) = stack[1] /\ Head(stack) \in Activation
            /\ 1 \in 1..Len(stack)
            /\ Tail(stack) \in Seq(Activation)
            /\ \A i \in 1..Len(Tail(stack)) :
                 i + 1 \in 1..Len(stack) /\ Tail(stack)[i] = stack[i + 1]
        BY <1>2, Pop DEF CallInv, TFInv, TFTypeOK
      <3>2. g \in Activation /\ g.method = stack[1].method /\ g.caller = stack[1].caller
        BY <1>3, <3>1 DEF Activation
      <3>3. /\ stack'[1] = g
            /\ \A i \in 1..Len(stack') :
                 i = 1 \/ (i - 1 \in 1..Len(Tail(stack)) /\ stack'[i] = Tail(stack)[i - 1])
        BY <2>1, <3>1, <3>2, Push
      <3>4. ASSUME NEW i \in 1..Len(stack')
            PROVE  pc'[stack'[i].caller] \in {PlaceOf(stack'[i].method), "dead"}
        <4>1. PICK j \in 1..Len(stack) :
                stack'[i].caller = stack[j].caller /\ stack'[i].method = stack[j].method
          <5>1. CASE i = 1
            BY <3>1, <3>2, <3>3, <5>1
          <5>2. CASE i # 1
            <6>1. i - 1 \in 1..Len(Tail(stack)) /\ stack'[i] = Tail(stack)[i - 1]
              BY <3>3, <5>2
            <6>2. (i - 1) + 1 \in 1..Len(stack) /\ Tail(stack)[i - 1] = stack[(i - 1) + 1]
              BY <3>1, <6>1
            <6> QED BY <6>1, <6>2
          <5> QED BY <5>1, <5>2
        <4>2. stack[j].caller \in Calls /\ pc[stack[j].caller] \in {PlaceOf(stack[j].method), "dead"}
          BY Callers DEF CallInv, StackLink
        <4>3. stack[j].caller # callee
          BY <1>5, <4>2 DEF PlaceOf
        <4> QED BY <2>4, <4>1, <4>2, <4>3
      <3> QED BY <3>4 DEF StackLink
    <2> QED BY <1>1, <2>2, <2>4, <2>5, <2>6, <2>7 DEF Links
  <1> QED BY <1>3, <1>4, <1>5

LEMMA RenewReturnStep ==
  ASSUME CallInv, NEW c \in Calls, RenewReturn(c)
  PROVE  [TFNext]_tfVars /\ issued' = issued /\ pc' \in [Calls -> Places] /\ Links'
  <1>1. /\ UnLockReturn(c)
        /\ Draining(c)
        /\ stack' = Tail(stack)
        /\ UNCHANGED <<m_lstRetryRequest, extConn>>
        /\ issued' = issued
    BY DEF RenewReturn, UnLockReturn, serviceVars
  <1>2. [TFNext]_tfVars
    BY <1>1 DEF TFNext, ServerSteps
  <1>3. /\ Renewer(c)
        /\ pc[c] \in {"unlocking", "dead"}
        /\ stack # << >>
        /\ Head(stack).caller = c
    BY <1>1, DrainerRenews
  <1>4. /\ pc' \in [Calls -> Places]
        /\ pc'[c] \in {"loading", "done", "dead"}
        /\ \A d \in Calls : d # c => pc'[d] = pc[d]
        /\ pc[c] = "dead" => pc'[c] = "dead"
    <2>1. CASE pc[c] = "unlocking"
      <3>1. PICK p \in {"loading", "done"} : Goto(c, p)
        BY <2>1 DEF RenewReturn, Continue, Terminate
      <3> QED BY <2>1, <3>1, Moved DEF CallInv, Places
    <2>2. CASE pc[c] = "dead"
      BY <2>2 DEF RenewReturn, CallInv
    <2> QED BY <1>3, <2>1, <2>2
  <1>5. QueueLink'
    BY <1>1, <1>3, <1>4, QueueKeeps
  <1>6. StackLink'
    BY <1>1, <1>3, <1>4, LeaveKeeps
  <1>7. RejectedLink' /\ RenewLink'
    BY <1>1, <1>3, <1>4, RenewerLeaves
  <1> QED BY <1>1, <1>2, <1>4, <1>5, <1>6, <1>7 DEF Links

LEMMA DropServerStep ==
  ASSUME CallInv, NEW c \in Calls, DropServer(c)
  PROVE  [TFNext]_tfVars /\ issued' = issued /\ pc' \in [Calls -> Places] /\ Links'
  <1>1. PICK role \in {"complete", "renewer"} : MayDrop(c, role) /\ Release(c, role)
    BY DEF DropServer
  <1>2. /\ UNCHANGED <<pc, stack>>
        /\ issued' = issued
        /\ extConn' = extConn \ {<<c, role>>}
        /\ \/ extConn' = {} /\ m_lstRetryRequest' = << >>
           \/ UNCHANGED <<m_spLockForRenew, m_lstRetryRequest>>
    BY <1>1 DEF DropServer, Release, ReleaseConnection, callVars, serviceVars
  <1>3. role = "renewer" => ~Unlocking(c)
    <2>1. Unlocking(c) => Renewer(c)
      BY DEF Unlocking, CallInv, TFInv, DrainHoldsLock
    <2> QED BY <1>1, <2>1 DEF MayDrop
  <1>4. [TFNext]_tfVars
    BY <1>1, <1>3 DEF TFNext, ClientReleases
  <1>5. QueueLink' /\ StackLink'
    BY <1>2 DEF CallInv, QueueLink, StackLink
  <1>6. RejectedLink'
    BY <1>1, <1>2 DEF CallInv, RejectedLink, MayDrop
  <1>7. RenewLink'
    <2>1. ASSUME NEW d \in Calls, pc[d] \in {"locked", "renewing", "unlocking"}
          PROVE  <<d, "renewer">> \in extConn'
      <3>1. <<d, "renewer">> \in extConn
        BY <2>1 DEF CallInv, RenewLink
      <3>2. d # c \/ role # "renewer"
        BY <1>1, <2>1 DEF MayDrop
      <3> QED BY <1>2, <3>1, <3>2
    <2> QED BY <1>2, <2>1 DEF CallInv, RenewLink, Renewer
  <1> QED BY <1>2, <1>4, <1>5, <1>6, <1>7 DEF CallInv, Links

\* The token endpoint answers as the server expects: with a pair of tokens,
\* provided that there is no last generation.
LEMMA TokenEndpointStep ==
  ASSUME CallInv, Generation = Nat \ {0}, TokenEndpoint
  PROVE  [TFNext]_tfVars /\ issued' \in Nat \ {0} /\ pc' \in [Calls -> Places] /\ Links'
  <1> DEFINE pair == [access |-> issued + 1, refresh |-> issued + 1]
  <1>1. /\ Exchange
        /\ UNCHANGED pc
        /\ m_spLockForRenew # NULL
        /\ m_spLockForRenew.status = "sent"
    BY DEF TokenEndpoint, Exchange, callVars
  <1>2. pair \in TokenPair /\ issued' \in Nat \ {0}
    BY <1>1 DEF Exchange, TokenPair, CallInv
  <1>3. RenewAnswer
    BY <1>1, <1>2 DEF Exchange, RenewAnswer
  <1>4. PICK status_ \in Answered, pair_ \in TokenPair \cup {NoTokens}, parsed_ \in 0..3 :
          RenewAnswered(status_, pair_, parsed_)
    BY <1>3 DEF RenewAnswer, Answered
  <1>5. [TFNext]_tfVars
    BY <1>3 DEF TFNext
  <1>6. /\ UNCHANGED <<m_lstRetryRequest, extConn, stack>>
        /\ m_spLockForRenew' = [m_spLockForRenew EXCEPT
                                  !.status = status_, !.pair = pair_, !.parsed = parsed_]
    BY <1>4 DEF RenewAnswered
  <1>7. QueueLink' /\ StackLink' /\ RejectedLink'
    BY <1>1, <1>6 DEF CallInv, QueueLink, StackLink, RejectedLink
  <1>8. m_spLockForRenew \in Request
    BY <1>1 DEF CallInv, TFInv, TFTypeOK
  <1>9. m_spLockForRenew' \in Request /\ m_spLockForRenew'.sink = m_spLockForRenew.sink
    BY <1>6, <1>8 DEF Request
  <1>10. RenewLink'
    <2>1. m_spLockForRenew' # NULL
      BY <1>9, NullAssumption
    <2>2. \A d \in Calls : pc[d] # "locked"
      BY <1>1 DEF CallInv, RenewLink
    <2> QED BY <1>1, <1>6, <1>9, <2>1, <2>2 DEF CallInv, RenewLink, Renewer
  <1> QED BY <1>1, <1>2, <1>5, <1>7, <1>10 DEF CallInv, Links

\* The surrogate leaves no link between calls and server.
LEMMA SurrogateEndsStep ==
  ASSUME CallInv, SurrogateEnds
  PROVE  [TFNext]_tfVars /\ issued' = issued /\ pc' \in [Calls -> Places] /\ Links'
  <1>1. /\ SurrogateDies
        /\ m_lstRetryRequest' = << >>
        /\ stack' = << >>
        /\ issued' = issued
    BY DEF SurrogateEnds, SurrogateDies, serviceVars
  <1>2. PICK swallowed \in BOOLEAN, asking \in SUBSET Calls :
          pc' = [c \in Calls |-> IF c \in asking THEN "loading" ELSE PlaceAfter(c, swallowed)]
    BY DEF SurrogateEnds
  <1>3. ASSUME NEW c \in Calls
        PROVE  /\ PlaceAfter(c, swallowed) \in Places
               /\ PlaceAfter(c, swallowed) \notin {"rejected", "locked", "renewing", "unlocking"}
    <2>1. pc[c] \in Places
      BY DEF CallInv
    <2> QED BY <2>1 DEF PlaceAfter, Places
  <1>4. /\ pc' \in [Calls -> Places]
        /\ \A c \in Calls : pc'[c] \notin {"rejected", "locked", "renewing", "unlocking"}
    BY <1>2, <1>3 DEF Places
  <1>5. QueueLink' /\ StackLink'
    BY <1>1 DEF QueueLink, StackLink
  <1>6. RejectedLink' /\ RenewLink'
    BY <1>4 DEF RejectedLink, RenewLink
  <1> QED BY <1>1, <1>4, <1>5, <1>6 DEF TFNext, Links

-----------------------------------------------------------------------------
(* The composition *)

LEMMA InitCallInv ==
  ASSUME Generation = Nat \ {0}, Init
  PROVE  TFInit /\ CallInv
  <1>1. TFInit
    BY DEF Init
  <1>2. TFInv
    BY <1>1, InitTFInv
  <1>3. pc \in [Calls -> Places] /\ \A c \in Calls : pc[c] = "new"
    BY DEF Init, Places
  <1>4. issued \in Nat \ {0}
    BY DEF Init, ServiceInit
  <1>5. QueueLink /\ StackLink
    BY <1>1 DEF TFInit, QueueLink, StackLink
  <1>6. RejectedLink /\ RenewLink
    BY <1>3 DEF RejectedLink, RenewLink
  <1> QED BY <1>1, <1>2, <1>3, <1>4, <1>5, <1>6 DEF CallInv

LEMMA CallStep ==
  ASSUME CallInv, NEW c \in Calls, InitRequest(c) \/ Step(c) \/ Crash(c) \/ InitThrows(c)
  PROVE  [TFNext]_tfVars /\ issued' = issued /\ pc' \in [Calls -> Places] /\ Links'
  <1>1. CASE \/ InitRequest(c) \/ Send(c) \/ Refused(c) \/ ServiceAnswers(c)
             \/ Crash(c) \/ InitThrows(c)
    BY <1>1, QuietStep
  <1>2. CASE OnLoading(c)
    BY <1>2, OnLoadingStep
  <1>3. CASE Authorized(c)
    BY <1>3, AuthorizedStep
  <1>4. CASE OnComplete(c)
    BY <1>4, OnCompleteStep
  <1>5. CASE RenewInit(c)
    BY <1>5, RenewInitStep
  <1>6. CASE RenewSend(c)
    BY <1>6, RenewSendStep
  <1>7. CASE RenewComplete(c)
    BY <1>7, RenewCompleteStep
  <1>8. CASE Drain(c)
    BY <1>8, DrainStep
  <1>9. CASE RenewReturn(c)
    BY <1>9, RenewReturnStep
  <1>10. CASE DropServer(c)
    BY <1>10, DropServerStep
  <1> QED BY <1>1, <1>2, <1>3, <1>4, <1>5, <1>6, <1>7, <1>8, <1>9, <1>10 DEF Step

LEMMA NextCallInv ==
  ASSUME CallInv, Generation = Nat \ {0}, [Next]_vars
  PROVE  [TFNext]_tfVars /\ CallInv'
  <1>1. /\ [TFNext]_tfVars
        /\ issued' \in Nat \ {0}
        /\ pc' \in [Calls -> Places]
        /\ Links'
    <2>1. ASSUME NEW c \in Calls, InitRequest(c) \/ Step(c) \/ Crash(c) \/ InitThrows(c)
          PROVE  [TFNext]_tfVars /\ issued' = issued /\ pc' \in [Calls -> Places] /\ Links'
      BY <2>1, CallStep
    <2>2. CASE TokenEndpoint
      BY <2>2, TokenEndpointStep
    <2>3. CASE SurrogateEnds
      BY <2>3, SurrogateEndsStep DEF CallInv
    <2>4. CASE UNCHANGED <<tfVars, pc, issued>>
      BY <2>4 DEF tfVars, CallInv, Links, QueueLink, StackLink, RejectedLink, RenewLink, Renewer
    <2>5. Expire \/ Revoke \/ Terminating \/ UNCHANGED vars => UNCHANGED <<tfVars, pc, issued>>
      BY DEF Expire, ExpireToken, Revoke, RevokeConsent, Terminating, vars, callVars, serviceVars
    <2> QED BY <2>1, <2>2, <2>3, <2>4, <2>5 DEF Next, CallInv
  <1>2. TFInv'
    BY <1>1, NextTFInv DEF CallInv
  <1> QED BY <1>1, <1>2 DEF CallInv, Links

\* CallInv holds in every state that server, calls and service can reach.
THEOREM CallInvariance ==
  ASSUME Generation = Nat \ {0}
  PROVE  Spec => []CallInv
  <1>1. Init => CallInv
    BY InitCallInv
  <1>2. CallInv /\ [Next]_vars => CallInv'
    BY NextCallInv
  <1> QED BY <1>1, <1>2, PTL DEF Spec

\* The client library keeps to the protocol of IAuthorize: it calls no method
\* of the server in a state in which the server does not allow for it.
THEOREM KeepsProtocol ==
  ASSUME Generation = Nat \ {0}
  PROVE  Spec => ServerSpec
  <1>1. Init => TFInit
    BY InitCallInv
  <1>2. CallInv /\ [Next]_vars => [TFNext]_tfVars
    BY NextCallInv
  <1> QED BY <1>1, <1>2, CallInvariance, PTL DEF Spec, ServerSpec, TFSpec

\* Whoever was told to send the POST is the one the server is locked for.
THEOREM RenewsAlone ==
  ASSUME Generation = Nat \ {0}
  PROVE  Spec => []SingleRenew
  <1>1. CallInv => SingleRenew
    BY DEF CallInv, RenewLink, SingleRenew
  <1> QED BY <1>1, CallInvariance, PTL

=============================================================================
