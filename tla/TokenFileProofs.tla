--------------------------- MODULE TokenFileProofs ---------------------------
(***************************************************************************)
(* The safety of the token server under its most general clients, for any  *)
(* number of calls, any token generations and any faults.                  *)
(***************************************************************************)
EXTENDS TokenFile, SequenceTheorems, TLAPS

\* A good answer of the token endpoint carries a pair of tokens.
AnswerHasTokens ==
  m_spLockForRenew # NULL /\ m_spLockForRenew.status = "200"
    => m_spLockForRenew.pair \in TokenPair

\* The inductive invariant.  The lock has to be tied to the one activation of
\* UnLockFromRenew, and that to a connection, before any of the parts is kept
\* by a step on its own.
TFInv ==
  /\ TFTypeOK
  /\ AnswerHasTokens
  /\ QueueOnlyWhileLocked
  /\ DrainHoldsLock
  /\ ActivationsConnected
  /\ TokensIffRunning

-----------------------------------------------------------------------------
(* Stacks *)

LEMMA Push ==
  ASSUME NEW S, NEW s \in Seq(S), NEW e \in S
  PROVE  /\ << e >> \o s \in Seq(S)
         /\ << e >> \o s # << >>
         /\ Head(<< e >> \o s) = e
         /\ (<< e >> \o s)[1] = e
         /\ \A i \in 1..Len(<< e >> \o s) :
              i = 1 \/ (i - 1 \in 1..Len(s) /\ (<< e >> \o s)[i] = s[i - 1])
  BY SMT

LEMMA Pop ==
  ASSUME NEW S, NEW s \in Seq(S), s # << >>
  PROVE  /\ Tail(s) \in Seq(S)
         /\ Head(s) \in S
         /\ Head(s) = s[1]
         /\ 1 \in 1..Len(s)
         /\ \A i \in 1..Len(Tail(s)) : i + 1 \in 1..Len(s) /\ Tail(s)[i] = s[i + 1]
  BY SMT

\* The innermost activation ends, or turns to another callee.
LEMMA StackShrinks ==
  ASSUME stack \in Seq(Activation), stack # << >>,
         \/ stack' = Tail(stack)
         \/ \E callee : stack' = << [Head(stack) EXCEPT !.callee = callee] >> \o Tail(stack),
         NEW i \in 1..Len(stack')
  PROVE  \E j \in 1..Len(stack) : /\ stack[j].method = stack'[i].method
                                  /\ stack[j].succeeded = stack'[i].succeeded
  <1>1. CASE stack' = Tail(stack)
    <2>1. i + 1 \in 1..Len(stack) /\ stack'[i] = stack[i + 1]
      BY <1>1, Pop
    <2> QED BY <2>1
  <1>2. ASSUME NEW callee, stack' = << [Head(stack) EXCEPT !.callee = callee] >> \o Tail(stack)
        PROVE  \E j \in 1..Len(stack) : /\ stack[j].method = stack'[i].method
                                        /\ stack[j].succeeded = stack'[i].succeeded
    <2> DEFINE head == [Head(stack) EXCEPT !.callee = callee]
    <2>1. /\ Head(stack) = stack[1] /\ 1 \in 1..Len(stack) /\ Head(stack) \in Activation
          /\ Tail(stack) \in Seq(Activation)
      BY Pop
    <2>2. head.method = stack[1].method /\ head.succeeded = stack[1].succeeded
      BY <2>1 DEF Activation
    <2> HIDE DEF head
    <2>3. i = 1 => stack'[i] = head
      BY <1>2, <2>1 DEF head
    <2>4. i # 1 => i \in 1..Len(stack) /\ stack'[i] = stack[i]
      BY <1>2, <2>1
    <2> QED BY <2>1, <2>2, <2>3, <2>4
  <1> QED BY <1>1, <1>2

\* A new activation of a caller that has none yet.
LEMMA PushKeeps ==
  ASSUME TFInv, NEW f \in Activation, ~InCall(f.caller), stack' = << f >> \o stack,
         extConn \subseteq extConn',
         <<f.caller, IF f.method = "UnLockFromRenew" THEN "renewer" ELSE "loading">> \in extConn'
  PROVE  /\ stack' \in Seq(Activation)
         /\ ActivationsConnected'
         /\ stack'[1] = f
         /\ \A i \in 1..Len(stack') :
              i = 1 \/ (i - 1 \in 1..Len(stack) /\ stack'[i] = stack[i - 1])
  <1>1. stack \in Seq(Activation)
    BY DEF TFInv, TFTypeOK
  <1>2. /\ stack' \in Seq(Activation)
        /\ stack'[1] = f
        /\ \A i \in 1..Len(stack') :
             i = 1 \/ (i - 1 \in 1..Len(stack) /\ stack'[i] = stack[i - 1])
    BY <1>1, Push
  <1>3. ASSUME NEW i \in 1..Len(stack')
        PROVE  <<stack'[i].caller, IF stack'[i].method = "UnLockFromRenew"
                                     THEN "renewer" ELSE "loading">> \in extConn'
    <2>1. CASE i = 1
      BY <1>2, <2>1
    <2>2. CASE i # 1
      <3>1. i - 1 \in 1..Len(stack) /\ stack'[i] = stack[i - 1]
        BY <1>2, <2>2
      <3> QED BY <3>1 DEF TFInv, ActivationsConnected
    <2> QED BY <2>1, <2>2
  <1>4. ASSUME NEW i \in 1..Len(stack'), NEW j \in 1..Len(stack'),
               stack'[i].caller = stack'[j].caller
        PROVE  i = j
    <2>1. \A k \in 1..Len(stack) : stack[k].caller # f.caller
      BY DEF InCall
    <2>2. (i = 1 <=> stack'[i].caller = f.caller) /\ (j = 1 <=> stack'[j].caller = f.caller)
      BY <1>2, <2>1
    <2>3. CASE i = 1 \/ j = 1
      BY <1>4, <2>2, <2>3
    <2>4. CASE i # 1 /\ j # 1
      <3>1. /\ i - 1 \in 1..Len(stack) /\ stack'[i] = stack[i - 1]
            /\ j - 1 \in 1..Len(stack) /\ stack'[j] = stack[j - 1]
        BY <1>2, <2>4
      <3>2. i - 1 = j - 1
        BY <1>4, <3>1 DEF TFInv, ActivationsConnected
      <3> QED BY <3>2
    <2> QED BY <2>3, <2>4
  <1> QED BY <1>2, <1>3, <1>4 DEF ActivationsConnected

\* The activations that are left after the innermost one has ended.
LEMMA PopKeeps ==
  ASSUME TFInv, stack # << >>, stack' = Tail(stack), NEW role,
         UNCHANGED extConn \/ extConn' = extConn \ {<<Head(stack).caller, role>>}
  PROVE  /\ stack' \in Seq(Activation)
         /\ ActivationsConnected'
         /\ \A i \in 1..Len(stack') : \E j \in 1..Len(stack) :
              stack'[i] = stack[j] /\ stack[j].caller # Head(stack).caller
  <1>1. stack \in Seq(Activation)
    BY DEF TFInv, TFTypeOK
  <1>2. /\ stack' \in Seq(Activation)
        /\ Head(stack) = stack[1]
        /\ 1 \in 1..Len(stack)
        /\ \A i \in 1..Len(stack') : i + 1 \in 1..Len(stack) /\ stack'[i] = stack[i + 1]
    BY <1>1, Pop
  <1>3. ASSUME NEW i \in 1..Len(stack')
        PROVE  \E j \in 1..Len(stack) :
                 stack'[i] = stack[j] /\ stack[j].caller # Head(stack).caller
    <2>1. i + 1 \in 1..Len(stack) /\ stack'[i] = stack[i + 1] /\ i + 1 # 1
      BY <1>2
    <2>2. stack[i + 1].caller # stack[1].caller
      BY <1>2, <2>1 DEF TFInv, ActivationsConnected
    <2> QED BY <1>2, <2>1, <2>2
  <1>4. ActivationsConnected'
    <2>1. ASSUME NEW i \in 1..Len(stack')
          PROVE  <<stack'[i].caller, IF stack'[i].method = "UnLockFromRenew"
                                       THEN "renewer" ELSE "loading">> \in extConn'
      BY <1>3 DEF TFInv, ActivationsConnected
    <2>2. ASSUME NEW i \in 1..Len(stack'), NEW j \in 1..Len(stack'),
                 stack'[i].caller = stack'[j].caller
          PROVE  i = j
      <3>1. /\ i + 1 \in 1..Len(stack) /\ stack'[i] = stack[i + 1]
            /\ j + 1 \in 1..Len(stack) /\ stack'[j] = stack[j + 1]
        BY <1>2
      <3>2. i + 1 = j + 1
        BY <3>1, <2>2 DEF TFInv, ActivationsConnected
      <3> QED BY <3>2
    <2> QED BY <2>1, <2>2 DEF ActivationsConnected
  <1> QED BY <1>2, <1>3, <1>4

-----------------------------------------------------------------------------
(* The steps *)

LEMMA BindKeeps ==
  ASSUME TFInv, NEW c \in Calls, NEW role \in Roles, GetTokenServer(c, role)
  PROVE  /\ extConn' \subseteq Calls \X Roles
         /\ extConn \subseteq extConn'
         /\ <<c, role>> \in extConn'
         /\ m_strAccessToken' \in Generation
         /\ m_strRefreshToken' \in Generation
         /\ Running'
  <1>1. extConn' = extConn \cup {<<c, role>>} /\ extConn \subseteq Calls \X Roles
    BY DEF GetTokenServer, TFInv, TFTypeOK
  <1>2. <<c, role>> \in extConn' /\ extConn \subseteq extConn' /\ extConn' \subseteq Calls \X Roles
    BY <1>1
  <1>3. Running'
    BY <1>2 DEF Running
  <1>4. m_strAccessToken' \in Generation /\ m_strRefreshToken' \in Generation
    <2>1. CASE Running
      <3>1. m_strAccessToken' = m_strAccessToken /\ m_strRefreshToken' = m_strRefreshToken
        BY <2>1 DEF GetTokenServer, memory
      <3>2. m_strAccessToken \in Generation /\ m_strRefreshToken \in Generation
        BY <2>1 DEF TFInv, TFTypeOK, TokensIffRunning
      <3> QED BY <3>1, <3>2
    <2>2. CASE ~Running
      <3>1. Load
        BY <2>2 DEF GetTokenServer
      <3>2. tokenFile \in TokenPair
        BY <3>1 DEF Load, TFInv, TFTypeOK
      <3> QED BY <3>1, <3>2 DEF Load, TokenPair
    <2> QED BY <2>1, <2>2
  <1> QED BY <1>2, <1>3, <1>4

LEMMA AuthorizeRequestStep ==
  ASSUME TFInv, NEW c \in Calls, ~InCall(c), AuthorizeRequest(c)
  PROVE  TFInv'
  <1> DEFINE f == [method |-> "AuthorizeRequest", caller |-> c, succeeded |-> TRUE, callee |-> c]
  <1>1. /\ UNCHANGED <<tokenFile, m_spLockForRenew, m_lstRetryRequest>>
        /\ stack' = << f >> \o stack
        /\ GetTokenServer(c, "loading")
    BY DEF AuthorizeRequest
  <1>2. f \in Activation /\ stack \in Seq(Activation)
    BY DEF Activation, TFInv, TFTypeOK
  <1>3. /\ extConn' \subseteq Calls \X Roles
        /\ extConn \subseteq extConn'
        /\ <<c, "loading">> \in extConn'
        /\ m_strAccessToken' \in Generation
        /\ m_strRefreshToken' \in Generation
        /\ Running'
    BY <1>1, BindKeeps DEF Roles
  <1>4. /\ stack' \in Seq(Activation)
        /\ ActivationsConnected'
        /\ stack'[1] = f
        /\ \A i \in 1..Len(stack') : i = 1 \/ (i - 1 \in 1..Len(stack) /\ stack'[i] = stack[i - 1])
    BY <1>1, <1>2, <1>3, PushKeeps
  <1>5. TFTypeOK'
    BY <1>1, <1>3, <1>4 DEF TFInv, TFTypeOK
  <1>6. AnswerHasTokens' /\ QueueOnlyWhileLocked'
    BY <1>1 DEF TFInv, AnswerHasTokens, QueueOnlyWhileLocked
  <1>7. DrainHoldsLock'
    <2>1. ASSUME NEW i \in 1..Len(stack'), stack'[i].method = "UnLockFromRenew"
          PROVE  Renewer(stack'[i].caller)
      <3>1. i - 1 \in 1..Len(stack) /\ stack'[i] = stack[i - 1]
        BY <1>4, <2>1
      <3> QED BY <2>1, <3>1 DEF TFInv, DrainHoldsLock
    <2> QED BY <1>1, <2>1 DEF DrainHoldsLock, Renewer
  <1>8. TokensIffRunning'
    BY <1>3, GenerationAssumption DEF TokensIffRunning, NoToken
  <1> QED BY <1>4, <1>5, <1>6, <1>7, <1>8 DEF TFInv

LEMMA CanRetryStep ==
  ASSUME TFInv, NEW c \in Calls, CanRetryImmediately(c)
  PROVE  TFInv'
  <1>1. /\ UNCHANGED <<tokenFile, m_spLockForRenew, m_lstRetryRequest, stack>>
        /\ GetTokenServer(c, "complete")
    BY DEF CanRetryImmediately
  <1>2. /\ extConn' \subseteq Calls \X Roles
        /\ extConn \subseteq extConn'
        /\ m_strAccessToken' \in Generation
        /\ m_strRefreshToken' \in Generation
        /\ Running'
    BY <1>1, BindKeeps DEF Roles
  <1>3. TFTypeOK'
    BY <1>1, <1>2 DEF TFInv, TFTypeOK
  <1>4. /\ AnswerHasTokens'
        /\ QueueOnlyWhileLocked'
        /\ DrainHoldsLock'
    BY <1>1 DEF TFInv, AnswerHasTokens, QueueOnlyWhileLocked, DrainHoldsLock, Renewer
  <1>5. ActivationsConnected'
    BY <1>1, <1>2 DEF TFInv, ActivationsConnected
  <1>6. TokensIffRunning'
    BY <1>2, GenerationAssumption DEF TokensIffRunning, NoToken
  <1> QED BY <1>3, <1>4, <1>5, <1>6 DEF TFInv

\* Released: the object goes with its last connection, and then no activation is left.
LEMMA ReleaseKeeps ==
  ASSUME TFInv, NEW c \in Calls, NEW role \in Roles, ReleaseConnection(c, role),
         UNCHANGED tokenFile, stack' \in Seq(Activation),
         DrainHoldsLock, ActivationsConnected',
         \A i \in 1..Len(stack') : \E j \in 1..Len(stack) : stack'[i] = stack[j]
  PROVE  TFInv'
  <1>1. /\ extConn' \subseteq Calls \X Roles
        /\ extConn' \subseteq extConn
    BY DEF ReleaseConnection, TFInv, TFTypeOK
  <1>2. CASE extConn' = {}
    <2>1. /\ m_strAccessToken' = NoToken
          /\ m_strRefreshToken' = NoToken
          /\ m_spLockForRenew' = NULL
          /\ m_lstRetryRequest' = << >>
      BY <1>2 DEF ReleaseConnection
    <2>2. stack' = << >>
      <3>1. ~(1 \in 1..Len(stack'))
        BY <1>2 DEF ActivationsConnected
      <3> QED BY <3>1
    <2>3. TFTypeOK'
      BY <1>1, <2>1 DEF TFInv, TFTypeOK
    <2>4. AnswerHasTokens' /\ QueueOnlyWhileLocked' /\ TokensIffRunning'
      BY <1>2, <2>1, <2>2 DEF AnswerHasTokens, QueueOnlyWhileLocked, TokensIffRunning, Running
    <2>5. DrainHoldsLock'
      BY <2>2 DEF DrainHoldsLock
    <2> QED BY <2>3, <2>4, <2>5 DEF TFInv
  <1>3. CASE extConn' # {}
    <2>1. UNCHANGED <<memory, m_spLockForRenew, m_lstRetryRequest>>
      BY <1>3 DEF ReleaseConnection
    <2>2. TFTypeOK'
      BY <1>1, <2>1 DEF TFInv, TFTypeOK, memory
    <2>3. AnswerHasTokens' /\ QueueOnlyWhileLocked'
      BY <2>1 DEF TFInv, AnswerHasTokens, QueueOnlyWhileLocked
    <2>4. DrainHoldsLock'
      BY <2>1 DEF DrainHoldsLock, Renewer
    <2>5. TokensIffRunning'
      BY <1>1, <1>3, <2>1 DEF TFInv, TokensIffRunning, Running, memory
    <2> QED BY <2>2, <2>3, <2>4, <2>5 DEF TFInv
  <1> QED BY <1>2, <1>3

LEMMA ReleaseStep ==
  ASSUME TFInv, NEW c \in Calls, ClientReleases(c)
  PROVE  TFInv'
  <1>1. PICK role \in {"complete", "renewer"} :
          Release(c, role) /\ (role = "renewer" => ~Unlocking(c))
    BY DEF ClientReleases
  <1>2. /\ ReleaseConnection(c, role)
        /\ UNCHANGED <<tokenFile, stack>>
        /\ extConn' = extConn \ {<<c, role>>}
        /\ role \in Roles
    BY <1>1 DEF Release, ReleaseConnection, Roles
  <1>3. ActivationsConnected'
    BY <1>1, <1>2 DEF TFInv, ActivationsConnected, Unlocking
  <1> QED BY <1>2, <1>3, ReleaseKeeps DEF TFInv, TFTypeOK

LEMMA AuthorizeRequestReturnStep ==
  ASSUME TFInv, NEW c \in Calls, AuthorizeRequestReturn(c)
  PROVE  TFInv'
  <1>1. /\ stack # << >>
        /\ stack' = Tail(stack)
        /\ Head(stack).caller = c
        /\ ReleaseConnection(c, "loading")
        /\ UNCHANGED tokenFile
        /\ extConn' = extConn \ {<<c, "loading">>}
    BY DEF AuthorizeRequestReturn, ReleaseConnection
  <1>2. /\ stack' \in Seq(Activation)
        /\ ActivationsConnected'
        /\ \A i \in 1..Len(stack') : \E j \in 1..Len(stack) :
             stack'[i] = stack[j] /\ stack[j].caller # Head(stack).caller
    BY <1>1, PopKeeps
  <1>3. "loading" \in Roles /\ DrainHoldsLock
    BY DEF Roles, TFInv
  <1> QED BY <1>1, <1>2, <1>3, ReleaseKeeps

LEMMA LockForRenewStep ==
  ASSUME TFInv, NEW c \in Calls, MayLock(c), LockForRenew(c)
  PROVE  TFInv'
  <1>1. UNCHANGED <<tokenFile, memory, stack>>
    BY DEF LockForRenew
  <1>2. Running /\ m_strRefreshToken \in Generation
    BY DEF MayLock, Running, TFInv, TFTypeOK, TokensIffRunning
  <1>3. CASE m_spLockForRenew = NULL
    <2>1. /\ m_spLockForRenew' = NewRequest(c)
          /\ extConn' = extConn \cup {<<c, "renewer">>}
          /\ UNCHANGED m_lstRetryRequest
      BY <1>3 DEF LockForRenew
    <2>2. m_spLockForRenew' \in Request
      BY <1>2, <2>1 DEF NewRequest, Request
    <2>3. /\ extConn' \subseteq Calls \X Roles
          /\ extConn \subseteq extConn'
          /\ extConn' # {}
      <3>1. extConn \subseteq Calls \X Roles /\ <<c, "renewer">> \in Calls \X Roles
        BY DEF Roles, TFInv, TFTypeOK
      <3> QED BY <2>1, <3>1
    <2>4. TFTypeOK'
      BY <1>1, <2>1, <2>2, <2>3 DEF TFInv, TFTypeOK, memory
    <2>5. AnswerHasTokens'
      BY <2>1 DEF NewRequest, AnswerHasTokens
    <2>6. QueueOnlyWhileLocked'
      BY <1>3, <2>1 DEF TFInv, QueueOnlyWhileLocked
    <2>7. DrainHoldsLock'
      BY <1>1, <1>3 DEF TFInv, DrainHoldsLock, Renewer
    <2>8. ActivationsConnected'
      BY <1>1, <2>3 DEF TFInv, ActivationsConnected
    <2>9. TokensIffRunning'
      BY <1>1, <1>2, <2>3 DEF TFInv, TokensIffRunning, Running, memory
    <2> QED BY <2>4, <2>5, <2>6, <2>7, <2>8, <2>9 DEF TFInv
  <1>4. CASE m_spLockForRenew # NULL
    <2>1. /\ m_lstRetryRequest' = Append(m_lstRetryRequest, c)
          /\ UNCHANGED <<m_spLockForRenew, extConn>>
      BY <1>4 DEF LockForRenew
    <2>2. TFTypeOK'
      BY <1>1, <2>1 DEF TFInv, TFTypeOK, memory
    <2>3. AnswerHasTokens' /\ QueueOnlyWhileLocked'
      BY <1>4, <2>1 DEF TFInv, AnswerHasTokens, QueueOnlyWhileLocked
    <2>4. DrainHoldsLock' /\ ActivationsConnected'
      BY <1>1, <2>1 DEF TFInv, DrainHoldsLock, Renewer, ActivationsConnected
    <2>5. TokensIffRunning'
      BY <1>1, <1>2, <2>1 DEF TFInv, TokensIffRunning, Running, memory
    <2> QED BY <2>2, <2>3, <2>4, <2>5 DEF TFInv
  <1> QED BY <1>3, <1>4

\* A step that changes the POST only, and takes it away from no activation.
LEMMA RequestKeeps ==
  ASSUME TFInv, Running, m_spLockForRenew' \in Request, AnswerHasTokens',
         UNCHANGED <<tokenFile, memory, m_lstRetryRequest, extConn, stack>>,
         m_spLockForRenew = NULL \/ m_spLockForRenew'.sink = m_spLockForRenew.sink
           \/ \A c \in Calls : Renewer(c) => ~InCall(c)
  PROVE  TFInv'
  <1>1. TFTypeOK'
    BY DEF TFInv, TFTypeOK, memory
  <1>2. QueueOnlyWhileLocked'
    BY NullAssumption DEF QueueOnlyWhileLocked
  <1>3. ActivationsConnected'
    BY DEF TFInv, ActivationsConnected
  <1>4. TokensIffRunning'
    BY DEF TFInv, TokensIffRunning, Running, memory
  <1>5. DrainHoldsLock'
    <2>1. SUFFICES ASSUME NEW i \in 1..Len(stack), stack[i].method = "UnLockFromRenew"
                   PROVE  Renewer(stack[i].caller)'
      BY DEF DrainHoldsLock, Renewer
    <2>2. stack[i].caller \in Calls
      <3>1. stack \in Seq(Activation)
        BY DEF TFInv, TFTypeOK
      <3>2. stack[i] \in Activation
        BY <3>1
      <3> QED BY <3>2 DEF Activation
    <2>3. Renewer(stack[i].caller) /\ InCall(stack[i].caller)
      BY <2>1 DEF TFInv, DrainHoldsLock, InCall
    <2>4. m_spLockForRenew'.sink = m_spLockForRenew.sink
      BY <2>2, <2>3 DEF Renewer
    <2> QED BY <2>3, <2>4, NullAssumption DEF Renewer
  <1> QED BY <1>1, <1>2, <1>3, <1>4, <1>5 DEF TFInv

LEMMA LockForRenewThrowsStep ==
  ASSUME TFInv, NEW c \in Calls, MayLock(c), LockForRenewThrows
  PROVE  TFInv'
  <1>1. Running /\ m_strRefreshToken \in Generation
    BY DEF MayLock, Running, TFInv, TFTypeOK, TokensIffRunning
  <1>2. m_spLockForRenew' \in Request /\ m_spLockForRenew'.status = "open"
    BY <1>1 DEF LockForRenewThrows, NewRequest, Request
  <1>3. AnswerHasTokens'
    BY <1>2 DEF AnswerHasTokens
  <1> QED BY <1>1, <1>2, <1>3, RequestKeeps DEF LockForRenewThrows

LEMMA SendRenewStep ==
  ASSUME TFInv, NEW c \in Calls, Renewer(c), SendRenew
  PROVE  TFInv'
  <1>1. m_spLockForRenew \in Request
    BY DEF Renewer, TFInv, TFTypeOK
  <1>2. Running
    BY DEF Renewer, TFInv, TokensIffRunning
  <1>3. /\ m_spLockForRenew' \in Request
        /\ m_spLockForRenew'.status = "sent"
        /\ m_spLockForRenew'.sink = m_spLockForRenew.sink
    BY <1>1 DEF SendRenew, Request
  <1>4. AnswerHasTokens'
    BY <1>3 DEF AnswerHasTokens
  <1> QED BY <1>2, <1>3, <1>4, RequestKeeps DEF SendRenew

LEMMA RemoveSinkStep ==
  ASSUME TFInv, NEW c \in Calls, Renewer(c), ~InCall(c), RemoveSink
  PROVE  TFInv'
  <1>1. m_spLockForRenew \in Request
    BY DEF Renewer, TFInv, TFTypeOK
  <1>2. Running
    BY DEF Renewer, TFInv, TokensIffRunning
  <1>3. /\ m_spLockForRenew' \in Request
        /\ m_spLockForRenew'.status = m_spLockForRenew.status
        /\ m_spLockForRenew'.pair = m_spLockForRenew.pair
    BY <1>1 DEF RemoveSink, Request
  <1>4. AnswerHasTokens'
    BY <1>3 DEF AnswerHasTokens, TFInv, Renewer
  <1>5. \A d \in Calls : Renewer(d) => ~InCall(d)
    BY DEF Renewer
  <1> QED BY <1>2, <1>3, <1>4, <1>5, RequestKeeps DEF RemoveSink

LEMMA RenewAnswerStep ==
  ASSUME TFInv, RenewAnswer
  PROVE  TFInv'
  <1>1. PICK status \in Answered, pair \in TokenPair \cup {NoTokens}, parsed \in 0..3 :
          /\ RenewAnswered(status, pair, parsed)
          /\ status = "200" => pair \in TokenPair
    BY DEF RenewAnswer, Answered
  <1>2. m_spLockForRenew \in Request /\ m_spLockForRenew # NULL
    BY DEF RenewAnswer, TFInv, TFTypeOK
  <1>3. Running
    BY <1>2 DEF TFInv, TokensIffRunning
  <1>4. /\ m_spLockForRenew' \in Request
        /\ m_spLockForRenew'.status = status
        /\ m_spLockForRenew'.pair = pair
        /\ m_spLockForRenew'.sink = m_spLockForRenew.sink
    BY <1>1, <1>2 DEF RenewAnswered, Request
  <1>5. AnswerHasTokens'
    BY <1>1, <1>4 DEF AnswerHasTokens
  <1> QED BY <1>1, <1>3, <1>4, <1>5, RequestKeeps DEF RenewAnswered

LEMMA UpdateKeeps ==
  ASSUME TFInv, Running, m_spLockForRenew # NULL, m_spLockForRenew.status = "200",
         UpdateAccessRefreshToken(m_spLockForRenew)
  PROVE  /\ m_strAccessToken' \in Generation
         /\ m_strRefreshToken' \in Generation
         /\ tokenFile' \in TokenPair \cup {NoTokens}
  <1>1. m_spLockForRenew.pair.access \in Generation /\ m_spLockForRenew.pair.refresh \in Generation
    BY DEF TFInv, AnswerHasTokens, TokenPair
  <1>2. m_strAccessToken \in Generation /\ m_strRefreshToken \in Generation
    BY DEF TFInv, TFTypeOK, TokensIffRunning
  <1>3. m_strAccessToken' \in Generation /\ m_strRefreshToken' \in Generation
    BY <1>1, <1>2 DEF UpdateAccessRefreshToken
  <1>4. tokenFile' \in TokenPair \cup {NoTokens}
    BY <1>3 DEF UpdateAccessRefreshToken, Save, TokenPair, TFInv, TFTypeOK
  <1> QED BY <1>3, <1>4

\* The only activation of UnLockFromRenew, if there is one, is the renewer's.
LEMMA NobodyElseDrains ==
  ASSUME TFInv, NEW i \in 1..Len(stack), stack[i].method = "UnLockFromRenew",
         NEW c \in Calls, Renewer(c)
  PROVE  stack[i].caller = c
  BY DEF TFInv, DrainHoldsLock, Renewer

LEMMA UnLockFromRenewStep ==
  ASSUME TFInv, NEW c \in Calls, ~InCall(c), MayUnLock(c), UnLockFromRenew(c)
  PROVE  TFInv'
  <1> DEFINE f == [method |-> "UnLockFromRenew", caller |-> c,
                   succeeded |-> m_spLockForRenew.status = "200", callee |-> NULL]
  <1>1. /\ m_spLockForRenew \in Request
        /\ m_spLockForRenew # NULL
        /\ m_spLockForRenew.sink = c
        /\ <<c, "renewer">> \in extConn
        /\ UNCHANGED <<m_lstRetryRequest, extConn>>
    BY DEF MayUnLock, Renewer, TFInv, TFTypeOK, UnLockFromRenew
  <1>2. Running /\ Running'
    BY <1>1 DEF Running
  <1>3. /\ m_strAccessToken' \in Generation
        /\ m_strRefreshToken' \in Generation
        /\ tokenFile' \in TokenPair \cup {NoTokens}
    <2>1. CASE m_spLockForRenew.status = "200"
      BY <1>1, <1>2, <2>1, UpdateKeeps DEF UnLockFromRenew
    <2>2. CASE m_spLockForRenew.status # "200"
      BY <1>2, <2>2 DEF UnLockFromRenew, TFInv, TFTypeOK, TokensIffRunning, memory
    <2> QED BY <2>1, <2>2
  <1>4. \A i \in 1..Len(stack) : stack[i].method # "UnLockFromRenew"
    BY NobodyElseDrains DEF MayUnLock, InCall
  <1>5. TokensIffRunning'
    BY <1>2, <1>3, GenerationAssumption DEF TokensIffRunning, NoToken
  <1>6. CASE Throws(m_spLockForRenew)
    <2>1. PICK sink \in Calls \cup {NULL} :
            UNCHANGED stack /\ m_spLockForRenew' = [m_spLockForRenew EXCEPT !.sink = sink]
      BY <1>6 DEF UnLockFromRenew
    <2>2. /\ m_spLockForRenew' \in Request
          /\ m_spLockForRenew'.status = m_spLockForRenew.status
          /\ m_spLockForRenew'.pair = m_spLockForRenew.pair
      BY <1>1, <2>1 DEF Request
    <2>3. TFTypeOK'
      BY <1>1, <1>3, <2>1, <2>2 DEF TFInv, TFTypeOK
    <2>4. AnswerHasTokens'
      BY <1>1, <2>2 DEF TFInv, AnswerHasTokens
    <2>5. QueueOnlyWhileLocked'
      BY <2>2, NullAssumption DEF QueueOnlyWhileLocked
    <2>6. DrainHoldsLock'
      BY <1>4, <2>1 DEF DrainHoldsLock
    <2>7. ActivationsConnected'
      BY <1>1, <2>1 DEF TFInv, ActivationsConnected
    <2> QED BY <1>5, <2>3, <2>4, <2>5, <2>6, <2>7 DEF TFInv
  <1>7. CASE ~Throws(m_spLockForRenew)
    <2>1. stack' = << f >> \o stack /\ UNCHANGED m_spLockForRenew
      BY <1>7 DEF UnLockFromRenew
    <2>2. f \in Activation
      BY DEF Activation
    <2>3. /\ stack' \in Seq(Activation)
          /\ ActivationsConnected'
          /\ stack'[1] = f
          /\ \A i \in 1..Len(stack') :
               i = 1 \/ (i - 1 \in 1..Len(stack) /\ stack'[i] = stack[i - 1])
      BY <1>1, <2>1, <2>2, PushKeeps
    <2>4. TFTypeOK'
      BY <1>1, <1>3, <2>1, <2>3 DEF TFInv, TFTypeOK
    <2>5. AnswerHasTokens' /\ QueueOnlyWhileLocked'
      BY <1>1, <2>1 DEF TFInv, AnswerHasTokens, QueueOnlyWhileLocked
    <2>6. DrainHoldsLock'
      BY <1>1, <1>4, <2>1, <2>3 DEF DrainHoldsLock, Renewer
    <2> QED BY <1>5, <2>3, <2>4, <2>5, <2>6 DEF TFInv
  <1> QED BY <1>6, <1>7

LEMMA CallBackStep ==
  ASSUME TFInv, NEW c \in Calls, CallBack(c)
  PROVE  TFInv'
  <1> DEFINE g == [Head(stack) EXCEPT !.callee = Head(m_lstRetryRequest)]
  <1>1. /\ stack # << >> /\ m_lstRetryRequest # << >>
        /\ stack' = << g >> \o Tail(stack)
        /\ m_lstRetryRequest' = Tail(m_lstRetryRequest)
        /\ UNCHANGED <<tokenFile, memory, m_spLockForRenew, extConn>>
    BY DEF CallBack, Draining
  <1>2. /\ stack \in Seq(Activation) /\ Head(stack) \in Activation
        /\ Head(stack) = stack[1] /\ 1 \in 1..Len(stack)
        /\ Tail(stack) \in Seq(Activation)
        /\ \A i \in 1..Len(Tail(stack)) :
             i + 1 \in 1..Len(stack) /\ Tail(stack)[i] = stack[i + 1]
    BY <1>1, Pop DEF TFInv, TFTypeOK
  <1>3. /\ Head(m_lstRetryRequest) \in Calls
        /\ m_lstRetryRequest' \in Seq(Calls)
    BY <1>1, Pop DEF TFInv, TFTypeOK
  <1>4. g \in Activation /\ g.method = stack[1].method /\ g.caller = stack[1].caller
    BY <1>2, <1>3 DEF Activation
  <1>5. /\ stack' \in Seq(Activation)
        /\ \A i \in 1..Len(stack') :
             i = 1 \/ (i - 1 \in 1..Len(Tail(stack)) /\ stack'[i] = Tail(stack)[i - 1])
        /\ stack'[1] = g
    BY <1>1, <1>2, <1>4, Push
  <1>6. ASSUME NEW i \in 1..Len(stack')
        PROVE  /\ i \in 1..Len(stack)
               /\ stack'[i].method = stack[i].method
               /\ stack'[i].caller = stack[i].caller
    <2>1. CASE i = 1
      BY <1>2, <1>4, <1>5, <2>1
    <2>2. CASE i # 1
      <3>1. i - 1 \in 1..Len(Tail(stack)) /\ stack'[i] = Tail(stack)[i - 1]
        BY <1>5, <2>2
      <3>2. (i - 1) + 1 \in 1..Len(stack) /\ Tail(stack)[i - 1] = stack[(i - 1) + 1]
        BY <1>2, <3>1
      <3>3. (i - 1) + 1 = i
        OBVIOUS
      <3> QED BY <3>1, <3>2, <3>3
    <2> QED BY <2>1, <2>2
  <1>7. TFTypeOK'
    BY <1>1, <1>3, <1>5 DEF TFInv, TFTypeOK, memory
  <1>8. AnswerHasTokens' /\ QueueOnlyWhileLocked'
    BY <1>1 DEF TFInv, AnswerHasTokens, QueueOnlyWhileLocked
  <1>9. DrainHoldsLock' /\ ActivationsConnected'
    <2>1. DrainHoldsLock'
      BY <1>1, <1>6 DEF TFInv, DrainHoldsLock, Renewer
    <2>2. ASSUME NEW i \in 1..Len(stack')
          PROVE  <<stack'[i].caller, IF stack'[i].method = "UnLockFromRenew"
                                       THEN "renewer" ELSE "loading">> \in extConn'
      BY <1>1, <1>6 DEF TFInv, ActivationsConnected
    <2>3. ASSUME NEW i \in 1..Len(stack'), NEW j \in 1..Len(stack'),
                 stack'[i].caller = stack'[j].caller
          PROVE  i = j
      BY <1>6, <2>3 DEF TFInv, ActivationsConnected
    <2> QED BY <2>1, <2>2, <2>3 DEF ActivationsConnected
  <1>10. TokensIffRunning'
    BY <1>1 DEF TFInv, TokensIffRunning, Running, memory
  <1> QED BY <1>7, <1>8, <1>9, <1>10 DEF TFInv

\* After the end of UnLockFromRenew, by return or by fault, nobody drains.
LEMMA DrainEnds ==
  ASSUME TFInv, NEW c \in Calls, Draining(c), stack' = Tail(stack), UNCHANGED extConn
  PROVE  /\ stack' \in Seq(Activation)
         /\ ActivationsConnected'
         /\ \A i \in 1..Len(stack') : stack'[i].method # "UnLockFromRenew"
         /\ m_spLockForRenew \in Request
         /\ Running
  <1>1. /\ stack \in Seq(Activation)
        /\ stack # << >>
        /\ Head(stack).method = "UnLockFromRenew"
        /\ Head(stack).caller = c
    BY DEF Draining, TFInv, TFTypeOK
  <1>2. /\ stack' \in Seq(Activation)
        /\ ActivationsConnected'
        /\ \A i \in 1..Len(stack') : \E j \in 1..Len(stack) :
             stack'[i] = stack[j] /\ stack[j].caller # Head(stack).caller
    BY <1>1, PopKeeps
  <1>3. Head(stack) = stack[1] /\ 1 \in 1..Len(stack)
    BY <1>1, Pop
  <1>4. Renewer(c)
    BY <1>1, <1>3 DEF TFInv, DrainHoldsLock
  <1>5. \A i \in 1..Len(stack') : stack'[i].method # "UnLockFromRenew"
    BY <1>1, <1>2, <1>4, NobodyElseDrains
  <1>6. m_spLockForRenew \in Request
    BY <1>4 DEF Renewer, TFInv, TFTypeOK
  <1>7. Running
    BY <1>4 DEF Renewer, TFInv, TokensIffRunning
  <1> QED BY <1>2, <1>5, <1>6, <1>7

LEMMA CallBackFaultStep ==
  ASSUME TFInv, NEW c \in Calls, CallBackFault(c)
  PROVE  TFInv'
  <1>1. /\ Draining(c)
        /\ stack' = Tail(stack)
        /\ m_lstRetryRequest' = Tail(m_lstRetryRequest)
        /\ m_lstRetryRequest # << >>
        /\ m_spLockForRenew' = [m_spLockForRenew EXCEPT !.sink = NULL]
        /\ UNCHANGED <<tokenFile, memory, extConn>>
    BY DEF CallBackFault
  <1>2. /\ stack' \in Seq(Activation)
        /\ ActivationsConnected'
        /\ \A i \in 1..Len(stack') : stack'[i].method # "UnLockFromRenew"
        /\ m_spLockForRenew \in Request
        /\ Running
    BY <1>1, DrainEnds
  <1>3. /\ m_spLockForRenew' \in Request
        /\ m_spLockForRenew'.status = m_spLockForRenew.status
        /\ m_spLockForRenew'.pair = m_spLockForRenew.pair
    BY <1>1, <1>2 DEF Request
  <1>4. m_lstRetryRequest' \in Seq(Calls)
    BY <1>1, Pop DEF TFInv, TFTypeOK
  <1>5. TFTypeOK'
    BY <1>1, <1>2, <1>3, <1>4 DEF TFInv, TFTypeOK, memory
  <1>6. AnswerHasTokens'
    BY <1>2, <1>3, NullAssumption DEF TFInv, AnswerHasTokens
  <1>7. QueueOnlyWhileLocked'
    BY <1>3, NullAssumption DEF QueueOnlyWhileLocked
  <1>8. DrainHoldsLock'
    BY <1>2 DEF DrainHoldsLock
  <1>9. TokensIffRunning'
    BY <1>1, <1>2 DEF TFInv, TokensIffRunning, Running, memory
  <1> QED BY <1>2, <1>5, <1>6, <1>7, <1>8, <1>9 DEF TFInv

LEMMA UnLockReturnStep ==
  ASSUME TFInv, NEW c \in Calls, UnLockReturn(c)
  PROVE  TFInv'
  <1>1. /\ Draining(c)
        /\ stack' = Tail(stack)
        /\ m_lstRetryRequest = << >>
        /\ m_spLockForRenew' = NULL
        /\ UNCHANGED <<tokenFile, memory, m_lstRetryRequest, extConn>>
    BY DEF UnLockReturn
  <1>2. /\ stack' \in Seq(Activation)
        /\ ActivationsConnected'
        /\ \A i \in 1..Len(stack') : stack'[i].method # "UnLockFromRenew"
        /\ Running
    BY <1>1, DrainEnds
  <1>3. TFTypeOK'
    BY <1>1, <1>2 DEF TFInv, TFTypeOK, memory
  <1>4. AnswerHasTokens' /\ QueueOnlyWhileLocked'
    BY <1>1 DEF AnswerHasTokens, QueueOnlyWhileLocked
  <1>5. DrainHoldsLock'
    BY <1>2 DEF DrainHoldsLock
  <1>6. TokensIffRunning'
    BY <1>1, <1>2 DEF TFInv, TokensIffRunning, Running, memory
  <1> QED BY <1>2, <1>3, <1>4, <1>5, <1>6 DEF TFInv

-----------------------------------------------------------------------------
(* The surrogate *)

LEMMA SurrogateDiesStep ==
  ASSUME TFInv, SurrogateDies
  PROVE  TFInv'
  <1>1. /\ m_strAccessToken' = NoToken
        /\ m_strRefreshToken' = NoToken
        /\ m_spLockForRenew' = NULL
        /\ m_lstRetryRequest' = << >>
        /\ extConn' = {}
        /\ stack' = << >>
        /\ tokenFile' \in TokenPair \cup {NoTokens}
    BY DEF SurrogateDies, TFInv, TFTypeOK
  <1> QED
    BY <1>1 DEF TFInv, TFTypeOK, AnswerHasTokens, QueueOnlyWhileLocked, DrainHoldsLock,
                ActivationsConnected, TokensIffRunning, Running

-----------------------------------------------------------------------------
(* The invariant *)

LEMMA InitTFInv == TFInit => TFInv
  BY DEF TFInit, TFInv, TFTypeOK, AnswerHasTokens, QueueOnlyWhileLocked, DrainHoldsLock,
         ActivationsConnected, TokensIffRunning, Running

LEMMA NextTFInv == TFInv /\ [TFNext]_tfVars => TFInv'
  <1> SUFFICES ASSUME TFInv, [TFNext]_tfVars
               PROVE  TFInv'
    OBVIOUS
  <1>1. ASSUME NEW c \in Calls, ~InCall(c), ClientCalls(c)
        PROVE  TFInv'
    <2>1. CASE AuthorizeRequest(c)
      BY <1>1, <2>1, AuthorizeRequestStep
    <2>2. CASE CanRetryImmediately(c)
      BY <2>2, CanRetryStep
    <2>3. CASE MayLock(c) /\ LockForRenew(c)
      BY <2>3, LockForRenewStep
    <2>4. CASE MayLock(c) /\ LockForRenewThrows
      BY <2>4, LockForRenewThrowsStep
    <2>5. CASE Renewer(c) /\ SendRenew
      BY <2>5, SendRenewStep
    <2>6. CASE MayUnLock(c) /\ UnLockFromRenew(c)
      BY <1>1, <2>6, UnLockFromRenewStep
    <2>7. CASE Renewer(c) /\ RemoveSink
      BY <1>1, <2>7, RemoveSinkStep
    <2>8. CASE UNCHANGED tfVars
      BY <2>8 DEF tfVars, memory, TFInv, TFTypeOK, AnswerHasTokens, QueueOnlyWhileLocked,
                  DrainHoldsLock, Renewer, ActivationsConnected, TokensIffRunning, Running
    <2> QED BY <1>1, <2>1, <2>2, <2>3, <2>4, <2>5, <2>6, <2>7, <2>8 DEF ClientCalls
  <1>2. ASSUME NEW c \in Calls, ClientReleases(c)
        PROVE  TFInv'
    BY <1>2, ReleaseStep
  <1>3. ASSUME NEW c \in Calls, ServerSteps(c)
        PROVE  TFInv'
    BY <1>3, AuthorizeRequestReturnStep, CallBackStep, CallBackFaultStep, UnLockReturnStep
       DEF ServerSteps
  <1>4. CASE RenewAnswer
    BY <1>4, RenewAnswerStep
  <1>5. CASE SurrogateDies
    BY <1>5, SurrogateDiesStep
  <1>6. CASE UNCHANGED tfVars
    BY <1>6 DEF tfVars, memory, TFInv, TFTypeOK, AnswerHasTokens, QueueOnlyWhileLocked,
                DrainHoldsLock, Renewer, ActivationsConnected, TokensIffRunning, Running
  <1> QED BY <1>1, <1>2, <1>3, <1>4, <1>5, <1>6 DEF TFNext

\* TFInv holds in every state of the server.
THEOREM Invariance == TFSpec => []TFInv
  <1> QED BY InitTFInv, NextTFInv, PTL DEF TFSpec

\* The members of CTokenFile keep their types: no request without a refresh
\* token, no token from an unreadable file.
THEOREM TypeCorrect == TFSpec => []TFTypeOK
  <1>1. TFInv => TFTypeOK
    BY DEF TFInv
  <1> QED BY <1>1, Invariance, PTL

\* Nobody waits in m_lstRetryRequest unless m_spLockForRenew is set.
THEOREM NoQueueWithoutLock == TFSpec => []QueueOnlyWhileLocked
  <1>1. TFInv => QueueOnlyWhileLocked
    BY DEF TFInv
  <1> QED BY <1>1, Invariance, PTL

\* UnLockFromRenew has the lock it releases, however calls are nested.
THEOREM UnLockHoldsLock == TFSpec => []DrainHoldsLock
  <1>1. TFInv => DrainHoldsLock
    BY DEF TFInv
  <1> QED BY <1>1, Invariance, PTL

\* The object is not destroyed while one of its methods is active.
THEOREM NotDestroyedInCall == TFSpec => []ActivationsConnected
  <1>1. TFInv => ActivationsConnected
    BY DEF TFInv
  <1> QED BY <1>1, Invariance, PTL

\* A server that answers has tokens; one that is gone leaves nothing behind.
THEOREM TokensWhileRunning == TFSpec => []TokensIffRunning
  <1>1. TFInv => TokensIffRunning
    BY DEF TFInv
  <1> QED BY <1>1, Invariance, PTL

=============================================================================
