------------------------------ MODULE TokenFile ------------------------------
(***************************************************************************)
(* The token server: one CTokenFile object for one .TokenResponse-user     *)
(* file, living in a single threaded apartment (STA) of a DLL surrogate.   *)
(*                                                                         *)
(* An STA runs one method at a time, but while a method waits for an       *)
(* outgoing call it dispatches the next incoming one on top of it.  Two    *)
(* methods of CTokenFile make outgoing calls: AuthorizeRequest (it sets a  *)
(* header of the client's request object) and UnLockFromRenew (it calls    *)
(* back every deferred client).  `stack' holds the activations of these    *)
(* two, innermost first; every other method is one atomic step.            *)
(*                                                                         *)
(* The operators say what the server does, whoever calls it.  TFNext calls *)
(* them as the most general client of the protocol would; the module       *)
(* CallbackoAuth calls them as the repository's client does.               *)
(***************************************************************************)
EXTENDS Naturals, Sequences

CONSTANTS Calls,       \* the client calls (objects that implement IRenewCallback)
          Generation,  \* generations of the access/refresh token pair
          Faults,      \* the faults that may happen
          NULL

ASSUME GenerationAssumption == Generation \subseteq Nat \ {0}

VARIABLES tokenFile,          \* the pair in the .TokenResponse-user file
          m_strAccessToken,   \* members of the running CTokenFile, NoToken if there is none
          m_strRefreshToken,
          m_spLockForRenew,   \* the POST to the token endpoint, NULL if unlocked
          m_lstRetryRequest,  \* clients waiting for the end of the renew
          extConn,            \* strong external connections <<call, role>>
          stack               \* activations waiting for an outgoing call

memory == <<m_strAccessToken, m_strRefreshToken>>
tfVars == <<tokenFile, memory, m_spLockForRenew, m_lstRetryRequest, extConn, stack>>

NoToken == 0
TokenPair == [access : Generation, refresh : Generation]
NoTokens == [access |-> NoToken, refresh |-> NoToken]  \* no, or no readable, file

\* Where a client holds its IAuthorize pointer: the local of the LOADING or
\* of the COMPLETE handler, or the member of its CRenewTokenAsync.
Roles == {"loading", "complete", "renewer"}

\* The POST.  parsed: how many of access_token, refresh_token and token_type
\* a reader of the answer gets before json_exception; 3 is a good answer.
Answered == {"200", "400", "other"}
Request == [body : Generation, status : {"open", "sent"} \cup Answered,
            pair : TokenPair \cup {NoTokens}, parsed : 0..3, sink : Calls \cup {NULL}]

\* The null pointer is neither a client nor a request object.
ASSUME NullAssumption == NULL \notin Calls /\ NULL \notin Request

\* callee: the client the outgoing call goes to, NULL between two calls.
Activation == [method : {"AuthorizeRequest", "UnLockFromRenew"}, caller : Calls,
               succeeded : BOOLEAN, callee : Calls \cup {NULL}]

TFTypeOK ==
  /\ tokenFile \in TokenPair \cup {NoTokens}
  /\ m_strAccessToken \in Generation \cup {NoToken}
  /\ m_strRefreshToken \in Generation \cup {NoToken}
  /\ m_spLockForRenew \in Request \cup {NULL}
  /\ m_lstRetryRequest \in Seq(Calls)
  /\ extConn \subseteq Calls \X Roles
  /\ stack \in Seq(Activation)

TFInit ==
  /\ tokenFile \in TokenPair \cup {NoTokens}
  /\ m_strAccessToken = NoToken
  /\ m_strRefreshToken = NoToken
  /\ m_spLockForRenew = NULL
  /\ m_lstRetryRequest = << >>
  /\ extConn = {}
  /\ stack = << >>

-----------------------------------------------------------------------------
(* Activation and lifetime of the object *)

\* The object exists as long as somebody outside the surrogate holds it.
Running == extConn # {}

\* The apartment takes a call when it is idle or waits for an outgoing call.
Dispatchable == stack # << >> => Head(stack).callee # NULL

\* Mutant of Load: an empty file is taken for a token file.
LoadUnchecked ==
  /\ m_strAccessToken' = tokenFile.access
  /\ m_strRefreshToken' = tokenFile.refresh

\* IPersistFile::Load fails without a token file: one that is missing, unreadable
\* or not JSON, or that lacks a token.  With one it fails all the same if the
\* client_secret file cannot be read or Register does.
LoadFails == tokenFile = NoTokens \/ "load" \in Faults

Load ==
  /\ tokenFile # NoTokens
  /\ m_strAccessToken' = tokenFile.access
  /\ m_strRefreshToken' = tokenFile.refresh

\* ::CoGetObject finds the running object in the ROT, or activates one,
\* which loads the file and registers itself.
GetTokenServer(c, role) ==
  /\ Dispatchable
  /\ IF Running THEN UNCHANGED memory ELSE Load
  /\ extConn' = extConn \cup {<<c, role>>}

GetTokenServerFails == ~Running /\ LoadFails

\* Mutants of ReleaseConnection: the last release leaves the object alive;
\* a release takes all pointers of a client, not the one that was released.
ReleaseConnectionKeepsObject(c, role) ==
  /\ extConn' = extConn \ {<<c, role>>}
  /\ UNCHANGED <<memory, m_spLockForRenew, m_lstRetryRequest>>

ReleaseConnectionOfCaller(c, role) ==
  /\ extConn' = extConn \ ({c} \X Roles)
  /\ IF extConn' = {}
       THEN /\ m_strAccessToken' = NoToken
            /\ m_strRefreshToken' = NoToken
            /\ m_spLockForRenew' = NULL
            /\ m_lstRetryRequest' = << >>
       ELSE UNCHANGED <<memory, m_spLockForRenew, m_lstRetryRequest>>

\* The last release revokes the ROT entry and destroys the object with all it holds.
ReleaseConnection(c, role) ==
  /\ extConn' = extConn \ {<<c, role>>}
  /\ IF extConn' = {}
       THEN /\ m_strAccessToken' = NoToken
            /\ m_strRefreshToken' = NoToken
            /\ m_spLockForRenew' = NULL
            /\ m_lstRetryRequest' = << >>
       ELSE UNCHANGED <<memory, m_spLockForRenew, m_lstRetryRequest>>

Release(c, role) ==
  /\ Dispatchable
  /\ <<c, role>> \in extConn
  /\ ReleaseConnection(c, role)
  /\ UNCHANGED <<tokenFile, stack>>

-----------------------------------------------------------------------------
(* IAuthorize *)

\* AuthorizeRequest, up to the outgoing setRequestHeader call with the
\* current access token.  That there is one, which the method tests first, is
\* TokensIffRunning.
AuthorizeRequest(c) ==
  /\ GetTokenServer(c, "loading")
  /\ stack' = << [method |-> "AuthorizeRequest", caller |-> c,
                  succeeded |-> TRUE, callee |-> c] >> \o stack
  /\ UNCHANGED <<tokenFile, m_spLockForRenew, m_lstRetryRequest>>

\* The rest of it.  What it returns in pbstrAccessToken is the member as it
\* is now; the caller's handler then drops its pointer.
AuthorizeRequestReturn(c) ==
  /\ stack # << >>
  /\ Head(stack).method = "AuthorizeRequest"
  /\ Head(stack).caller = c
  /\ stack' = Tail(stack)
  /\ ReleaseConnection(c, "loading")
  /\ UNCHANGED tokenFile

\* Asked after binding, hence of the token that is in memory then.
CanRetryImmediately(c) ==
  /\ GetTokenServer(c, "complete")
  /\ UNCHANGED <<tokenFile, m_spLockForRenew, m_lstRetryRequest, stack>>

\* The POST that exchanges the refresh token in memory.
NewRequest(sink) == [body |-> m_strRefreshToken, status |-> "open",
                     pair |-> NoTokens, parsed |-> 3, sink |-> sink]

\* Mutants of LockForRenew: no test whether the server is locked already;
\* the caller does not keep the pointer in m_spAuthorize.
LockForRenewAlways(c) ==
  /\ Dispatchable
  /\ m_spLockForRenew' = NewRequest(c)
  /\ extConn' = extConn \cup {<<c, "renewer">>}
  /\ UNCHANGED <<tokenFile, memory, m_lstRetryRequest, stack>>

LockForRenewUnreferenced(c) ==
  /\ Dispatchable
  /\ IF m_spLockForRenew = NULL
       THEN m_spLockForRenew' = NewRequest(c) /\ UNCHANGED m_lstRetryRequest
       ELSE m_lstRetryRequest' = Append(m_lstRetryRequest, c) /\ UNCHANGED m_spLockForRenew
  /\ UNCHANGED <<tokenFile, memory, extConn, stack>>

\* The first caller gets the POST to send (E_PENDING) and keeps the server
\* connected; every other one is deferred (NOERROR).
LockForRenew(c) ==
  /\ Dispatchable
  /\ IF m_spLockForRenew = NULL
       THEN /\ m_spLockForRenew' = NewRequest(c)
            /\ extConn' = extConn \cup {<<c, "renewer">>}
            /\ UNCHANGED m_lstRetryRequest
       ELSE /\ m_lstRetryRequest' = Append(m_lstRetryRequest, c)
            /\ UNCHANGED <<m_spLockForRenew, extConn>>
  /\ UNCHANGED <<tokenFile, memory, stack>>

\* An exception while the POST is prepared leaves it in m_spLockForRenew: the
\* server is locked, and no caller has been told to send the POST.
LockForRenewThrows ==
  /\ Dispatchable
  /\ m_spLockForRenew = NULL
  /\ m_spLockForRenew' = NewRequest(NULL)
  /\ UNCHANGED <<tokenFile, memory, m_lstRetryRequest, extConn, stack>>

\* Mutant of Save: the new pair stays in memory.
SaveNothing == UNCHANGED tokenFile

\* Stream errors go unnoticed: the old file stays, or an empty one is left.
Save ==
  \/ tokenFile' = [access |-> m_strAccessToken', refresh |-> m_strRefreshToken']
  \/ "save" \in Faults /\ tokenFile' \in {tokenFile, NoTokens}

\* Mutant of UpdateAccessRefreshToken: the old refresh token is kept.
UpdateAccessToken(xhr) ==
  /\ m_strAccessToken' = IF xhr.parsed >= 1 THEN xhr.pair.access ELSE m_strAccessToken
  /\ UNCHANGED m_strRefreshToken
  /\ IF xhr.parsed = 3 THEN Save ELSE UNCHANGED tokenFile

\* The members are assigned one by one while the answer is read.
UpdateAccessRefreshToken(xhr) ==
  /\ m_strAccessToken' = IF xhr.parsed >= 1 THEN xhr.pair.access ELSE m_strAccessToken
  /\ m_strRefreshToken' = IF xhr.parsed >= 2 THEN xhr.pair.refresh ELSE m_strRefreshToken
  /\ IF xhr.parsed = 3 THEN Save ELSE UNCHANGED tokenFile

\* Mutant of Throws: an answer other than 200 ends the method early, too.
ThrowsUnless200(xhr) == xhr.status # "200" \/ xhr.parsed < 3

Throws(xhr) == xhr.status = "200" /\ xhr.parsed < 3

\* Mutant of UnLockFromRenew: unlocks before it calls back, not after.
UnLockFirst(c) ==
  /\ Dispatchable
  /\ IF m_spLockForRenew.status = "200"
       THEN UpdateAccessRefreshToken(m_spLockForRenew)
       ELSE UNCHANGED <<tokenFile, memory>>
  /\ stack' = << [method |-> "UnLockFromRenew", caller |-> c,
                  succeeded |-> m_spLockForRenew.status = "200", callee |-> NULL] >> \o stack
  /\ m_spLockForRenew' = NULL
  /\ UNCHANGED <<m_lstRetryRequest, extConn>>

\* UnLockFromRenew up to the loop over the deferred clients.  A json_exception
\* leaves the method: lock and queue stay, and the caller, which gets
\* RPC_E_SERVERFAULT, takes its sink off the POST or leaves it there.
UnLockFromRenew(c) ==
  /\ Dispatchable
  /\ IF m_spLockForRenew.status = "200"
       THEN UpdateAccessRefreshToken(m_spLockForRenew)
       ELSE UNCHANGED <<tokenFile, memory>>
  /\ IF Throws(m_spLockForRenew)
       THEN /\ \E sink \in {c, NULL} : m_spLockForRenew' = [m_spLockForRenew EXCEPT !.sink = sink]
            /\ UNCHANGED stack
       ELSE /\ stack' = << [method |-> "UnLockFromRenew", caller |-> c,
                            succeeded |-> m_spLockForRenew.status = "200",
                            callee |-> NULL] >> \o stack
            /\ UNCHANGED m_spLockForRenew
  /\ UNCHANGED <<m_lstRetryRequest, extConn>>

Draining(c) ==
  /\ stack # << >>
  /\ Head(stack).method = "UnLockFromRenew"
  /\ Head(stack).caller = c

\* One turn of the loop: the head of the queue gets Continue() or Terminate().
CallBack(c) ==
  /\ Draining(c)
  /\ m_lstRetryRequest # << >>
  /\ stack' = << [Head(stack) EXCEPT !.callee = Head(m_lstRetryRequest)] >> \o Tail(stack)
  /\ m_lstRetryRequest' = Tail(m_lstRetryRequest)
  /\ UNCHANGED <<tokenFile, memory, m_spLockForRenew, extConn>>

\* The client at the head is gone: the query for IRenewCallback yields a null
\* pointer, its use ends the method as an exception does.
CallBackFault(c) ==
  /\ Draining(c)
  /\ m_lstRetryRequest # << >>
  /\ stack' = Tail(stack)
  /\ m_lstRetryRequest' = Tail(m_lstRetryRequest)
  /\ m_spLockForRenew' = [m_spLockForRenew EXCEPT !.sink = NULL]
  /\ UNCHANGED <<tokenFile, memory, extConn>>

\* Mutant of UnLockReturn: calls back once instead of until the queue is empty.
UnLockReturnOnce(c) ==
  /\ Draining(c)
  /\ stack' = Tail(stack)
  /\ m_spLockForRenew' = NULL
  /\ UNCHANGED <<tokenFile, memory, m_lstRetryRequest, extConn>>

\* The queue is empty: unlock and return.
UnLockReturn(c) ==
  /\ Draining(c)
  /\ m_lstRetryRequest = << >>
  /\ stack' = Tail(stack)
  /\ m_spLockForRenew' = NULL
  /\ UNCHANGED <<tokenFile, memory, m_lstRetryRequest, extConn>>

-----------------------------------------------------------------------------
(* The POST itself (XMLHTTP, which lives in the surrogate's apartment) *)

SendRenew ==
  /\ Dispatchable
  /\ m_spLockForRenew' = [m_spLockForRenew EXCEPT !.status = "sent"]
  /\ UNCHANGED <<tokenFile, memory, m_lstRetryRequest, extConn, stack>>

\* A client takes its sink off a POST that was never sent, or that nobody reads.
RemoveSink ==
  /\ Dispatchable
  /\ m_spLockForRenew' = [m_spLockForRenew EXCEPT !.sink = NULL]
  /\ UNCHANGED <<tokenFile, memory, m_lstRetryRequest, extConn, stack>>

RenewAnswered(status, pair, parsed) ==
  /\ m_spLockForRenew' = [m_spLockForRenew EXCEPT
                            !.status = status, !.pair = pair, !.parsed = parsed]
  /\ UNCHANGED <<tokenFile, memory, m_lstRetryRequest, extConn, stack>>

-----------------------------------------------------------------------------
(* The surrogate *)

\* Its process ends, by whatever cause, and everything but the file is gone.
\* Save empties the file before it writes: if it ends in between, so are both tokens.
SurrogateDies ==
  /\ "dies" \in Faults
  /\ \/ UNCHANGED tokenFile
     \/ ~Dispatchable /\ Head(stack).succeeded /\ tokenFile' = NoTokens
  /\ m_strAccessToken' = NoToken
  /\ m_strRefreshToken' = NoToken
  /\ m_spLockForRenew' = NULL
  /\ m_lstRetryRequest' = << >>
  /\ extConn' = {}
  /\ stack' = << >>

-----------------------------------------------------------------------------
(* The most general client *)

InCall(c) == \E i \in 1..Len(stack) : stack[i].caller = c
Deferred(c) == \E i \in 1..Len(m_lstRetryRequest) : m_lstRetryRequest[i] = c
Renewer(c) == m_spLockForRenew # NULL /\ m_spLockForRenew.sink = c

MayLock(c) == <<c, "complete">> \in extConn /\ ~Deferred(c)
MayUnLock(c) == /\ Renewer(c)
                /\ <<c, "renewer">> \in extConn
                /\ m_spLockForRenew.status \in Answered

Unlocking(c) == \E i \in 1..Len(stack) : stack[i].caller = c /\ stack[i].method = "UnLockFromRenew"

ClientCalls(c) ==
  \/ AuthorizeRequest(c)
  \/ CanRetryImmediately(c)
  \/ MayLock(c) /\ (LockForRenew(c) \/ LockForRenewThrows)
  \/ Renewer(c) /\ m_spLockForRenew.status = "open" /\ SendRenew
  \/ MayUnLock(c) /\ UnLockFromRenew(c)
  \/ Renewer(c) /\ RemoveSink
  \/ GetTokenServerFails /\ UNCHANGED tfVars

\* Released by the client or, when its process is gone, on its behalf, but
\* never under an activation.
ClientReleases(c) ==
  \/ Release(c, "complete")
  \/ ~Unlocking(c) /\ Release(c, "renewer")

ServerSteps(c) ==
  \/ AuthorizeRequestReturn(c)
  \/ CallBack(c)
  \/ CallBackFault(c)
  \/ UnLockReturn(c)

RenewAnswer ==
  /\ m_spLockForRenew # NULL
  /\ m_spLockForRenew.status = "sent"
  /\ \/ \E pair \in TokenPair, parsed \in 0..3 : RenewAnswered("200", pair, parsed)
     \/ \E status \in {"400", "other"} : RenewAnswered(status, NoTokens, 3)

TFNext ==
  \/ \E c \in Calls :
       \/ ~InCall(c) /\ ClientCalls(c)
       \/ ClientReleases(c)
       \/ ServerSteps(c)
  \/ RenewAnswer
  \/ SurrogateDies

TFSpec == TFInit /\ [][TFNext]_tfVars

-----------------------------------------------------------------------------
(* What every client may rely on *)

\* A client is only ever deferred behind a renew that is under way: no queue
\* without a lock (the test in LockForRenew and the loop in UnLockFromRenew).
QueueOnlyWhileLocked == m_lstRetryRequest # << >> => m_spLockForRenew # NULL

\* UnLockFromRenew runs for the one holder of the lock, and the lock is still
\* there when it gets to release it: a nested call neither takes the lock over
\* nor unlocks a second time.
DrainHoldsLock ==
  \A i \in 1..Len(stack) : stack[i].method = "UnLockFromRenew" => Renewer(stack[i].caller)

\* The object is never destroyed under one of its own activations, and a
\* client waits for at most one of them.
ActivationsConnected ==
  \A i \in 1..Len(stack) :
    /\ <<stack[i].caller,
         IF stack[i].method = "UnLockFromRenew" THEN "renewer" ELSE "loading">> \in extConn
    /\ \A j \in 1..Len(stack) : stack[i].caller = stack[j].caller => i = j

\* An object that answers has tokens (the _ASSERT at the start of
\* AuthorizeRequest), whatever was read from files and answers before; one
\* that is gone leaves no token, lock or queue to the next.
TokensIffRunning ==
  IF Running
    THEN m_strAccessToken # NoToken /\ m_strRefreshToken # NoToken
    ELSE /\ m_strAccessToken = NoToken /\ m_strRefreshToken = NoToken
         /\ m_spLockForRenew = NULL /\ m_lstRetryRequest = << >> /\ stack = << >>

=============================================================================
