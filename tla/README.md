# AuthorizationServer in TLA+

The Authorization Server keeps the OAuth tokens of a desktop session. A COM object (`CTokenFile`) owns one
`.TokenResponse-user` file with an access token and a refresh token; any number of processes send requests to a web
service with that access token, and when the service answers 401 one of them renews the pair while the others are
deferred. These modules model the server, how it comes and goes, its two client libraries and the two samples that use
them; TLC checks them on small instances, and TLAPS proves what matters most for any number of clients and tokens.

## 1. Inventory

| component | state | operations | talks to |
|---|---|---|---|
| `CTokenFile` (TokenFile.h/.cpp) | token pair in memory and in the file, `m_spLockForRenew` (the POST that exchanges the refresh token; the lock), `m_lstRetryRequest` (deferred clients), external connections, `m_lCookieRegister` | `Load`, `Save`, `AuthorizeRequest`, `CanRetryImmediately`, `LockForRenew`, `UnLockFromRenew`, `OnReleaseConnection` | calls the client's request object (`setRequestHeader`) and its `IRenewCallback`; owns the POST; registers in the running object table |
| `CCallbackoAuthImpl` (Clients/CallbackoAuth.h) | `m_eState`, `m_bstrAccessToken`, its XMLHTTP request and the sink on it | `Init`, LOADING and COMPLETE handlers, `Continue`, `Terminate` | calls `IAuthorize`, is called by the server and by `CRenewTokenAsync`; tells its creator `onSucceeded` or `onFailed` |
| `CRenewTokenAsync` (same file) | pointers to server, call and POST | `Init` (lock and send), handler of the POST (unlock, continue or terminate) | as above |
| binding (Clients/IWorkflowWebImpl.h) | running object table | `GetTokenServerByDisplayName`: find the running object, or create one and `Load` | activates the server through the file moniker |
| surrogate (oAuth.cpp, TokenFile.rgs) | the process the objects live in, one apartment | create an object; end | COM |
| MFC client library (Clients/CoAuth*.cpp) | as the ATL library, one renewer kept per call | as the ATL library, and `Dispose` | as the ATL library |
| MFC sample (Clients/MFCApplication) | a list of calls, a garbage timer | start a call, collect finished ones, close when the list is empty, be cancelled at any time | the MFC library |
| WTL sample (Clients/WTLApplication) | slider, stress timer, calls nobody keeps a list of | start a call by button or timer, close at any time | the ATL library |
| token endpoint, web service (external) | the valid refresh token, which access tokens are expired | exchange, answer 200, 401 or other | |

What is hard here:

- **Re-entrancy.** The server runs in a single threaded apartment: one method at a time, but while a method waits for
  an outgoing call the apartment runs the next incoming one on top of it. `AuthorizeRequest` and the loop of
  `UnLockFromRenew` wait like that.
- **Decisions over several calls.** "Is there a newer token?" and "lock for a renew" are two calls; other clients act
  in between. So are "is there a running object?" and "activate one".
- **Lifetime.** The server exists as long as somebody outside holds it, and takes lock, queue and tokens with it. Its
  registration must last just as long, and the file must be worth loading whenever it goes.
- **Failure.** Exceptions that leave a method halfway, a POST that is answered but whose answer is lost or malformed,
  a token file that cannot be written, client processes that die or are closed while they renew or wait, the surrogate
  that dies under all of them, between truncating and writing the file for instance.
- **Progress.** Every call has to end with exactly one notification along some ten different paths.

What makes each part correct: the server never queues without a lock, never hands out two POSTs, never unlocks for
somebody else, never dies under a call, never serves an older token than before; there is one object per file, and the
file keeps up with it. A call is sent at most twice, is notified exactly once, retries only with a newer token, and
does not notice a renew. Together: one refresh token is exchanged once.

## 2. Modules

| module | models |
|---|---|
| `TokenFile` | the server, its operations as actions, and `TFSpec`: the server under the most general clients that keep to the protocol of `IAuthorize` |
| `Lifetime` | how objects for one file come and go: binding, registration and `Save` in the steps they take; implements `TokenFile`, where these are single steps |
| `Service` | the external side: the web service and the token endpoint, on top of `TokenFile` |
| `CallbackoAuth` | the calls of the ATL client library, each in a process of its own, composed with server and service |
| `MainDlg` | the WTL sample: the dialog whose calls these are, slider and stress timer, closing in the middle of calls; beside it calls of other processes |
| `CoAuthServiceCall` | the calls of the MFC client library on the same server and service, `Dispose` included |
| `MFCApplicationDlg` | the MFC sample: the dialog that starts such calls, collects them by a timer and may be closed |
| `ServiceCall` | the abstract contract of a call: sent at most twice, then one notification |
| `TokenFileProofs` | the inductive invariant of `TFSpec` and the theorems about the server |
| `LifetimeProofs` | one object, its registration, the file it leaves behind, types, and that `Lifetime` implements `TokenFile` |
| `CallbackoAuthProofs`, `CallContractProofs`, `NothingLostProofs` | the theorems about the ATL calls: the server's protocol; their contract, what their states tell, the tokens they remember and their types; that no token and no deferred call is lost, that direct retries have a newer token, and that a renew goes unnoticed |
| `MainDlgProofs` | the stress timer follows the slider; types, protocol and contract when the dialog is closed on its calls |
| `MFCApplicationDlgProofs`, `MFCTokenProofs` | the theorems about the MFC calls and their dialog: protocol, contract, what closing and collecting leave behind; types, spent tokens, and a renew that goes unnoticed |
| `MCTokenFile`, `MCLifetime`, `MCCallbackoAuth`, `MCMainDlg`, `MCMFCApplicationDlg` | instances for TLC |

`TokenFile` is an interface as well as a specification. Its operators (`LockForRenew(c)`, `UnLockFromRenew(c)`, ...)
say what the server does to its own state; `TFNext` offers them to arbitrary clients, and `CallbackoAuth` and
`CoAuthServiceCall` conjoin them with what the repository's two client libraries do. That the latter are instances of
the former is checked and proved: `ServerSpec` (which is `TFSpec`) is a property of both compositions. So what is proved
of `TFSpec` applies to the real clients too. `Lifetime` is on the other side of the interface: its `ServerSpec` is `TFSpec`
under a mapping that takes the one loaded object for the server, counts a file as written from its truncation on, and
does not see objects that are not loaded yet. `ContractSpec` is `ServiceCall!Spec`, with `started` read off the places
of the calls.

### State and code

| variable | code |
|---|---|
| `tokenFile` | the pair in the `.TokenResponse-user` file, `NoTokens` when there is no readable pair |
| `m_strAccessToken`, `m_strRefreshToken`, `m_spLockForRenew`, `m_lstRetryRequest` | the members of that name; `NoToken`, `NULL` and the empty list while no object runs |
| `extConn` | strong external connections: which pointer of which client (local of a handler, member of `CRenewTokenAsync`) |
| `stack` | activations of the two methods that make outgoing calls, innermost first, with the client they wait for |
| `pc` | where a call is in the handlers of `CCallbackoAuthImpl` and `CRenewTokenAsync`; `refused` and `stranded` are the places of a call whose server is gone: it gets an error, or waits for an event that never comes |
| `m_eState`, `m_bstrAccessToken` | the members of that name |
| `header`, `status` | the Authorization header the request carries, the status of its last answer |
| `notified`, `sends` | the notifications so far, how often the request went out |
| `m_pRenewTokenAsync` | MFC: no renewer, a renewer whose `m_spRequest` is null, one that holds the POST |
| `m_lstCmd`, `dialog` | MFC: the list of the sample dialog, and whether the dialog and its process still exist |
| `slider`, `dragging`, `m_TimerStressPos`, `timer`, `dialog` | WTL: position of the track bar, thumb held or not, the member of that name, the period of `TIMER_STRESS` in seconds, the dialog before and after `EndDialog` |
| `issued`, `expired`, `revoked` | the service: latest generation, how many are expired, consent withdrawn |
| `file`, `m_strTokens`, `m_spLockForRenew`, `m_lCookieRegister` | `Lifetime`: the file, and the members of each object; a cookie is the object whose registration it stands for |
| `binding`, `rot`, `conns`, `exists`, `unlocking` | `Lifetime`: where a client is in `::CoGetObject`, the running object table, connections per object, whether an object is created or loaded, and the `UnLockFromRenew` that runs |
| `os` | `Lifetime`: the stream in `Save`: whether that of the last `Save` since the object was loaded failed; nothing in the code reads its state |

A token is the number of its generation: the endpoint issues pair n + 1 in exchange for refresh token n, once.

### Actions and code

`OnLoading` and `Authorized` are the LOADING handler around `AuthorizeRequest`; `Send` what follows `open()` in `Init`
or in `Continue`; `OnFinish` and `OnRejected` the COMPLETE handler; `RenewInit` and `RenewSend` are
`CRenewTokenAsync::Init`; `RenewComplete` is the handler of the POST up to the server's loop, `Drain` one turn of that
loop seen from both ends, `RenewReturn` the unlock and the renewer's own continuation; `DropServer` gives a pointer to
the server back. `InitThrows` is an exception of the first `open()` or `send()`, which leaves `Init` without `onFailed`
and ends the process, as nobody catches it. `TokenEndpoint`, `ServiceAnswers`, `Expire`, `Revoke` and `Crash` are the
environment.

`SurrogateEnds` is the end of the server's process. A call that is in a method of the server, or about to use a
pointer to it, gets an error (`Refused` is the `Terminate` that follows); one that waits for the POST, which lives in the
surrogate too, or for a callback, waits on (`stranded`). Two paths of the code are worth a look: an error of
`CanRetryImmediately` counts as "there is a newer token", so the call retries with whatever the next server has; and an
error of `AuthorizeRequest` is an exception in an event handler under `open()`, which ends the process, ends the retry,
or is swallowed, depending on who catches it: `swallowed` is either.

The actions of `CoAuthServiceCall` have the same names where the MFC library does the same thing. It differs in what
the code differs in: a request also goes out when no token server can be bound; `raw_Terminate` sets `Finish` and
notifies nobody; an exception in `raw_Continue` leaves `RetryOnce`; the renewer is a member of the call, created before
`LockForRenew` and holding its pointer to the server until `Dispose`; the sink stays on the POST until `Dispose`, too
(`RemoveSink`), also when `UnLockFromRenew` has thrown, where the ATL library takes it off at once. `Continue()`
returns `E_PENDING`, which the smart pointer of the library turns into an exception that its callers catch and ignore.
`MFCApplicationDlg` adds `OnBnClickedRunping` and `SendRequest` (the call enters the list when `Init` has returned),
`OnTimer` (collect the head if it has finished), `OnSysCommand` (close if the list is empty) and `OnCancel` (Escape
reaches `CDialog::OnCancel`, which asks no list: the process ends with calls under way).

`MainDlg` adds `OnHScroll` (`Move` is every way of moving the slider but dragging, `Drag` and `Drop` are
`SB_THUMBTRACK` and `SB_THUMBPOSITION`), `SetTimerStressPos`, `OnBnClickedRunping` and `OnTimer` (start a call),
`OnCancel` (`EndDialog`) and `WinMainReturns`: the process goes, with its calls wherever they are. An exception that
kills one call of the dialog (`Uncaught`) ends the dialog as well.

`Lifetime` takes `::CoGetObject` apart: `FindRunning` or `FindNone` (look into the running object table),
`CreateInstance` (class factory; `m_lCookieRegister` is whatever was in memory), `Load` or `LoadFails`, `GiveUp`.
`Release` is a release with `OnReleaseConnection`; `UnLockFromRenew`, `Write` and `UnLockReturn` are the method, with
`Save` split where the file is empty (`OpenStream` empties it, `Write` fills it; either may fail, and the method goes on
as if it had not); `SurrogateDies` may come anywhere.

## 3. What the model assumes

- *Granularity.* The server's methods are atomic up to their outgoing calls, which is what an apartment guarantees.
  Binding (look up the running object, or activate one and load the file) is one step with the call that follows it in
  `TokenFile`; `Lifetime` shows that its steps come to the same. What happens between these is merged: an answer
  arrives when the service gives it, a callback returns when the loop tests the queue, a handler goes on when the
  server returns.
- *One activation at a time.* COM lets one client at a time activate the server (`SerialActivation`): README.md:31
  relies on it. Without it there may be two objects, see `two_instances` below.
- *Processes.* Every ATL call is in a process of its own, but for the calls of the WTL dialog, which die together.
  Calls that share an apartment only have their nested waits ordered further (last in, first out), so they show no
  behaviour that is not among those checked here. The MFC calls live in the one process of the dialog and die together.
  The MFC dialog's own messages are handled when no call is inside a handler (`Idle`): the message filter that MFC
  installs does not dispatch them while an outgoing call is waited for. An exception that `OnTimer` or
  `OnBnClickedRunping` does not catch ends the process (`Die`).
- *Exceptions.* A C++ exception or an access violation that leaves a server method reaches the caller as a failed
  call; the server goes on. (COM may also let the surrogate die of it: that is `SurrogateEnds`.)
- *Dead clients.* COM releases the pointers of a dead process, at any time after its death but not while the server
  still runs an `UnLockFromRenew` for it. An unanswered POST is aborted when the object that owns it is destroyed.
- *Build.* The release build; asserts, and the extra query of the debug build in `LockForRenew`, are not there.
- *Data.* Header text, token type, bodies, the client id and secret and log output are left out. A file that lacks
  one of the expected members counts as unreadable, as `Load` treats it. Members that are there are not empty strings,
  in the file and in an answer alike. The test of `AuthorizeRequest` for an empty access token (TokenFile.cpp:172) then
  never fires, as `TokensIffRunning` shows, and is left out.
- *Initial state.* The token file holds pair 1, which is also what the service issued last (in `TFSpec` and
  `Lifetime`: any file).

`Faults` names the failures a run allows: `load` (`Load` fails for the client_secret file or in `Register`, with a good
token file), `init` (the first `open()` or `send()` of a call throws), `lost` (the answer of the POST is lost, or the
endpoint fails), `garbled` (status 200 without all members), `revoke`, `api` (the service answers something else),
`save`, `retry` (the second send throws), `open` and `send` (preparing and sending the POST throws), `crash` (a client
process dies), `dies` (the surrogate dies).

### Bounds

- `Calls`: two or three clients. Three are needed for a renewer, a deferred call and one that comes in during the
  drain; runs with all failures at once use two (a renewer and a deferred call, or two renewers in turn).
- `Generation`: `1 .. |Calls| + 1` in `CallbackoAuth`. A call renews at most once, so no more can be issued, and
  `TypeOK` would report it. In `TFSpec` and `Lifetime` the endpoint answers with arbitrary pairs, and two generations
  tell old from new.
- `MaxExpired`: at most two access tokens expire; the second may expire between renew and retry. One in the runs with
  all failures, where the withdrawn consent rejects the retry instead (`wtl` and the `mfc_` runs likewise).
- `Objects`: three places in memory for the server: one that runs, one that is being loaded, and a free one, and as
  many values of an uninitialised cookie.
- `SLIDER_MAX`: the slider has three positions in `wtl`, six in the program; left end, right end and one in between are
  what the code distinguishes, and `StressFollowsSlider` is proved for all six.
- Calls run once; a process that makes several requests is several calls. `Own` is one call of the dialog beside one of
  another process.
- Symmetry of calls (and objects) is used where no liveness property is checked.

### Fairness

`Spec` assumes weak fairness of `Step(c)` for every call, and of `TokenEndpoint`: handlers run to their end, the
apartment's message loop delivers calls, and requests get some answer (XMLHTTP reports a failure as a status as well).
The MFC sample adds weak fairness of `OnTimer`: the garbage timer is set in `OnInitDialog` and never killed. The WTL
sample adds that of its `OnTimer`, a tick that is enabled as long as the timer is set, and of `WinMainReturns`: nothing
follows `DoModal` but the end of the process. Nothing makes a call start, a token expire, a consent end, a process die,
the surrogate end or the user move the slider or close a dialog.

## 4. What is checked

| run | instance | shows |
|---|---|---|
| `server` | `TFSpec`, 3 clients, 2 generations, `load`, `save`, `dies` | the server's invariants under any client that keeps to the protocol, bad answers, dead clients, restarts and the end of the surrogate included |
| `lifetime` | `Lifetime`, 3 clients, 3 objects, 2 generations, `load`, `save`, `dies` | one object per file, registered exactly while it is held; the file keeps up with it unless its stream fails; all of it implements `TFSpec` |
| `renew` | 3 calls, 2 expiries, no failures | the renew is transparent; one exchange per refresh token; no deferred call is lost; retries use a newer token; served tokens never get older; the clients keep to the protocol; no deadlock |
| `ends` | 2 calls, 2 expiries, `load`, `lost`, `revoke`, `api`, `save`, `retry` | the contract of a call, liveness included: every started call ends with exactly one notification; deferred calls are all called back before the server goes |
| `faulty` | 2 calls, 1 expiry, all failures | what holds even then: one renewer at a time, at most two sends and one notification, states that explain failures, the server's protocol; which calls may stay without an answer; when the server goes |
| `wtl` | WTL dialog with one call, one call of another process, 1 expiry, `revoke`, `init`, `dies` | the timer follows the slider and starts calls; what closing the dialog, or an exception that ends it, does to the other process |
| `mfc` | MFC, 3 calls, 2 expiries, no failures | the renew is transparent; one exchange per refresh token; `SC_CLOSE` closes the dialog only when all is done; the library keeps to the server's protocol |
| `mfc_faulty` | MFC, 2 calls, 1 expiry, all failures but `dies` | what holds even then: which calls may miss `Finish`, on which the timer depends; collected calls are unreachable; at most two sends and one notification; the server's protocol |

Deadlock is checked in all of them but `faulty`, `wtl`, `mfc_faulty` and the runs that look for a violation: with
failures, or with a dialog that is closed on them, calls really can be stuck, as the divergences below say.

The properties:

- `QueueOnlyWhileLocked`, `DrainHoldsLock`, `ActivationsConnected`, `TokensIffRunning` (server): the queue, the lock,
  the activations, the connections and the tokens fit together whatever nests in what.
- `AtMostOneInstance`, `RegisteredWhileHeld`: one object for the file, and the registration lasts as long as somebody
  holds it, although a failed `Load` leaves an object whose cookie was never set.
- `FileKeepsUp`: whenever the server is not locked, a restart loses nothing, unless the stream of the last `Save`
  failed. That exception is the code's: `Save` ignores the state of its stream, and the server is unlocked all the same.
- `SingleRenew`: whoever was told to send the POST is the one the server is locked for.
- `RefreshTokenUnspent`: no POST under way carries a refresh token that was exchanged already.
- `DeferredNotLost`, `QuietTeardown`: a deferred call stays in the queue, once, until it is called back, and the
  server does not go while it is locked or has somebody waiting.
- `TransparentRenew`, `DirectRetryNewer`, `RememberedNotOlder`, `NeverRollsBack`: what the calls and the server
  conclude from comparing tokens is right.
- `FailureExplained`: what the samples' `onFailed` reads from `getState()` is what happened.
- `ContractSpec`, `ContractSafe`: see `ServiceCall`. The MFC library keeps the safe part only: it need not notify.
- `EveryCallEndsUnlessAbandoned`, `OthersEndUnlessClosed`, `EveryCallFinishes`: whatever fails, a call ends, or it is
  one of those the property names: a process that died, a call stranded by the surrogate, a call deferred behind a renew
  that was given up (`RenewAbandoned`: nobody is left to send the POST or to read its answer, and the server stays
  locked). For `wtl` that takes a dialog that was closed; for the MFC library, an exception in `raw_Continue` is one
  more way. The escapes are what the code does today; each is one of the divergences below. So these properties do not
  notice the hazards that the escapes stand for, only whatever else would lose a call.
- `ServerGoes`: when no call is left the server goes too, unless a POST that could not be sent still holds a sink.
- `CollectedIsIdle`, `ClosesWhenDone`: the MFC sample decides by `getState()` and the length of a list when to take a
  call apart and when `SC_CLOSE` may close; server, POST and service must have let go of the call by then.
- `StressFollowsSlider`, `StressStartsCalls`: track bar, member and timer of the WTL sample are three copies of one
  value; they agree unless the thumb is being dragged, and the timer starts calls.

### Where the code departs from what it says

Each of these runs checks one statement of the repository's own comments or documents, and TLC finds the behaviour
that violates it.

| run | statement | what happens |
|---|---|---|
| `stale_check` | a 401 whose token was renewed meanwhile is retried directly (CallbackoAuth.h:486) | `CanRetryImmediately` says there is no newer token, another call's renew ends, `LockForRenew` finds the server unlocked and renews the fresh token |
| `mfc_dispose` | the renewer of a finished call is released (CoAuthServiceCall.cpp:214) | a call that was deferred has a renewer without a POST; `Dispose()` uses the null pointer, the exception leaves `OnTimer` |
| `wtl_close` | a refresh token is used once (README.md:12), and the server must not go while it is locked (TokenFile.h:30) | the dialog is closed while its call renews; nobody reads the answer, the server goes, and the next one sends the spent token. A renewing process that crashes does the same |
| `two_instances` | there is at most one object per file (README.md:31) | two clients find no running object and both activate one; `Register` of the second succeeds too (a success code), and both renew for themselves. Needs COM to activate for both at once |

More of them, which the models contain and the properties above have to allow for:

- `AuthorizeRequest` returns the token as it is after the outgoing call (TokenFile.cpp:198): when a renew ends in
  between, the call remembers a newer token than its header carries, against the comment that it is the token used
  (CallbackoAuth.h:482). What is remembered is never the older one: `RememberedNotOlder`, proved.
- The POST cannot be sent (CallbackoAuth.h:87): `Terminate()` ends the call, but the server stays locked, and calls that
  are deferred behind it wait for ever, against ReadMe.txt:92 (`onSucceeded` or `onFailed` is called).
- An exception of the first `open()` or `send()` leaves `Init` (CallbackoAuth.h:213, 242) without `onFailed`, which
  Clients/WTLApplication/SimulatorService.h:33 lays down for every failure of `Init`. Neither sample catches it; the
  fault `init` is therefore not in the run `ends`, whose contract asks for a notification.
- `Save` looks neither at the state of its stream nor at whether it could be opened (TokenFile.cpp:151-154). The server
  is unlocked with a pair that is not in the file, and the next one loads a spent refresh token, or nothing.
- `OnSysCommand` of the MFC sample keeps the dialog open while calls are in the list (MFCApplicationDlg.cpp:115), Escape
  does not: `CDialog::OnCancel` is not overridden.
- A 200 without the expected members throws out of `UnLockFromRenew` (TokenFile.cpp:283). The lock stays, and what is
  deferred is dropped with the server, without `Continue` or `Terminate`.
- After an answer 400 (consent withdrawn) every further call is to fail and the file is to be deleted, says the comment
  at TokenFile.cpp:295-302. The code only returns the error once (line 307), which terminates the deferred calls; the
  next 401 tries the same refresh token again.
- `raw_Terminate` of the MFC library calls no `onFailed` (CoAuthServiceCall.cpp:249), against the comment at lines 97-98.
- An exception in `raw_Continue` of the MFC library leaves the call in `RetryOnce`; as the timer looks at the head of
  the list only, neither this call nor a later one is collected.

## 5. What is proved

Everything here holds for every set of calls. Assumptions on the constants: generations are positive numbers, so that
`NoToken` is none of them (`GenerationAssumption`), `NULL` is neither a client nor a request (`NullAssumption`,
`LifetimeAssumption`), the slider has at most six positions (`MainDlgAssumption`). A generation must always be left to
issue, so the theorems about calls assume `Generation = Nat \ {0}`; the runs use a finite set that `TypeOK` shows to be
large enough.

| module | theorems | under which faults |
|---|---|---|
| `TokenFileProofs` | `TFSpec` implies `[]TFTypeOK`, `[]QueueOnlyWhileLocked`, `[]DrainHoldsLock`, `[]ActivationsConnected`, `[]TokensIffRunning` | any |
| `LifetimeProofs` | `[]AtMostOneInstance`, `[]RegisteredWhileHeld`, `[]FileKeepsUp`, `[]TypeOK`, `ServerSpec`, if activation is serial | any |
| `CallbackoAuthProofs` | `Spec` implies `ServerSpec` and `[]SingleRenew` | any |
| `CallContractProofs` | `Spec` implies `ContractSafe`, `[]FailureExplained`, `[]RememberedNotOlder`, `[]TypeOK` | any |
| `NothingLostProofs` | `[]RefreshTokenUnspent`, `NeverRollsBack`, `DirectRetryNewer` | all but `lost`, `garbled`, `save`, `init`, `crash`, `dies` |
| | `[]DeferredNotLost`, `QuietTeardown` | all but `garbled`, `open`, `send`, `init`, `crash`, `dies` |
| | `[]TransparentRenew` | none |
| `MainDlgProofs` | `MainDlgSpec` implies `[]StressFollowsSlider`, `[]MainDlgTypeOK`, `ServerSpec`, `ContractSafe`, `[]SingleRenew`, `[]FailureExplained`, `[]RememberedNotOlder` | any |
| `MFCApplicationDlgProofs` | `Spec` implies `ServerSpec`, `ContractSafe`, `ClosesWhenDone`, `[]CollectedIsIdle` | any |
| `MFCTokenProofs` | `[]TypeOK` | any |
| | `[]RefreshTokenUnspent` | all but `lost`, `garbled`, `save` |
| | `[]TransparentRenew` | none |

So every safety property that a passing run checks is a theorem as well.
The faults that are excluded are those that break the property, as the divergences above describe. `init`, `crash` and
`dies` all end a process that others may depend on; the MFC calls live in one process and die together, and the end of
the surrogate is not modelled for them.

**The server.** None of its invariants is inductive alone. An unlock is harmless only if nobody else is unlocking; that
only the holder of the lock unlocks needs the sink of the POST; that the lock outlives the activation needs the object
to outlive it, hence the connection of the caller; and that needs an activation to be in the stack once. `TFInv` is the
conjunction of the five and of `AnswerHasTokens`: an answer with status 200 carries a pair of tokens, without which
taking it over could leave the object with none. The proof has a lemma for each operation of the server, two for
pushing and popping activations and one for binding and releasing; `NextTFInv` puts them together, and each theorem is
a projection of `Invariance`.

**Its lifetime.** `LifetimeInv` says who can have a pointer to what while binding: an object that is not loaded yet is
held by the one client that activates it, nobody activates while an object is registered, and an object is registered
exactly when it is loaded. That makes the garbage in `m_lCookieRegister` harmless: an object with garbage is released
only while nothing is registered. `FileInv` adds that the file holds the object's pair except while it is being
written, after a malformed answer, when the lock stays (`sink = NULL`), or when the stream of the last `Save` failed
(`os`); the next `Save` that succeeds, and the next `Load`, make up for the latter.

**Binding and saving as single steps.** `Lifetime` implements `TokenFile` under the mapping `serverFile`, `serverTokens`,
`serverLock`, `serverConn` and `serverStack`, which is stated in terms of `theObject`, a `CHOOSE`. `Maps` frees the proof
of it: if some object is loaded, it is the only one (`LifetimeInv`), and the server is that object. Each action then has
a lemma that names the operation it maps to: the steps of `::CoGetObject` up to `Load` to none, `Load` together with the
connection to the binding of a client, the truncation of the file to the whole of `UnLockFromRenew`, the write to none.
The last two need `Emptied`: while a good stream is written the file is empty, and the answer that is saved is good; so
a surrogate that dies there maps to the server's end with a lost file, and nothing else does. A stream that fails maps to
the failing save of `TokenFile` when it is opened, with the file as it is from then on.

**Protocol and single renew.** `CallInv` is `TFInv` together with four links between the place of a call and the
server's state:

- who is in the queue is waiting for it (or dead), and is there once: else a callback would pull a call out of some
  other place, or call it twice;
- who is in an activation waits for that method (or is dead): so a call makes no two calls at a time;
- a rejected call still has the pointer of its COMPLETE handler: so `LockForRenew` finds an object;
- who renews has the sink on the POST and a pointer to the server: so nobody else can unlock, and the object outlives it.

Each needs the server's part: that the drainer is the renewer comes from `DrainHoldsLock`, that nobody else loses an
activation from `ActivationsConnected`. Each action has a lemma that it is a step of `TFSpec` and keeps the links.

**Contract and explanation.** `StageInv` says for each place what was sent so far, in which state the call is, and that
it is not notified before it is done; `CallInv` is needed for the one step that moves somebody else's call, the
callback out of the queue. `FailInv` adds the status of the latest answer, place by place: a call that waits for a renew
has seen a 401, and it is the first.

**Remembered tokens.** While a call is in `AuthorizeRequest` its header is no newer than the server's member, and that
grows as long as somebody holds the object (`Grows`), which the call does. `Tokens` bounds what server, file and answer
hold by what was issued, and says that an answer never carries an older token than the member it replaces.

**Nothing lost.** `UnspentInv`: file and members hold the latest pair, except between the answer to a POST and
`UnLockFromRenew`; then the answer holds it and somebody is there to read it. `OrderInv`: a locked server has somebody
who is about to unlock it, and who holds a pointer for as long (`RenewLink`), so the server is not locked when the last
pointer goes; and who is deferred is in the queue, which is empty when the lock goes.

**Direct retries.** That `CanRetryImmediately` found another token than the one a call remembers says that it is newer
only if no call remembers a token from the future. `RecallInv` says so: none is newer than what a call would get now
(`Served`: the member while the server runs, else the file). With `NeverRollsBack`, which keeps it from going back, it
is inductive; a call that waits for an answer to its first request remembers some token.

**A renew that nobody notices.** `SmoothInv` follows what is newer than the first token, the only one that has expired.
Every POST is granted, because its refresh token is unspent (`UnspentInv`) and the consent is there; so who unlocks
the server has a second generation to offer (`GrantedInv`). Who retries was called back by such an unlock, or found a
newer token (`RecallInv`); so its second request carries a token past the first (`Untroubled`) and is accepted. When a
second token has expired this breaks down, at the retry that is under way, so `expired <= 1` is a premise of the
property; expiry only grows, so the invariant may assume it.

**The WTL dialog.** A step of `MainDlg` is one of `CallbackoAuth`, a step the calls do not notice, or `WinMainReturns`,
which leaves any number of calls dead at once. `CallsInv` collects the invariants of the calls; each of its links allows
for dead calls, so `WinMainReturns` keeps it although it is a step of no module below.

**The MFC library and its dialog.** `MFCInv` is a `CallInv` of its own, the stages of its calls, and `DialogInv` about
the list. The links differ from those of the ATL calls where the library does: the sink stays on the POST until
`Dispose()`, so being the sink no longer says who renews. The list holds every call that was started, unless it is in
its first `open()`, was collected, or is gone with the process (`Unlisted`); `GoesOn` says of all other steps that they
do not lead a call out of the list's care. So a list that is empty while no handler is active means that all is done:
`ClosesWhenDone`, which is about `SC_CLOSE`. A call is collected only when it has finished and nobody is in a method of
the server (`Idle`); then it is neither in the queue nor in an activation, and `Dispose()` takes its sink off
(`IdleInv`).

For the tokens of the MFC calls the argument is that of the ATL calls with one more case. `Dispose()` may throw in
`OnTimer` although nothing failed (`mfc_dispose`), and takes the process with it, as Escape, an exception out of `Init`
and a crash do. Then no call is left to send or to read
anything, nobody starts one, and the POST it may have left behind is the last: `LiveInv` holds of a living
process, and `UnspentInv` adds what remains of one that is gone (`Gone`). So `RefreshTokenUnspent` holds where a dead
ATL client would break it, and `TransparentRenew` speaks of the calls that finish.

Only model-checked: liveness (`ContractSpec`, `EveryCallEndsUnlessAbandoned`, `ServerGoes`, `OthersEndUnlessClosed`,
`StressStartsCalls`, `EveryCallFinishes`), which is outside what TLAPS proves; and the four counterexamples.

## 6. What is not modelled

- The slider and the stress timer of the MFC sample. Its handler is not that of the WTL sample (for the page and end
  scroll codes it does not set the timer again, MFCApplicationDlg.cpp:219-246), so `StressFollowsSlider` says nothing
  of it; what they decide is when a call is started, which in `MFCApplicationDlg` may be at any time.
- How the name of the token file is composed and expanded; `FinalizeRequest` (returns `E_NOTIMPL`).
- The debug build: asserts, and the query in `LockForRenew` (TokenFile.cpp:263) during which a renew may end before the
  client is queued.
- The string in `m_bstrAccessToken` that is overwritten without being freed (CallbackoAuth.h:330): memory management is
  abstracted, and so are reference counts of the client objects and their sinks; a call that is `done` has taken its
  sink off its request.
- The task scheduler of the WTL sample, which is compiled with `FEATURE_TASKSCHD` only; nothing defines it.
- Tracing (oAuthEvents.h is generated and has no effect on the state), registration of the DLL, the installer.

## 7. Plan

1. Server, ATL clients, contract; server invariants, protocol and contract proved. *Done.*
2. MFC client library on the same server, with its own error handling, and the sample dialog that collects and
   closes. *Done.*
3. Lifetime: running object table, activation, `Load` and `Save` in steps, crash of the surrogate; whether two objects
   for one file, or a lost file, can come about. *Done.*
4. The WTL sample, whose dialog closes under its calls. *Done.*
5. Proofs about the composition: explanation of failures, remembered tokens, spent tokens, deferred calls, direct
   retries, the transparent renew. *Done.*
6. Proofs about the other modules: `Lifetime` implements `TokenFile`; the MFC library keeps protocol and contract, its
   dialog closes and collects safely; the WTL dialog, closed at any time, breaks neither. *Done.*
7. Left: spent tokens and deferred calls beside the WTL dialog under the premise that it is not closed on its calls;
   `DeferredNotLost` and `QuietTeardown` for the MFC library.
