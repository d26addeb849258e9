------------------------------- MODULE Lifetime -------------------------------
(***************************************************************************)
(* How CTokenFile objects come and go.  Module TokenFile takes it for      *)
(* granted that there is one object per file, that binding to it is one    *)
(* step, and that it saves in one step.  Here clients bind in the steps    *)
(* COM takes, every object keeps its registration in the running object    *)
(* table (ROT) itself, Save truncates the file before it writes, its       *)
(* stream may fail at either, and the surrogate may die at any point of    *)
(* it.  Deferred clients are left out: a call back takes place after Save, *)
(* and changes nothing that is here.                                       *)
(***************************************************************************)
EXTENDS Naturals, Sequences, FiniteSets

CONSTANTS Calls,             \* the client calls that bind to the file
          Objects,           \* the places in memory where a CTokenFile may be
          Generation,
          Faults,
          SerialActivation,  \* COM lets one client at a time activate an object
          NULL

VARIABLES file,               \* the pair in the .TokenResponse-user file
          binding,            \* where a call is in ::CoGetObject
          rot,                \* objects registered under the moniker of the file
          conns,              \* strong external connections <<call, role, object>>
          exists,             \* "free", "created", or "loaded" from the file
          m_lCookieRegister,  \* the object whose registration a cookie stands for
          m_strTokens,        \* the pair of m_strAccessToken and m_strRefreshToken
          m_spLockForRenew,
          unlocking,          \* the UnLockFromRenew that runs, NULL if none does
          os                  \* the stream of the last Save since the Load

objectVars == <<exists, m_lCookieRegister, m_strTokens, m_spLockForRenew>>
vars == <<file, binding, rot, conns, objectVars, unlocking, os>>

Roles == {"complete", "renewer"}
NoTokens == [access |-> 0, refresh |-> 0]
TokenPair == [access : Generation, refresh : Generation]
Request == [body : Generation, status : {"open", "sent", "200", "400", "other"},
            pair : TokenPair \cup {NoTokens}, parsed : 0..3, sink : Calls \cup {NULL}]

\* saving: between opening the stream, which truncates the file, and closing it.
Unlocking == [object : Objects, phase : {"saving", "saved"}]

ASSUME LifetimeAssumption ==
  /\ Generation \subseteq Nat \ {0}
  /\ NULL \notin Calls \cup Objects \cup Request \cup Unlocking

TypeOK ==
  /\ file \in TokenPair \cup {NoTokens}
  /\ binding \in [Calls -> {"unbound", "activating", "loading", "bound"}]
  /\ rot \subseteq Objects
  /\ conns \subseteq Calls \X Roles \X Objects
  /\ exists \in [Objects -> {"free", "created", "loaded"}]
  /\ m_lCookieRegister \in [Objects -> Objects \cup {NULL}]
  /\ m_strTokens \in [Objects -> TokenPair \cup {NoTokens}]
  /\ m_spLockForRenew \in [Objects -> Request \cup {NULL}]
  /\ unlocking \in Unlocking \cup {NULL}
  /\ os \in {"good", "failed"}

Init ==
  /\ file \in TokenPair \cup {NoTokens}
  /\ binding = [c \in Calls |-> "unbound"]
  /\ rot = {}
  /\ conns = {}
  /\ exists = [o \in Objects |-> "free"]
  /\ m_lCookieRegister = [o \in Objects |-> NULL]
  /\ m_strTokens = [o \in Objects |-> NoTokens]
  /\ m_spLockForRenew = [o \in Objects |-> NULL]
  /\ unlocking = NULL
  /\ os = "good"

Connected(o, connections) == \E c \in Calls, role \in Roles : <<c, role, o>> \in connections

\* The apartment is single threaded, and Save calls nobody.
Idle == unlocking = NULL

Goto(c, place) == binding' = [binding EXCEPT ![c] = place]

-----------------------------------------------------------------------------
(* Binding: ::CoGetObject on the file moniker *)

\* The ROT knows a running object: the client gets a pointer to it.
FindRunning(c) ==
  /\ Idle
  /\ binding[c] = "unbound"
  /\ \E o \in rot : conns' = conns \cup {<<c, "complete", o>>}
  /\ Goto(c, "bound")
  /\ UNCHANGED <<file, rot, objectVars, unlocking, os>>

\* It does not, hence the client activates one.
FindNone(c) ==
  /\ binding[c] = "unbound"
  /\ rot = {}
  /\ SerialActivation => \A d \in Calls : binding[d] \notin {"activating", "loading"}
  /\ Goto(c, "activating")
  /\ UNCHANGED <<file, rot, conns, objectVars, unlocking, os>>

\* The class factory makes an object in the surrogate.  Nobody initialises
\* m_lCookieRegister: it is any value, that of a live registration included.
CreateInstance(c) ==
  /\ Idle
  /\ binding[c] = "activating"
  /\ \E o \in Objects, garbage \in Objects \cup {NULL} :
       /\ exists[o] = "free"
       /\ exists' = [exists EXCEPT ![o] = "created"]
       /\ m_lCookieRegister' = [m_lCookieRegister EXCEPT ![o] = garbage]
       /\ conns' = conns \cup {<<c, "complete", o>>}
  /\ Goto(c, "loading")
  /\ UNCHANGED <<file, rot, m_strTokens, m_spLockForRenew, unlocking, os>>

\* Mutant of Load: an empty file is taken for a token file.
LoadUnchecked(c, o) ==
  /\ Idle
  /\ binding[c] = "loading"
  /\ <<c, "complete", o>> \in conns
  /\ exists' = [exists EXCEPT ![o] = "loaded"]
  /\ m_strTokens' = [m_strTokens EXCEPT ![o] = file]
  /\ rot' = rot \cup {o}
  /\ m_lCookieRegister' = [m_lCookieRegister EXCEPT ![o] = o]
  /\ os' = "good"
  /\ Goto(c, "bound")
  /\ UNCHANGED <<file, conns, m_spLockForRenew, unlocking>>

\* IPersistFile::Load reads both tokens and registers the object.  That
\* another one is registered already is a success code, too.
Load(c, o) ==
  /\ Idle
  /\ binding[c] = "loading"
  /\ <<c, "complete", o>> \in conns
  /\ file # NoTokens
  /\ exists' = [exists EXCEPT ![o] = "loaded"]
  /\ m_strTokens' = [m_strTokens EXCEPT ![o] = file]
  /\ rot' = rot \cup {o}
  /\ m_lCookieRegister' = [m_lCookieRegister EXCEPT ![o] = o]
  /\ os' = "good"
  /\ Goto(c, "bound")
  /\ UNCHANGED <<file, conns, m_spLockForRenew, unlocking>>

-----------------------------------------------------------------------------
(* Releasing *)

\* Mutants of OnReleaseConnection: every release revokes, not the last one
\* only; none revokes.
RevokeAlways(o) ==
  /\ rot' = rot \ {m_lCookieRegister[o]}
  /\ m_lCookieRegister' = [m_lCookieRegister EXCEPT ![o] = NULL]

RevokeNever(o) == UNCHANGED <<rot, m_lCookieRegister>>

\* The last release revokes whatever the cookie stands for.
OnReleaseConnection(o) ==
  IF Connected(o, conns')
    THEN UNCHANGED <<rot, m_lCookieRegister>>
    ELSE /\ rot' = rot \ {m_lCookieRegister[o]}
         /\ m_lCookieRegister' = [m_lCookieRegister EXCEPT ![o] = NULL]

\* An object that is neither connected nor registered goes with all it holds.
Destroyed(o) == ~Connected(o, conns') /\ o \notin rot'

ReleaseConnection(c, role, o) ==
  /\ conns' = conns \ {<<c, role, o>>}
  /\ OnReleaseConnection(o)
  /\ IF Destroyed(o)
       THEN /\ exists' = [exists EXCEPT ![o] = "free"]
            /\ m_strTokens' = [m_strTokens EXCEPT ![o] = NoTokens]
            /\ m_spLockForRenew' = [m_spLockForRenew EXCEPT ![o] = NULL]
       ELSE UNCHANGED <<exists, m_strTokens, m_spLockForRenew>>
  /\ UNCHANGED <<file, unlocking, os>>

\* IPersistFile::Load fails, for want of tokens, for the client_secret file or
\* in Register, and the client drops what it had activated.
LoadFails(c, o) ==
  /\ Idle
  /\ binding[c] = "loading"
  /\ <<c, "complete", o>> \in conns
  /\ file = NoTokens \/ "load" \in Faults
  /\ ReleaseConnection(c, "complete", o)
  /\ Goto(c, "unbound")

\* A client drops a pointer, or COM does it for a client that is gone.
Release(c, role, o) ==
  /\ Idle
  /\ <<c, role, o>> \in conns
  /\ ReleaseConnection(c, role, o)
  /\ IF role = "complete" THEN Goto(c, "unbound") ELSE UNCHANGED binding

GiveUp(c) ==
  /\ binding[c] = "activating"
  /\ Goto(c, "unbound")
  /\ UNCHANGED <<file, rot, conns, objectVars, unlocking, os>>

-----------------------------------------------------------------------------
(* The renew, as far as it changes tokens, file and connections *)

LockForRenew(c, o) ==
  /\ Idle
  /\ binding[c] = "bound"
  /\ <<c, "complete", o>> \in conns
  /\ m_spLockForRenew[o] = NULL
  /\ m_spLockForRenew' = [m_spLockForRenew EXCEPT ![o] =
       [body |-> m_strTokens[o].refresh, status |-> "open",
        pair |-> NoTokens, parsed |-> 3, sink |-> c]]
  /\ conns' = conns \cup {<<c, "renewer", o>>}
  /\ UNCHANGED <<file, binding, rot, exists, m_lCookieRegister, m_strTokens, unlocking, os>>

SendRenew(o) ==
  /\ Idle
  /\ m_spLockForRenew[o] # NULL
  /\ m_spLockForRenew[o].sink # NULL
  /\ m_spLockForRenew[o].status = "open"
  /\ m_spLockForRenew' = [m_spLockForRenew EXCEPT ![o].status = "sent"]
  /\ UNCHANGED <<file, binding, rot, conns, exists, m_lCookieRegister, m_strTokens, unlocking, os>>

RenewAnswered(o, status, pair, parsed) ==
  /\ m_spLockForRenew' = [m_spLockForRenew EXCEPT ![o] =
       [@ EXCEPT !.status = status, !.pair = pair, !.parsed = parsed]]
  /\ UNCHANGED <<file, binding, rot, conns, exists, m_lCookieRegister, m_strTokens, unlocking, os>>

RenewAnswer(o) ==
  /\ m_spLockForRenew[o] # NULL
  /\ m_spLockForRenew[o].status = "sent"
  /\ \/ \E pair \in TokenPair, parsed \in 0..3 : RenewAnswered(o, "200", pair, parsed)
     \/ \E status \in {"400", "other"} : RenewAnswered(o, status, NoTokens, 3)

\* The members are assigned while the answer is read.
Tokens(o) ==
  LET xhr == m_spLockForRenew[o] IN
    IF xhr.status # "200" THEN m_strTokens[o]
    ELSE [access  |-> IF xhr.parsed >= 1 THEN xhr.pair.access ELSE m_strTokens[o].access,
          refresh |-> IF xhr.parsed >= 2 THEN xhr.pair.refresh ELSE m_strTokens[o].refresh]

\* Save opens its stream.  That empties the file, unless it cannot be opened;
\* and what is written to it afterwards may get lost, then the file stays empty.
OpenStream ==
  \/ os' = "good" /\ file' = NoTokens
  \/ "save" \in Faults /\ os' = "failed" /\ file' \in {file, NoTokens}

\* A json_exception leaves the method: no Save, the lock stays, and the client
\* takes its sink off the POST.
UnLockFromRenew(c, o) ==
  /\ Idle
  /\ m_spLockForRenew[o] # NULL
  /\ m_spLockForRenew[o].sink = c
  /\ m_spLockForRenew[o].status \in {"200", "400", "other"}
  /\ <<c, "renewer", o>> \in conns
  /\ m_strTokens' = [m_strTokens EXCEPT ![o] = Tokens(o)]
  /\ IF m_spLockForRenew[o].status = "200" /\ m_spLockForRenew[o].parsed < 3
       THEN /\ m_spLockForRenew' = [m_spLockForRenew EXCEPT ![o].sink = NULL]
            /\ UNCHANGED <<file, unlocking, os>>
       ELSE /\ IF m_spLockForRenew[o].status = "200"
                 THEN /\ OpenStream
                      /\ unlocking' = [object |-> o, phase |-> "saving"]
                 ELSE /\ unlocking' = [object |-> o, phase |-> "saved"]
                      /\ UNCHANGED <<file, os>>
            /\ UNCHANGED m_spLockForRenew
  /\ UNCHANGED <<binding, rot, conns, exists, m_lCookieRegister>>

\* Mutant of Write: the stream is opened, but nothing reaches the file.
WriteNothing ==
  /\ unlocking # NULL
  /\ unlocking.phase = "saving"
  /\ unlocking' = [unlocking EXCEPT !.phase = "saved"]
  /\ UNCHANGED <<file, binding, rot, conns, objectVars, os>>

\* The stream is written and closed.  Save does not look at its state, and
\* UnLockFromRenew goes on as if the pair were in the file.
Write ==
  /\ unlocking # NULL
  /\ unlocking.phase = "saving"
  /\ file' = IF os = "good" THEN m_strTokens[unlocking.object] ELSE file
  /\ unlocking' = [unlocking EXCEPT !.phase = "saved"]
  /\ UNCHANGED <<binding, rot, conns, objectVars, os>>

UnLockReturn ==
  /\ unlocking # NULL
  /\ unlocking.phase = "saved"
  /\ m_spLockForRenew' = [m_spLockForRenew EXCEPT ![unlocking.object] = NULL]
  /\ unlocking' = NULL
  /\ UNCHANGED <<file, binding, rot, conns, exists, m_lCookieRegister, m_strTokens, os>>

-----------------------------------------------------------------------------
\* The surrogate ends, by whatever cause: objects, registrations and
\* connections are gone, the file is what it is.
SurrogateDies ==
  /\ "dies" \in Faults
  /\ \E o \in Objects : exists[o] # "free"
  /\ binding' = [c \in Calls |-> "unbound"]
  /\ rot' = {}
  /\ conns' = {}
  /\ exists' = [o \in Objects |-> "free"]
  /\ m_lCookieRegister' = [o \in Objects |-> NULL]
  /\ m_strTokens' = [o \in Objects |-> NoTokens]
  /\ m_spLockForRenew' = [o \in Objects |-> NULL]
  /\ unlocking' = NULL
  /\ os' = "good"
  /\ UNCHANGED file

Next ==
  \/ \E c \in Calls :
       \/ FindRunning(c) \/ FindNone(c) \/ CreateInstance(c) \/ GiveUp(c)
       \/ \E o \in Objects :
            \/ Load(c, o) \/ LoadFails(c, o)
            \/ LockForRenew(c, o) \/ UnLockFromRenew(c, o)
            \/ \E role \in Roles : Release(c, role, o)
  \/ \E o \in Objects : SendRenew(o) \/ RenewAnswer(o)
  \/ Write
  \/ UnLockReturn
  \/ SurrogateDies

Spec == Init /\ [][Next]_vars

-----------------------------------------------------------------------------
(* Properties *)

Loaded == {o \in Objects : exists[o] = "loaded"}

\* There is one object that controls the file (the comment at the top of
\* TokenFile.h): two would renew with the same refresh token.
AtMostOneInstance == \A o, p \in Loaded : o = p

\* The registration lasts as long as somebody holds the object and no longer:
\* whoever binds later shares it, and it does not outlive its clients.
RegisteredWhileHeld == \A o \in Objects : o \in rot <=> (o \in Loaded /\ Connected(o, conns))

\* A server that is not locked can be restarted and loses nothing: the file
\* holds the very pair the object holds, whatever renews failed, were answered
\* in part or died before.  The exception is a stream that failed in the last
\* Save, which neither Save nor UnLockFromRenew notices.
FileKeepsUp ==
  \A o \in Loaded : m_spLockForRenew[o] = NULL => file = m_strTokens[o] \/ os = "failed"

\* Binding, saving and the end of the surrogate, taken in these steps, are
\* what module TokenFile takes for single steps.
theObject == CHOOSE o \in Objects : o \in Loaded

serverFile == IF unlocking # NULL /\ unlocking.phase = "saving" /\ os = "good"
                THEN m_strTokens[unlocking.object] ELSE file
serverTokens == IF Loaded = {} THEN NoTokens ELSE m_strTokens[theObject]
serverLock == IF Loaded = {} THEN NULL ELSE m_spLockForRenew[theObject]
serverConn == {<<conn[1], conn[2]>> : conn \in {d \in conns : d[3] \in Loaded}}
serverStack ==
  IF unlocking = NULL THEN << >>
  ELSE << [method |-> "UnLockFromRenew", callee |-> NULL,
           caller |-> m_spLockForRenew[unlocking.object].sink,
           succeeded |-> m_spLockForRenew[unlocking.object].status = "200"] >>

Server == INSTANCE TokenFile WITH
  tokenFile <- serverFile,
  m_strAccessToken <- serverTokens.access,
  m_strRefreshToken <- serverTokens.refresh,
  m_spLockForRenew <- serverLock,
  m_lstRetryRequest <- << >>,
  extConn <- serverConn,
  stack <- serverStack

ServerSpec == Server!TFSpec

=============================================================================
